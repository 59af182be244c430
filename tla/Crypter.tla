------------------------------- MODULE Crypter -------------------------------
(***************************************************************************)
(* Crypter (symm.rs): a program gives it a message in pieces.  What        *)
(* matters of the data is how much there is: the output is a slice of a    *)
(* known length into which OpenSSL writes without looking at the length.   *)
(*                                                                         *)
(* OpenSSL is external: a cipher context keeps the bytes of an unfinished  *)
(* block, and when it decrypts with padding it holds the last whole block  *)
(* back, since that may be padding.  Finalizing leaves both as they are.   *)
(***************************************************************************)
EXTENDS Integers

CONSTANTS
  BlockSizes,  \* Cipher::block_size of the ciphers; 1 for a stream cipher
  MaxData,     \* bound: bytes in a call
  MaxOut       \* bound: length of an output slice

ASSUME CrypterAssumption ==
  BlockSizes \subseteq Nat \ {0} /\ MaxData \in Nat /\ MaxOut \in Nat

VARIABLES
  crypter,   \* mode, block size and padding; bytes buffered, and whether a block is held
  call       \* the last call: length of its slice, bytes OpenSSL wrote into it

crypterVars == <<crypter, call>>

Modes == {"Encrypt", "Decrypt"}

\* Crypter::new; padding is on until pad turns it off.  given and switches record, for
\* comparison, that there was data and how often padding was changed since, up to twice.
New(mode, block) ==
  [mode |-> mode, block |-> block, padding |-> TRUE, buf |-> 0, held |-> FALSE,
   given |-> FALSE, switches |-> 0]

NoSlice == [len |-> 0, wrote |-> 0]

CrypterInit ==
  /\ \E mode \in Modes, block \in BlockSizes : crypter = New(mode, block)
  /\ call = NoSlice

-----------------------------------------------------------------------------
(***************************************************************************)
(* EVP_CipherUpdate and EVP_CipherFinal: the context after the call, the   *)
(* length it reports, and the number of bytes it wrote into the slice      *)
(***************************************************************************)

\* EVP_EncryptUpdate: whole blocks go out.
EncryptUpdate(c, n) ==
  LET whole == ((c.buf + n) \div c.block) * c.block
  IN  [ctx |-> [c EXCEPT !.buf = (@ + n) % c.block], outl |-> whole, wrote |-> whole]

\* EVP_DecryptUpdate: the block that was held goes out first; if the input ends at
\* a block, the last one, already written, is taken back and held.
DecryptUpdate(c, n) ==
  LET e == EncryptUpdate(c, n)
      hold == e.ctx.buf = 0
      first == IF c.held THEN c.block ELSE 0
  IN  CASE n = 0 -> [ctx |-> c, outl |-> 0, wrote |-> 0]
        [] n > 0 /\ (~c.padding \/ c.block = 1) -> e
        [] OTHER -> [ctx |-> [e.ctx EXCEPT !.held = hold],
                     outl |-> first + e.outl - (IF hold THEN c.block ELSE 0),
                     wrote |-> first + e.wrote]

CipherUpdate(c, n) == IF c.mode = "Encrypt" THEN EncryptUpdate(c, n) ELSE DecryptUpdate(c, n)

\* What EVP_CipherFinal may write: a block that is filled up with padding, or what is
\* left of the block that was held once its padding is taken off.
FinalWrites(c) ==
  IF c.block = 1 \/ ~c.padding THEN {0}
  ELSE IF c.mode = "Encrypt" THEN {c.block}
  ELSE IF c.buf = 0 /\ c.held THEN 0..(c.block - 1) ELSE {0}

-----------------------------------------------------------------------------
(***************************************************************************)
(* The methods of Crypter                                                  *)
(***************************************************************************)

\* Mutant of UpdateFits: the output need only hold the input.
UpdateFitsInput(c, n, len) == len >= n

UpdateFits(c, n, len) == len >= n + c.block

FinalFits(c, len) == len >= c.block

Panics(len) == call' = [len |-> len, wrote |-> 0] /\ UNCHANGED crypter

pad(padding) ==
  LET again == crypter.given /\ crypter.padding # padding /\ crypter.switches < 2
  IN  /\ crypter' = [crypter EXCEPT !.padding = padding, !.switches = @ + (IF again THEN 1 ELSE 0)]
      /\ call' = NoSlice

\* OpenSSL may fail at any block, and then forgets that it wrote the ones before.
update(n, len) ==
  \/ ~UpdateFits(crypter, n, len) /\ Panics(len)
  \/ /\ UpdateFits(crypter, n, len)
     /\ LET r == CipherUpdate(crypter, n)
        IN  \/ /\ crypter' = [r.ctx EXCEPT !.given = @ \/ n > 0]
               /\ call' = [len |-> len, wrote |-> r.wrote]
            \/ /\ crypter' = [crypter EXCEPT !.given = @ \/ n > 0]
               /\ \E w \in 0..r.wrote : call' = [len |-> len, wrote |-> w]

\* Whether it is refused, for padding that is wrong or a block that is not whole, shows
\* in the result only.
finalize(len) ==
  \/ ~FinalFits(crypter, len) /\ Panics(len)
  \/ /\ FinalFits(crypter, len)
     /\ \E w \in FinalWrites(crypter) : call' = [len |-> len, wrote |-> w]
     /\ UNCHANGED crypter

\* The crypter is dropped and another one made.
Again ==
  /\ \E mode \in Modes, block \in BlockSizes : crypter' = New(mode, block)
  /\ call' = NoSlice

CrypterNext ==
  \/ Again
  \/ \E padding \in BOOLEAN : pad(padding)
  \/ \E len \in 0..MaxOut : finalize(len) \/ \E n \in 0..MaxData : update(n, len)

CrypterSpec == CrypterInit /\ [][CrypterNext]_crypterVars

-----------------------------------------------------------------------------
(***************************************************************************)
(* cipher: one crypter, one update and one finalize over the same vector   *)
(***************************************************************************)

\* Mutant of OutLen: a vector as long as the message.
OutLenExact(c, n) == n

\* The vector that cipher, encrypt_aead and decrypt_aead allocate.
OutLen(c, n) == n + c.block

\* update with the whole vector, finalize with what follows the bytes update counted,
\* and truncate: every assertion holds and every write is in bounds.
cipher(c, n) ==
  LET u == CipherUpdate(c, n)
      rest == OutLen(c, n) - u.outl
  IN  /\ UpdateFits(c, n, OutLen(c, n)) /\ u.wrote <= OutLen(c, n)
      /\ FinalFits(u.ctx, rest)
      /\ \A w \in FinalWrites(u.ctx) : w <= rest

-----------------------------------------------------------------------------
\* What OpenSSL writes stays within the slice the caller gave, however a message is
\* cut up, whichever calls fail, and with padding chosen before or once during the
\* message: the assertions of update and finalize are enough.  Not so in a decryption
\* in which padding was turned off and on again, where a block is still held while
\* another is unfinished.  Nor do encrypt and decrypt overrun the vector they allocate
\* or fail an assertion.
NoOverrun ==
  /\ crypter.mode = "Encrypt" \/ crypter.switches < 2 => call.wrote <= call.len
  /\ cipher(New(crypter.mode, crypter.block), call.len)
=============================================================================
