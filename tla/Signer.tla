------------------------------- MODULE Signer --------------------------------
(***************************************************************************)
(* Signer and Verifier (sign.rs), and the thread's error queue.  OpenSSL   *)
(* is external: EVP_DigestSignFinal and EVP_DigestVerifyFinal work on a    *)
(* copy of the context, the signature may be shorter than the size that    *)
(* was announced for it, and a failing call leaves errors in the queue,    *)
(* as does a signature that does not verify, or may.                       *)
(***************************************************************************)
EXTENDS Integers, Sequences

CONSTANTS
  Signers,    \* signers with a key
  Verifiers,  \* verifiers with the matching key
  Pieces,     \* pieces of data
  MaxPieces,  \* bound: pieces in a context
  MaxSize     \* bound: sizes that are announced for a signature

ASSUME SignerAssumption == Pieces # {}

VARIABLES
  made,   \* the objects that exist
  sctx,   \* what the EVP_MD_CTX of each has digested
  slast,  \* what the signature it returned last, or verified, was computed over
  sig,    \* the signature returned last: over what, real size, size of the vector
  answer, \* what Verifier::finish returned last
  squeue  \* whether the thread's error queue holds an error

signerVars == <<made, sctx, slast, sig, answer, squeue>>

Objects == Signers \union Verifiers
Unsigned == <<"no result">>
NoSig == [of |-> Unsigned, size |-> 0, len |-> 0]

SignerInit ==
  /\ made = {} /\ squeue = FALSE /\ sig = NoSig /\ answer = "none"
  /\ sctx = [o \in Objects |-> <<>>]
  /\ slast = [o \in Objects |-> Unsigned]

\* cvt: a call of OpenSSL fails, and ErrorStack::get empties the queue.
SignerFails(o) ==
  /\ squeue' = FALSE
  /\ slast' = [slast EXCEPT ![o] = Unsigned]

\* A context is made and initialised with the key.  If that fails it is freed.
SignerNew(o) ==
  /\ o \notin made
  /\ \/ made' = made \union {o} /\ UNCHANGED <<slast, squeue>>
     \/ SignerFails(o) /\ UNCHANGED made
  /\ UNCHANGED <<sctx, sig, answer>>

SignerDrop(o) ==
  /\ o \in made
  /\ made' = made \ {o}
  /\ sctx' = [sctx EXCEPT ![o] = <<>>]
  /\ slast' = [slast EXCEPT ![o] = Unsigned]
  /\ UNCHANGED <<sig, answer, squeue>>

\* update and write of both.
SignerUpdate(o, c) ==
  /\ o \in made /\ Len(sctx[o]) < MaxPieces
  /\ \/ sctx' = [sctx EXCEPT ![o] = Append(@, c)]
        /\ slast' = [slast EXCEPT ![o] = Unsigned] /\ UNCHANGED squeue
     \/ sctx' \in {sctx, [sctx EXCEPT ![o] = Append(@, c)]} /\ SignerFails(o)
  /\ UNCHANGED <<made, sig, answer>>

\* Mutant of Truncated: the vector keeps the announced size.
TruncatedNot(announced, size) == announced

\* The vector is cut down to the real size.
Truncated(announced, size) == size

\* Mutant of finish: it starts over, as a Hasher does.
SignerFinish_reset(o) ==
  /\ o \in Signers \intersect made
  /\ sig' = [of |-> sctx[o], size |-> 1, len |-> 1]
  /\ slast' = [slast EXCEPT ![o] = sctx[o]]
  /\ sctx' = [sctx EXCEPT ![o] = <<>>]
  /\ UNCHANGED <<made, answer, squeue>>

\* Signer::finish asks for the size, allocates, signs and truncates.
SignerFinish(o) ==
  /\ o \in Signers \intersect made
  /\ \/ \E announced \in 1..MaxSize : \E size \in 1..announced :
          /\ sig' = [of |-> sctx[o], size |-> size, len |-> Truncated(announced, size)]
          /\ slast' = [slast EXCEPT ![o] = sctx[o]]
          /\ UNCHANGED squeue
     \/ SignerFails(o) /\ UNCHANGED sig
  /\ UNCHANGED <<made, sctx, answer>>

\* EVP_DigestVerifyFinal: a vector that is too long is no signature.
Verifies(o) == sig.of = sctx[o] /\ sig.len = sig.size

\* Mutant of Discard: the errors of a wrong signature are left.
DiscardNot == squeue' \in {squeue, TRUE}

\* finish discards what a wrong signature left in the queue.
Discard == squeue' = FALSE

\* Verifier::finish with the signature at hand.
VerifierFinish(o) ==
  /\ o \in Verifiers \intersect made
  /\ \/ /\ Verifies(o)
        /\ answer' = "true" /\ slast' = [slast EXCEPT ![o] = sig.of]
        /\ UNCHANGED squeue
     \/ /\ ~Verifies(o)
        /\ answer' = "false" /\ slast' = [slast EXCEPT ![o] = Unsigned]
        /\ Discard
     \/ answer' = "error" /\ SignerFails(o)
  /\ UNCHANGED <<made, sctx, sig>>

SignerNext ==
  \E o \in Objects :
    \/ SignerNew(o) \/ SignerDrop(o) \/ SignerFinish(o) \/ VerifierFinish(o)
    \/ \E c \in Pieces : SignerUpdate(o, c)

SignerSpec == SignerInit /\ [][SignerNext]_signerVars

-----------------------------------------------------------------------------
SignerAbs == INSTANCE Digest WITH
  Chunks <- Pieces, Resets <- FALSE, written <- sctx, result <- slast

\* finish, which takes &self, signs or verifies all that was written to the object
\* and leaves it as it was: it can be called again and data can be added after it.
SignsWhatWasWritten == SignerAbs!Spec

\* A step that calls Verifier::finish.
VerifiesRight ==
  \A o \in Verifiers :
    VerifierFinish(o) /\ answer' # "error" => (answer' = "true" <=> sig.of = sctx[o])

\* Verifier::finish says true of a signature that Signer::finish returned exactly
\* when both were given the same data, although the real size of the signature
\* differs from the announced one; finish signs all that was written, however often
\* it is called, and the errors of a wrong signature are not left in the queue.
SignatureRoundTrip ==
  /\ SignsWhatWasWritten
  /\ [](~squeue)
  /\ [][VerifiesRight]_signerVars
=============================================================================
