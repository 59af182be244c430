---------------------------- MODULE CryptoProofs ----------------------------
(***************************************************************************)
(* Theorems about the parts of rust-openssl that count, digest and encrypt: *)
(* its locks for OpenSSL 1.0 (CryptoLocks), the ciphers (Crypter), hashing *)
(* and signing (Hasher, Signer), and the generator of certificates         *)
(* (CertExtensions).                                                       *)
(***************************************************************************)
EXTENDS CryptoLocks, Crypter, Hasher, Signer, CertExtensions, FiniteSetTheorems, TLAPS

-----------------------------------------------------------------------------
(***************************************************************************)
(* CryptoLocks, for any set of threads: locking_function keeps its guards  *)
(* apart, and with them the count of a shared object is changed as if      *)
(* cloning and dropping a handle were one step each.                       *)
(***************************************************************************)

(***************************************************************************)
(* The lock                                                                *)
(***************************************************************************)

Holding == {"store", "read", "write", "take", "release"}
Guarded == {"read", "write", "take"}
Adding == {"lock", "store", "read", "write"}
Added == {"take", "release", "result"}

\* Nobody is past init before the callback is installed, the thread inside
\* locking_function or between its two calls holds the mutex, and the slot holds
\* the guard of a thread between the two calls and of no other.
LockInv ==
  /\ once = "done" <=> locking
  /\ \A t \in Threads :
       /\ pc[t] # "init" => locking
       /\ pc[t] \in Holding => mutex = t
       /\ pc[t] \in Guarded <=> slot = t
       /\ pc[t] # "aborted"

-----------------------------------------------------------------------------
(***************************************************************************)
(* The count                                                               *)
(***************************************************************************)

\* One element for every handle that counts.
Tokens(f) == {x \in Threads \X Nat : x[2] \in 1 .. f[x[1]]}

\* A thread that has written 0 and will free the object.
Freeing(t) == pc[t] \in Added /\ amount[t] = 2 /\ seen[t] = 0

NoHandles == \A t \in Threads : owned[t] = 0

CountInv ==
  /\ IsFiniteSet(Tokens(owned)) /\ count = Cardinality(Tokens(owned))
  /\ \A t \in Threads :
       /\ pc[t] \in Adding => owned[t] > 0
       /\ pc[t] \in Adding \cup Added => amount[t] \in {1, 2}
       /\ pc[t] = "write" => seen[t] = count
       /\ Freeing(t) => /\ object = "alive" /\ NoHandles
                        /\ \A s \in Threads : Freeing(s) => s = t
  /\ object = "none" => NoHandles /\ \A t \in Threads : pc[t] \in {"init", "idle"}
  /\ object = "freed" => NoHandles /\ \A t \in Threads : ~Freeing(t)
  /\ object # "freed twice"

AddInv == TypeOK /\ LockInv /\ CountInv

-----------------------------------------------------------------------------
(***************************************************************************)
(* The lock is kept                                                        *)
(***************************************************************************)

\* Steps outside locking_function leave the lock alone.
LEMMA LockInit ==
  ASSUME TypeOK, LockInv, NEW t \in Threads, InitBegin(t) \/ InitEnd(t) \/ InitSkip(t)
  PROVE  LockInv'
  <1> USE DEF Holding, Guarded
  <1>1. CASE InitBegin(t)
    BY <1>1, CryptoLocksAssumption DEF TypeOK, LockInv, InitBegin, lockVars
  <1>2. CASE InitEnd(t)
    BY <1>2 DEF TypeOK, LockInv, InitEnd, Goto, lockVars
  <1>3. CASE InitSkip(t)
    BY <1>3 DEF TypeOK, LockInv, InitSkip, Goto, lockVars
  <1> QED
    BY <1>1, <1>2, <1>3

LEMMA LockProgram ==
  ASSUME TypeOK, LockInv, NEW t \in Threads,
         new(t) \/ clone(t) \/ drop(t) \/ (\E u \in Threads : send(t, u))
  PROVE  LockInv'
  BY DEF TypeOK, LockInv, Holding, Guarded, new, clone, drop, send, Goto, lockVars

LEMMA LockAdd ==
  ASSUME TypeOK, LockInv, NEW t \in Threads, Read(t) \/ Write(t) \/ Result(t)
  PROVE  LockInv'
  <1> USE DEF Holding, Guarded
  <1>1. CASE Read(t)
    BY <1>1 DEF TypeOK, LockInv, Read, Goto, lockVars
  <1>2. CASE Write(t)
    BY <1>2 DEF TypeOK, LockInv, Write, Goto, lockVars
  <1>3. CASE Result(t)
    BY <1>3 DEF TypeOK, LockInv, Result, Goto, lockVars
  <1> QED
    BY <1>1, <1>2, <1>3

LEMMA LockCallback ==
  ASSUME TypeOK, LockInv, NEW t \in Threads, Lock(t) \/ Store(t) \/ Take(t) \/ Release(t)
  PROVE  LockInv'
  <1> USE DEF Holding, Guarded
  <1>1. CASE Lock(t)
    BY <1>1, CryptoLocksAssumption DEF TypeOK, LockInv, Lock, Goto
  <1>2. CASE Store(t)
    BY <1>2, CryptoLocksAssumption DEF TypeOK, LockInv, Store, Goto
  <1>3. CASE Take(t)
    BY <1>3, CryptoLocksAssumption DEF TypeOK, LockInv, Take, Goto
  <1>4. CASE Release(t)
    BY <1>4, CryptoLocksAssumption DEF TypeOK, LockInv, Release, Goto
  <1> QED
    BY <1>1, <1>2, <1>3, <1>4

LEMMA LockNext ==
  ASSUME TypeOK, LockInv, [Next]_vars
  PROVE  LockInv'
  <1>1. CASE Over \/ UNCHANGED vars
    BY <1>1 DEF Over, vars, LockInv
  <1> QED
    BY <1>1, LockInit, LockProgram, LockAdd, LockCallback DEF Next

-----------------------------------------------------------------------------
(***************************************************************************)
(* Handles and the count                                                   *)
(***************************************************************************)

LEMMA TokensMember ==
  ASSUME NEW f \in [Threads -> Nat], NEW t \in Threads, NEW k \in Nat
  PROVE  <<t, k>> \in Tokens(f) <=> k \in 1 .. f[t]
  BY DEF Tokens

\* A handle more is a token more, a handle less a token less.
LEMMA TokensAdd ==
  ASSUME NEW f \in [Threads -> Nat], NEW t \in Threads, IsFiniteSet(Tokens(f)),
         NEW g, g = [f EXCEPT ![t] = @ + 1]
  PROVE  IsFiniteSet(Tokens(g)) /\ Cardinality(Tokens(g)) = Cardinality(Tokens(f)) + 1
  <1>1. f[t] \in Nat
    OBVIOUS
  <1>2. <<t, f[t] + 1>> \notin Tokens(f)
    BY <1>1 DEF Tokens
  <1>3. Tokens(g) = Tokens(f) \cup {<<t, f[t] + 1>>}
    BY <1>1 DEF Tokens
  <1>4. /\ IsFiniteSet(Tokens(f) \cup {<<t, f[t] + 1>>})
        /\ Cardinality(Tokens(f) \cup {<<t, f[t] + 1>>}) = Cardinality(Tokens(f)) + 1
    BY <1>2, FS_AddElement, Zenon
  <1> QED
    BY <1>3, <1>4

LEMMA TokensRemove ==
  ASSUME NEW f \in [Threads -> Nat], NEW t \in Threads, f[t] > 0, IsFiniteSet(Tokens(f)),
         NEW g, g = [f EXCEPT ![t] = @ - 1]
  PROVE  IsFiniteSet(Tokens(g)) /\ Cardinality(Tokens(g)) = Cardinality(Tokens(f)) - 1
  <1>1. f[t] \in Nat
    OBVIOUS
  <1>2. <<t, f[t]>> \in Tokens(f)
    BY <1>1 DEF Tokens
  <1>3. Tokens(g) = Tokens(f) \ {<<t, f[t]>>}
    BY <1>1 DEF Tokens
  <1> QED
    BY <1>2, <1>3, FS_RemoveElement

\* No token, no handle.
LEMMA TokensEmpty ==
  ASSUME NEW f \in [Threads -> Nat], IsFiniteSet(Tokens(f))
  PROVE  Cardinality(Tokens(f)) = 0 <=> \A t \in Threads : f[t] = 0
  <1>1. Cardinality(Tokens(f)) = 0 <=> Tokens(f) = {}
    BY FS_EmptySet
  <1>2. ASSUME NEW t \in Threads, f[t] # 0 PROVE Tokens(f) # {}
    <2>1. f[t] \in Nat
      OBVIOUS
    <2>2. <<t, f[t]>> \in Tokens(f)
      BY <1>2, <2>1 DEF Tokens
    <2> QED
      BY <2>2
  <1>3. ASSUME \A t \in Threads : f[t] = 0 PROVE Tokens(f) = {}
    BY <1>3 DEF Tokens
  <1> QED
    BY <1>1, <1>2, <1>3

\* The thread that writes the count holds the mutex: nobody else has read it.
LEMMA WriterAlone ==
  ASSUME LockInv, NEW t \in Threads, NEW s \in Threads, pc[t] = "write", pc[s] = "write"
  PROVE  s = t
  BY DEF LockInv, Holding

\* Writing: what a thread does when it counts its handle.
LEMMA WriteCounts ==
  ASSUME AddInv, NEW t \in Threads, Write(t)
  PROVE  /\ count' \in Nat /\ owned' \in [Threads -> Nat] /\ owned[t] > 0
         /\ \/ amount[t] = 1 /\ owned' = [owned EXCEPT ![t] = @ + 1] /\ count' = count + 1
            \/ amount[t] = 2 /\ owned' = [owned EXCEPT ![t] = @ - 1] /\ count' = count - 1
         /\ IsFiniteSet(Tokens(owned')) /\ count' = Cardinality(Tokens(owned'))
  <1>1. /\ owned \in [Threads -> Nat] /\ count \in Nat /\ owned[t] \in Nat
        /\ owned[t] > 0 /\ amount[t] \in {1, 2} /\ seen[t] = count
        /\ IsFiniteSet(Tokens(owned)) /\ count = Cardinality(Tokens(owned))
    BY DEF AddInv, TypeOK, CountInv, Write, Adding
  <1>2. CASE amount[t] = 1
    <2>1. owned' = [owned EXCEPT ![t] = @ + 1] /\ count' = count + 1
      BY <1>1, <1>2 DEF Write
    <2>2. IsFiniteSet(Tokens(owned')) /\ Cardinality(Tokens(owned')) = count + 1
      BY <1>1, <2>1, TokensAdd
    <2> QED
      BY <1>1, <1>2, <2>1, <2>2
  <1>3. CASE amount[t] = 2
    <2>1. owned' = [owned EXCEPT ![t] = @ - 1] /\ count' = count - 1
      BY <1>1, <1>3 DEF Write
    <2>2. IsFiniteSet(Tokens(owned')) /\ Cardinality(Tokens(owned')) = count - 1
      BY <1>1, <2>1, TokensRemove
    <2>3. count # 0
      BY <1>1, TokensEmpty
    <2>4. owned' \in [Threads -> Nat]
      BY <1>1, <2>1
    <2> QED
      BY <1>1, <1>3, <2>1, <2>2, <2>3, <2>4
  <1> QED
    BY <1>1, <1>2, <1>3

\* Sending a handle takes a token from one thread and gives one to another.
LEMMA SendCounts ==
  ASSUME AddInv, NEW t \in Threads, NEW u \in Threads, send(t, u)
  PROVE  /\ owned' \in [Threads -> Nat] /\ owned[t] > 0
         /\ IsFiniteSet(Tokens(owned')) /\ Cardinality(Tokens(owned')) = count
         /\ \A s \in Threads : s # t => owned'[s] >= owned[s]
  <1> DEFINE less == [owned EXCEPT ![t] = @ - 1]
  <1>1. /\ owned \in [Threads -> Nat] /\ owned[t] \in Nat /\ owned[t] > 0 /\ count \in Nat
        /\ t # u /\ IsFiniteSet(Tokens(owned)) /\ count = Cardinality(Tokens(owned))
        /\ owned' = [owned EXCEPT ![t] = @ - 1, ![u] = @ + 1]
    BY DEF AddInv, TypeOK, CountInv, send
  <1>2. less \in [Threads -> Nat]
    BY <1>1
  <1>3. IsFiniteSet(Tokens(less)) /\ Cardinality(Tokens(less)) = count - 1
    BY <1>1, TokensRemove
  <1>4. owned' = [less EXCEPT ![u] = @ + 1]
    BY <1>1
  <1>5. owned' \in [Threads -> Nat]
    BY <1>2, <1>4
  <1>6. \A s \in Threads : s # t => owned'[s] >= owned[s]
    BY <1>1
  <1>7. IsFiniteSet(Tokens(owned')) /\ Cardinality(Tokens(owned')) = count - 1 + 1
    <2> HIDE DEF less
    <2> QED
      BY <1>2, <1>3, <1>4, TokensAdd
  <1> QED
    BY <1>1, <1>5, <1>6, <1>7

\* Every step keeps the types.
LEMMA TypeNext ==
  ASSUME AddInv, [Next]_vars
  PROVE  TypeOK'
  <1>1. TypeOK
    BY DEF AddInv
  <1>2. ASSUME NEW t \in Threads, InitBegin(t) \/ InitEnd(t) \/ InitSkip(t) PROVE TypeOK'
    BY <1>1, <1>2 DEF TypeOK, InitBegin, InitEnd, InitSkip, Goto, lockVars, addVars, objectVars
  <1>3. ASSUME NEW t \in Threads, new(t) \/ clone(t) \/ drop(t) PROVE TypeOK'
    <2>1. CASE new(t)
      BY <1>1, <2>1 DEF TypeOK, new, lockVars, addVars
    <2>2. CASE clone(t)
      BY <1>1, <2>2 DEF TypeOK, clone, Goto, lockVars, objectVars
    <2>3. CASE drop(t)
      BY <1>1, <2>3 DEF TypeOK, drop, Goto, lockVars, objectVars
    <2> QED
      BY <1>3, <2>1, <2>2, <2>3
  <1>4. ASSUME NEW t \in Threads, NEW u \in Threads, send(t, u) PROVE TypeOK'
    <2>1. owned' \in [Threads -> Nat]
      BY <1>4, SendCounts
    <2> QED
      BY <1>1, <1>4, <2>1 DEF TypeOK, send, lockVars, addVars
  <1>5. ASSUME NEW t \in Threads, Lock(t) \/ Store(t) \/ Take(t) \/ Release(t) PROVE TypeOK'
    BY <1>1, <1>5 DEF TypeOK, Lock, Store, Take, Release, Goto, addVars, objectVars
  <1>6. ASSUME NEW t \in Threads, Read(t) \/ Result(t) PROVE TypeOK'
    <2>1. CASE Read(t)
      BY <1>1, <2>1 DEF TypeOK, Read, Goto, lockVars, objectVars
    <2>2. CASE Result(t)
      BY <1>1, <2>2 DEF TypeOK, Result, Goto, lockVars
    <2> QED
      BY <1>6, <2>1, <2>2
  <1>7. ASSUME NEW t \in Threads, Write(t) PROVE TypeOK'
    <2>1. count' \in Nat /\ owned' \in [Threads -> Nat]
      BY <1>7, WriteCounts
    <2>2. seen' \in [Threads -> Nat]
      BY <1>1, <1>7, <2>1 DEF TypeOK, Write
    <2>3. pc' = [pc EXCEPT ![t] = IF locking THEN "take" ELSE "result"]
          /\ UNCHANGED <<once, locking, mutex, slot, amount, object>>
      BY <1>7 DEF Write, Goto, lockVars
    <2> QED
      BY <1>1, <2>1, <2>2, <2>3 DEF TypeOK
  <1>8. CASE Over \/ UNCHANGED vars
    BY <1>1, <1>8 DEF Over, vars, TypeOK
  <1> QED
    BY <1>2, <1>3, <1>4, <1>5, <1>6, <1>7, <1>8 DEF Next

\* Steps that leave the object, its count and its handles alone, and of each thread
\* what it adds, where a thread moves only on its way.
LEMMA CountQuiet ==
  ASSUME AddInv, UNCHANGED <<amount, seen, count, owned, object>>, NEW t \in Threads,
         NEW p, pc' = [pc EXCEPT ![t] = p],
         p \in Adding => pc[t] \in Adding, p = "write" => seen[t] = count,
         p \in Added => pc[t] \in Added, p = "init" => pc[t] = "init",
         pc[t] \in {"init", "idle"} => p \in {"init", "idle"}
  PROVE  CountInv'
  <1>1. pc'[t] = p /\ \A s \in Threads : s # t => pc'[s] = pc[s]
    BY DEF AddInv, TypeOK
  <1>2. \A s \in Threads : Freeing(s)' => Freeing(s)
    BY <1>1 DEF Freeing
  <1>3. Tokens(owned)' = Tokens(owned) /\ (NoHandles' <=> NoHandles)
    BY DEF Tokens, NoHandles
  <1>4. \A s \in Threads :
          /\ pc'[s] \in Adding => pc[s] \in Adding
          /\ pc'[s] \in Added => pc[s] \in Added
          /\ pc'[s] = "write" => seen[s] = count
          /\ pc[s] \in {"init", "idle"} => pc'[s] \in {"init", "idle"}
    BY <1>1 DEF AddInv, CountInv
  <1> QED
    BY <1>2, <1>3, <1>4 DEF AddInv, CountInv

LEMMA CountCalls ==
  ASSUME AddInv, NEW t \in Threads,
         \/ InitBegin(t) \/ InitEnd(t) \/ InitSkip(t)
         \/ Lock(t) \/ Store(t) \/ Take(t) \/ Release(t)
  PROVE  CountInv'
  <1> USE DEF Adding, Added
  <1>1. CASE InitBegin(t)
    <2>1. UNCHANGED <<pc, amount, seen, count, owned, object>>
      BY <1>1 DEF InitBegin, addVars, objectVars
    <2>2. pc' = [pc EXCEPT ![t] = pc[t]]
      BY <2>1 DEF AddInv, TypeOK
    <2> QED
      BY <1>1, <2>1, <2>2, CountQuiet DEF InitBegin
  <1>2. CASE InitEnd(t) \/ InitSkip(t)
    BY <1>2, CountQuiet DEF InitEnd, InitSkip, Goto, addVars, objectVars
  <1>3. CASE Lock(t)
    <2>1. pc[t] = "lock" /\ UNCHANGED <<amount, seen, count, owned, object>>
      BY <1>3 DEF Lock, addVars, objectVars
    <2>2. PICK p \in {"store", "read"} : pc' = [pc EXCEPT ![t] = p]
      BY <1>3 DEF Lock, Goto
    <2> QED
      BY <2>1, <2>2, CountQuiet
  <1>4. CASE Store(t) \/ Release(t)
    BY <1>4, CountQuiet DEF Store, Release, Goto, addVars, objectVars
  <1>5. CASE Take(t)
    <2>1. pc[t] = "take" /\ UNCHANGED <<amount, seen, count, owned, object>>
      BY <1>5 DEF Take, addVars, objectVars
    <2>2. PICK p \in {"aborted", "release"} : pc' = [pc EXCEPT ![t] = p]
      BY <1>5 DEF Take, Goto
    <2> QED
      BY <2>1, <2>2, CountQuiet
  <1> QED
    BY <1>1, <1>2, <1>3, <1>4, <1>5

\* What a program does with handles while nobody is about to free the object.
LEMMA CountProgram ==
  ASSUME AddInv, NEW t \in Threads, new(t) \/ clone(t) \/ drop(t)
  PROVE  CountInv'
  <1> USE DEF Adding, Added
  <1>1. TypeOK /\ CountInv
    BY DEF AddInv
  <1>2. CASE new(t)
    <2>1. /\ NoHandles /\ \A s \in Threads : pc'[s] \in {"init", "idle"}
          /\ object' = "alive" /\ count' = 1
      BY <1>1, <1>2 DEF CountInv, new
    <2>2. owned' = [owned EXCEPT ![t] = @ + 1]
      <3>1. owned[t] = 0 /\ owned' = [owned EXCEPT ![t] = 1]
        BY <1>2, <2>1 DEF new, NoHandles
      <3> QED
        BY <3>1
    <2>3. IsFiniteSet(Tokens(owned)) /\ Cardinality(Tokens(owned)) = 0
      BY <1>1, <2>1, TokensEmpty DEF CountInv, NoHandles, TypeOK
    <2>4. IsFiniteSet(Tokens(owned')) /\ Cardinality(Tokens(owned')) = 0 + 1
      BY <1>1, <2>2, <2>3, TokensAdd DEF TypeOK
    <2>5. \A s \in Threads : ~Freeing(s)'
      BY <2>1 DEF Freeing
    <2> QED
      BY <2>1, <2>4, <2>5 DEF CountInv, Tokens
  <1>3. CASE clone(t) \/ drop(t)
    <2>1. PICK a \in {1, 2} : amount' = [amount EXCEPT ![t] = a]
      BY <1>3 DEF clone, drop
    <2>2. /\ pc' = [pc EXCEPT ![t] = "lock"] /\ owned[t] > 0
          /\ UNCHANGED <<seen, count, owned, object>>
      BY <1>3 DEF clone, drop, Goto, objectVars
    <2>3. pc'[t] = "lock" /\ amount'[t] \in {1, 2} /\ owned'[t] > 0
      BY <1>1, <2>1, <2>2 DEF TypeOK
    <2>4. \A s \in Threads \ {t} : pc'[s] = pc[s] /\ amount'[s] = amount[s]
      BY <1>1, <2>1, <2>2 DEF TypeOK
    <2>5. \A s \in Threads : Freeing(s)' => Freeing(s)
      BY <2>2, <2>3, <2>4 DEF Freeing
    <2>6. Tokens(owned)' = Tokens(owned) /\ (NoHandles' <=> NoHandles) /\ ~NoHandles
      BY <2>2 DEF Tokens, NoHandles
    <2> QED
      BY <1>1, <2>2, <2>3, <2>4, <2>5, <2>6 DEF CountInv
  <1> QED
    BY <1>2, <1>3

LEMMA CountSend ==
  ASSUME AddInv, NEW t \in Threads, NEW u \in Threads, send(t, u)
  PROVE  CountInv'
  <1> USE DEF Adding, Added
  <1>1. TypeOK /\ CountInv /\ pc[t] = "idle" /\ UNCHANGED <<pc, amount, seen, count, object>>
    BY DEF AddInv, send, addVars
  <1>2. /\ IsFiniteSet(Tokens(owned')) /\ Cardinality(Tokens(owned')) = count
        /\ owned' \in [Threads -> Nat] /\ owned[t] > 0
        /\ \A s \in Threads : s # t => owned'[s] >= owned[s]
    BY SendCounts
  <1>3. ~NoHandles
    BY <1>2 DEF NoHandles
  <1>4. object = "alive" /\ \A s \in Threads : ~Freeing(s)
    BY <1>1, <1>3 DEF CountInv, TypeOK
  <1>5. \A s \in Threads : ~Freeing(s)'
    BY <1>1, <1>4 DEF Freeing
  <1>6. \A s \in Threads : pc[s] \in Adding => owned'[s] > 0
    <2>1. \A s \in Threads : owned[s] \in Nat /\ owned'[s] \in Nat
      BY <1>1, <1>2 DEF TypeOK
    <2>2. ASSUME NEW s \in Threads, pc[s] \in Adding PROVE owned'[s] > 0
      <3>1. owned[s] > 0 /\ s # t
        BY <1>1, <2>2 DEF CountInv
      <3> QED
        BY <1>2, <2>1, <3>1
    <2> QED
      BY <2>2
  <1> QED
    BY <1>1, <1>2, <1>4, <1>5, <1>6 DEF CountInv, Tokens

LEMMA CountRead ==
  ASSUME AddInv, NEW t \in Threads, Read(t)
  PROVE  CountInv'
  <1>1. TypeOK /\ CountInv /\ pc[t] = "read"
    BY DEF AddInv, Read
  <1>2. /\ pc'[t] = "write" /\ seen'[t] = count
        /\ \A s \in Threads \ {t} : pc'[s] = pc[s] /\ seen'[s] = seen[s]
        /\ UNCHANGED <<amount, count, owned, object>>
    BY <1>1 DEF Read, Goto, TypeOK, objectVars
  <1>3. \A s \in Threads : Freeing(s)' => Freeing(s)
    BY <1>2 DEF Freeing, Added
  <1>4. Tokens(owned)' = Tokens(owned) /\ (NoHandles' <=> NoHandles)
    BY <1>2 DEF Tokens, NoHandles
  <1> QED
    BY <1>1, <1>2, <1>3, <1>4 DEF CountInv, Adding, Added

\* A handle that is counted, or no longer counted: the last one leaves one thread
\* to free the object.
LEMMA CountWrite ==
  ASSUME AddInv, NEW t \in Threads, Write(t)
  PROVE  CountInv'
  <1>1. TypeOK /\ CountInv /\ LockInv /\ pc[t] = "write"
    BY DEF AddInv, Write
  <1>2. /\ count' \in Nat /\ owned' \in [Threads -> Nat] /\ owned[t] > 0
        /\ IsFiniteSet(Tokens(owned')) /\ count' = Cardinality(Tokens(owned'))
    BY WriteCounts
  <1>3. ~NoHandles
    BY <1>2 DEF NoHandles
  <1>4. object = "alive" /\ \A s \in Threads : ~Freeing(s)
    BY <1>1, <1>3 DEF CountInv, TypeOK
  <1>5. /\ pc'[t] \in Added /\ seen'[t] = count' /\ UNCHANGED <<amount, object>>
        /\ \A s \in Threads \ {t} : pc'[s] = pc[s] /\ seen'[s] = seen[s] /\ owned'[s] = owned[s]
    BY <1>1 DEF Write, Goto, TypeOK, Added
  <1>6. \A s \in Threads : Freeing(s)' => s = t
    BY <1>4, <1>5 DEF Freeing
  <1>7. Freeing(t)' => NoHandles'
    <2>1. Freeing(t)' => count' = 0
      BY <1>5 DEF Freeing
    <2>2. count' = 0 => \A s \in Threads : owned'[s] = 0
      BY <1>2, TokensEmpty
    <2> QED
      BY <2>1, <2>2 DEF NoHandles
  <1>8. ASSUME NEW s \in Threads
        PROVE  /\ pc'[s] \in Adding => owned'[s] > 0
               /\ pc'[s] \in Adding \cup Added => amount'[s] \in {1, 2}
               /\ pc'[s] # "write"
    <2>1. CASE s = t
      BY <1>1, <1>5, <2>1 DEF CountInv, Adding, Added
    <2>2. CASE s # t
      BY <1>1, <1>5, <2>2, WriterAlone DEF CountInv
    <2> QED
      BY <2>1, <2>2
  <1> QED
    BY <1>2, <1>4, <1>5, <1>6, <1>7, <1>8 DEF CountInv, Tokens

LEMMA CountResult ==
  ASSUME AddInv, NEW t \in Threads, Result(t)
  PROVE  CountInv'
  <1>1. TypeOK /\ CountInv /\ pc[t] = "result"
    BY DEF AddInv, Result
  <1>2. /\ pc'[t] = "idle"
        /\ \A s \in Threads \ {t} :
             pc'[s] = pc[s] /\ seen'[s] = seen[s] /\ amount'[s] = amount[s]
        /\ UNCHANGED <<count, owned>>
    BY <1>1 DEF Result, Goto, TypeOK
  <1>3. ~Freeing(t)' /\ \A s \in Threads : Freeing(s)' => Freeing(s)
    BY <1>2 DEF Freeing, Added
  <1>4. Tokens(owned)' = Tokens(owned) /\ (NoHandles' <=> NoHandles)
    BY <1>2 DEF Tokens, NoHandles
  <1>5. ASSUME NEW s \in Threads
        PROVE  /\ pc'[s] \in Adding => owned'[s] > 0
               /\ pc'[s] \in Adding \cup Added => amount'[s] \in {1, 2}
               /\ pc'[s] = "write" => seen'[s] = count'
    BY <1>1, <1>2 DEF CountInv, Adding, Added
  <1>6. CASE Freeing(t)
    <2>1. object = "alive" /\ NoHandles /\ \A s \in Threads : ~Freeing(s)'
      BY <1>1, <1>3, <1>6 DEF CountInv
    <2>2. object' = "freed"
      BY <1>6, <2>1 DEF Result, Freeing
    <2> QED
      BY <1>1, <1>2, <1>4, <1>5, <2>1, <2>2 DEF CountInv
  <1>7. CASE ~Freeing(t)
    <2>1. object' = object
      <3>1. amount[t] \in {1, 2}
        BY <1>1 DEF CountInv, Added
      <3> QED
        BY <1>1, <1>7, <3>1 DEF Result, Freeing, Added
    <2>2. object # "none"
      BY <1>1 DEF CountInv
    <2> QED
      BY <1>1, <1>2, <1>3, <1>4, <1>5, <2>1, <2>2 DEF CountInv
  <1> QED
    BY <1>6, <1>7

LEMMA AddNext == AddInv /\ [Next]_vars => AddInv'
  <1> SUFFICES ASSUME AddInv, [Next]_vars PROVE AddInv'
    OBVIOUS
  <1>1. TypeOK' /\ LockInv'
    BY TypeNext, LockNext DEF AddInv
  <1>2. CASE Over \/ UNCHANGED vars
    <2>1. UNCHANGED <<pc, amount, seen, count, owned, object>>
      BY <1>2 DEF Over, vars
    <2>2. /\ Tokens(owned)' = Tokens(owned) /\ (NoHandles' <=> NoHandles)
          /\ \A t \in Threads : Freeing(t)' <=> Freeing(t)
      BY <2>1 DEF Tokens, NoHandles, Freeing
    <2> QED
      BY <1>1, <2>1, <2>2 DEF AddInv, CountInv
  <1>3. CASE ~Over /\ ~UNCHANGED vars
    <2>1. CountInv'
      BY <1>3, CountCalls, CountProgram, CountSend, CountRead, CountWrite, CountResult DEF Next
    <2> QED
      BY <1>1, <2>1 DEF AddInv
  <1> QED
    BY <1>2, <1>3

LEMMA AddInit == Init => AddInv
  <1> SUFFICES ASSUME Init PROVE AddInv
    OBVIOUS
  <1>1. TypeOK
    BY DEF Init, TypeOK
  <1>2. LockInv
    BY CryptoLocksAssumption DEF Init, LockInv, Holding, Guarded
  <1>3. Tokens(owned) = {} /\ NoHandles
    BY DEF Init, Tokens, NoHandles
  <1>4. CountInv
    BY <1>3, FS_EmptySet DEF Init, CountInv, Adding, Added, Freeing
  <1> QED
    BY <1>1, <1>2, <1>4 DEF AddInv

THEOREM AddInvHolds == Spec => []AddInv
  BY AddInit, AddNext, PTL DEF Spec

-----------------------------------------------------------------------------
(***************************************************************************)
(* Theorems                                                                *)
(***************************************************************************)

\* locking_function finds, at every unlock of every thread, the guard that this
\* thread stored; it never ends the process.
THEOREM GuardsAreOwn == Spec => []GuardIsOwn
  <1>1. AddInv => GuardIsOwn
    BY DEF AddInv, LockInv, GuardIsOwn, Holding, Guarded
  <1> QED
    BY <1>1, AddInvHolds, PTL

\* Reading, adding and writing the count under the lock implements the atomic
\* clone and drop of SharedHandle, and the object is freed once, after the last
\* handle.
THEOREM CountsAreAtomic == Spec => CountIsAtomic
  <1>1. Init => Abs!Init
    BY DEF Init, Abs!Init
  <1>2. AddInv /\ [Next]_vars => [Abs!Next]_(Abs!sharedVars)
    <2> SUFFICES ASSUME AddInv, [Next]_vars PROVE [Abs!Next]_(Abs!sharedVars)
      OBVIOUS
    <2>1. ASSUME NEW t \in Threads, new(t) PROVE Abs!New(t)
      BY <2>1 DEF new, Abs!New
    <2>2. ASSUME NEW t \in Threads, NEW u \in Threads, send(t, u) PROVE Abs!Send(t, u)
      BY <2>2 DEF send, Abs!Send
    <2>3. ASSUME NEW t \in Threads, Write(t) PROVE Abs!Clone(t) \/ Abs!Drop(t)
      <3>1. object' = object
        BY <2>3 DEF Write
      <3> QED
        BY <2>3, <3>1, WriteCounts DEF Abs!Clone, Abs!Drop
    <2>4. ASSUME NEW t \in Threads, Result(t) PROVE Abs!Free \/ UNCHANGED Abs!sharedVars
      <3>1. pc[t] = "result" /\ amount[t] \in {1, 2} /\ owned' = owned
        BY <2>4 DEF AddInv, CountInv, Result, Added
      <3>2. CASE Freeing(t)
        <4>1. object = "alive" /\ NoHandles
          BY <3>2 DEF AddInv, CountInv
        <4>2. object' = "freed"
          BY <2>4, <3>2, <4>1 DEF Result, Freeing
        <4> QED
          BY <3>1, <4>1, <4>2 DEF Abs!Free, NoHandles
      <3>3. CASE ~Freeing(t)
        <4>1. object' = object
          BY <2>4, <3>1, <3>3 DEF Result, Freeing, Added
        <4> QED
          BY <3>1, <4>1 DEF Abs!sharedVars
      <3> QED
        BY <3>2, <3>3
    <2>5. ASSUME NEW t \in Threads,
                 \/ InitBegin(t) \/ InitEnd(t) \/ InitSkip(t) \/ clone(t) \/ drop(t)
                 \/ Lock(t) \/ Store(t) \/ Take(t) \/ Release(t) \/ Read(t)
          PROVE  UNCHANGED Abs!sharedVars
      BY <2>5 DEF InitBegin, InitEnd, InitSkip, clone, drop, Lock, Store, Take, Release, Read,
         objectVars, Abs!sharedVars
    <2>6. CASE Over \/ UNCHANGED vars
      BY <2>6 DEF Over, vars, Abs!sharedVars
    <2> QED
      BY <2>1, <2>2, <2>3, <2>4, <2>5, <2>6 DEF Next, Abs!Next
  <1> QED
    BY <1>1, <1>2, AddInvHolds, PTL DEF Spec, CountIsAtomic, Abs!Spec

-----------------------------------------------------------------------------
(***************************************************************************)
(* Crypter.  pad may be called at any time.  The invariant: less than a block *)
(* is unfinished, and a block is held back only when nothing is, as long as *)
(* padding was changed once at most since there was data.                  *)
(***************************************************************************)

\* Every length is whole blocks and a rest.
LEMMA Division ==
  ASSUME NEW b \in Nat \ {0}, NEW a \in Nat
  PROVE  /\ (a \div b) * b \in Nat /\ (a \div b) * b <= a
         /\ a % b \in 0 .. b - 1
         /\ a = (a \div b) * b + (a % b)
<1>1. a \div b \in Nat
  OBVIOUS
<1>2. a % b \in 0 .. b - 1
  OBVIOUS
<1>3. a = (a \div b) * b + (a % b)
  OBVIOUS
<1>4. (a \div b) * b \in Nat
  BY <1>1
<1>. QED
  BY <1>2, <1>3, <1>4

\* A context, and what is recorded of it.
CipherCtx ==
  [mode : Modes, block : BlockSizes, padding : BOOLEAN, buf : Nat, held : BOOLEAN,
   given : BOOLEAN, switches : 0 .. 2]

\* A block is held only with padding, and then none is unfinished, as long as padding
\* has been changed once at most since there was data.
HeldInv(c) ==
  /\ c \in CipherCtx /\ c.buf < c.block
  /\ ~c.given => ~c.held /\ c.buf = 0 /\ c.switches = 0
  /\ c.mode = "Encrypt" => ~c.held
  /\ c.switches < 2 => IF c.padding THEN c.held => c.buf = 0
                       ELSE c.switches = 0 => ~c.held

CrypterInv ==
  /\ HeldInv(crypter)
  /\ call \in [len : Nat, wrote : Nat]
  /\ crypter.mode = "Encrypt" \/ crypter.switches < 2 => call.wrote <= call.len

\* Its fields.
LEMMA CtxIs ==
  ASSUME CrypterAssumption, NEW c \in CipherCtx
  PROVE  /\ c.block \in Nat \ {0} /\ c.buf \in Nat /\ c.switches \in 0 .. 2
         /\ c.held \in BOOLEAN /\ c.padding \in BOOLEAN /\ c.given \in BOOLEAN /\ c.mode \in Modes
BY DEF CipherCtx, CrypterAssumption

\* Crypter::new.
LEMMA NewInv ==
  ASSUME CrypterAssumption, NEW m \in Modes, NEW b \in BlockSizes
  PROVE  HeldInv(New(m, b)) /\ New(m, b).switches = 0 /\ New(m, b).block = b
BY DEF HeldInv, New, CipherCtx, CrypterAssumption

\* EVP_EncryptUpdate writes whole blocks and keeps the rest.
LEMMA EncryptUpdateDoes ==
  ASSUME CrypterAssumption, NEW c \in CipherCtx, NEW n \in Nat
  PROVE  LET r == EncryptUpdate(c, n)
         IN  /\ r.ctx = [c EXCEPT !.buf = r.ctx.buf]
             /\ r.ctx.buf \in 0 .. c.block - 1
             /\ r.outl = r.wrote /\ r.outl \in Nat /\ r.outl <= c.buf + n
             /\ c.buf + n = r.outl + r.ctx.buf
<1>. DEFINE a == c.buf + n
<1>1. a \in Nat /\ c.block \in Nat \ {0}
  BY CtxIs
<1>2. /\ (a \div c.block) * c.block \in Nat /\ (a \div c.block) * c.block <= a
      /\ a % c.block \in 0 .. c.block - 1
      /\ a = (a \div c.block) * c.block + (a % c.block)
  <2>. HIDE DEF a
  <2>. QED BY <1>1, Division
<1>. QED
  BY <1>2 DEF EncryptUpdate, CipherCtx

\* A context after update, and what update writes.
Given(c, n) == [c EXCEPT !.given = @ \/ n > 0]

\* EVP_CipherUpdate writes at most the input and one block more, and keeps less than a
\* block unfinished.
LEMMA CipherUpdateDoes ==
  ASSUME CrypterAssumption, NEW c, HeldInv(c), NEW n \in Nat
  PROVE  LET r == CipherUpdate(c, n)
         IN  /\ HeldInv(Given(r.ctx, n)) /\ HeldInv(Given(c, n))
             /\ Given(r.ctx, n).mode = c.mode /\ Given(r.ctx, n).switches = c.switches
             /\ Given(c, n).mode = c.mode /\ Given(c, n).switches = c.switches
             /\ r.ctx \in CipherCtx /\ r.ctx.block = c.block
             /\ r.wrote \in Nat /\ r.outl \in Int
             /\ c.mode = "Encrypt" \/ c.switches < 2 => r.wrote <= n + c.block
             /\ c.buf = 0 /\ ~c.held => r.wrote <= n /\ r.outl <= n
<1>. DEFINE e == EncryptUpdate(c, n)
            r == CipherUpdate(c, n)
            Does == /\ HeldInv(Given(r.ctx, n))
                    /\ Given(r.ctx, n).mode = c.mode /\ Given(r.ctx, n).switches = c.switches
                    /\ r.ctx \in CipherCtx /\ r.ctx.block = c.block
                    /\ r.wrote \in Nat /\ r.outl \in Int
                    /\ c.mode = "Encrypt" \/ c.switches < 2 => r.wrote <= n + c.block
                    /\ c.buf = 0 /\ ~c.held => r.wrote <= n /\ r.outl <= n
<1>1. /\ c \in CipherCtx /\ c.block \in Nat \ {0} /\ c.buf \in Nat /\ c.buf < c.block
      /\ c.held \in BOOLEAN /\ c.padding \in BOOLEAN /\ c.given \in BOOLEAN /\ c.mode \in Modes
      /\ c.switches \in 0 .. 2
  BY CtxIs DEF HeldInv
<1>2. /\ e.ctx = [c EXCEPT !.buf = e.ctx.buf]
      /\ e.ctx.buf \in 0 .. c.block - 1
      /\ e.outl = e.wrote /\ e.outl \in Nat /\ e.outl <= c.buf + n
      /\ c.buf + n = e.outl + e.ctx.buf
  BY <1>1, EncryptUpdateDoes
<1>3. /\ ~c.given => ~c.held /\ c.buf = 0 /\ c.switches = 0
      /\ c.mode = "Encrypt" => ~c.held
      /\ c.switches < 2 => IF c.padding THEN c.held => c.buf = 0 ELSE c.switches = 0 => ~c.held
  BY DEF HeldInv
\* Any context that differs from c in buf and held only.
<1>4. ASSUME NEW d, NEW b \in 0 .. c.block - 1, NEW h \in BOOLEAN,
             d = [c EXCEPT !.buf = b, !.held = h],
             ~(c.given \/ n > 0) => ~h /\ b = 0,
             c.mode = "Encrypt" => ~h,
             c.switches < 2 => IF c.padding THEN h => b = 0 ELSE c.switches = 0 => ~h
      PROVE  /\ HeldInv(Given(d, n)) /\ d \in CipherCtx /\ d.block = c.block
             /\ Given(d, n).mode = c.mode /\ Given(d, n).switches = c.switches
  <2>. DEFINE g == d.given \/ n > 0
  <2>1. /\ d \in CipherCtx /\ d.block = c.block /\ d.given = c.given /\ d.buf = b /\ d.held = h
        /\ d.mode = c.mode /\ d.switches = c.switches /\ d.padding = c.padding
    <3>1. b \in Nat
      BY <1>1
    <3>. QED
      BY <1>1, <1>4, <3>1 DEF CipherCtx
  <2>2. g \in BOOLEAN /\ g = (c.given \/ n > 0)
    BY <2>1, Zenon
  <2>3. Given(d, n) = [d EXCEPT !.given = g]
    BY DEF Given
  <2>. HIDE DEF g
  <2>4. /\ Given(d, n) \in CipherCtx /\ Given(d, n).buf = b /\ Given(d, n).held = h
        /\ Given(d, n).given = g /\ Given(d, n).mode = c.mode
        /\ Given(d, n).switches = c.switches /\ Given(d, n).padding = c.padding
        /\ Given(d, n).block = c.block
    BY <2>1, <2>2, <2>3 DEF CipherCtx
  <2>5. ~g => ~h /\ b = 0 /\ c.switches = 0
    BY <1>1, <1>3, <1>4, <2>2
  <2>6. b < c.block
    BY <1>1
  <2>. QED
    BY <1>4, <2>1, <2>4, <2>5, <2>6 DEF HeldInv
<1>5. HeldInv(Given(c, n)) /\ Given(c, n).mode = c.mode /\ Given(c, n).switches = c.switches
  <2>1. c = [c EXCEPT !.buf = c.buf, !.held = c.held]
    BY <1>1 DEF CipherCtx
  <2>2. c.buf \in 0 .. c.block - 1
    BY <1>1
  <2>3. ~(c.given \/ n > 0) => ~c.held /\ c.buf = 0
    BY <1>3
  <2>. QED
    BY <1>1, <1>3, <1>4, <2>1, <2>2, <2>3
<1>. SUFFICES Does
  BY <1>5
\* Nothing is held, or it stays held: only whole blocks go out.
<1>6. CASE c.mode = "Encrypt" \/ (n > 0 /\ (~c.padding \/ c.block = 1))
  <2>1. r = e
    BY <1>1, <1>6 DEF CipherUpdate, DecryptUpdate, Modes
  <2>. HIDE DEF e, r
  <2>2. e.ctx = [c EXCEPT !.buf = e.ctx.buf, !.held = c.held]
    BY <1>1, <1>2 DEF CipherCtx
  <2>3. ~(c.given \/ n > 0) => ~c.held /\ e.ctx.buf = 0
    BY <1>1, <1>2, <1>3
  <2>4. c.switches < 2 => IF c.padding THEN c.held => e.ctx.buf = 0 ELSE c.switches = 0 => ~c.held
    BY <1>1, <1>2, <1>3, <1>6
  <2>5. /\ HeldInv(Given(e.ctx, n)) /\ e.ctx \in CipherCtx /\ e.ctx.block = c.block
        /\ Given(e.ctx, n).mode = c.mode /\ Given(e.ctx, n).switches = c.switches
    BY <1>1, <1>2, <1>3, <1>4, <2>2, <2>3, <2>4
  <2>. QED
    BY <1>1, <1>2, <2>1, <2>5
<1>7. CASE c.mode # "Encrypt" /\ n = 0
  <2>1. r = [ctx |-> c, outl |-> 0, wrote |-> 0]
    BY <1>7 DEF CipherUpdate, DecryptUpdate
  <2>. QED
    BY <1>1, <1>5, <2>1
<1>8. CASE c.mode # "Encrypt" /\ n > 0 /\ c.padding /\ c.block # 1
  <2>. DEFINE hold == e.ctx.buf = 0
              first == IF c.held THEN c.block ELSE 0
  <2>1. r = [ctx |-> [e.ctx EXCEPT !.held = hold],
             outl |-> first + e.outl - (IF hold THEN c.block ELSE 0),
             wrote |-> first + e.wrote]
    BY <1>8 DEF CipherUpdate, DecryptUpdate
  <2>. HIDE DEF e, r
  <2>2. r.ctx = [c EXCEPT !.buf = e.ctx.buf, !.held = hold]
    BY <1>1, <1>2, <2>1 DEF CipherCtx
  <2>3. /\ HeldInv(Given(r.ctx, n)) /\ r.ctx \in CipherCtx /\ r.ctx.block = c.block
        /\ Given(r.ctx, n).mode = c.mode /\ Given(r.ctx, n).switches = c.switches
    BY <1>2, <1>4, <1>8, <2>2
  <2>4. r.wrote = first + e.wrote /\ first \in Nat /\ r.outl \in Int /\ r.outl <= first + e.outl
    BY <1>1, <1>2, <2>1
  <2>5. c.switches < 2 => r.wrote <= n + c.block
    BY <1>1, <1>2, <1>3, <1>8, <2>4
  <2>6. c.buf = 0 /\ ~c.held => r.wrote <= n /\ r.outl <= n
    BY <1>1, <1>2, <2>4
  <2>. QED
    BY <1>2, <1>8, <2>3, <2>4, <2>5, <2>6
<1>. QED
  BY <1>1, <1>6, <1>7, <1>8

\* EVP_CipherFinal writes at most a block.
LEMMA FinalWritesFit ==
  ASSUME CrypterAssumption, NEW c \in CipherCtx, NEW w \in FinalWrites(c)
  PROVE  w \in Nat /\ w <= c.block
<1>1. c.block \in Nat \ {0}
  BY CtxIs
<1>. QED
  BY <1>1 DEF FinalWrites

\* The methods one after the other.
LEMMA UpdateInv ==
  ASSUME CrypterAssumption, CrypterInv, NEW n \in Nat, NEW len \in Nat, update(n, len)
  PROVE  CrypterInv'
<1>. DEFINE r == CipherUpdate(crypter, n)
<1>1. /\ HeldInv(Given(r.ctx, n)) /\ HeldInv(Given(crypter, n))
      /\ Given(r.ctx, n).mode = crypter.mode /\ Given(r.ctx, n).switches = crypter.switches
      /\ Given(crypter, n).mode = crypter.mode /\ Given(crypter, n).switches = crypter.switches
      /\ r.wrote \in Nat
      /\ crypter.mode = "Encrypt" \/ crypter.switches < 2 => r.wrote <= n + crypter.block
  BY CipherUpdateDoes DEF CrypterInv
<1>2. crypter.block \in Nat
  BY CtxIs DEF CrypterInv, HeldInv
<1>3. CASE Panics(len)
  BY <1>3 DEF Panics, CrypterInv
<1>4. CASE /\ UpdateFits(crypter, n, len)
           /\ crypter' = Given(r.ctx, n) /\ call' = [len |-> len, wrote |-> r.wrote]
  <2>. HIDE DEF r
  <2>. QED
    BY <1>1, <1>2, <1>4 DEF CrypterInv, UpdateFits
<1>5. ASSUME UpdateFits(crypter, n, len), crypter' = Given(crypter, n),
             NEW w \in 0 .. r.wrote, call' = [len |-> len, wrote |-> w]
      PROVE  CrypterInv'
  <2>. HIDE DEF r
  <2>1. w \in Nat /\ w <= r.wrote
    BY <1>1
  <2>. QED
    BY <1>1, <1>2, <1>5, <2>1 DEF CrypterInv, UpdateFits
<1>. QED
  BY <1>3, <1>4, <1>5 DEF update, Given

LEMMA FinalizeInv ==
  ASSUME CrypterAssumption, CrypterInv, NEW len \in Nat, finalize(len)
  PROVE  CrypterInv'
<1>1. CASE Panics(len)
  BY <1>1 DEF Panics, CrypterInv
<1>2. ASSUME FinalFits(crypter, len), NEW w \in FinalWrites(crypter),
             call' = [len |-> len, wrote |-> w], UNCHANGED crypter
      PROVE  CrypterInv'
  <2>1. crypter \in CipherCtx
    BY DEF CrypterInv, HeldInv
  <2>2. w \in Nat /\ w <= crypter.block /\ crypter.block \in Nat
    BY <1>2, <2>1, CtxIs, FinalWritesFit
  <2>. QED
    BY <1>2, <2>2 DEF CrypterInv, FinalFits
<1>. QED
  BY <1>1, <1>2 DEF finalize

\* Turning padding off leaves a block that is held; it matters when it is on again.
LEMMA PadInv ==
  ASSUME CrypterAssumption, CrypterInv, NEW p \in BOOLEAN, pad(p)
  PROVE  CrypterInv'
<1>. DEFINE again == crypter.given /\ crypter.padding # p /\ crypter.switches < 2
            k == crypter.switches + (IF again THEN 1 ELSE 0)
<1>1. /\ crypter \in CipherCtx /\ crypter.buf \in Nat /\ crypter.switches \in 0 .. 2
      /\ crypter.held \in BOOLEAN /\ crypter.padding \in BOOLEAN /\ crypter.given \in BOOLEAN
  BY CtxIs DEF CrypterInv, HeldInv
<1>2. k \in 0 .. 2 /\ crypter' = [crypter EXCEPT !.padding = p, !.switches = k] /\ call' = NoSlice
  BY <1>1 DEF pad
<1>3. /\ crypter' \in CipherCtx /\ crypter'.buf = crypter.buf /\ crypter'.block = crypter.block
      /\ crypter'.held = crypter.held /\ crypter'.given = crypter.given
      /\ crypter'.mode = crypter.mode /\ crypter'.padding = p /\ crypter'.switches = k
  <2>. HIDE DEF k
  <2>. QED BY <1>1, <1>2 DEF CipherCtx
<1>4. /\ crypter.buf < crypter.block
      /\ ~crypter.given => ~crypter.held /\ crypter.buf = 0 /\ crypter.switches = 0
      /\ crypter.mode = "Encrypt" => ~crypter.held
      /\ crypter.switches < 2 => IF crypter.padding THEN crypter.held => crypter.buf = 0
                                 ELSE crypter.switches = 0 => ~crypter.held
  BY DEF CrypterInv, HeldInv
<1>5. ~crypter.given => k = 0
  BY <1>4
<1>6. k < 2 => IF p THEN crypter.held => crypter.buf = 0 ELSE k = 0 => ~crypter.held
  <2>1. CASE ~crypter.given
    BY <1>4, <2>1
  <2>2. CASE crypter.given /\ crypter.padding = p
    BY <1>1, <1>4, <2>2
  <2>3. CASE crypter.given /\ crypter.padding # p
    BY <1>1, <1>4, <2>3
  <2>. QED
    BY <2>1, <2>2, <2>3
<1>. HIDE DEF k, again
<1>7. HeldInv(crypter')
  BY <1>3, <1>4, <1>5, <1>6 DEF HeldInv
<1>. QED
  BY <1>2, <1>7 DEF CrypterInv, NoSlice

LEMMA CrypterInitInv ==
  ASSUME CrypterAssumption, CrypterInit PROVE CrypterInv
BY NewInv DEF CrypterInit, CrypterInv, NoSlice

LEMMA CrypterStep ==
  ASSUME CrypterAssumption, CrypterInv, [CrypterNext]_crypterVars PROVE CrypterInv'
<1>1. CASE UNCHANGED crypterVars
  BY <1>1 DEF crypterVars, CrypterInv
<1>2. CASE Again
  BY <1>2, NewInv DEF Again, CrypterInv, NoSlice
<1>3. ASSUME NEW p \in BOOLEAN, pad(p) PROVE CrypterInv'
  BY <1>3, PadInv
<1>4. ASSUME NEW len \in 0 .. MaxOut, finalize(len) PROVE CrypterInv'
  BY <1>4, FinalizeInv DEF CrypterAssumption
<1>5. ASSUME NEW len \in 0 .. MaxOut, NEW n \in 0 .. MaxData, update(n, len) PROVE CrypterInv'
  <2>1. len \in Nat /\ n \in Nat
    BY DEF CrypterAssumption
  <2>. QED
    BY <1>5, <2>1, UpdateInv
<1>. QED
  BY <1>1, <1>2, <1>3, <1>4, <1>5 DEF CrypterNext

\* symm::cipher sizes its buffer for update and finalize together.
LEMMA OneShot ==
  ASSUME CrypterAssumption, CrypterInv PROVE cipher(New(crypter.mode, crypter.block), call.len)
<1>. DEFINE c == New(crypter.mode, crypter.block)
            n == call.len
            u == CipherUpdate(c, n)
<1>1. n \in Nat /\ crypter.mode \in Modes /\ crypter.block \in BlockSizes
  BY DEF CrypterInv, HeldInv, CipherCtx
<1>2. /\ HeldInv(c) /\ c.buf = 0 /\ ~c.held /\ c.switches = 0 /\ c.block \in Nat \ {0}
  BY <1>1, NewInv, CtxIs DEF New, HeldInv, CrypterAssumption
<1>. HIDE DEF c, n
<1>3. /\ u.ctx \in CipherCtx /\ u.ctx.block = c.block /\ u.wrote \in Nat /\ u.outl \in Int
      /\ u.wrote <= n /\ u.outl <= n
  BY <1>1, <1>2, CipherUpdateDoes
<1>. HIDE DEF u
<1>4. \A w \in FinalWrites(u.ctx) : w \in Nat /\ w <= c.block
  BY <1>3, FinalWritesFit
<1>5. cipher(c, n)
  BY <1>1, <1>2, <1>3, <1>4 DEF cipher, OutLen, UpdateFits, FinalFits, u
<1>. QED
  BY <1>5 DEF c, n

\* OpenSSL writes only inside the slice the caller gave, for every block size, in any
\* sequence of pad, update and finalize, failing ones included, when it encrypts, and
\* when it decrypts and padding has been changed once at most since there was data; and
\* the buffer of encrypt and decrypt is large enough (symm.rs, the assertions of update
\* and finalize).
THEOREM CrypterNoOverrun == CrypterSpec => []NoOverrun
<1>. USE CrypterAssumption
<1>1. CrypterInv => NoOverrun
  BY OneShot DEF CrypterInv, NoOverrun
<1>. QED
  BY <1>1, CrypterInitInv, CrypterStep, PTL DEF CrypterSpec

-----------------------------------------------------------------------------
(***************************************************************************)
(* Hasher and Signer, which implement Digest.                              *)
(***************************************************************************)

\* The arrays of the model have their domains.
HasherFields ==
  /\ hstate = [h \in Hashers |-> hstate[h]]
  /\ hctx = [h \in Hashers |-> hctx[h]]
  /\ hlast = [h \in Hashers |-> hlast[h]]

LEMMA HasherFieldsStep == ASSUME HasherFields, [HasherNext]_hasherVars PROVE HasherFields'
<1>1. CASE UNCHANGED hasherVars
  BY <1>1 DEF hasherVars, HasherFields
<1>2. ASSUME NEW h \in Hashers, HasherNew(h) \/ InitFails(h) \/ finish2(h) \/ HasherDrop(h)
      PROVE  HasherFields'
  BY <1>2 DEF HasherFields, HasherNew, InitFails, finish2, HasherDrop
<1>3. ASSUME NEW h \in Hashers, NEW c \in Chunks, HasherUpdate(h, c) PROVE HasherFields'
  BY <1>3 DEF HasherFields, HasherUpdate
<1>4. ASSUME NEW h \in Hashers, NEW g \in Hashers, HasherClone(h, g) PROVE HasherFields'
  BY <1>4 DEF HasherFields, HasherClone
<1>. QED
  BY <1>1, <1>2, <1>3, <1>4 DEF HasherNext

\* Every step is one of the digest, or none.
LEMMA HasherRefines ==
  ASSUME ~FinalFails, HasherFields, [HasherNext]_hasherVars
  PROVE  [HasherAbs!Next]_(HasherAbs!absVars)
<1>. USE DEF HasherAbs!Next, HasherAbs!absVars
<1>1. CASE UNCHANGED hasherVars
  BY <1>1 DEF hasherVars, Written
<1>0. /\ \A h \in Hashers : Written[h] = IF hstate[h] \in {"Dead", "Finalized"} THEN <<>> ELSE hctx[h]
      /\ \A h \in Hashers : Written'[h] = IF hstate'[h] \in {"Dead", "Finalized"} THEN <<>> ELSE hctx'[h]
  BY DEF Written
<1>2. ASSUME NEW h \in Hashers, HasherNew(h) \/ InitFails(h) \/ HasherDrop(h)
      PROVE  HasherAbs!New(h)
  <2>1. hlast' = [hlast EXCEPT ![h] = <<"no result">>]
    BY <1>2 DEF HasherNew, InitFails, HasherDrop, NoDigest
  <2>2. Written' = [Written EXCEPT ![h] = <<>>]
    BY <1>2 DEF HasherNew, InitFails, HasherDrop, Written, HasherFields
  <2>. QED
    BY <2>1, <2>2 DEF HasherAbs!New, HasherAbs!NoResult
<1>3. ASSUME NEW h \in Hashers, finish2(h) PROVE HasherAbs!Finish(h)
  <2>1. hlast' = [hlast EXCEPT ![h] = InitOf(h)] /\ hstate' = [hstate EXCEPT ![h] = "Finalized"]
        /\ hctx' = [hctx EXCEPT ![h] = Junk] /\ hstate[h] # "Dead"
    BY <1>3 DEF finish2
  <2>2. Written[h] = InitOf(h)
    BY <2>1 DEF Written, InitOf
  <2>3. Written' = [Written EXCEPT ![h] = <<>>]
    BY <2>1 DEF Written, HasherFields
  <2>. QED
    BY <2>1, <2>2, <2>3 DEF HasherAbs!Finish
<1>4. ASSUME NEW h \in Hashers, NEW c \in Chunks, HasherUpdate(h, c) PROVE HasherAbs!Write(h, c)
  <2>1. hlast' = [hlast EXCEPT ![h] = <<"no result">>] /\ hstate[h] # "Dead"
    BY <1>4 DEF HasherUpdate, NoDigest
  <2>2. Written[h] = InitOf(h)
    BY <2>1 DEF Written, InitOf
  <2>3. PICK d \in {InitOf(h), Append(InitOf(h), c)}, r \in {"Updated", ReadyState(h)} :
          hctx' = [hctx EXCEPT ![h] = d] /\ hstate' = [hstate EXCEPT ![h] = r]
    BY <1>4 DEF HasherUpdate, UpdateFailed
  <2>4. r \notin {"Dead", "Finalized"}
    BY <2>1 DEF ReadyState
  <2>5. Written' = [Written EXCEPT ![h] = d]
    BY <2>3, <2>4 DEF Written, HasherFields
  <2>6. Written = [Written EXCEPT ![h] = InitOf(h)]
    BY <2>2 DEF Written
  <2>. QED
    BY <2>1, <2>2, <2>5, <2>6 DEF HasherAbs!Write, HasherAbs!NoResult
<1>5. ASSUME NEW h \in Hashers, NEW g \in Hashers, HasherClone(h, g) PROVE HasherAbs!Clone(h, g)
  <2>1. hlast' = [hlast EXCEPT ![g] = <<"no result">>]
    BY <1>5 DEF HasherClone, NoDigest
  <2>2. Written' = [Written EXCEPT ![g] = Written[h]]
    BY <1>5 DEF HasherClone, Written, HasherFields
  <2>. QED
    BY <2>1, <2>2 DEF HasherAbs!Clone, HasherAbs!NoResult
<1>. QED
  BY <1>1, <1>2, <1>3, <1>4, <1>5 DEF HasherNext

\* A Hasher implements the digest: what finish returns is the digest of all that was
\* written since the last one, through clones, failed writes and reuse after finish
\* (hash.rs), provided EVP_DigestFinal_ex does not fail; a failure leaves the state
\* that finish2 took for finalized.
THEOREM HasherImplementsDigest ==
  ASSUME ~FinalFails PROVE HasherSpec => HashesWhatWasWritten
<1>1. HasherInit => HasherFields /\ HasherAbs!Init
  BY DEF HasherInit, HasherFields, HasherAbs!Init, Written, NoDigest, HasherAbs!NoResult
<1>. QED
  BY <1>1, HasherFieldsStep, HasherRefines, PTL DEF HasherSpec, HashesWhatWasWritten, HasherAbs!Spec

\* The signature has its own length, and nothing stays in the error queue.
SignerInv ==
  /\ sctx = [o \in Objects |-> sctx[o]] /\ slast = [o \in Objects |-> slast[o]]
  /\ \A o \in Objects : o \notin made => sctx[o] = <<>>
  /\ sig.len = sig.size
  /\ ~squeue

LEMMA SignerStepInv == ASSUME SignerInv, [SignerNext]_signerVars PROVE SignerInv'
<1>1. CASE UNCHANGED signerVars
  BY <1>1 DEF signerVars, SignerInv
<1>2. ASSUME NEW o \in Objects, SignerNew(o) PROVE SignerInv'
  BY <1>2 DEF SignerInv, SignerNew, SignerFails
<1>3. ASSUME NEW o \in Objects, SignerDrop(o) PROVE SignerInv'
  BY <1>3 DEF SignerInv, SignerDrop
<1>4. ASSUME NEW o \in Objects, SignerFinish(o) PROVE SignerInv'
  BY <1>4 DEF SignerInv, SignerFinish, SignerFails, Truncated
<1>5. ASSUME NEW o \in Objects, VerifierFinish(o) PROVE SignerInv'
  BY <1>5 DEF SignerInv, VerifierFinish, SignerFails, Discard
<1>6. ASSUME NEW o \in Objects, NEW c \in Pieces, SignerUpdate(o, c) PROVE SignerInv'
  BY <1>6 DEF SignerInv, SignerUpdate, SignerFails
<1>. QED
  BY <1>1, <1>2, <1>3, <1>4, <1>5, <1>6 DEF SignerNext

\* Every step is one of the digest, or none.
LEMMA SignerRefines ==
  ASSUME SignerInv, [SignerNext]_signerVars PROVE [SignerAbs!Next]_(SignerAbs!absVars)
<1>. USE DEF SignerAbs!Next, SignerAbs!absVars
<1>1. CASE UNCHANGED signerVars
  BY <1>1 DEF signerVars
\* A call that fails gives no result and, as far as the context goes, adds nothing.
<1>2. ASSUME NEW o \in Objects, UNCHANGED sctx, slast' = [slast EXCEPT ![o] = Unsigned]
      PROVE  SignerAbs!Next
  <2>1. PICK c \in Pieces : TRUE
    BY SignerAssumption
  <2>2. SignerAbs!Write(o, c)
    BY <1>2 DEF SignerAbs!Write, SignerAbs!NoResult, Unsigned
  <2>. QED
    BY <2>2
<1>3. ASSUME NEW o \in Objects, UNCHANGED sctx, slast' = [slast EXCEPT ![o] = sctx[o]]
      PROVE  SignerAbs!Next
  <2>1. SignerAbs!Finish(o)
    BY <1>3 DEF SignerAbs!Finish
  <2>. QED
    BY <2>1
<1>4. ASSUME NEW o \in Objects, SignerNew(o) PROVE [SignerAbs!Next]_(SignerAbs!absVars)
  BY <1>4, <1>2 DEF SignerNew, SignerFails
<1>5. ASSUME NEW o \in Objects, SignerDrop(o) PROVE SignerAbs!Next
  <2>1. SignerAbs!New(o)
    BY <1>5 DEF SignerDrop, SignerAbs!New, SignerAbs!NoResult, Unsigned
  <2>. QED
    BY <2>1
<1>6. ASSUME NEW o \in Objects, SignerFinish(o) PROVE SignerAbs!Next
  BY <1>6, <1>2, <1>3 DEF SignerFinish, SignerFails
<1>7. ASSUME NEW o \in Objects, VerifierFinish(o) PROVE SignerAbs!Next
  BY <1>7, <1>2, <1>3 DEF VerifierFinish, SignerFails, Verifies
<1>8. ASSUME NEW o \in Objects, NEW c \in Pieces, SignerUpdate(o, c) PROVE SignerAbs!Next
  <2>1. SignerAbs!Write(o, c)
    BY <1>8 DEF SignerUpdate, SignerFails, SignerAbs!Write, SignerAbs!NoResult, Unsigned
  <2>. QED
    BY <2>1
<1>. QED
  BY <1>1, <1>4, <1>5, <1>6, <1>7, <1>8 DEF SignerNext

\* A Signer signs and a Verifier checks all that was written to it, finish changes
\* nothing of it, a signature verifies exactly for the same bytes, and a call leaves
\* no error behind in the queue (sign.rs).
THEOREM SignerRoundTrip == SignerSpec => SignatureRoundTrip
<1>1. SignerInit => SignerInv /\ SignerAbs!Init
  <2>. SUFFICES ASSUME SignerInit PROVE SignerInv /\ SignerAbs!Init
    OBVIOUS
  <2>1. /\ sctx = [o \in Objects |-> <<>>] /\ slast = [o \in Objects |-> Unsigned]
        /\ sig.len = sig.size /\ ~squeue
    BY DEF SignerInit, NoSig
  <2>2. SignerInv
    BY <2>1 DEF SignerInv
  <2>3. SignerAbs!Init
    BY <2>1 DEF SignerAbs!Init, Unsigned, SignerAbs!NoResult
  <2>. QED
    BY <2>2, <2>3
<1>2. SignerInv => ~squeue
  BY DEF SignerInv
<1>3. SignerInv => VerifiesRight
  BY DEF SignerInv, VerifiesRight, VerifierFinish, Verifies
<1>. QED
  BY <1>1, <1>2, <1>3, SignerStepInv, SignerRefines, PTL
     DEF SignerSpec, SignatureRoundTrip, SignsWhatWasWritten, SignerAbs!Spec

-----------------------------------------------------------------------------
(***************************************************************************)
(* CertExtensions.  The invariant: the map is the inverse of the types in the *)
(* vector, each element is the last of its type, and the elements stand in *)
(* the order of their first adds.                                          *)
(***************************************************************************)

\* i is the first add of type t, or the last.
IsFirst(h, t, i) ==
  i \in 1 .. Len(h) /\ h[i].type = t /\ \A j \in 1 .. (i - 1) : h[j].type # t
IsLast(h, t, i) ==
  i \in 1 .. Len(h) /\ h[i].type = t /\ \A j \in (i + 1) .. Len(h) : h[j].type # t

\* There is one first add and one last add.
LEMMA FirstIs ==
  ASSUME NEW h \in Seq(Exts), NEW t, NEW i, IsFirst(h, t, i)
  PROVE  FirstAdd(h, t) = i
<1>1. DOMAIN h = 1 .. Len(h) /\ Len(h) \in Nat
  OBVIOUS
<1>2. \A j \in 1 .. Len(h) : IsFirst(h, t, j) => j = i
  BY <1>1 DEF IsFirst
<1>3. i \in DOMAIN h /\ h[i].type = t /\ \A j \in 1 .. (i - 1) : h[j].type # t
  BY <1>1 DEF IsFirst
<1>4. \A j \in DOMAIN h : (h[j].type = t /\ \A k \in 1 .. (j - 1) : h[k].type # t) => j = i
  BY <1>1, <1>2 DEF IsFirst
<1>. QED
  BY <1>3, <1>4 DEF FirstAdd

LEMMA LastIs ==
  ASSUME NEW h \in Seq(Exts), NEW t, NEW i, IsLast(h, t, i)
  PROVE  LastAdd(h, t) = i
<1>1. DOMAIN h = 1 .. Len(h) /\ Len(h) \in Nat
  OBVIOUS
<1>2. \A j \in 1 .. Len(h) : IsLast(h, t, j) => j = i
  BY <1>1 DEF IsLast
<1>3. i \in DOMAIN h /\ h[i].type = t /\ \A j \in (i + 1) .. Len(h) : h[j].type # t
  BY <1>1 DEF IsLast
<1>4. \A j \in DOMAIN h : (h[j].type = t /\ \A k \in (j + 1) .. Len(h) : h[k].type # t) => j = i
  BY <1>1, <1>2 DEF IsLast
<1>. QED
  BY <1>3, <1>4 DEF LastAdd

\* One more add.
More(h, e, g) ==
  /\ g \in Seq(Exts) /\ Len(g) = Len(h) + 1 /\ Len(h) \in Nat
  /\ g[Len(h) + 1] = e /\ \A i \in 1 .. Len(h) : g[i] = h[i]
  /\ TypesIn(g) = TypesIn(h) \union {e.type}

\* It adds one element and perhaps one type.
LEMMA OneMore ==
  ASSUME NEW h \in Seq(Exts), NEW e \in Exts, NEW g, g = Append(h, e)
  PROVE  More(h, e, g)
<1>. DEFINE n == Len(h)
<1>1. /\ g \in Seq(Exts) /\ Len(g) = n + 1 /\ n \in Nat
      /\ g[n + 1] = e /\ \A i \in 1 .. n : g[i] = h[i]
  OBVIOUS
<1>2. DOMAIN g = 1 .. n + 1 /\ DOMAIN h = 1 .. n
  BY <1>1
<1>3. TypesIn(g) = {g[i].type : i \in 1 .. n} \union {e.type}
  BY <1>1, <1>2 DEF TypesIn
<1>4. {g[i].type : i \in 1 .. n} = TypesIn(h)
  BY <1>1, <1>2 DEF TypesIn
<1>. QED
  BY <1>1, <1>3, <1>4 DEF More

\* The first add of a type stays the first.
LEMMA FirstStays ==
  ASSUME NEW h \in Seq(Exts), NEW e \in Exts, NEW g, g = Append(h, e)
  PROVE  /\ \A t \in TypesIn(h) : \A i : IsFirst(g, t, i) <=> IsFirst(h, t, i)
         /\ e.type \notin TypesIn(h) => \A i : IsFirst(g, e.type, i) <=> i = Len(h) + 1
<1>. DEFINE n == Len(h)
<1>1. /\ Len(g) = n + 1 /\ n \in Nat
      /\ g[n + 1] = e /\ \A i \in 1 .. n : g[i] = h[i]
  BY OneMore DEF More
<1>2. DOMAIN h = 1 .. n
  OBVIOUS
<1>. HIDE DEF n
<1>3. ASSUME NEW t \in TypesIn(h), NEW i PROVE IsFirst(g, t, i) <=> IsFirst(h, t, i)
  <2>1. PICK k \in 1 .. n : h[k].type = t
    BY <1>2 DEF TypesIn
  <2>2. g[k].type = t /\ k \in 1 .. (n + 1) - 1
    BY <1>1, <2>1
  <2>3. IsFirst(g, t, i) => i \in 1 .. n
    BY <1>1, <2>2 DEF IsFirst
  <2>. QED
    BY <1>1, <2>3 DEF IsFirst, n
<1>4. ASSUME e.type \notin TypesIn(h), NEW i PROVE IsFirst(g, e.type, i) <=> i = n + 1
  <2>1. \A k \in 1 .. n : g[k].type # e.type
    BY <1>1, <1>2, <1>4 DEF TypesIn
  <2>. QED
    BY <1>1, <2>1 DEF IsFirst
<1>. QED
  BY <1>3, <1>4 DEF n

\* The new one is the last of its type, and of its type only.
LEMMA LastMoves ==
  ASSUME NEW h \in Seq(Exts), NEW e \in Exts, NEW g, g = Append(h, e)
  PROVE  /\ IsLast(g, e.type, Len(h) + 1)
         /\ \A t, i : t # e.type /\ IsLast(h, t, i) => IsLast(g, t, i)
<1>. DEFINE n == Len(h)
<1>1. /\ Len(g) = n + 1 /\ n \in Nat
      /\ g[n + 1] = e /\ \A i \in 1 .. n : g[i] = h[i]
  BY OneMore DEF More
<1>. HIDE DEF n
<1>2. IsLast(g, e.type, n + 1)
  BY <1>1 DEF IsLast
<1>3. ASSUME NEW t, NEW i, t # e.type, IsLast(h, t, i) PROVE IsLast(g, t, i)
  <2>1. i \in 1 .. n /\ h[i].type = t /\ \A j \in (i + 1) .. n : h[j].type # t
    BY <1>3 DEF IsLast, n
  <2>2. ASSUME NEW j \in (i + 1) .. n + 1 PROVE g[j].type # t
    <3>1. CASE j = n + 1
      BY <1>1, <1>3, <3>1
    <3>2. CASE j # n + 1
      <4>1. j \in (i + 1) .. n /\ j \in 1 .. n
        BY <1>1, <2>1, <3>2
      <4>. QED
        BY <1>1, <2>1, <4>1
    <3>. QED
      BY <3>1, <3>2
  <2>. QED
    BY <1>1, <2>1, <2>2 DEF IsLast
<1>. QED
  BY <1>2, <1>3 DEF n

\* Vector x and map m after the adds h: the map is the inverse of the vector's types,
\* every element is the last of its type, and they stand as their types were first added.
InOrder(x, h) ==
  \A i, j \in 1 .. Len(x) : i < j =>
    \A k, l : IsFirst(h, x[i].type, k) /\ IsFirst(h, x[j].type, l) => k < l
Filed(x, m, h) ==
  /\ x \in Seq(Exts) /\ h \in Seq(Exts)
  /\ DOMAIN m = TypesIn(h)
  /\ \A t \in TypesIn(h) : m[t] \in 1 .. Len(x) /\ x[m[t]].type = t
  /\ \A i \in 1 .. Len(x) : x[i].type \in TypesIn(h) /\ m[x[i].type] = i
  /\ \A i \in 1 .. Len(x) : \E k : IsLast(h, x[i].type, k) /\ x[i] = h[k]
  /\ \A i \in 1 .. Len(x) : \E k : IsFirst(h, x[i].type, k)
  /\ InOrder(x, h)

\* Extensions::add of a type that is there: the element is replaced.
LEMMA FiledAgain ==
  ASSUME NEW x, NEW m, NEW h, Filed(x, m, h), NEW e \in Exts, e.type \in DOMAIN m
  PROVE  Filed([x EXCEPT ![m[e.type]] = e], m, Append(h, e))
<1>. DEFINE g == Append(h, e)
            p == m[e.type]
            y == [x EXCEPT ![p] = e]
<1>1. x \in Seq(Exts) /\ h \in Seq(Exts) /\ DOMAIN m = TypesIn(h) /\ e.type \in TypesIn(h)
  BY DEF Filed
<1>2. p \in 1 .. Len(x) /\ x[p].type = e.type
  BY <1>1 DEF Filed
<1>3. g \in Seq(Exts) /\ TypesIn(g) = TypesIn(h) /\ g[Len(h) + 1] = e
  <2>1. More(h, e, g)
    BY <1>1, OneMore
  <2>. QED
    BY <1>1, <2>1 DEF More
<1>4. /\ y \in Seq(Exts) /\ Len(y) = Len(x) /\ y[p] = e
      /\ \A i \in 1 .. Len(x) : i # p => y[i] = x[i]
  BY <1>1, <1>2
<1>. HIDE DEF g, p, y
<1>5. \A i \in 1 .. Len(x) : y[i].type = x[i].type
  BY <1>2, <1>4
<1>6. \A t \in TypesIn(g) : m[t] \in 1 .. Len(y) /\ y[m[t]].type = t
  BY <1>3, <1>4, <1>5 DEF Filed
<1>7. \A i \in 1 .. Len(y) : y[i].type \in TypesIn(g) /\ m[y[i].type] = i
  BY <1>3, <1>4, <1>5 DEF Filed
<1>8. ASSUME NEW i \in 1 .. Len(y) PROVE \E k : IsLast(g, y[i].type, k) /\ y[i] = g[k]
  <2>1. CASE i = p
    <3>1. IsLast(g, e.type, Len(h) + 1)
      BY <1>1, LastMoves DEF g
    <3>. QED
      BY <1>3, <1>4, <2>1, <3>1
  <2>2. CASE i # p
    <3>1. y[i] = x[i] /\ i \in 1 .. Len(x)
      BY <1>4, <2>2
    <3>2. PICK k : IsLast(h, x[i].type, k) /\ x[i] = h[k]
      BY <3>1 DEF Filed
    <3>3. x[i].type # e.type
      BY <2>2, <3>1 DEF Filed, p
    <3>4. IsLast(g, x[i].type, k)
      BY <1>1, <3>2, <3>3, LastMoves DEF g
    <3>5. g[k] = h[k]
      BY <1>1, <3>2, OneMore DEF g, IsLast, More
    <3>. QED
      BY <3>1, <3>2, <3>4, <3>5
  <2>. QED
    BY <2>1, <2>2
<1>9. \A t \in TypesIn(h) : \A k : IsFirst(g, t, k) <=> IsFirst(h, t, k)
  BY <1>1, FirstStays DEF g
<1>10. \A i \in 1 .. Len(y) : \E k : IsFirst(g, y[i].type, k)
  BY <1>4, <1>5, <1>9 DEF Filed
<1>11. InOrder(y, g)
  <2>1. \A i \in 1 .. Len(x) : x[i].type \in TypesIn(h)
    BY DEF Filed
  <2>2. InOrder(x, h)
    BY DEF Filed
  <2>. QED
    BY <1>4, <1>5, <1>9, <2>1, <2>2 DEF InOrder
<1>12. Filed(y, m, g)
  BY <1>1, <1>3, <1>4, <1>6, <1>7, <1>8, <1>10, <1>11 DEF Filed
<1>. QED
  BY <1>12 DEF g, p, y

\* Extensions::add of a new type: the element is pushed and its index recorded.
LEMMA FiledFirst ==
  ASSUME NEW x, NEW m, NEW h, Filed(x, m, h), NEW e \in Exts, e.type \notin DOMAIN m
  PROVE  Filed(Append(x, e), [t \in DOMAIN m \union {e.type} |->
                                IF t = e.type THEN Len(Append(x, e)) ELSE m[t]], Append(h, e))
<1>. DEFINE g == Append(h, e)
            y == Append(x, e)
            n == Len(x)
            o == [t \in DOMAIN m \union {e.type} |-> IF t = e.type THEN Len(y) ELSE m[t]]
<1>1. x \in Seq(Exts) /\ h \in Seq(Exts) /\ DOMAIN m = TypesIn(h) /\ e.type \notin TypesIn(h)
  BY DEF Filed
<1>2. /\ g \in Seq(Exts) /\ TypesIn(g) = TypesIn(h) \union {e.type} /\ g[Len(h) + 1] = e
      /\ \A i \in 1 .. Len(h) : g[i] = h[i]
  <2>1. More(h, e, g)
    BY <1>1, OneMore
  <2>. QED
    BY <2>1 DEF More
<1>3. /\ y \in Seq(Exts) /\ Len(y) = n + 1 /\ n \in Nat /\ y[n + 1] = e
      /\ \A i \in 1 .. n : y[i] = x[i]
  BY <1>1, OneMore DEF More
<1>. HIDE DEF g, y
<1>4. DOMAIN o = TypesIn(g) /\ o[e.type] = n + 1 /\ \A t \in TypesIn(h) : o[t] = m[t]
  BY <1>1, <1>2, <1>3
<1>. HIDE DEF o
<1>5. /\ \A t \in TypesIn(h) : m[t] \in 1 .. n /\ x[m[t]].type = t
      /\ \A i \in 1 .. n : x[i].type \in TypesIn(h) /\ m[x[i].type] = i
      /\ \A i \in 1 .. n : \E k : IsLast(h, x[i].type, k) /\ x[i] = h[k]
      /\ \A i \in 1 .. n : \E k : IsFirst(h, x[i].type, k)
  BY DEF Filed
<1>6. \A i \in 1 .. n : \A j, l \in 1 .. n : i < j => \A a, b :
        IsFirst(h, x[i].type, a) /\ IsFirst(h, x[j].type, b) => a < b
  BY DEF Filed, InOrder
<1>. HIDE DEF n
<1>7. \A i \in 1 .. n + 1 : i \in 1 .. n \/ i = n + 1
  BY <1>3
<1>8. \A t \in TypesIn(g) : o[t] \in 1 .. n + 1 /\ y[o[t]].type = t
  <2>1. ASSUME NEW t \in TypesIn(h) PROVE o[t] \in 1 .. n + 1 /\ y[o[t]].type = t
    <3>1. o[t] \in 1 .. n /\ x[o[t]].type = t
      BY <1>4, <1>5
    <3>. QED
      BY <1>3, <3>1
  <2>2. o[e.type] \in 1 .. n + 1 /\ y[o[e.type]].type = e.type
    BY <1>3, <1>4
  <2>. QED
    BY <1>2, <2>1, <2>2
<1>9. \A i \in 1 .. n + 1 : y[i].type \in TypesIn(g) /\ o[y[i].type] = i
  <2>1. ASSUME NEW i \in 1 .. n PROVE y[i].type \in TypesIn(g) /\ o[y[i].type] = i
    BY <1>2, <1>3, <1>4, <1>5
  <2>. QED
    BY <1>2, <1>3, <1>4, <1>7, <2>1
<1>10. \A i \in 1 .. n + 1 : \E k : IsLast(g, y[i].type, k) /\ y[i] = g[k]
  <2>1. ASSUME NEW i \in 1 .. n PROVE \E k : IsLast(g, y[i].type, k) /\ y[i] = g[k]
    <3>1. PICK k : IsLast(h, x[i].type, k) /\ x[i] = h[k]
      BY <1>5
    <3>2. x[i].type # e.type
      BY <1>1, <1>5
    <3>3. IsLast(g, x[i].type, k)
      BY <1>1, <3>1, <3>2, LastMoves DEF g
    <3>4. g[k] = h[k] /\ y[i] = x[i]
      BY <1>2, <1>3, <3>1 DEF IsLast
    <3>. QED
      BY <3>1, <3>3, <3>4
  <2>2. IsLast(g, e.type, Len(h) + 1)
    BY <1>1, LastMoves DEF g
  <2>. QED
    BY <1>2, <1>3, <1>7, <2>1, <2>2
<1>11. /\ \A t \in TypesIn(h) : \A k : IsFirst(g, t, k) <=> IsFirst(h, t, k)
       /\ \A k : IsFirst(g, e.type, k) <=> k = Len(h) + 1
  BY <1>1, FirstStays DEF g
<1>12. \A i \in 1 .. n + 1 : \E k : IsFirst(g, y[i].type, k)
  BY <1>3, <1>5, <1>7, <1>11
<1>13. InOrder(y, g)
  <2>. SUFFICES ASSUME NEW i \in 1 .. n + 1, NEW j \in 1 .. n + 1, i < j, NEW a, NEW b,
                       IsFirst(g, y[i].type, a), IsFirst(g, y[j].type, b)
                PROVE  a < b
    BY <1>3 DEF InOrder
  <2>1. i \in 1 .. n /\ y[i] = x[i] /\ x[i].type \in TypesIn(h)
    BY <1>3, <1>5
  <2>2. IsFirst(h, x[i].type, a)
    BY <1>11, <2>1
  <2>3. CASE j \in 1 .. n
    <3>1. y[j] = x[j] /\ x[j].type \in TypesIn(h)
      BY <1>3, <1>5, <2>3
    <3>2. IsFirst(h, x[j].type, b)
      BY <1>11, <3>1
    <3>. QED
      BY <1>6, <2>1, <2>2, <2>3, <3>2
  <2>4. CASE j = n + 1
    <3>1. b = Len(h) + 1
      BY <1>3, <1>11, <2>4
    <3>2. a \in 1 .. Len(h) /\ Len(h) \in Nat
      BY <1>1, <2>2 DEF IsFirst
    <3>. QED
      BY <3>1, <3>2
  <2>. QED
    BY <1>7, <2>3, <2>4
<1>14. Filed(y, o, g)
  BY <1>2, <1>3, <1>4, <1>8, <1>9, <1>10, <1>12, <1>13 DEF Filed
<1>. QED
  BY <1>14 DEF g, y, o

\* The generator, and the certificate it has signed.
CertInv ==
  /\ asked \in [exts : Seq(Exts), names : Seq(Attrs)]
  /\ names = asked.names
  /\ Filed(extensions, indexes, asked.exts)
  /\ SignedAsAsked

\* The actions that change something.
LEMMA AddExtensionInv ==
  ASSUME CertInv, NEW e \in Exts, add_extension(e) PROVE CertInv'
<1>. DEFINE h == asked.exts
            x == extensions
            m == indexes
<1>1. /\ asked' \in [exts : Seq(Exts), names : Seq(Attrs)]
      /\ asked'.exts = Append(h, e) /\ names' = asked'.names /\ cert' = cert
  BY DEF CertInv, add_extension
<1>2. Filed(x, m, h)
  BY DEF CertInv
<1>3. Filed(extensions', indexes', asked'.exts)
  <2>1. CASE e.type \in DOMAIN m
    <3>1. extensions' = [x EXCEPT ![m[e.type]] = e] /\ indexes' = m
      BY <2>1 DEF add_extension
    <3>2. Filed([x EXCEPT ![m[e.type]] = e], m, Append(h, e))
      <4>. HIDE DEF x, m, h
      <4>. QED
        BY <1>2, <2>1, FiledAgain
    <3>. QED
      BY <1>1, <3>1, <3>2
  <2>2. CASE e.type \notin DOMAIN m
    <3>. DEFINE y == Append(x, e)
    <3>1. /\ extensions' = y
          /\ indexes' = [t \in DOMAIN m \union {e.type} |-> IF t = e.type THEN Len(y) ELSE m[t]]
      BY <2>2 DEF add_extension, InsertedAt
    <3>2. Filed(y, [t \in DOMAIN m \union {e.type} |-> IF t = e.type THEN Len(y) ELSE m[t]],
                Append(h, e))
      <4>. HIDE DEF x, m, h
      <4>. QED
        BY <1>2, <2>2, FiledFirst
    <3>. QED
      BY <1>1, <3>1, <3>2
  <2>. QED
    BY <2>1, <2>2
<1>4. SignedAsAsked'
  BY <1>1 DEF CertInv, SignedAsAsked
<1>. QED
  BY <1>1, <1>3, <1>4 DEF CertInv

LEMMA SignInv ==
  ASSUME CertInv, sign PROVE CertInv'
<1>. DEFINE h == asked.exts
            x == extensions
<1>1. /\ UNCHANGED <<extensions, indexes, names, asked>> /\ Filed(x, indexes, h)
      /\ names = asked.names
  BY DEF CertInv, sign
<1>2. SignedAsAsked'
  <2>1. CASE cert' = NoCert
    BY <2>1 DEF SignedAsAsked
  <2>2. CASE cert' # NoCert
    <3>1. cert' = [names |-> IF names = <<>> THEN <<Default>> ELSE names,
                   extensions |-> iter(x), asked |-> asked]
      BY <2>2 DEF sign
    <3>. DEFINE order == [i \in 1 .. Len(x) |-> x[i].type]
    <3>2. x \in Seq(Exts) /\ h \in Seq(Exts) /\ Len(x) \in Nat /\ DOMAIN x = 1 .. Len(x)
      BY <1>1 DEF Filed
    <3>3. /\ DOMAIN iter(x) = 1 .. Len(x) /\ Len(iter(x)) = Len(x)
          /\ \A i \in 1 .. Len(x) :
               iter(x)[i] = [object |-> Object(x[i].type), value |-> x[i].value]
      <4>1. iter(x) = [i \in 1 .. Len(x) |-> [object |-> Object(x[i].type), value |-> x[i].value]]
        BY <3>2 DEF iter
      <4>. HIDE DEF x
      <4>. QED
        BY <3>2, <4>1
    <3>4. order \in [1 .. Len(x) -> TypesIn(h)] /\ DOMAIN order = 1 .. Len(x)
          /\ \A i \in 1 .. Len(x) : order[i] = x[i].type
      BY <1>1 DEF Filed
    <3>. HIDE DEF order
    <3>5. ASSUME NEW t \in TypesIn(h) PROVE \E i \in DOMAIN order : order[i] = t
      <4>1. indexes[t] \in 1 .. Len(x) /\ x[indexes[t]].type = t
        BY <1>1 DEF Filed
      <4>. QED
        BY <3>4, <4>1
    <3>6. ASSUME NEW i \in DOMAIN order, NEW j \in DOMAIN order, i < j
          PROVE  FirstAdd(h, order[i]) < FirstAdd(h, order[j])
      <4>1. PICK k : IsFirst(h, x[i].type, k)
        BY <1>1, <3>4 DEF Filed
      <4>2. PICK l : IsFirst(h, x[j].type, l)
        BY <1>1, <3>4 DEF Filed
      <4>3. FirstAdd(h, x[i].type) = k /\ FirstAdd(h, x[j].type) = l
        BY <3>2, <4>1, <4>2, FirstIs
      <4>4. k < l
        BY <1>1, <3>4, <3>6, <4>1, <4>2 DEF Filed, InOrder
      <4>. QED
        BY <3>4, <4>3, <4>4
    <3>7. ASSUME NEW i \in DOMAIN order
          PROVE  iter(x)[i] = [object |-> Object(order[i]), value |-> h[LastAdd(h, order[i])].value]
      <4>1. PICK k : IsLast(h, x[i].type, k) /\ x[i] = h[k]
        BY <1>1, <3>4 DEF Filed
      <4>2. LastAdd(h, x[i].type) = k
        BY <3>2, <4>1, LastIs
      <4>. QED
        BY <3>3, <3>4, <4>1, <4>2
    <3>8. /\ cert'.extensions = iter(x) /\ cert'.asked.exts = h /\ cert'.asked.names = names
          /\ cert'.names = IF names = <<>> THEN <<Default>> ELSE names
      BY <1>1, <3>1
    <3>9. \E r \in [1 .. Len(iter(x)) -> TypesIn(h)] :
                   /\ \A t \in TypesIn(h) : \E i \in DOMAIN r : r[i] = t
                   /\ \A i, j \in DOMAIN r : i < j => FirstAdd(h, r[i]) < FirstAdd(h, r[j])
                   /\ \A i \in DOMAIN r :
                          iter(x)[i] = [object |-> Object(r[i]), value |-> h[LastAdd(h, r[i])].value]
      <4>1. order \in [1 .. Len(iter(x)) -> TypesIn(h)]
        BY <3>3, <3>4
      <4>. QED
        BY <3>5, <3>6, <3>7, <4>1
    <3>. QED
      BY <3>8, <3>9 DEF SignedAsAsked, AsAsked
  <2>. QED
    BY <2>1, <2>2
<1>. QED
  BY <1>1, <1>2 DEF CertInv

\* For any sequence of adds and signatures: a certificate carries one extension for each
\* ExtensionType added before it was signed, with the value added last and in the order of the
\* first adds, and the names in their order (x509/mod.rs, Extensions and X509Generator).
THEOREM CertificateSignedAsAsked == CertSpec => []SignedAsAsked
<1>1. CertInit => CertInv
  BY DEF CertInit, CertInv, Filed, InOrder, TypesIn, SignedAsAsked
<1>2. ASSUME CertInv, [CertNext]_certVars PROVE CertInv'
  <2>1. ASSUME NEW a \in Attrs, add_name(a) PROVE CertInv'
    <3>1. /\ asked' = [asked EXCEPT !.names = Append(@, a)] /\ names' = Append(names, a)
          /\ UNCHANGED <<extensions, indexes, cert>>
      BY <2>1 DEF add_name
    <3>2. /\ asked' \in [exts : Seq(Exts), names : Seq(Attrs)]
          /\ asked'.exts = asked.exts /\ names' = asked'.names
      BY <1>2, <3>1 DEF CertInv
    <3>. QED
      BY <1>2, <3>1, <3>2 DEF CertInv, SignedAsAsked
  <2>2. CASE UNCHANGED certVars
    BY <1>2, <2>2 DEF CertInv, certVars, SignedAsAsked
  <2>. QED
    BY <1>2, <2>1, <2>2, AddExtensionInv, SignInv DEF CertNext
<1>3. CertInv => SignedAsAsked
  BY DEF CertInv
<1>. QED
  BY <1>1, <1>2, <1>3, PTL DEF CertSpec
=============================================================================
