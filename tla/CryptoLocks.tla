----------------------------- MODULE CryptoLocks -----------------------------
(* Locks for OpenSSL 1.0.x (openssl-sys/src/ossl10x.rs): init, which hands   *)
(* OpenSSL a locking callback once, and the callback, which keeps a          *)
(* std::sync::Mutex and a slot for its guard per lock number.  The slots are *)
(* a plain static, written by whoever holds the mutex.  On top of it the     *)
(* threads of a program clone, send and drop handles of one object           *)
(* (SSL_CTX_up_ref, SSL_CTX_free), whose count OpenSSL changes under a lock. *)
EXTENDS Naturals

CONSTANTS Threads, Nobody,
          MaxHandles          \* bound: handles at a time

ASSUME CryptoLocksAssumption == /\ Threads \cap {Nobody, "new", "done"} = {}
                                /\ MaxHandles \in Nat \ {0}

VARIABLES once,      \* INIT: "new", the thread that runs it, or "done"
          locking,   \* whether OpenSSL has the locking callback
          mutex,     \* MUTEXES[n]: the thread that holds it
          slot,      \* GUARDS[n]: the thread whose guard is in the slot
          pc, amount, seen,   \* of each thread: inside CRYPTO_add_lock
          count,     \* the reference count of the object
          owned,     \* the handles of each thread, as far as they are counted
          object     \* "none", "alive", "freed" or "freed twice"

vars == <<once, locking, mutex, slot, pc, amount, seen, count, owned, object>>

objectVars == <<count, owned, object>>
lockVars == <<mutex, slot>>
addVars == <<amount, seen>>

TypeOK == /\ once \in {"new", "done"} \cup Threads
          /\ locking \in BOOLEAN
          /\ mutex \in Threads \cup {Nobody} /\ slot \in Threads \cup {Nobody}
          /\ pc \in [Threads -> {"init", "idle", "lock", "store", "read", "write", "take", "release",
                                 "result", "aborted"}]
          /\ amount \in [Threads -> {0, 1, 2}]
          /\ seen \in [Threads -> Nat] /\ count \in Nat /\ owned \in [Threads -> Nat]
          /\ object \in {"none", "alive", "freed", "freed twice"}

Goto(t, p) == pc' = [pc EXCEPT ![t] = p]

Init == /\ once = "new" /\ locking = FALSE
        /\ mutex = Nobody /\ slot = Nobody
        /\ pc = [t \in Threads |-> "init"]
        /\ amount = [t \in Threads |-> 0] /\ seen = [t \in Threads |-> 0]
        /\ owned = [t \in Threads |-> 0] /\ count = 0 /\ object = "none"

-----------------------------------------------------------------------------
(* init: call_once.                                                          *)

InitBegin(t) == /\ pc[t] = "init" /\ once = "new"
                /\ once' = t
                /\ UNCHANGED <<locking, lockVars, pc, addVars, objectVars>>

\* Mutexes and guards are in place before the callback is.
InitEnd(t) == /\ pc[t] = "init" /\ once = t
              /\ locking' = TRUE /\ once' = "done"
              /\ Goto(t, "idle")
              /\ UNCHANGED <<lockVars, addVars, objectVars>>

\* A mutant: who finds init under way goes on.
InitSkipRunning(t) == /\ pc[t] = "init" /\ once # "new" /\ once # t
                      /\ Goto(t, "idle")
                      /\ UNCHANGED <<once, locking, lockVars, addVars, objectVars>>

\* Who comes during call_once waits for its end.
InitSkip(t) == /\ pc[t] = "init" /\ once = "done"
               /\ Goto(t, "idle")
               /\ UNCHANGED <<once, locking, lockVars, addVars, objectVars>>

-----------------------------------------------------------------------------
(* The program: an SslContext, its clone and drop, and a handle moved to     *)
(* another thread.  amount is 2 for -1.                                      *)

new(t) == /\ pc[t] = "idle" /\ object = "none"
          /\ object' = "alive" /\ count' = 1
          /\ owned' = [owned EXCEPT ![t] = 1]
          /\ UNCHANGED <<once, locking, lockVars, pc, addVars>>

\* A mutant: the pointer is copied, the count is left alone.
clone_uncounted(t) == /\ pc[t] = "idle" /\ owned[t] > 0 /\ owned[t] < MaxHandles
                      /\ owned' = [owned EXCEPT ![t] = @ + 1]
                      /\ UNCHANGED <<once, locking, lockVars, pc, addVars, count, object>>

clone(t) == /\ pc[t] = "idle" /\ owned[t] > 0 /\ count < MaxHandles
            /\ amount' = [amount EXCEPT ![t] = 1]
            /\ Goto(t, "lock")
            /\ UNCHANGED <<once, locking, lockVars, seen, objectVars>>

drop(t) == /\ pc[t] = "idle" /\ owned[t] > 0
           /\ amount' = [amount EXCEPT ![t] = 2]
           /\ Goto(t, "lock")
           /\ UNCHANGED <<once, locking, lockVars, seen, objectVars>>

send(t, u) == /\ t # u /\ pc[t] = "idle" /\ owned[t] > 0
              /\ owned' = [owned EXCEPT ![t] = @ - 1, ![u] = @ + 1]
              /\ UNCHANGED <<once, locking, lockVars, pc, addVars, count, object>>

-----------------------------------------------------------------------------
(* locking_function.  Without the callback CRYPTO_lock does nothing.         *)

\* mutex.lock().unwrap()
Lock(t) == /\ pc[t] = "lock"
           /\ IF locking THEN /\ mutex = Nobody /\ mutex' = t
                              /\ Goto(t, "store")
                         ELSE Goto(t, "read") /\ UNCHANGED mutex
           /\ UNCHANGED <<once, locking, slot, addVars, objectVars>>

\* GUARDS[n] = Some(guard), which drops a guard that is there.
Store(t) == /\ pc[t] = "store"
            /\ slot' = t
            /\ mutex' = IF slot = Nobody THEN mutex ELSE Nobody
            /\ Goto(t, "read")
            /\ UNCHANGED <<once, locking, addVars, objectVars>>

\* GUARDS[n].take(): an empty slot aborts the process.
Take(t) == /\ pc[t] = "take"
           /\ slot' = Nobody
           /\ Goto(t, IF slot = Nobody THEN "aborted" ELSE "release")
           /\ UNCHANGED <<once, locking, mutex, addVars, objectVars>>

\* The guard that was taken is dropped.
Release(t) == /\ pc[t] = "release"
              /\ mutex' = Nobody
              /\ Goto(t, "result")
              /\ UNCHANGED <<once, locking, slot, addVars, objectVars>>

-----------------------------------------------------------------------------
(* OpenSSL, external: CRYPTO_add_lock reads and writes the count between the *)
(* two calls; SSL_CTX_free frees the object when it has written 0.           *)

Read(t) == /\ pc[t] = "read"
           /\ seen' = [seen EXCEPT ![t] = count]
           /\ Goto(t, "write")
           /\ UNCHANGED <<once, locking, lockVars, amount, objectVars>>

\* From here on the handle counts, or counts no longer.
Write(t) == LET n == IF amount[t] = 1 THEN seen[t] + 1 ELSE seen[t] - 1
            IN  /\ pc[t] = "write"
                /\ count' = n
                /\ seen' = [seen EXCEPT ![t] = n]
                /\ owned' = [owned EXCEPT ![t] = IF amount[t] = 1 THEN @ + 1 ELSE @ - 1]
                /\ Goto(t, IF locking THEN "take" ELSE "result")
                /\ UNCHANGED <<once, locking, lockVars, amount, object>>

Result(t) == /\ pc[t] = "result"
             /\ object' = IF amount[t] = 1 \/ seen[t] # 0 THEN object
                          ELSE IF object = "alive" THEN "freed" ELSE "freed twice"
             /\ amount' = [amount EXCEPT ![t] = 0] /\ seen' = [seen EXCEPT ![t] = 0]
             /\ Goto(t, "idle")
             /\ UNCHANGED <<once, locking, lockVars, count, owned>>

\* Nothing is left to do once the object is gone.
Over == /\ object = "freed" /\ \A t \in Threads : pc[t] = "idle"
        /\ UNCHANGED vars

Next == \/ \E t \in Threads : \/ InitBegin(t) \/ InitEnd(t) \/ InitSkip(t)
                              \/ new(t) \/ clone(t) \/ drop(t) \/ \E u \in Threads : send(t, u)
                              \/ Lock(t) \/ Store(t) \/ Take(t) \/ Release(t)
                              \/ Read(t) \/ Write(t) \/ Result(t)
        \/ Over

Spec == Init /\ [][Next]_vars

-----------------------------------------------------------------------------
Abs == INSTANCE SharedHandle WITH handles <- owned

\* However clones, drops and moves of handles interleave, each counts exactly once
\* and the object is freed exactly once, when no thread has a handle any more: the
\* locks that init installs and locking_function keeps make the count atomic.
CountIsAtomic == Abs!Spec

\* locking_function never finds its slot empty, that is, it never ends the process
\* with "BUG: rust-openssl lock already unlocked", and between the two calls of
\* a thread the guard in the slot is its own.
GuardIsOwn == \A t \in Threads :
    /\ pc[t] # "aborted"
    /\ locking /\ pc[t] \in {"read", "write", "take"} => slot = t /\ mutex = t
=============================================================================
