---------------------------- MODULE SharedHandle ----------------------------
(* What a shared OpenSSL object promises to the threads of a Rust program:   *)
(* handles are cloned, sent and dropped one at a time, and the object is     *)
(* freed once, after the last of them.                                       *)
EXTENDS Naturals

CONSTANT Threads

VARIABLES handles,  \* how many handles each thread has
          object    \* "none", "alive" or "freed"

sharedVars == <<handles, object>>

Init == handles = [t \in Threads |-> 0] /\ object = "none"

New(t) == /\ object = "none" /\ object' = "alive"
          /\ handles' = [handles EXCEPT ![t] = 1]
Clone(t) == handles[t] > 0 /\ handles' = [handles EXCEPT ![t] = @ + 1] /\ UNCHANGED object
Drop(t) == handles[t] > 0 /\ handles' = [handles EXCEPT ![t] = @ - 1] /\ UNCHANGED object
Send(t, u) == /\ t # u /\ handles[t] > 0
              /\ handles' = [handles EXCEPT ![t] = @ - 1, ![u] = @ + 1]
              /\ UNCHANGED object
Free == /\ \A t \in Threads : handles[t] = 0
        /\ object = "alive" /\ object' = "freed" /\ UNCHANGED handles

Next == \/ \E t \in Threads : New(t) \/ Clone(t) \/ Drop(t) \/ \E u \in Threads : Send(t, u)
        \/ Free

Spec == Init /\ [][Next]_sharedVars
=============================================================================
