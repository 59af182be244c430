------------------------------- MODULE Relay --------------------------------
(***************************************************************************)
(* What a relay between a client and its database promises: the bytes of   *)
(* each peer reach the other in order and without gaps, and a peer is told *)
(* that the other's stream is over only when it has all of it, or when the *)
(* connection broke.  A stream is a number of bytes, so what was delivered *)
(* is the prefix of length got[p].                                         *)
(***************************************************************************)
EXTENDS Naturals

CONSTANT MaxBytes  \* bound: how many bytes a peer sends

Peers == {"client", "db"}
Other(p) == IF p = "client" THEN "db" ELSE "client"

VARIABLES
  sent,    \* sent[p]: how much peer p has sent
  fin,     \* fin[p]: peer p will send no more
  got,     \* got[p]: how much of p's stream the other peer has received
  eof,     \* eof[p]: the other peer was told that p's stream is over
  broken   \* a connection failed, or was never set up

vars == <<sent, fin, got, eof, broken>>

Init ==
  /\ sent = [p \in Peers |-> 0] /\ fin = [p \in Peers |-> FALSE]
  /\ got = [p \in Peers |-> 0] /\ eof = [p \in Peers |-> FALSE]
  /\ broken \in BOOLEAN

Send(p) ==
  /\ ~fin[p] /\ sent[p] < MaxBytes
  /\ sent' = [sent EXCEPT ![p] = @ + 1]
  /\ UNCHANGED <<fin, got, eof, broken>>

Finish(p) ==
  /\ ~fin[p]
  /\ fin' = [fin EXCEPT ![p] = TRUE]
  /\ UNCHANGED <<sent, got, eof, broken>>

Deliver(p) ==
  /\ ~eof[p]
  /\ got' \in {[got EXCEPT ![p] = n] : n \in (got[p] + 1) .. sent[p]}
  /\ UNCHANGED <<sent, fin, eof, broken>>

\* A relay closes its two sockets together, so both peers can be told at once.
\* It closes them at any time when the connection breaks.
End ==
  /\ broken' \in {broken, TRUE}
  /\ \E over \in SUBSET Peers :
       /\ \A p \in over : broken' \/ (fin[p] /\ got[p] = sent[p])
       /\ eof' = [p \in Peers |-> eof[p] \/ p \in over]
  /\ UNCHANGED <<sent, fin, got>>

Next == (\E p \in Peers : Send(p) \/ Finish(p) \/ Deliver(p)) \/ End

Spec == Init /\ [][Next]_vars
=============================================================================
