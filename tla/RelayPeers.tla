----------------------------- MODULE RelayPeers ------------------------------
(***************************************************************************)
(* The two peers of a relay and its sockets: they send, finish sending, or *)
(* disappear.  External: a client program and mongod.                      *)
(***************************************************************************)
EXTENDS Naturals

CONSTANT MaxBytes  \* bound: how many bytes a peer sends

ASSUME MaxBytesAssumption == MaxBytes \in Nat

Peers == {"client", "db"}
Other(p) == IF p = "client" THEN "db" ELSE "client"

VARIABLES
  sent,   \* sent[p]: how much peer p has sent
  fin,    \* fin[p]: peer p has finished sending
  gone,   \* gone[p]: peer p's connection failed
  got,    \* got[p]: how much of p's stream the other peer's socket has accepted
  eof,    \* eof[p]: the other peer was told that p's stream is over
  taken   \* taken[p]: how much of p's stream the relay has read

peerVars == <<sent, fin, gone>>

PeersInit ==
  /\ sent = [p \in Peers |-> 0] /\ fin = [p \in Peers |-> FALSE]
  /\ got = [p \in Peers |-> 0] /\ eof = [p \in Peers |-> FALSE]
  /\ gone = [p \in Peers |-> FALSE] /\ taken = [p \in Peers |-> 0]

\* A peer uses its connection until it finishes or its connection fails.
PeerSends(p) ==
  /\ ~gone[p] /\ ~fin[p] /\ sent[p] < MaxBytes
  /\ sent' = [sent EXCEPT ![p] = @ + 1]
  /\ UNCHANGED <<fin, gone>>

PeerFinishes(p) ==
  /\ ~gone[p] /\ ~fin[p]
  /\ fin' = [fin EXCEPT ![p] = TRUE]
  /\ UNCHANGED <<sent, gone>>

PeerFails(p) ==
  /\ ~gone[p]
  /\ gone' = [gone EXCEPT ![p] = TRUE]
  /\ UNCHANGED <<sent, fin>>

Peer(p) == PeerSends(p) \/ PeerFinishes(p) \/ PeerFails(p)

\* The relay reads some of what has arrived, and writes what it has read.
TakeFrom(p) ==
  /\ taken[p] = got[p]
  /\ taken' \in {[taken EXCEPT ![p] = n] : n \in (taken[p] + 1) .. sent[p]}
  /\ UNCHANGED got

GiveTo(q) ==
  LET p == Other(q)
  IN /\ got[p] < taken[p]
     /\ got' = [got EXCEPT ![p] = taken[p]]
     /\ UNCHANGED taken

\* Everything p sent has been passed on, and p has finished.
Exhausted(p) == taken[p] = got[p] /\ taken[p] = sent[p] /\ fin[p]
=============================================================================
