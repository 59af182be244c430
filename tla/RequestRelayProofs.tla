-------------------------- MODULE RequestRelayProofs --------------------------
(***************************************************************************)
(* Proofs about RequestRelay, for streams of any length: the two copy      *)
(* futures and their join implement Relay.                                 *)
(***************************************************************************)
EXTENDS RequestRelay, TLAPS

RequestTypeOK ==
  /\ sent \in [Peers -> Nat] /\ got \in [Peers -> Nat] /\ taken \in [Peers -> Nat]
  /\ fin \in [Peers -> BOOLEAN] /\ gone \in [Peers -> BOOLEAN] /\ eof \in [Peers -> BOOLEAN]
  /\ copying \in [Peers -> {"none", "copy", "done"}]

Broken == stage = "dropped" \/ \E p \in Peers : gone[p]

\* A copy future delivers what it has read, and has read what was sent.
InOrder == \A p \in Peers : got[p] <= taken[p] /\ taken[p] <= sent[p]

\* A copy that is done has delivered all of a finished stream, even when the
\* other copy goes on.
Ended == \A p \in Peers : copying[p] = "done" =>
           fin[p] /\ taken[p] = sent[p] /\ got[p] = sent[p]

\* The other peer is told of the end by the copy that is done, or by the drop of
\* both sockets.
Told == \A p \in Peers : eof[p] => copying[p] = "done" \/ stage = "dropped"

\* Nothing is copied before the database is connected.
Joined == stage \in {"listening", "connecting"} => \A p \in Peers : copying[p] = "none"

RequestInv == RequestTypeOK /\ InOrder /\ Ended /\ Told /\ Joined

-----------------------------------------------------------------------------
LEMMA RequestInvInit == RequestInit => RequestInv
  BY DEF RequestInit, PeersInit, RequestInv, RequestTypeOK, InOrder, Ended, Told, Joined, Peers

LEMMA PeerKeeps ==
  ASSUME RequestInv, NEW p \in Peers, Peer(p), UNCHANGED relayVars
  PROVE  RequestInv'
  <1>1. UNCHANGED <<got, eof, taken, stage, copying>>
    BY DEF relayVars
  <1>2. CASE PeerSends(p)
    <2>1. UNCHANGED <<fin, gone>> /\ sent' = [sent EXCEPT ![p] = @ + 1] /\ ~fin[p]
      BY <1>2 DEF PeerSends
    <2>2. RequestTypeOK'
      BY <1>1, <2>1 DEF RequestInv, RequestTypeOK
    <2>3. InOrder' /\ Ended'
      BY <1>1, <2>1 DEF RequestInv, RequestTypeOK, InOrder, Ended
    <2> QED
      BY <1>1, <2>2, <2>3 DEF RequestInv, Told, Joined
  <1>3. CASE PeerFinishes(p) \/ PeerFails(p)
    <2>1. /\ sent' = sent /\ fin' \in {fin, [fin EXCEPT ![p] = TRUE]}
          /\ gone' \in {gone, [gone EXCEPT ![p] = TRUE]}
      BY <1>3 DEF PeerFinishes, PeerFails
    <2>2. RequestTypeOK' /\ \A q \in Peers : fin[q] => fin'[q]
      BY <1>1, <2>1 DEF RequestInv, RequestTypeOK
    <2> QED
      BY <1>1, <2>1, <2>2 DEF RequestInv, InOrder, Ended, Told, Joined
  <1> QED
    BY <1>2, <1>3 DEF Peer

\* Steps that move the connection on, or drop it.
LEMMA StageKeeps ==
  ASSUME RequestInv, Accept \/ Connect \/ CopyFails
  PROVE  RequestInv'
  <1>1. UNCHANGED <<sent, fin, gone, got, taken>>
    BY DEF Accept, Connect, CopyFails, peerVars
  <1>2. CASE stage' = "dropped" /\ copying' = copying /\ eof' = [p \in Peers |-> TRUE]
    BY <1>1, <1>2 DEF RequestInv, RequestTypeOK, InOrder, Ended, Told, Joined
  <1>3. CASE stage = "listening" /\ stage' = "connecting" /\ UNCHANGED <<eof, copying>>
    BY <1>1, <1>3 DEF RequestInv, RequestTypeOK, InOrder, Ended, Told, Joined
  <1>4. CASE /\ stage = "connecting" /\ stage' = "joined" /\ eof' = eof
             /\ copying' = [p \in Peers |-> "copy"]
    <2>1. \A p \in Peers : copying'[p] = "copy" /\ copying[p] = "none"
      BY <1>4 DEF RequestInv, Joined
    <2>2. RequestTypeOK' /\ InOrder' /\ Ended' /\ Joined'
      BY <1>1, <1>4, <2>1 DEF RequestInv, RequestTypeOK, InOrder, Ended, Joined
    <2>3. Told'
      BY <1>4, <2>1 DEF RequestInv, Told
    <2> QED
      BY <2>2, <2>3 DEF RequestInv
  <1> QED
    BY <1>2, <1>3, <1>4 DEF Accept, Connect, CopyFails, Drop

LEMMA CopyReadKeeps ==
  ASSUME RequestInv, NEW p \in Peers, CopyRead(p)
  PROVE  RequestInv'
  <1>1. UNCHANGED <<sent, fin, gone, got, eof, stage, copying>> /\ copying[p] = "copy"
    BY DEF CopyRead, Running, peerVars, TakeFrom
  <1>2. PICK n \in (taken[p] + 1) .. sent[p] : taken' = [taken EXCEPT ![p] = n]
    BY DEF CopyRead, TakeFrom
  <1>3. taken[p] \in Nat /\ sent[p] \in Nat /\ got[p] \in Nat /\ got[p] <= taken[p]
    BY DEF RequestInv, RequestTypeOK, InOrder
  <1>4. n \in Nat /\ got[p] <= n /\ n <= sent[p]
    BY <1>2, <1>3
  <1>5. taken' \in [Peers -> Nat] /\ taken'[p] = n
        /\ \A q \in Peers : q # p => taken'[q] = taken[q]
    BY <1>2, <1>4 DEF RequestInv, RequestTypeOK
  <1>6. RequestTypeOK' /\ InOrder'
    BY <1>1, <1>4, <1>5 DEF RequestInv, RequestTypeOK, InOrder
  <1>7. Ended'
    BY <1>1, <1>5 DEF RequestInv, Ended
  <1> QED
    BY <1>1, <1>6, <1>7 DEF RequestInv, Told, Joined

LEMMA CopyWriteKeeps ==
  ASSUME RequestInv, NEW p \in Peers, CopyWrite(p)
  PROVE  /\ RequestInv' /\ ~eof[p] /\ got[p] < taken[p]
         /\ got' = [got EXCEPT ![p] = taken[p]]
  <1>1. /\ UNCHANGED <<sent, fin, gone, taken, eof, stage, copying>>
        /\ copying[p] = "copy" /\ stage = "joined"
        /\ got[p] < taken[p] /\ got' = [got EXCEPT ![p] = taken[p]]
    BY DEF CopyWrite, Running, peerVars, GiveTo, Other, Peers
  <1>2. taken[p] \in Nat /\ sent[p] \in Nat /\ taken[p] <= sent[p]
    BY DEF RequestInv, RequestTypeOK, InOrder
  <1>3. got' \in [Peers -> Nat] /\ got'[p] = taken[p]
        /\ \A q \in Peers : q # p => got'[q] = got[q]
    BY <1>1, <1>2 DEF RequestInv, RequestTypeOK
  <1>4. RequestTypeOK' /\ InOrder'
    BY <1>1, <1>2, <1>3 DEF RequestInv, RequestTypeOK, InOrder
  <1>5. Ended'
    BY <1>1, <1>3 DEF RequestInv, Ended
  <1>6. ~eof[p]
    BY <1>1 DEF RequestInv, Told
  <1> QED
    BY <1>1, <1>4, <1>5, <1>6 DEF RequestInv, Told, Joined

LEMMA CopyEndsKeeps ==
  ASSUME RequestInv, NEW p \in Peers, CopyEnds(p)
  PROVE  /\ RequestInv'
         /\ fin[p] /\ got[p] = sent[p] /\ eof' = [q \in Peers |-> eof[q] \/ q \in {p}]
         /\ stage # "dropped" /\ stage' # "dropped"
  <1>1. /\ UNCHANGED <<sent, fin, gone, got, taken>>
        /\ copying' = [copying EXCEPT ![p] = "done"] /\ eof' = [eof EXCEPT ![p] = TRUE]
        /\ fin[p] /\ taken[p] = sent[p] /\ got[p] = sent[p]
        /\ stage = "joined" /\ stage' \in {"joined", "finished"}
    BY DEF CopyEnds, Running, Exhausted, peerVars
  <1>2. /\ copying' \in [Peers -> {"none", "copy", "done"}] /\ eof' \in [Peers -> BOOLEAN]
        /\ copying'[p] = "done"
        /\ \A q \in Peers : q # p => copying'[q] = copying[q] /\ eof'[q] = eof[q]
    BY <1>1 DEF RequestInv, RequestTypeOK
  <1>3. RequestTypeOK' /\ InOrder'
    BY <1>1, <1>2 DEF RequestInv, RequestTypeOK, InOrder
  <1>4. Ended' /\ Told' /\ Joined'
    BY <1>1, <1>2 DEF RequestInv, Ended, Told, Joined
  <1>5. eof' = [q \in Peers |-> eof[q] \/ q \in {p}]
    BY <1>1, <1>2 DEF RequestInv, RequestTypeOK
  <1> QED
    BY <1>1, <1>3, <1>4, <1>5 DEF RequestInv

LEMMA RequestInvNext == RequestInv /\ [RequestNext]_allVars => RequestInv'
  <1> SUFFICES ASSUME RequestInv, [RequestNext]_allVars PROVE RequestInv'
    OBVIOUS
  <1>1. CASE UNCHANGED allVars
    BY <1>1 DEF allVars, peerVars, relayVars, RequestInv, RequestTypeOK, InOrder, Ended, Told,
       Joined
  <1> QED
    BY <1>1, PeerKeeps, StageKeeps, CopyReadKeeps, CopyWriteKeeps, CopyEndsKeeps
       DEF RequestNext, Pump

THEOREM RequestInvHolds == RequestSpec => []RequestInv
  BY RequestInvInit, RequestInvNext, PTL DEF RequestSpec

-----------------------------------------------------------------------------
(***************************************************************************)
(* RequestRelay implements Relay                                           *)
(***************************************************************************)

\* The connection breaks: the abstract relay may end at once.
LEMMA BreakStep ==
  ASSUME Broken', UNCHANGED <<sent, fin, got>>, NEW over \in SUBSET Peers,
         eof' = [p \in Peers |-> eof[p] \/ p \in over]
  PROVE  R!End
  <1>1. Broken' \in {Broken, TRUE}
    BY DEF Broken
  <1>2. \E o \in SUBSET R!Peers :
          /\ \A p \in o : Broken' \/ (fin[p] /\ got[p] = sent[p])
          /\ eof' = [p \in R!Peers |-> eof[p] \/ p \in o]
    <2> WITNESS over \in SUBSET R!Peers
    <2>1. Peers = R!Peers
      BY DEF Peers, R!Peers
    <2> QED
      BY <2>1
  <1> QED
    BY <1>1, <1>2 DEF R!End, Broken

LEMMA RelayStep ==
  ASSUME RequestInv, [RequestNext]_allVars
  PROVE  [R!Next]_(R!vars)
  <1>1. ASSUME NEW p \in Peers, Peer(p), UNCHANGED relayVars PROVE R!Next
    <2>1. UNCHANGED <<got, eof, stage>>
      BY <1>1 DEF relayVars
    <2>2. CASE PeerSends(p)
      <3>1. R!Send(p)
        BY <2>1, <2>2 DEF PeerSends, R!Send
      <3> QED
        BY <3>1 DEF R!Next, R!Peers, Peers
    <2>3. CASE PeerFinishes(p)
      <3>1. R!Finish(p)
        BY <2>1, <2>3 DEF PeerFinishes, R!Finish
      <3> QED
        BY <3>1 DEF R!Next, R!Peers, Peers
    <2>4. CASE PeerFails(p)
      <3>1. Broken'
        BY <2>4 DEF PeerFails, RequestInv, RequestTypeOK, Broken
      <3>2. eof' = [q \in Peers |-> eof[q] \/ q \in {}]
        BY <2>1 DEF RequestInv, RequestTypeOK
      <3>3. UNCHANGED <<sent, fin, got>> /\ {} \in SUBSET Peers
        BY <2>1, <2>4 DEF PeerFails
      <3>4. R!End
        BY <3>1, <3>2, <3>3, BreakStep, Zenon
      <3> QED
        BY <3>4 DEF R!Next
    <2> QED
      BY <1>1, <2>2, <2>3, <2>4 DEF Peer
  <1>2. ASSUME NEW p \in Peers, CopyWrite(p) PROVE R!Next
    <2>1. /\ ~eof[p] /\ got[p] < taken[p] /\ got' = [got EXCEPT ![p] = taken[p]]
          /\ UNCHANGED <<sent, fin, gone, eof, stage>>
      BY <1>2, CopyWriteKeeps DEF CopyWrite, peerVars
    <2>2. taken[p] \in (got[p] + 1) .. sent[p]
      BY <2>1 DEF RequestInv, RequestTypeOK, InOrder
    <2>3. R!Deliver(p)
      BY <2>1, <2>2 DEF R!Deliver
    <2> QED
      BY <2>3 DEF R!Next, R!Peers, Peers
  <1>3. ASSUME NEW p \in Peers, CopyEnds(p) PROVE R!Next
    <2>1. /\ fin[p] /\ got[p] = sent[p] /\ eof' = [q \in Peers |-> eof[q] \/ q \in {p}]
          /\ stage # "dropped" /\ stage' # "dropped" /\ UNCHANGED <<sent, fin, gone, got>>
      BY <1>3, CopyEndsKeeps DEF CopyEnds, peerVars
    <2>2. Broken' = Broken
      BY <2>1 DEF Broken
    <2>3. \E o \in SUBSET R!Peers :
            /\ \A q \in o : Broken' \/ (fin[q] /\ got[q] = sent[q])
            /\ eof' = [q \in R!Peers |-> eof[q] \/ q \in o]
      <3>1. Peers = R!Peers
        BY DEF Peers, R!Peers
      <3>2. {p} \in SUBSET R!Peers
        BY <3>1
      <3> WITNESS {p} \in SUBSET R!Peers
      <3> QED
        BY <2>1, <3>1
    <2>4. R!End
      BY <2>1, <2>2, <2>3 DEF R!End, Broken
    <2> QED
      BY <2>4 DEF R!Next
  <1>4. ASSUME Accept \/ Connect \/ CopyFails PROVE R!Next \/ UNCHANGED R!vars
    <2>1. UNCHANGED <<sent, fin, gone, got>>
      BY <1>4 DEF Accept, Connect, CopyFails, peerVars
    <2>2. CASE stage' = "dropped" /\ eof' = [p \in Peers |-> TRUE]
      <3>1. eof' = [p \in Peers |-> eof[p] \/ p \in Peers]
        BY <2>2
      <3>2. Broken'
        BY <2>2 DEF Broken
      <3>3. R!End
        BY <2>1, <3>1, <3>2, BreakStep
      <3> QED
        BY <3>3 DEF R!Next
    <2>3. CASE stage # "dropped" /\ stage' # "dropped" /\ eof' = eof
      BY <2>1, <2>3 DEF R!vars
    <2> QED
      BY <1>4, <2>2, <2>3 DEF Accept, Connect, CopyFails, Drop
  <1>5. ASSUME NEW p \in Peers, CopyRead(p) PROVE UNCHANGED R!vars
    BY <1>5 DEF CopyRead, TakeFrom, peerVars, R!vars
  <1>6. CASE UNCHANGED allVars
    BY <1>6 DEF allVars, peerVars, relayVars, R!vars
  <1> QED
    BY <1>1, <1>2, <1>3, <1>4, <1>5, <1>6 DEF RequestNext, Pump

\* RequestProxy implements Relay: it forwards every byte in order, tells a peer that
\* the other's stream is over only after all of it, and cuts off neither unless the
\* connection or the event loop failed.
THEOREM RequestIsRelay == RequestSpec => RequestImplementsRelay
  <1>1. RequestInit => R!Init
    BY DEF RequestInit, PeersInit, R!Init, R!Peers, Peers
  <1>2. RequestInv /\ [RequestNext]_allVars => [R!Next]_(R!vars)
    BY RelayStep
  <1> QED
    BY <1>1, <1>2, RequestInvHolds, PTL DEF RequestSpec, RequestImplementsRelay, R!Spec
=============================================================================
