--------------------------- MODULE PipeRelayProofs ---------------------------
(***************************************************************************)
(* Proofs about PipeRelay, for streams of any length: the two goroutines   *)
(* and the counter of Pipe.done implement Relay, and a client that was not *)
(* admitted exchanges no byte with the database.                           *)
(***************************************************************************)
EXTENDS PipeRelay, TLAPS

PipeTypeOK ==
  /\ sent \in [Peers -> Nat] /\ got \in [Peers -> Nat] /\ taken \in [Peers -> Nat]
  /\ fin \in [Peers -> BOOLEAN] /\ gone \in [Peers -> BOOLEAN] /\ eof \in [Peers -> BOOLEAN]
  /\ admitted \in BOOLEAN
  /\ copying \in [Peers -> Copying] /\ status \in Int

Broken == ~admitted \/ \E p \in Peers : gone[p]

\* A goroutine delivers what it has read, and has read what was sent.
InOrder == \A p \in Peers : got[p] <= taken[p] /\ taken[p] <= sent[p]

\* A goroutine that has returned has delivered all of a finished stream, unless
\* something broke.
Ended == \A p \in Peers : copying[p] \in {"ended", "done"} =>
           (fin[p] /\ taken[p] = sent[p] /\ got[p] = sent[p]) \/ Broken

\* status is 0 before the first goroutine is done and when both are, never between.
Counted == status = (IF copying["client"] = "done" THEN 1 ELSE 0)
                      - (IF copying["db"] = "done" THEN 1 ELSE 0)

\* The peers are told of the end when both goroutines are done.
Told == \A p \in Peers : eof[p] => \A q \in Peers : copying[q] = "done"

\* The goroutines of a client that was not admitted read nothing from it and write
\* nothing to it.
Shut == ~admitted => taken["client"] = 0 /\ got["client"] = 0 /\ got["db"] = 0

\* handleConnection starts both goroutines or none.
Paired == \A p \in Peers : copying[p] = "none" <=> copying[Other(p)] = "none"

PipeInv == PipeTypeOK /\ InOrder /\ Ended /\ Counted /\ Told /\ Shut /\ Paired

-----------------------------------------------------------------------------
LEMMA PipeInvInit == PipeInit => PipeInv
  BY DEF PipeInit, PeersInit, PipeInv, PipeTypeOK, InOrder, Ended, Counted, Told, Shut, Paired,
     Copying, Peers, Other

\* What a peer does by itself.
LEMMA PeerKeeps ==
  ASSUME PipeInv, NEW p \in Peers, Peer(p), UNCHANGED relayVars
  PROVE  PipeInv'
  <1>1. UNCHANGED <<got, eof, taken, admitted, copying, status>>
    BY DEF relayVars
  <1>2. CASE PeerSends(p)
    <2>1. UNCHANGED <<fin, gone>> /\ sent' = [sent EXCEPT ![p] = @ + 1] /\ ~fin[p]
      BY <1>2 DEF PeerSends
    <2>2. PipeTypeOK'
      BY <1>1, <2>1 DEF PipeInv, PipeTypeOK
    <2>3. InOrder' /\ Ended'
      BY <1>1, <2>1 DEF PipeInv, PipeTypeOK, InOrder, Ended, Broken
    <2> QED
      BY <1>1, <2>1, <2>2, <2>3 DEF PipeInv, Counted, Told, Shut, Paired
  <1>3. CASE PeerFinishes(p)
    <2>1. UNCHANGED <<sent, gone>> /\ fin' = [fin EXCEPT ![p] = TRUE]
      BY <1>3 DEF PeerFinishes
    <2> QED
      BY <1>1, <2>1 DEF PipeInv, PipeTypeOK, InOrder, Ended, Broken, Counted, Told, Shut, Paired
  <1>4. CASE PeerFails(p)
    <2>1. UNCHANGED <<sent, fin>> /\ gone' = [gone EXCEPT ![p] = TRUE]
      BY <1>4 DEF PeerFails
    <2> QED
      BY <1>1, <2>1 DEF PipeInv, PipeTypeOK, InOrder, Ended, Broken, Counted, Told, Shut, Paired
  <1> QED
    BY <1>2, <1>3, <1>4 DEF Peer

LEMMA DialKeeps ==
  ASSUME PipeInv, Dial
  PROVE  PipeInv'
  <1>1. /\ UNCHANGED <<sent, fin, gone, got, eof, taken, admitted, status>>
        /\ copying["client"] = "none" /\ copying["db"] = "none"
    BY DEF Dial, peerVars, PipeInv, Paired, Peers, Other
  <1>2. PICK c \in {"copy", "undialled"} : copying' = [p \in Peers |-> c]
    BY DEF Dial
  <1>3. \A p \in Peers : copying'[p] = c
    BY <1>2
  <1>4. PipeTypeOK' /\ InOrder' /\ Ended' /\ Shut'
    BY <1>1, <1>2, <1>3 DEF PipeInv, PipeTypeOK, InOrder, Ended, Broken, Shut, Copying
  <1>5. Counted'
    BY <1>1, <1>3 DEF PipeInv, Counted, Peers
  <1>6. Told'
    BY <1>1 DEF PipeInv, Told, Peers
  <1>7. Paired'
    BY <1>3 DEF Paired, Peers, Other
  <1> QED
    BY <1>4, <1>5, <1>6, <1>7 DEF PipeInv

LEMMA CopyReadKeeps ==
  ASSUME PipeInv, NEW p \in Peers, CopyRead(p)
  PROVE  PipeInv'
  <1>1. /\ UNCHANGED <<sent, fin, gone, got, eof, admitted, copying, status>>
        /\ copying[p] = "copy" /\ ~Barred(p)
    BY DEF CopyRead, peerVars, TakeFrom
  <1>2. PICK n \in (taken[p] + 1) .. sent[p] : taken' = [taken EXCEPT ![p] = n]
    BY DEF CopyRead, TakeFrom
  <1>3. taken[p] \in Nat /\ sent[p] \in Nat /\ got[p] \in Nat /\ got[p] <= taken[p]
    BY DEF PipeInv, PipeTypeOK, InOrder
  <1>4. n \in Nat /\ got[p] <= n /\ n <= sent[p]
    BY <1>2, <1>3
  <1>5. taken' \in [Peers -> Nat] /\ taken'[p] = n
        /\ \A q \in Peers : q # p => taken'[q] = taken[q]
    BY <1>2, <1>4 DEF PipeInv, PipeTypeOK
  <1>6. PipeTypeOK'
    BY <1>1, <1>5 DEF PipeInv, PipeTypeOK
  <1>7. InOrder'
    BY <1>1, <1>4, <1>5 DEF PipeInv, InOrder
  <1>8. Ended'
    BY <1>1, <1>5 DEF PipeInv, Ended, Broken
  <1>9. Shut'
    BY <1>1, <1>5 DEF PipeInv, Shut, Barred, Peers
  <1> QED
    BY <1>1, <1>6, <1>7, <1>8, <1>9 DEF PipeInv, Counted, Told, Paired

LEMMA CopyWriteKeeps ==
  ASSUME PipeInv, NEW p \in Peers, CopyWrite(p)
  PROVE  /\ PipeInv' /\ ~eof[p] /\ got[p] < taken[p]
         /\ got' = [got EXCEPT ![p] = taken[p]]
  <1>1. /\ UNCHANGED <<sent, fin, gone, taken, eof, admitted, copying, status>>
        /\ copying[p] = "copy" /\ ~Barred(Other(p))
        /\ got[p] < taken[p] /\ got' = [got EXCEPT ![p] = taken[p]]
    BY DEF CopyWrite, peerVars, GiveTo, Other, Peers
  <1>2. taken[p] \in Nat /\ sent[p] \in Nat /\ taken[p] <= sent[p]
    BY DEF PipeInv, PipeTypeOK, InOrder
  <1>3. got' \in [Peers -> Nat] /\ got'[p] = taken[p]
        /\ \A q \in Peers : q # p => got'[q] = got[q]
    BY <1>1, <1>2 DEF PipeInv, PipeTypeOK
  <1>4. PipeTypeOK'
    BY <1>1, <1>3 DEF PipeInv, PipeTypeOK
  <1>5. InOrder'
    BY <1>1, <1>2, <1>3 DEF PipeInv, InOrder
  <1>6. Ended'
    BY <1>1, <1>3 DEF PipeInv, Ended, Broken
  <1>7. Shut'
    <2>1. p = "db" => admitted
      BY <1>1 DEF Barred, Other
    <2> QED
      BY <1>1, <1>3, <2>1 DEF PipeInv, Shut, Peers
  <1>8. ~eof[p]
    BY <1>1 DEF PipeInv, Told
  <1> QED
    BY <1>1, <1>4, <1>5, <1>6, <1>7, <1>8 DEF PipeInv, Counted, Told, Paired

LEMMA CopyEndsKeeps ==
  ASSUME PipeInv, NEW p \in Peers, CopyEnds(p)
  PROVE  PipeInv'
  <1>1. /\ UNCHANGED <<sent, fin, gone, got, taken, eof, admitted, status>>
        /\ copying[p] = "copy" /\ copying' = [copying EXCEPT ![p] = "ended"]
    BY DEF CopyEnds, peerVars
  <1>2. copying' \in [Peers -> Copying] /\ copying'[p] = "ended"
        /\ \A q \in Peers : q # p => copying'[q] = copying[q]
    BY <1>1 DEF PipeInv, PipeTypeOK, Copying
  <1>3. PipeTypeOK' /\ InOrder' /\ Shut'
    BY <1>1, <1>2 DEF PipeInv, PipeTypeOK, InOrder, Shut
  <1>4. (fin[p] /\ taken[p] = sent[p] /\ got[p] = sent[p]) \/ Broken
    BY DEF CopyEnds, Exhausted, Broken, Barred, Other, Peers
  <1>5. Ended'
    BY <1>1, <1>2, <1>4 DEF PipeInv, Ended, Broken
  <1>6. Counted'
    BY <1>1, <1>2 DEF PipeInv, Counted, Peers
  <1>7. Told'
    BY <1>1, <1>2 DEF PipeInv, Told
  <1>8. Paired'
    BY <1>1, <1>2 DEF PipeInv, Paired, Peers, Other
  <1> QED
    BY <1>3, <1>5, <1>6, <1>7, <1>8 DEF PipeInv

\* Pipe.done brings status back to 0 exactly when the other goroutine was done.
LEMMA DoneKeeps ==
  ASSUME PipeInv, NEW p \in Peers, Done(p)
  PROVE  /\ PipeInv'
         /\ CloseBoth => \A q \in Peers : (fin[q] /\ got[q] = sent[q]) \/ Broken
         /\ CloseBoth \/ eof' = eof
  <1>1. /\ UNCHANGED <<sent, fin, gone, got, taken, admitted>>
        /\ copying[p] = "ended" /\ copying' = [copying EXCEPT ![p] = "done"]
        /\ status' = status + Side(p)
        /\ IF status' = 0 THEN CloseBoth ELSE UNCHANGED <<open, eof>>
    BY DEF Done, peerVars
  <1>2. copying' \in [Peers -> Copying] /\ copying'[p] = "done"
        /\ \A q \in Peers : q # p => copying'[q] = copying[q]
    BY <1>1 DEF PipeInv, PipeTypeOK, Copying
  <1>3. status' \in Int /\ Counted'
    BY <1>1, <1>2 DEF PipeInv, PipeTypeOK, Counted, Peers, Side
  <1>4. status' = 0 <=> \A q \in Peers : copying'[q] = "done"
    BY <1>2, <1>3 DEF Counted, Peers
  <1>5. eof' \in [Peers -> BOOLEAN]
    BY <1>1 DEF CloseBoth, PipeInv, PipeTypeOK
  <1>6. PipeTypeOK' /\ InOrder' /\ Shut'
    BY <1>1, <1>2, <1>3, <1>5 DEF PipeInv, PipeTypeOK, InOrder, Shut
  <1>7. Ended'
    BY <1>1, <1>2 DEF PipeInv, Ended, Broken
  <1>8. Told'
    BY <1>1, <1>2, <1>4 DEF PipeInv, Told
  <1>9. Paired'
    BY <1>1, <1>2 DEF PipeInv, Paired, Peers, Other
  <1>10. ~\A q \in Peers : eof[q]
    BY <1>1 DEF PipeInv, Told
  <1>11. CloseBoth => status' = 0
    <2>1. CASE eof' = eof
      BY <1>10, <2>1 DEF CloseBoth
    <2> QED
      BY <1>1, <2>1
  <1>12. CloseBoth => \A q \in Peers : (fin[q] /\ got[q] = sent[q]) \/ Broken
    BY <1>1, <1>4, <1>7, <1>11 DEF Ended, Broken
  <1> QED
    BY <1>1, <1>3, <1>6, <1>7, <1>8, <1>9, <1>12 DEF PipeInv

LEMMA PipeInvNext == PipeInv /\ [PipeNext]_allVars => PipeInv'
  <1> SUFFICES ASSUME PipeInv, [PipeNext]_allVars PROVE PipeInv'
    OBVIOUS
  <1>1. CASE UNCHANGED allVars
    BY <1>1 DEF allVars, peerVars, relayVars, PipeInv, PipeTypeOK, InOrder, Ended, Broken,
       Counted, Told, Shut, Paired
  <1> QED
    BY <1>1, PeerKeeps, DialKeeps, CopyReadKeeps, CopyWriteKeeps, CopyEndsKeeps, DoneKeeps
       DEF PipeNext, Pump

THEOREM PipeInvHolds == PipeSpec => []PipeInv
  BY PipeInvInit, PipeInvNext, PTL DEF PipeSpec

-----------------------------------------------------------------------------
(***************************************************************************)
(* Theorems                                                                *)
(***************************************************************************)

\* No byte passes between the database and a client whose handshake failed.
THEOREM OnlyAdmittedPass == PipeSpec => []OnlyAdmitted
  <1>1. PipeInv => OnlyAdmitted
    BY DEF PipeInv, Shut, OnlyAdmitted, Peers
  <1> QED
    BY <1>1, PipeInvHolds, PTL

\* What the relay does, seen by the abstract specification.
LEMMA RelayStep ==
  ASSUME PipeInv, [PipeNext]_allVars
  PROVE  [R!Next]_(R!vars)
  <1>1. ASSUME NEW p \in Peers, Peer(p), UNCHANGED relayVars PROVE R!Next
    <2>1. UNCHANGED <<got, eof, admitted>>
      BY <1>1 DEF relayVars
    <2>2. CASE PeerSends(p)
      <3>1. R!Send(p)
        BY <2>1, <2>2 DEF PeerSends, R!Send
      <3> QED
        BY <3>1 DEF R!Next, R!Peers, Peers
    <2>3. CASE PeerFinishes(p)
      <3>1. R!Finish(p)
        BY <2>1, <2>3 DEF PeerFinishes, R!Finish
      <3> QED
        BY <3>1 DEF R!Next, R!Peers, Peers
    <2>4. CASE PeerFails(p)
      <3>1. gone'[p]
        BY <2>4 DEF PeerFails, PipeInv, PipeTypeOK
      <3>2. Broken' /\ Broken' \in {Broken, TRUE}
        BY <3>1 DEF Broken
      <3>3. eof' = [q \in R!Peers |-> eof[q] \/ q \in {}]
        BY <2>1 DEF PipeInv, PipeTypeOK, Peers, R!Peers
      <3>4. \E over \in SUBSET R!Peers :
              /\ \A q \in over : Broken' \/ (fin[q] /\ got[q] = sent[q])
              /\ eof' = [q \in R!Peers |-> eof[q] \/ q \in over]
        <4> WITNESS {} \in SUBSET R!Peers
        <4> QED
          BY <3>3
      <3>5. R!End
        BY <2>1, <2>4, <3>2, <3>4 DEF PeerFails, R!End, Broken
      <3> QED
        BY <3>5 DEF R!Next
    <2> QED
      BY <1>1, <2>2, <2>3, <2>4 DEF Peer
  <1>2. ASSUME NEW p \in Peers, CopyWrite(p) PROVE R!Next
    <2>1. /\ ~eof[p] /\ got[p] < taken[p] /\ got' = [got EXCEPT ![p] = taken[p]]
          /\ UNCHANGED <<sent, fin, gone, eof, admitted>>
      BY <1>2, CopyWriteKeeps DEF CopyWrite, peerVars
    <2>2. taken[p] \in (got[p] + 1) .. sent[p]
      BY <2>1 DEF PipeInv, PipeTypeOK, InOrder
    <2>3. R!Deliver(p)
      BY <2>1, <2>2 DEF R!Deliver
    <2> QED
      BY <2>3 DEF R!Next, R!Peers, Peers
  <1>3. ASSUME NEW p \in Peers, Done(p) PROVE R!Next \/ UNCHANGED R!vars
    <2>1. UNCHANGED <<sent, fin, gone, got, admitted>>
      BY <1>3 DEF Done, peerVars
    <2>2. CASE eof' = eof
      BY <2>1, <2>2 DEF R!vars
    <2>3. CASE CloseBoth
      <3>1. \A q \in Peers : (fin[q] /\ got[q] = sent[q]) \/ Broken
        BY <1>3, <2>3, DoneKeeps
      <3>2. eof' = [q \in Peers |-> eof[q] \/ q \in Peers]
        BY <2>3 DEF CloseBoth
      <3>3. Broken' = Broken
        BY <2>1 DEF Broken
      <3>4. R!End
        BY <2>1, <3>1, <3>2, <3>3 DEF R!End, R!Peers, Peers, Broken
      <3> QED
        BY <3>4 DEF R!Next
    <2> QED
      BY <1>3, <2>2, <2>3, DoneKeeps
  <1>4. ASSUME NEW p \in Peers, CopyRead(p) \/ CopyEnds(p) PROVE UNCHANGED R!vars
    BY <1>4 DEF CopyRead, CopyEnds, TakeFrom, peerVars, R!vars
  <1>5. CASE Dial \/ UNCHANGED allVars
    BY <1>5 DEF Dial, allVars, peerVars, relayVars, R!vars
  <1> QED
    BY <1>1, <1>2, <1>3, <1>4, <1>5 DEF PipeNext, Pump

\* Pipe implements Relay: bytes arrive in order and without gaps, and neither peer is
\* cut off while the other's data is under way, unless a connection failed.
THEOREM PipeIsRelay == PipeSpec => PipeImplementsRelay
  <1>1. PipeInit => R!Init
    BY DEF PipeInit, PeersInit, R!Init, R!Peers, Peers
  <1>2. PipeInv /\ [PipeNext]_allVars => [R!Next]_(R!vars)
    BY RelayStep
  <1> QED
    BY <1>1, <1>2, PipeInvHolds, PTL DEF PipeSpec, PipeImplementsRelay, R!Spec
=============================================================================
