-------------------------- MODULE TenantProxyProofs --------------------------
(***************************************************************************)
(* Proofs about TenantProxy, for any set of peers, any lease time and any  *)
(* latency of tolla's answers.                                             *)
(***************************************************************************)
EXTENDS TenantProxy, SequenceTheorems, TLAPS

-----------------------------------------------------------------------------
(***************************************************************************)
(* The inductive invariant                                                 *)
(*                                                                         *)
(* The array and p.leases differ in length only while the range loop runs, *)
(* and by one lease at most: the certificate has one lease, so it is       *)
(* deleted once, and neither what the loop still visits nor the shortened  *)
(* slice holds another one.                                                *)
(***************************************************************************)

Absent(lo, hi) == \A k \in lo .. hi : arr[k].cert # peer

\* The range loop before and after its deletion.
Searching == len = Len(arr) /\ Absent(1, i - 1)
Deleting == len = Len(arr) - 1 /\ Absent(1, len) /\ Absent(i, Len(arr))

ScanInv == pc = "scan" => i <= Len(arr) + 1 /\ (Searching \/ Deleting)

\* Outside the loop the array is p.leases.
Settled == pc # "scan" => len = Len(arr)

\* tolla is asked about a peer, and answers, only while it has no lease.
Unleased == pc \in {"parse", "ask", "answer"} => Absent(1, len)

\* A lease that still holds is not older than what tolla last said of its peer, save
\* for the time an answer was under way.
Fresh == \A k \in 1 .. Len(arr) :
           ~Expired(arr[k]) => stale[arr[k].cert] <= arr[k].age + MaxLatency

\* What tolla would say now, and what it has said and is on its way.
Current == \A c \in permitted : stale[c] = 0
Answer == pc = "answer" /\ verdict = "admitted" => stale[peer] <= waited

LeaseInv ==
  /\ TypeOK /\ OneLeasePerCert /\ NoSlicePanic
  /\ ScanInv /\ Settled /\ Unleased
  /\ Fresh /\ Current /\ Answer

-----------------------------------------------------------------------------
(***************************************************************************)
(* Sequences                                                               *)
(***************************************************************************)

\* A function on 1 .. n is a sequence of length n.
LEMMA FunctionIsSeq ==
  ASSUME NEW S, NEW n \in Nat, NEW f \in [1 .. n -> S]
  PROVE  f \in Seq(S) /\ Len(f) = n
  <1>1. f \in Seq(S)
    BY SeqDef
  <1>2. DOMAIN f = 1 .. Len(f) /\ DOMAIN f = 1 .. n /\ Len(f) \in Nat
    BY <1>1, LenProperties
  <1> QED
    BY <1>1, <1>2

\* The leases of the array.
LEMMA LeaseOf ==
  ASSUME TypeOK, NEW k \in 1 .. Len(arr)
  PROVE  /\ arr[k] \in Lease
         /\ arr[k].cert \in Peers /\ arr[k].age \in 0 .. (LeaseTime + 1)
         /\ arr[k] = [cert |-> arr[k].cert, age |-> arr[k].age]
  <1>1. arr[k] \in Lease
    BY ElementOfSeq DEF TypeOK
  <1> QED
    BY <1>1 DEF Lease

\* The deletion moves the leases behind k down inside the array.
LEMMA DeletedIsSeq ==
  ASSUME TypeOK, NEW k \in 1 .. len
  PROVE  /\ Deleted(k) \in Seq(Lease) /\ Len(Deleted(k)) = Len(arr)
         /\ \A j \in 1 .. Len(arr) :
              Deleted(k)[j] = IF k <= j /\ j < len THEN arr[j + 1] ELSE arr[j]
  <1>1. Len(arr) \in Nat /\ len \in 0 .. Len(arr)
    BY LenProperties DEF TypeOK
  <1>2. \A j \in 1 .. Len(arr) : arr[j] \in Lease /\ (j < len => arr[j + 1] \in Lease)
    BY <1>1, ElementOfSeq DEF TypeOK
  <1>3. Deleted(k) \in [1 .. Len(arr) -> Lease]
    BY <1>1, <1>2 DEF Deleted
  <1> QED
    BY <1>1, <1>3, FunctionIsSeq DEF Deleted

-----------------------------------------------------------------------------
(***************************************************************************)
(* Each step keeps the invariant                                           *)
(***************************************************************************)

LEMMA LeaseInvInit == Init => LeaseInv
  <1> SUFFICES ASSUME Init PROVE LeaseInv
    OBVIOUS
  <1>1. arr \in Seq(Lease) /\ Len(arr) = 0
    BY EmptySeq DEF Init
  <1>2. stale \in [Peers -> Staleness]
    BY TimesAssumption DEF Init, Staleness
  <1>3. TypeOK
    BY <1>1, <1>2, TimesAssumption DEF Init, TypeOK, Places, Verdicts
  <1>4. OneLeasePerCert /\ NoSlicePanic /\ ScanInv /\ Settled /\ Unleased
    BY <1>1 DEF Init, OneLeasePerCert, NoSlicePanic, ScanInv, Settled, Unleased
  <1>5. Fresh /\ Answer
    BY <1>1 DEF Init, Fresh, Answer
  <1>6. Current
    BY DEF Init, Current, Intended
  <1> QED
    BY <1>3, <1>4, <1>5, <1>6 DEF LeaseInv

\* The steps of the accept loop that do not touch the leases.
LEMMA LeaseInvLoop ==
  ASSUME LeaseInv,
         (\E c \in Peers : Accept(c)) \/ AcceptError \/ Verify \/ Parse \/ Ask \/ Spawn
  PROVE  LeaseInv'
  <1> USE DEF LeaseInv
  <1>0. arr' = arr /\ len' = len /\ permitted' = permitted /\ stale' = stale
    BY DEF Accept, AcceptError, Verify, Parse, Ask, Spawn, tableVars, worldVars
  <1>1. TypeOK'
    <2>1. i' \in Nat \ {0} /\ peer' \in Peers /\ waited' \in 0 .. MaxLatency
      <3>1. CASE \E c \in Peers : Accept(c)
        BY <3>1 DEF TypeOK, Accept, tableVars
      <3>2. CASE AcceptError \/ Parse \/ Spawn
        BY <3>2 DEF TypeOK, AcceptError, Parse, Spawn, tableVars
      <3>3. CASE Verify
        BY <3>3 DEF TypeOK, Verify
      <3>4. CASE Ask
        BY <3>4, TimesAssumption DEF TypeOK, Ask, tableVars
      <3> QED
        BY <3>1, <3>2, <3>3, <3>4
    <2>2. pc' \in Places /\ verdict' \in Verdicts
      BY DEF TypeOK, Accept, AcceptError, Verify, Parse, Ask, Spawn, Conclude, Goto,
             Places, Verdicts
    <2> QED
      BY <1>0, <2>1, <2>2 DEF TypeOK
  <1>2. OneLeasePerCert' /\ Fresh' /\ Current'
    BY <1>0 DEF OneLeasePerCert, Fresh, Current, Expired
  <1>3. NoSlicePanic' /\ Settled'
    BY <1>0 DEF NoSlicePanic, Settled, Accept, AcceptError, Verify, Parse, Ask, Spawn,
                Conclude, Goto, tableVars, worldVars
  <1>4. ScanInv'
    <2>1. CASE Verify
      BY <1>0, <2>1, LenProperties
         DEF ScanInv, Searching, Absent, Settled, TypeOK, Verify, Conclude, Goto
    <2>2. CASE ~Verify
      BY <2>2 DEF ScanInv, Accept, AcceptError, Parse, Ask, Spawn, Conclude, Goto
    <2> QED
      BY <2>1, <2>2
  <1>5. Unleased'
    BY <1>0 DEF Unleased, Absent, Accept, AcceptError, Verify, Parse, Ask, Spawn, Conclude, Goto
  <1>6. Answer'
    BY <1>0 DEF Answer, Current, TypeOK, Accept, AcceptError, Verify, Parse, Ask, Spawn,
                Conclude, Goto
  <1> QED
    BY <1>1, <1>2, <1>3, <1>4, <1>5, <1>6

\* One round of the range loop.  Only the round that deletes changes the array.
LEMMA LeaseInvScan ==
  ASSUME LeaseInv, Scan
  PROVE  LeaseInv'
  <1> USE DEF LeaseInv
  <1>0. pc = "scan" /\ i \in 1 .. Len(arr) /\ Len(arr) \in Nat /\ len \in 0 .. Len(arr)
    <2>1. Len(arr) \in Nat /\ len \in 0 .. Len(arr) /\ i \in Nat \ {0}
      BY LenProperties DEF TypeOK
    <2>2. pc = "scan" /\ i <= Len(arr)
      BY DEF Scan
    <2> QED
      BY <2>1, <2>2
  <1>1. UNCHANGED <<peer, waited, permitted, stale>>
    BY DEF Scan, worldVars
  <1>2. CASE arr[i].cert # peer
    <2>1. /\ i' = i + 1 /\ UNCHANGED <<arr, len, pc, verdict>>
      BY <1>2 DEF Scan
    <2>2. TypeOK' /\ OneLeasePerCert' /\ NoSlicePanic'
      BY <1>0, <1>1, <2>1 DEF TypeOK, OneLeasePerCert, NoSlicePanic
    <2>3. Settled' /\ Unleased' /\ Fresh' /\ Current' /\ Answer'
      BY <1>0, <1>1, <2>1 DEF Settled, Unleased, Fresh, Current, Answer, Expired, Absent
    <2>4. ScanInv'
      BY <1>0, <1>1, <1>2, <2>1 DEF ScanInv, Searching, Deleting, Absent
    <2> QED
      BY <2>2, <2>3, <2>4
  <1>3. ASSUME arr[i].cert = peer PROVE Searching
    BY <1>0, <1>3 DEF ScanInv, Deleting, Absent
  <1>4. CASE arr[i].cert = peer /\ ~Expired(arr[i])
    <2>1. /\ pc' = "spawn" /\ verdict' = "admitted" /\ UNCHANGED <<arr, len, i>>
      BY <1>4 DEF Scan, Conclude, Goto
    <2>2. len = Len(arr)
      BY <1>3, <1>4 DEF Searching
    <2>3. TypeOK' /\ OneLeasePerCert' /\ NoSlicePanic'
      BY <1>1, <2>1 DEF TypeOK, OneLeasePerCert, NoSlicePanic, Places, Verdicts
    <2>4. ScanInv' /\ Settled' /\ Unleased' /\ Fresh' /\ Current' /\ Answer'
      BY <1>1, <2>1, <2>2 DEF ScanInv, Settled, Unleased, Fresh, Current, Answer, Expired
    <2> QED
      BY <2>3, <2>4
  <1>5. CASE arr[i].cert = peer /\ Expired(arr[i])
    <2>1. len = Len(arr) /\ i <= len /\ ~(i > len)
      BY <1>0, <1>3, <1>5 DEF Searching
    <2>2. /\ arr' = Deleted(i) /\ len' = len - 1 /\ i' = i + 1 /\ UNCHANGED <<pc, verdict>>
      BY <1>5, <2>1, Zenon DEF Scan
    <2>3. /\ arr' \in Seq(Lease) /\ Len(arr') = Len(arr)
          /\ \A j \in 1 .. Len(arr) :
               arr'[j] = IF i <= j /\ j < len THEN arr[j + 1] ELSE arr[j]
      BY <1>0, <2>1, <2>2, DeletedIsSeq
    <2>4. TypeOK' /\ NoSlicePanic'
      BY <1>0, <1>1, <2>1, <2>2, <2>3 DEF TypeOK, NoSlicePanic
    <2>5. \A j \in 1 .. len : j # i => arr[j].cert # peer
      BY <1>0, <1>5, <2>1 DEF OneLeasePerCert
    <2>6. OneLeasePerCert'
      <3> SUFFICES ASSUME NEW j \in 1 .. len', NEW k \in 1 .. len', arr'[j].cert = arr'[k].cert
                   PROVE  j = k
        BY DEF OneLeasePerCert
      <3>1. j \in 1 .. (len - 1) /\ k \in 1 .. (len - 1)
        BY <2>2
      <3>2. arr'[j] = (IF i <= j THEN arr[j + 1] ELSE arr[j])
        BY <1>0, <2>1, <2>3, <3>1
      <3>3. arr'[k] = (IF i <= k THEN arr[k + 1] ELSE arr[k])
        BY <1>0, <2>1, <2>3, <3>1
      <3>4. (IF i <= j THEN j + 1 ELSE j) = (IF i <= k THEN k + 1 ELSE k)
        BY <1>0, <2>1, <3>1, <3>2, <3>3 DEF OneLeasePerCert
      <3> QED
        BY <1>0, <3>1, <3>4
    <2>7. Deleting'
      <3>1. ASSUME NEW k \in 1 .. (len - 1) PROVE arr'[k].cert # peer
        BY <1>0, <2>1, <2>3, <2>5
      <3>2. ASSUME NEW k \in (i + 1) .. Len(arr) PROVE arr'[k].cert # peer
        BY <1>0, <2>1, <2>3, <2>5
      <3> QED
        BY <1>1, <2>1, <2>2, <2>3, <3>1, <3>2 DEF Deleting, Absent
    <2>8. ScanInv' /\ Settled' /\ Unleased' /\ Current' /\ Answer'
      BY <1>0, <1>1, <2>2, <2>3, <2>7 DEF ScanInv, Settled, Unleased, Current, Answer
    <2>9. Fresh'
      <3> SUFFICES ASSUME NEW k \in 1 .. Len(arr), ~Expired(arr'[k])
                   PROVE  stale[arr'[k].cert] <= arr'[k].age + MaxLatency
        BY <1>1, <2>3 DEF Fresh, Expired
      <3>1. PICK j \in 1 .. Len(arr) : arr'[k] = arr[j]
        <4>1. arr'[k] = (IF i <= k /\ k < len THEN arr[k + 1] ELSE arr[k])
          BY <2>3
        <4>2. CASE i <= k /\ k < len
          <5>1. k + 1 \in 1 .. Len(arr)
            BY <1>0, <2>1, <4>2
          <5> QED
            BY <4>1, <4>2, <5>1
        <4>3. CASE ~(i <= k /\ k < len)
          BY <4>1, <4>3
        <4> QED
          BY <4>2, <4>3
      <3> QED
        BY <3>1 DEF Fresh
    <2> QED
      BY <2>4, <2>6, <2>8, <2>9
  <1> QED
    BY <1>2, <1>4, <1>5

\* The end of the range loop: what is cut off lies beyond len.
LEMMA LeaseInvScanDone ==
  ASSUME LeaseInv, ScanDone
  PROVE  LeaseInv'
  <1> USE DEF LeaseInv
  <1>0. Len(arr) \in Nat /\ len \in 0 .. Len(arr) /\ i \in Nat \ {0} /\ i > Len(arr) /\ pc = "scan"
    <2>1. Len(arr) \in Nat /\ len \in 0 .. Len(arr) /\ i \in Nat \ {0}
      BY LenProperties DEF TypeOK
    <2> QED
      BY <2>1 DEF ScanDone
  <1>1. /\ pc' = "parse" /\ arr' = SubSeq(arr, 1, len)
        /\ UNCHANGED <<len, i, peer, verdict, waited, permitted, stale>>
    BY DEF ScanDone, Goto, worldVars
  <1>2. /\ arr' \in Seq(Lease) /\ Len(arr') = len
        /\ \A k \in 1 .. len : arr'[k] = arr[k]
    <2>1. \A k \in 1 .. len : arr[k] \in Lease
      BY <1>0, ElementOfSeq DEF TypeOK
    <2> QED
      BY <1>0, <1>1, <2>1, SubSeqProperties
  <1>3. Absent(1, len)
    BY <1>0 DEF ScanInv, Searching, Deleting, Absent
  <1>4. TypeOK' /\ OneLeasePerCert' /\ NoSlicePanic'
    <2>1. TypeOK'
      BY <1>0, <1>1, <1>2 DEF TypeOK, Places
    <2>2. OneLeasePerCert' /\ NoSlicePanic'
      BY <1>0, <1>1, <1>2 DEF OneLeasePerCert, NoSlicePanic
    <2> QED
      BY <2>1, <2>2
  <1>5. ScanInv' /\ Settled' /\ Unleased' /\ Current' /\ Answer'
    BY <1>0, <1>1, <1>2, <1>3 DEF ScanInv, Settled, Unleased, Absent, Current, Answer
  <1>6. Fresh'
    <2> SUFFICES ASSUME NEW k \in 1 .. len, ~Expired(arr'[k])
                 PROVE  stale[arr'[k].cert] <= arr'[k].age + MaxLatency
      BY <1>1, <1>2 DEF Fresh, Expired
    <2>1. k \in 1 .. Len(arr) /\ arr'[k] = arr[k]
      BY <1>0, <1>2
    <2> QED
      BY <2>1 DEF Fresh
  <1> QED
    BY <1>4, <1>5, <1>6

\* A positive answer becomes the only lease of its peer.
LEMMA LeaseInvAnswered ==
  ASSUME LeaseInv, Answered
  PROVE  LeaseInv'
  <1> USE DEF LeaseInv
  <1>0. Len(arr) \in Nat /\ len = Len(arr) /\ pc = "answer" /\ peer \in Peers
    BY LenProperties DEF TypeOK, Settled, Answered
  <1>1. pc' = "spawn" /\ UNCHANGED <<i, peer, verdict, waited, permitted, stale>>
    BY DEF Answered, Goto, worldVars
  <1>2. CASE verdict = "admitted"
    <2> DEFINE new == [cert |-> peer, age |-> 0]
    <2>1. arr' = Append(arr, new) /\ len' = len + 1
      BY <1>2 DEF Answered
    <2>2. new \in Lease
      BY <1>0, TimesAssumption DEF Lease
    <2>3. /\ arr' \in Seq(Lease) /\ Len(arr') = len + 1
          /\ \A k \in 1 .. len : arr'[k] = arr[k]
          /\ arr'[len + 1] = new
      BY <1>0, <2>1, <2>2, AppendProperties DEF TypeOK
    <2> HIDE DEF new
    <2>4. TypeOK' /\ NoSlicePanic'
      BY <1>0, <1>1, <2>1, <2>3 DEF TypeOK, NoSlicePanic, Places
    <2>5. OneLeasePerCert'
      <3>1. \A k \in 1 .. len : arr'[k].cert # new.cert
        BY <1>0, <2>3 DEF Unleased, Absent, new
      <3> QED
        BY <1>0, <2>1, <2>3, <3>1 DEF OneLeasePerCert
    <2>6. ScanInv' /\ Settled' /\ Unleased' /\ Current' /\ Answer'
      BY <1>0, <1>1, <2>1, <2>3 DEF ScanInv, Settled, Unleased, Current, Answer
    <2>7. Fresh'
      <3>1. stale[new.cert] <= new.age + MaxLatency
        BY <1>0, <1>2, TimesAssumption DEF Answer, TypeOK, Staleness, new
      <3>2. ASSUME NEW k \in 1 .. (len + 1), ~Expired(arr'[k])
            PROVE  stale[arr'[k].cert] <= arr'[k].age + MaxLatency
        <4>1. CASE k \in 1 .. len
          BY <1>0, <2>3, <3>2, <4>1 DEF Fresh
        <4>2. CASE k = len + 1
          BY <2>3, <3>1, <4>2
        <4> QED
          BY <1>0, <4>1, <4>2
      <3> QED
        BY <1>1, <2>3, <3>2 DEF Fresh, Expired
    <2> QED
      BY <2>4, <2>5, <2>6, <2>7
  <1>3. CASE verdict # "admitted"
    <2>1. arr' = arr /\ len' = len
      BY <1>3 DEF Answered
    <2>2. TypeOK' /\ OneLeasePerCert' /\ NoSlicePanic'
      BY <1>1, <2>1 DEF TypeOK, OneLeasePerCert, NoSlicePanic, Places
    <2>3. ScanInv' /\ Settled' /\ Unleased' /\ Fresh' /\ Current' /\ Answer'
      BY <1>0, <1>1, <2>1 DEF ScanInv, Settled, Unleased, Fresh, Expired, Current, Answer
    <2> QED
      BY <2>2, <2>3
  <1> QED
    BY <1>2, <1>3

\* A second ages the leases, and what tolla has said, alike.
LEMMA LeaseInvTick ==
  ASSUME LeaseInv, Tick
  PROVE  LeaseInv'
  <1> USE DEF LeaseInv
  <1>0. Len(arr) \in Nat /\ len \in 0 .. Len(arr)
    BY LenProperties DEF TypeOK
  <1>1. /\ UNCHANGED <<len, i, pc, peer, verdict, permitted>>
        /\ pc = "answer" => waited < MaxLatency
        /\ waited' = IF pc = "answer" THEN waited + 1 ELSE waited
    BY DEF Tick
  <1>2. \A k \in 1 .. Len(arr) :
          /\ arr[k].cert \in Peers /\ arr[k].age \in 0 .. (LeaseTime + 1)
          /\ [arr[k] EXCEPT !.age = Capped(@, LeaseTime + 1)] =
               [cert |-> arr[k].cert, age |-> Capped(arr[k].age, LeaseTime + 1)]
    <2> SUFFICES ASSUME NEW k \in 1 .. Len(arr)
                 PROVE  /\ arr[k].cert \in Peers /\ arr[k].age \in 0 .. (LeaseTime + 1)
                        /\ [arr[k] EXCEPT !.age = Capped(@, LeaseTime + 1)] =
                             [cert |-> arr[k].cert, age |-> Capped(arr[k].age, LeaseTime + 1)]
      OBVIOUS
    <2>1. arr[k] \in Lease
      BY LeaseOf
    <2> QED
      BY <2>1 DEF Lease
  <1>3. arr' = [k \in 1 .. Len(arr) |->
                 [cert |-> arr[k].cert, age |-> Capped(arr[k].age, LeaseTime + 1)]]
    BY <1>2 DEF Tick
  <1>4. /\ arr' \in Seq(Lease) /\ Len(arr') = Len(arr)
        /\ \A k \in 1 .. Len(arr) : /\ arr'[k].cert = arr[k].cert
                                     /\ arr'[k].age = Capped(arr[k].age, LeaseTime + 1)
    <2>1. arr' \in [1 .. Len(arr) -> Lease]
      <3>1. \A k \in 1 .. Len(arr) : Capped(arr[k].age, LeaseTime + 1) \in 0 .. (LeaseTime + 1)
        <4> SUFFICES ASSUME NEW k \in 1 .. Len(arr)
                     PROVE  Capped(arr[k].age, LeaseTime + 1) \in 0 .. (LeaseTime + 1)
          OBVIOUS
        <4>1. arr[k].age \in 0 .. (LeaseTime + 1)
          BY <1>2
        <4> QED
          BY <4>1, TimesAssumption DEF Capped
      <3> QED
        BY <1>2, <1>3, <3>1 DEF Lease
    <2> QED
      BY <1>0, <1>3, <2>1, FunctionIsSeq
  <1>5. /\ stale' \in [Peers -> Staleness]
        /\ \A c \in Peers : stale[c] \in Nat /\ stale'[c] \in Nat /\ stale'[c] <= stale[c] + 1
        /\ \A c \in permitted : stale'[c] = 0
    BY TimesAssumption DEF Intended, Tick, TypeOK, Staleness, Capped
  <1>6. TypeOK'
    BY <1>0, <1>1, <1>4, <1>5, TimesAssumption DEF TypeOK
  <1>7. OneLeasePerCert' /\ NoSlicePanic' /\ Settled' /\ Unleased' /\ Current'
    <2>0. \A k \in 1 .. len : arr'[k].cert = arr[k].cert
      BY <1>0, <1>4
    <2>1. OneLeasePerCert' /\ Unleased'
      BY <1>1, <2>0 DEF OneLeasePerCert, Unleased, Absent
    <2>2. NoSlicePanic' /\ Settled' /\ Current'
      BY <1>1, <1>4, <1>5 DEF NoSlicePanic, Settled, Current
    <2> QED
      BY <2>1, <2>2
  <1>8. ScanInv'
    <2> SUFFICES ASSUME pc = "scan"
                 PROVE  i <= Len(arr) + 1 /\ (Searching' \/ Deleting')
      BY <1>1, <1>4 DEF ScanInv
    <2>1. i \in Nat \ {0} /\ i <= Len(arr) + 1 /\ (Searching \/ Deleting)
      BY DEF TypeOK, ScanInv
    <2>2. \A k \in 1 .. Len(arr) : arr[k].cert # peer => arr'[k].cert # peer'
      BY <1>1, <1>4
    <2>3. CASE Searching
      <3>1. \A k \in 1 .. (i - 1) : k \in 1 .. Len(arr) /\ arr[k].cert # peer
        BY <1>0, <2>1, <2>3 DEF Searching, Absent
      <3>2. Searching'
        BY <1>1, <1>4, <2>2, <2>3, <3>1 DEF Searching, Absent
      <3> QED
        BY <2>1, <3>2
    <2>4. CASE Deleting
      <3>1. /\ \A k \in 1 .. len : k \in 1 .. Len(arr) /\ arr[k].cert # peer
            /\ \A k \in i .. Len(arr) : k \in 1 .. Len(arr) /\ arr[k].cert # peer
        BY <1>0, <2>1, <2>4 DEF Deleting, Absent
      <3>2. Deleting'
        BY <1>1, <1>4, <2>2, <2>4, <3>1 DEF Deleting, Absent
      <3> QED
        BY <2>1, <3>2
    <2> QED
      BY <2>1, <2>3, <2>4
  <1>9. Fresh'
    <2> SUFFICES ASSUME NEW k \in 1 .. Len(arr), ~Expired(arr'[k])
                 PROVE  stale'[arr'[k].cert] <= arr'[k].age + MaxLatency
      BY <1>4 DEF Fresh, Expired
    <2>0. arr[k].age \in 0 .. (LeaseTime + 1) /\ arr[k].cert \in Peers
      BY <1>2
    <2>1. arr[k].age \in 0 .. LeaseTime /\ arr'[k].age = arr[k].age + 1 /\ arr'[k].cert = arr[k].cert
      BY <1>4, <2>0, TimesAssumption DEF Expired, Capped
    <2>2. stale[arr[k].cert] <= arr[k].age + MaxLatency
      BY <2>1, TimesAssumption DEF Fresh, Expired
    <2>3. stale[arr[k].cert] \in Nat /\ stale'[arr[k].cert] \in Nat
      BY <1>5, <2>0
    <2>4. stale'[arr[k].cert] <= stale[arr[k].cert] + 1
      BY <1>5, <2>0
    <2>5. stale'[arr'[k].cert] = stale'[arr[k].cert]
      BY <2>1
    <2> HIDE DEF LeaseInv
    <2>6. arr'[k].age + MaxLatency = arr[k].age + MaxLatency + 1
      BY <2>1, TimesAssumption
    <2> QED
      BY <2>0, <2>2, <2>3, <2>4, <2>5, <2>6, TimesAssumption
  <1>10. Answer'
    BY <1>1, <1>5 DEF Answer, TypeOK
  <1> QED
    BY <1>6, <1>7, <1>8, <1>9, <1>10

\* The tenant's consent changes: it takes no lease away, and makes none older.
LEMMA LeaseInvConsent ==
  ASSUME LeaseInv, NEW c \in Intended, ConsentChanges(c)
  PROVE  LeaseInv'
  <1> USE DEF LeaseInv
  <1>1. UNCHANGED <<arr, len, i, pc, peer, verdict, waited>>
    BY DEF ConsentChanges, tableVars, loopVars
  <1>2. /\ permitted' \subseteq Intended /\ stale' \in [Peers -> Staleness]
        /\ \A d \in Peers : stale[d] \in Nat /\ (stale'[d] = stale[d] \/ stale'[d] = 0)
        /\ \A d \in permitted' : stale'[d] = 0
    BY TimesAssumption DEF Intended, ConsentChanges, TypeOK, Staleness, Current
  <1>3. TypeOK' /\ Current'
    BY <1>1, <1>2 DEF TypeOK, Current
  <1>4. OneLeasePerCert' /\ NoSlicePanic' /\ ScanInv' /\ Settled' /\ Unleased'
    BY <1>1 DEF OneLeasePerCert, NoSlicePanic, ScanInv, Searching, Deleting, Absent, Settled, Unleased
  <1>5. Fresh'
    <2> SUFFICES ASSUME NEW k \in 1 .. Len(arr), ~Expired(arr[k])
                 PROVE  stale'[arr[k].cert] <= arr[k].age + MaxLatency
      BY <1>1 DEF Fresh, Expired
    <2>1. arr[k].cert \in Peers /\ arr[k].age \in 0 .. (LeaseTime + 1)
      BY LeaseOf
    <2>2. stale[arr[k].cert] <= arr[k].age + MaxLatency
      BY DEF Fresh
    <2> QED
      BY <1>2, <2>1, <2>2, TimesAssumption
  <1>6. Answer'
    BY <1>1, <1>2 DEF Answer, TypeOK
  <1> QED
    BY <1>3, <1>4, <1>5, <1>6

LEMMA LeaseInvStutter == LeaseInv /\ UNCHANGED vars => LeaseInv'
  BY DEF LeaseInv, vars, tableVars, loopVars, worldVars, TypeOK, OneLeasePerCert, NoSlicePanic,
         ScanInv, Searching, Deleting, Absent, Settled, Unleased, Fresh, Expired, Current, Answer

LEMMA LeaseInvNext == LeaseInv /\ [Next]_vars => LeaseInv'
  BY LeaseInvLoop, LeaseInvScan, LeaseInvScanDone, LeaseInvAnswered, LeaseInvTick,
     LeaseInvConsent, LeaseInvStutter DEF Next, Proxy

-----------------------------------------------------------------------------
(***************************************************************************)
(* Theorems                                                                *)
(***************************************************************************)

\* The invariant holds in every state the proxy can reach.
THEOREM LeaseInvHolds == Spec => []LeaseInv
  <1>1. Init => LeaseInv
    BY LeaseInvInit
  <1>2. LeaseInv /\ [Next]_vars => LeaseInv'
    BY LeaseInvNext
  <1> QED
    BY <1>1, <1>2, PTL DEF Spec

\* The variables of the accept loop keep their types, and the length of p.leases
\* stays within its array.
THEOREM ProxyTypeCorrect == Spec => []TypeOK
  <1>1. LeaseInv => TypeOK
    BY DEF LeaseInv
  <1> QED
    BY <1>1, LeaseInvHolds, PTL

\* VerifyPeerCertificate never leaves two leases of one certificate in p.leases.
THEOREM LeasesUnique == Spec => []OneLeasePerCert
  <1>1. LeaseInv => OneLeasePerCert
    BY DEF LeaseInv
  <1> QED
    BY <1>1, LeaseInvHolds, PTL

\* append(p.leases[:i], p.leases[i+1:]...) inside the range loop never panics.
THEOREM SliceInRange == Spec => []NoSlicePanic
  <1>1. LeaseInv => NoSlicePanic
    BY DEF LeaseInv
  <1> QED
    BY <1>1, LeaseInvHolds, PTL

\* A handshake that admits its peer does so on a lease that still holds, or on an
\* answer of tolla.
LEMMA AdmittedStep ==
  ASSUME LeaseInv, Next, pc # "spawn", pc' = "spawn", verdict' = "admitted"
  PROVE  stale[peer] <= LeaseTime + MaxLatency
  <1>1. Scan \/ Answered
    BY DEF Next, Proxy, Accept, AcceptError, Verify, Parse, Ask, Spawn, ScanDone, Tick,
           ConsentChanges, Conclude, Goto, tableVars, loopVars
  <1>2. stale[peer] \in Nat /\ waited \in 0 .. MaxLatency
    BY TimesAssumption DEF LeaseInv, TypeOK, Staleness
  <1>3. CASE Scan
    <2>1. arr[i].cert = peer /\ ~Expired(arr[i]) /\ i \in 1 .. Len(arr)
      BY <1>3, LenProperties DEF Scan, Conclude, Goto, LeaseInv, TypeOK
    <2>2. arr[i].age \in 0 .. (LeaseTime + 1)
      BY <2>1, LeaseOf DEF LeaseInv
    <2>3. stale[peer] <= arr[i].age + MaxLatency
      BY <2>1 DEF LeaseInv, Fresh
    <2> QED
      BY <1>2, <2>1, <2>2, <2>3, TimesAssumption DEF Expired
  <1>4. CASE Answered
    <2>1. stale[peer] <= waited
      BY <1>4 DEF Answered, LeaseInv, Answer
    <2> QED
      BY <1>2, <2>1, TimesAssumption
  <1> QED
    BY <1>1, <1>3, <1>4

\* Nobody is let in longer than a lease lasts and an answer travels after tolla would
\* last have said yes.
THEOREM RevocationIsBounded == Spec => RevocationBounded
  <1>1. LeaseInv /\ [Next]_vars =>
          [pc # "spawn" /\ pc' = "spawn" /\ verdict' = "admitted" =>
             stale[peer] <= LeaseTime + MaxLatency]_vars
    BY AdmittedStep
  <1> QED
    BY <1>1, LeaseInvHolds, PTL DEF Spec, RevocationBounded
=============================================================================
