----------------------------- MODULE TenantProxy -----------------------------
(***************************************************************************)
(* The proxy in front of a tenant's store: the accept loop, the lease      *)
(* table and VerifyPeerCertificate (mongodb/docker-alpine-mongo/proxy/     *)
(* main.go).                                                               *)
(*                                                                         *)
(* The accept loop runs each TLS handshake to its end before it accepts    *)
(* again, so VerifyPeerCertificate never runs twice at once; time and the  *)
(* tenant's consent move on while it runs.  A peer that connects again     *)
(* within LeaseTime of a positive answer is let in without asking tolla.   *)
(*                                                                         *)
(* p.leases is kept as Go keeps it.  `range p.leases` walks the slice it   *)
(* saw at the start, arr, while append(p.leases[:i], p.leases[i+1:]...)    *)
(* moves elements down inside the same array and shortens p.leases, whose  *)
(* length is len.  Times are ages in ticks, capped where nothing depends   *)
(* on them any more.                                                       *)
(***************************************************************************)
EXTENDS Integers, Sequences

CONSTANTS
  Peers,       \* client certificates
  Untrusted,   \* those not signed by the root the proxy loaded
  NoIntent,    \* those without a subject alternative name
  Malformed,   \* those whose subject alternative name is not an intent
  LeaseTime,   \* 10 in the code
  MaxLatency   \* assumption: ticks an answer of tolla can spend on its way

ASSUME TimesAssumption == LeaseTime \in Nat /\ MaxLatency \in Nat

VARIABLES
  arr,        \* the array under p.leases, as the running range loop sees it
  len,        \* len(p.leases)
  i,          \* the position of the range loop
  pc,         \* where the accept loop is
  peer,       \* the certificate of the handshake in progress
  verdict,    \* how the handshake, or the question to tolla, ended
  waited,     \* ticks since tolla answered
  permitted,  \* peers whose intent the tenant's consent contains, at tolla
  stale       \* ticks since tolla would last have said yes to a peer

tableVars == <<arr, len, i>>
loopVars == <<pc, peer, verdict, waited>>
worldVars == <<permitted, stale>>
vars == <<tableVars, loopVars, worldVars>>

Lease == [cert: Peers, age: 0 .. (LeaseTime + 1)]
Staleness == 0 .. (LeaseTime + MaxLatency + 1)
Capped(n, max) == IF n < max THEN n + 1 ELSE n

\* (*Lease).Expired: time.Since(leaseStart).Seconds() > 10
Expired(l) == l.age > LeaseTime

\* The certificates that name an intent, which a consent can contain.
Intended == Peers \ (NoIntent \cup Malformed)

Verdicts == {"none", "admitted", "refused"}
Places == {"accept", "handshake", "scan", "parse", "ask", "answer", "spawn",
           "slice panic", "accept panic"}

Goto(place) == pc' = place

Init ==
  /\ arr = << >> /\ len = 0 /\ i = 1
  /\ pc = "accept" /\ verdict = "none" /\ waited = 0
  /\ peer \in Peers
  /\ permitted \in SUBSET Intended
  /\ stale = [c \in Peers |-> IF c \in permitted THEN 0 ELSE LeaseTime + MaxLatency + 1]

\* l.Accept.  An error is only logged; the type assertion on the nil
\* connection then panics.
Accept(c) ==
  /\ pc = "accept"
  /\ peer' = c /\ Goto("handshake")
  /\ UNCHANGED <<tableVars, verdict, waited, worldVars>>

AcceptError ==
  /\ pc = "accept"
  /\ Goto("accept panic")
  /\ UNCHANGED <<tableVars, peer, verdict, waited, worldVars>>

\* The handshake is over: the accept loop only logs its error.
Conclude(v) == verdict' = v /\ Goto("spawn")

\* The client's certificate arrives: crypto/tls verifies the chain, then
\* VerifyPeerCertificate looks for the intent and starts to search the leases.
Verify ==
  /\ pc = "handshake"
  /\ \/ peer \in Untrusted \cup NoIntent /\ Conclude("refused")
     \/ peer \notin Untrusted \cup NoIntent /\ Goto("scan") /\ UNCHANGED verdict
  /\ i' = 1
  /\ UNCHANGED <<arr, len, peer, waited, worldVars>>

\* Mutants of Deleted: append(p.leases[:k], p.leases[k+1:]...), and an array that
\* ends before what the loop still has to visit.
DeletedShorter(k) == SubSeq(arr, 1, len - 2)
DeletedNext(k) ==
  [j \in 1 .. Len(arr) |-> IF k < j /\ j < len THEN arr[j + 1] ELSE arr[j]]

\* append(p.leases[:k-1], p.leases[k:]...) on the shared array.
Deleted(k) ==
  [j \in 1 .. Len(arr) |-> IF k <= j /\ j < len THEN arr[j + 1] ELSE arr[j]]

\* Mutants of Scan: a lease that is used starts again; a lease that is used is
\* followed by a fresh one.
ScanRenews ==
  /\ pc = "scan" /\ i <= Len(arr)
  /\ \/ arr[i].cert # peer /\ i' = i + 1 /\ UNCHANGED <<arr, pc, verdict>>
     \/ /\ arr[i].cert = peer
        /\ arr' = [arr EXCEPT ![i].age = 0] /\ Conclude("admitted") /\ UNCHANGED i
  /\ UNCHANGED <<len, peer, waited, worldVars>>

ScanExtends ==
  /\ pc = "scan" /\ i <= Len(arr)
  /\ \/ arr[i].cert # peer /\ i' = i + 1 /\ UNCHANGED <<arr, len, pc, verdict>>
     \/ /\ arr[i].cert = peer /\ ~Expired(arr[i])
        /\ arr' = Append(arr, [cert |-> peer, age |-> 0]) /\ len' = len + 1
        /\ Conclude("admitted") /\ UNCHANGED i
     \/ /\ arr[i].cert = peer /\ Expired(arr[i])
        /\ IF i <= len
             THEN arr' = Deleted(i) /\ len' = len - 1 /\ i' = i + 1 /\ UNCHANGED pc
             ELSE Goto("slice panic") /\ UNCHANGED <<arr, len, i>>
        /\ UNCHANGED verdict
  /\ UNCHANGED <<peer, waited, worldVars>>

\* One round of `for i, lease := range p.leases`.
Scan ==
  /\ pc = "scan" /\ i <= Len(arr)
  /\ \/ /\ arr[i].cert # peer
        /\ i' = i + 1
        /\ UNCHANGED <<arr, len, pc, verdict>>
     \/ /\ arr[i].cert = peer /\ ~Expired(arr[i])
        /\ Conclude("admitted")
        /\ UNCHANGED <<arr, len, i>>
     \/ /\ arr[i].cert = peer /\ Expired(arr[i])
        /\ \/ /\ i <= len
              /\ arr' = Deleted(i) /\ len' = len - 1 /\ i' = i + 1
              /\ UNCHANGED pc
           \/ /\ i > len               \* p.leases[i+1:] is out of range
              /\ Goto("slice panic")
              /\ UNCHANGED <<arr, len, i>>
        /\ UNCHANGED verdict
  /\ UNCHANGED <<peer, waited, worldVars>>

\* The loop is over; what lies beyond len in the array is never read again.
ScanDone ==
  /\ pc = "scan" /\ i > Len(arr)
  /\ Goto("parse")
  /\ arr' = SubSeq(arr, 1, len)
  /\ UNCHANGED <<len, i, peer, verdict, waited, worldVars>>

\* The asn1.Unmarshal steps that extract the intent.
Parse ==
  /\ pc = "parse"
  /\ \/ peer \in Malformed /\ Conclude("refused")
     \/ peer \notin Malformed /\ Goto("ask") /\ UNCHANGED verdict
  /\ UNCHANGED <<tableVars, peer, waited, worldVars>>

\* assertPermissions, at tolla: the lease endpoint compares the intent with the
\* consent it finds now, or fails.
Ask ==
  /\ pc = "ask"
  /\ verdict' = "refused" \/ (peer \in permitted /\ verdict' = "admitted")
  /\ waited' = 0
  /\ Goto("answer")
  /\ UNCHANGED <<tableVars, peer, worldVars>>

\* assertPermissions returns: a positive answer becomes a lease that starts now.
Answered ==
  /\ pc = "answer"
  /\ \/ /\ verdict = "admitted"
        /\ arr' = Append(arr, [cert |-> peer, age |-> 0]) /\ len' = len + 1
     \/ verdict = "refused" /\ UNCHANGED <<arr, len>>
  /\ Goto("spawn")
  /\ UNCHANGED <<i, peer, verdict, waited, worldVars>>

\* go p.handleConnection(c), whatever the handshake said; back to Accept.
Spawn ==
  /\ pc = "spawn"
  /\ verdict' = "none" /\ Goto("accept")
  /\ UNCHANGED <<tableVars, peer, waited, worldVars>>

\* A second passes.  An answer of tolla is at most MaxLatency on its way.
Tick ==
  /\ pc = "answer" => waited < MaxLatency
  /\ waited' = IF pc = "answer" THEN waited + 1 ELSE waited
  /\ arr' = [j \in 1 .. Len(arr) |-> [arr[j] EXCEPT !.age = Capped(@, LeaseTime + 1)]]
  /\ stale' = [c \in Peers |-> IF c \in permitted THEN 0
                               ELSE Capped(stale[c], LeaseTime + MaxLatency + 1)]
  /\ UNCHANGED <<len, i, pc, peer, verdict, permitted>>

\* The tenant's consent at tolla changes: the user is onboarded or deboarded.
ConsentChanges(c) ==
  /\ permitted' = IF c \in permitted THEN permitted \ {c} ELSE permitted \cup {c}
  /\ stale' = [stale EXCEPT ![c] = IF c \in permitted THEN @ ELSE 0]
  /\ UNCHANGED <<tableVars, loopVars>>

Proxy == \/ (\E c \in Peers : Accept(c)) \/ AcceptError \/ Verify \/ Scan \/ ScanDone
         \/ Parse \/ Ask \/ Answered \/ Spawn

Next == Proxy \/ Tick \/ \E c \in Intended : ConsentChanges(c)

Spec == Init /\ [][Next]_vars

-----------------------------------------------------------------------------
(***************************************************************************)
(* Properties                                                              *)
(***************************************************************************)

\* Every variable has its type; the table's length never exceeds its array.
TypeOK ==
  /\ arr \in Seq(Lease) /\ len \in 0 .. Len(arr) /\ i \in Nat \ {0}
  /\ pc \in Places /\ peer \in Peers /\ verdict \in Verdicts
  /\ waited \in 0 .. MaxLatency
  /\ permitted \subseteq Intended /\ stale \in [Peers -> Staleness]

\* A certificate never has two leases in p.leases, although the search deletes
\* from the slice it ranges over: so the table is as long as the number of
\* certificates at most, and an expired lease never hides a second one.
OneLeasePerCert ==
  \A j, k \in 1 .. len : arr[j].cert = arr[k].cert => j = k

\* The deletion inside the range loop never slices p.leases out of range, which
\* would end the proxy, although the loop goes on over the length it saw before.
NoSlicePanic == pc # "slice panic"

\* Revocation takes effect: a peer is let in only if tolla would have said yes
\* no longer ago than a lease lasts and an answer travels.
RevocationBounded ==
  [][pc # "spawn" /\ pc' = "spawn" /\ verdict' = "admitted" =>
       stale[peer] <= LeaseTime + MaxLatency]_vars
=============================================================================
