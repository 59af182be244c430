------------------------------ MODULE PipeRelay ------------------------------
(***************************************************************************)
(* The tenant proxy's relay (handleConnection and Pipe of proxy/main.go).  *)
(* handleIncoming starts it after Handshake, whatever the result was: a    *)
(* tls.Conn whose handshake failed returns that error from every Read and  *)
(* Write.  Two goroutines copy, one per direction, and count themselves    *)
(* out in status, one with +1 and one with -1.                             *)
(***************************************************************************)
EXTENDS RelayPeers, Integers

VARIABLES
  admitted,  \* the client's handshake succeeded
  copying,   \* copying[p]: the goroutine that copies p's stream
  status,    \* Pipe.status
  open       \* peers whose connection the proxy has not closed

relayVars == <<got, eof, taken, admitted, copying, status, open>>
allVars == <<peerVars, relayVars>>

Copying == {"none", "copy", "ended", "done", "undialled"}

PipeInit ==
  /\ PeersInit
  /\ admitted \in BOOLEAN
  /\ copying = [p \in Peers |-> "none"]
  /\ status = 0
  /\ open = {"client"}

\* What the goroutines add to status.
Side(p) == IF p = "client" THEN 1 ELSE -1

\* The handshake's error comes back from every Read and Write of the client.
Barred(p) == p = "client" /\ ~admitted

\* net.Dial; when it fails handleConnection returns and leaves src as it is.
Dial ==
  /\ copying["client"] = "none"
  /\ \/ copying' = [p \in Peers |-> "copy"] /\ open' = Peers
     \/ copying' = [p \in Peers |-> "undialled"] /\ UNCHANGED open
  /\ UNCHANGED <<peerVars, got, eof, taken, admitted, status>>

\* Mutant of CopyRead: the bytes under the TLS connection are copied.
CopyReadRaw(p) ==
  /\ copying[p] = "copy"
  /\ TakeFrom(p)
  /\ UNCHANGED <<peerVars, eof, admitted, copying, status, open>>

\* io.Copy: read a chunk, write it, and so on; it returns at the end of input or
\* at an error.  What has arrived can still be read when the peer has gone.
CopyRead(p) ==
  /\ copying[p] = "copy" /\ ~Barred(p)
  /\ TakeFrom(p)
  /\ UNCHANGED <<peerVars, eof, admitted, copying, status, open>>

CopyWrite(p) ==
  /\ copying[p] = "copy" /\ ~Barred(Other(p))
  /\ GiveTo(Other(p))
  /\ UNCHANGED <<peerVars, eof, admitted, copying, status, open>>

CopyEnds(p) ==
  /\ copying[p] = "copy"
  /\ \/ taken[p] = got[p] /\ (Exhausted(p) \/ gone[p] \/ Barred(p))
     \/ got[p] < taken[p] /\ (gone[Other(p)] \/ Barred(Other(p)))
  /\ copying' = [copying EXCEPT ![p] = "ended"]
  /\ UNCHANGED <<peerVars, got, eof, taken, admitted, status, open>>

CloseBoth == open' = {} /\ eof' = [q \in Peers |-> TRUE]

\* Mutants of Done: the first goroutine closes; both count with +1.
DoneAtFirst(p) ==
  /\ copying[p] = "ended"
  /\ copying' = [copying EXCEPT ![p] = "done"]
  /\ status' = status + Side(p)
  /\ CloseBoth
  /\ UNCHANGED <<peerVars, got, taken, admitted>>

DoneSameSide(p) ==
  /\ copying[p] = "ended"
  /\ copying' = [copying EXCEPT ![p] = "done"]
  /\ status' = status + 1
  /\ IF status' = 0 THEN CloseBoth ELSE UNCHANGED <<open, eof>>
  /\ UNCHANGED <<peerVars, got, taken, admitted>>

\* Pipe.done: the goroutine that brings status back to 0 closes both.
Done(p) ==
  /\ copying[p] = "ended"
  /\ copying' = [copying EXCEPT ![p] = "done"]
  /\ status' = status + Side(p)
  /\ IF status' = 0 THEN CloseBoth ELSE UNCHANGED <<open, eof>>
  /\ UNCHANGED <<peerVars, got, taken, admitted>>

Pump(p) == CopyRead(p) \/ CopyWrite(p) \/ CopyEnds(p) \/ Done(p)

PipeNext ==
  \/ \E p \in Peers : (Peer(p) /\ UNCHANGED relayVars) \/ Pump(p)
  \/ Dial

PipeSpec == PipeInit /\ [][PipeNext]_allVars

\* Goroutines are scheduled, and Dial returns.
PipeFairness == WF_allVars(Dial) /\ \A p \in Peers : WF_allVars(Pump(p))
PipeLiveSpec == PipeSpec /\ PipeFairness

-----------------------------------------------------------------------------
R == INSTANCE Relay WITH
  broken <- ~admitted \/ \E p \in Peers : gone[p]

\* The two goroutines and Pipe.done implement a relay: neither peer is cut off
\* while the other's data is under way, unless a connection failed.
PipeImplementsRelay == R!Spec

\* handleIncoming only logs a failed handshake and relays anyway; all the same
\* no byte passes between the database and a client that was not admitted.
OnlyAdmitted == admitted \/ (\A p \in Peers : got[p] = 0)

\* When both peers have finished or are gone, Pipe.done closes both connections,
\* in whatever order the goroutines return.
PairReleased ==
  (\A p \in Peers : fin[p] \/ gone[p])
    ~> (open = {} \/ copying["client"] = "undialled")
=============================================================================
