---------------------------- MODULE RequestRelay -----------------------------
(***************************************************************************)
(* RequestProxy (tolla/src/proxy.rs): an event loop that accepts clients,  *)
(* asks its router for the database's address, connects, and copies both   *)
(* ways.  The model follows one connection; the loop also serves others.   *)
(* Nothing in the repository implements DBrouter: it is external.          *)
(***************************************************************************)
EXTENDS RelayPeers

VARIABLES
  loop,     \* whether the event loop is alive
  stage,    \* the connection's future
  copying   \* copying[p]: the copy future of p's stream

relayVars == <<got, eof, taken, loop, stage, copying>>
allVars == <<peerVars, relayVars>>

RequestInit ==
  /\ PeersInit
  /\ loop = "running"
  /\ stage = "listening"
  /\ copying = [p \in Peers |-> "none"]

\* The sockets are dropped: both peers see the end of the connection.
Drop(why) == stage' = why /\ eof' = [p \in Peers |-> TRUE]

\* incoming(): the router's error is unwrapped, which ends the loop and with it
\* every connection.  The loop accepts others, and can end for their sake.
Accept ==
  /\ loop = "running"
  /\ \/ stage = "listening" /\ stage' = "connecting" /\ UNCHANGED <<eof, loop>>
     \/ loop' = "panicked" /\ Drop("dropped")
  /\ UNCHANGED <<peerVars, got, taken, copying>>

\* TcpStream::connect; an error drops the client.
Connect ==
  /\ loop = "running" /\ stage = "connecting"
  /\ \/ stage' = "joined" /\ copying' = [p \in Peers |-> "copy"] /\ UNCHANGED eof
     \/ Drop("dropped") /\ UNCHANGED copying
  /\ UNCHANGED <<peerVars, got, taken, loop>>

Running(p) == loop = "running" /\ stage = "joined" /\ copying[p] = "copy"

\* copy(reader, writer).
CopyRead(p) ==
  /\ Running(p)
  /\ TakeFrom(p)
  /\ UNCHANGED <<peerVars, eof, loop, stage, copying>>

CopyWrite(p) ==
  /\ Running(p)
  /\ GiveTo(Other(p))
  /\ UNCHANGED <<peerVars, eof, loop, stage, copying>>

\* Mutants of CopyEnds: the writer is not shut down; it is shut down before the
\* last chunk is written.
CopyEndsSilently(p) ==
  /\ Running(p) /\ Exhausted(p)
  /\ copying' = [copying EXCEPT ![p] = "done"]
  /\ IF copying[Other(p)] = "done" THEN Drop("finished") ELSE UNCHANGED <<eof, stage>>
  /\ UNCHANGED <<peerVars, got, taken, loop>>

CopyEndsEarly(p) ==
  /\ Running(p) /\ fin[p] /\ taken[p] = sent[p]
  /\ copying' = [copying EXCEPT ![p] = "done"]
  /\ eof' = [eof EXCEPT ![p] = TRUE]
  /\ stage' = IF copying[Other(p)] = "done" THEN "finished" ELSE stage
  /\ UNCHANGED <<peerVars, got, taken, loop>>

\* The copy is complete: shutdown(writer) tells the other peer.  join() ends
\* when both have.
CopyEnds(p) ==
  /\ Running(p) /\ Exhausted(p)
  /\ copying' = [copying EXCEPT ![p] = "done"]
  /\ eof' = [eof EXCEPT ![p] = TRUE]
  /\ stage' = IF copying[Other(p)] = "done" THEN "finished" ELSE stage
  /\ UNCHANGED <<peerVars, got, taken, loop>>

\* An error of either copy or shutdown fails the join and drops the other copy.
CopyFails ==
  /\ loop = "running" /\ stage = "joined" /\ \E p \in Peers : gone[p]
  /\ Drop("dropped")
  /\ UNCHANGED <<peerVars, got, taken, loop, copying>>

Pump(p) == CopyRead(p) \/ CopyWrite(p) \/ CopyEnds(p)

RequestNext ==
  \/ \E p \in Peers : (Peer(p) /\ UNCHANGED relayVars) \/ Pump(p)
  \/ Accept \/ Connect \/ CopyFails

RequestSpec == RequestInit /\ [][RequestNext]_allVars

\* The event loop polls every future that can make progress.
RequestLiveSpec ==
  /\ RequestSpec
  /\ WF_allVars(Connect) /\ WF_allVars(CopyFails)
  /\ \A p \in Peers : WF_allVars(Pump(p))

-----------------------------------------------------------------------------
R == INSTANCE Relay WITH
  broken <- stage = "dropped" \/ \E p \in Peers : gone[p]

\* The two copy futures and their join implement a relay.
RequestImplementsRelay == R!Spec

\* Unlike the tenant proxy's relay, this one forwards a half-close: when a peer
\* has finished, the other learns it even though its own stream goes on.
HalfCloseForwarded ==
  \A p \in Peers : (stage = "joined" /\ fin[p]) ~> eof[p]
=============================================================================
