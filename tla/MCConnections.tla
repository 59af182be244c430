---------------------------- MODULE MCConnections ----------------------------
(***************************************************************************)
(* What must come to an end, for TLC: the client program's requests, the   *)
(* tenant proxy's relay, the request relay, and the server's requests,     *)
(* which wait for one mutex.  The parts share no state here, so a          *)
(* behaviour follows one of them, part, and the others stay as they start: *)
(* the run explores the parts one after the other and never their product. *)
(***************************************************************************)
EXTENDS PipeRelay, Client

VARIABLES
  part,                                                          \* the part that runs
  rsent, rfin, rgone, rgot, reof, rtaken, loop, stage, rcopying, \* RequestRelay
  root, issued, container, pems, proxies, consents, view, views, intents,
  calls, req, resp, draft, todo, cert, lock, poisoned, alive, certs  \* TollaServer

Requests == INSTANCE RequestRelay WITH
  sent <- rsent, fin <- rfin, gone <- rgone, got <- rgot, eof <- reof, taken <- rtaken,
  copying <- rcopying

\* One user and two HTTP threads; docker, the disk and OpenSSL fail.
Server == INSTANCE TollaServer WITH
  Users <- {"u1"}, Purposes <- {"static"}, Static <- "static", Uuids <- {"k1"},
  Http <- {"h1", "h2"}, Workers <- {}, Threads <- {"h1", "h2"}, MainWorker <- "main",
  NoThread <- "nobody", Kinds <- {"onboard", "deboard", "lease"},
  Faults <- {"docker", "disk", "openssl"}, HalfRange <- 2, DistinctSerials <- TRUE,
  BareNames <- TRUE, MaxIssues <- 1, MaxBuilds <- 1, ca <- root, pc <- calls, up <- alive

pipeVars == allVars
requestVars == <<rsent, rfin, rgone, rgot, reof, rtaken, loop, stage, rcopying>>
serverVars ==
  <<root, issued, container, pems, proxies, consents, view, views, intents,
    calls, req, resp, draft, todo, cert, lock, poisoned, alive, certs>>
vars == <<part, pipeVars, requestVars, clientVars, serverVars>>

-----------------------------------------------------------------------------
\* The parts that do not run start in one of their initial states.
Init ==
  /\ part \in {"pipe", "request", "client", "server"}
  /\ PipeInit /\ (part # "pipe" => admitted)
  /\ Requests!RequestInit
  /\ ClientInit /\ (part # "client" => ips)
  /\ Server!Init

PipeStep == part = "pipe" /\ PipeNext /\ UNCHANGED <<part, requestVars, clientVars, serverVars>>
RequestStep ==
  part = "request" /\ Requests!RequestNext /\ UNCHANGED <<part, pipeVars, clientVars, serverVars>>
ClientStep ==
  part = "client" /\ ClientNext /\ UNCHANGED <<part, pipeVars, requestVars, serverVars>>
ServerStep ==
  part = "server" /\ Server!Next /\ UNCHANGED <<part, pipeVars, requestVars, clientVars>>

Next == PipeStep \/ RequestStep \/ ClientStep \/ ServerStep

\* The fairness of each part, for the one that runs.
Fairness ==
  /\ WF_pipeVars(part = "pipe" /\ Dial)
  /\ \A p \in Peers : WF_pipeVars(part = "pipe" /\ Pump(p))
  /\ WF_requestVars(part = "request" /\ Requests!Connect)
  /\ WF_requestVars(part = "request" /\ Requests!CopyFails)
  /\ \A p \in Peers : WF_requestVars(part = "request" /\ Requests!Pump(p))
  /\ WF_clientVars(part = "client" /\ Program)
  /\ WF_clientVars(part = "client" /\ Net)
  /\ \A t \in {"h1", "h2"} : WF_serverVars(part = "server" /\ Server!Progress(t))

Spec == Init /\ [][Next]_vars /\ Fairness

-----------------------------------------------------------------------------
\* PipeRelay and RequestRelay: the two goroutines with Pipe.done, and the two copy
\* futures with their join, implement Relay: neither peer is cut off while the
\* other's data is under way, unless a connection failed.
ImplementsRelay == PipeImplementsRelay /\ Requests!RequestImplementsRelay

\* RequestRelay: when a peer has finished, the other learns it.
HalfCloseForwarded == Requests!HalfCloseForwarded

\* TollaServer: the mutex never stays taken, whatever fails or panics inside a method.
MutexReleased == Server!MutexReleased
=============================================================================
