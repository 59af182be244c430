---------------------------- MODULE MCPermissions ----------------------------
(***************************************************************************)
(* Who may do what, for TLC: the tenant proxy's leases, the server's       *)
(* answers to the proxies' lease requests, and the intents in the          *)
(* certificates the server issues.  A behaviour follows one of these,      *)
(* part, and what belongs to the others stays as it starts.                *)
(***************************************************************************)
EXTENDS TenantProxy, TLC

CONSTANTS
  Resting,               \* the peer of a proxy that does nothing
  u1, u2, h1, h2,        \* the users and HTTP threads of the leases
  v1, t1, w1,            \* a user, an HTTP thread and a worker of the certificates
  MainWorker, NoThread,
  Static, Research,      \* purposes
  k1, k2                 \* subject key identifiers

VARIABLES
  part,                                                          \* the part that runs
  ca, issued, container, pems, proxies, consents, view, views, intents,
  calls, req, resp, draft, todo, cert, lock, poisoned, up, certs  \* TollaServer

proxyVars == vars
serverVars ==
  <<ca, issued, container, pems, proxies, consents, view, views, intents,
    calls, req, resp, draft, todo, cert, lock, poisoned, up, certs>>

\* Two users, one of whose serial numbers can exceed i32, nothing that fails.
Leases == INSTANCE TollaServer WITH
  Users <- {u1, u2}, Purposes <- {Static}, Uuids <- {k1}, Http <- {h1, h2}, Workers <- {},
  Threads <- {h1, h2}, Kinds <- {"onboard", "deboard", "lease"}, Faults <- {}, HalfRange <- 2,
  DistinctSerials <- TRUE, BareNames <- FALSE, MaxIssues <- 2, MaxBuilds <- 1, pc <- calls

\* Two purposes and two identifiers, the database and OpenSSL fail, the server restarts.
Certificates == INSTANCE TollaServer WITH
  Users <- {v1}, Purposes <- {Static, Research}, Uuids <- {k1, k2}, Http <- {t1},
  Workers <- {MainWorker, w1}, Threads <- {MainWorker, t1, w1},
  Kinds <- {"cert", "intent", "ips", "query"}, Faults <- {"mongo", "openssl"}, HalfRange <- 1,
  DistinctSerials <- TRUE, BareNames <- TRUE, MaxIssues <- 0, MaxBuilds <- 2, pc <- calls

-----------------------------------------------------------------------------
PermissionsInit ==
  /\ Init
  /\ \/ part = "proxy" /\ Leases!Init
     \/ part = "leases" /\ Leases!Init /\ peer = Resting /\ permitted = {}
     \/ part = "certificates" /\ Certificates!Init /\ peer = Resting /\ permitted = {}

PermissionsNext ==
  /\ UNCHANGED part
  /\ \/ part = "proxy" /\ Next /\ UNCHANGED serverVars
     \/ part = "leases" /\ Leases!Next /\ UNCHANGED proxyVars
     \/ part = "certificates" /\ Certificates!Next /\ UNCHANGED proxyVars

PermissionsSpec == PermissionsInit /\ [][PermissionsNext]_<<part, proxyVars, serverVars>>

\* The peers in good order are interchangeable.
Symmetry == Permutations(Peers \ (Untrusted \cup NoIntent \cup Malformed))

-----------------------------------------------------------------------------
\* TollaServer: a lease is granted only on the consent of the user whose proxy asks.
LeaseIsOwnConsent == [][part = "leases" => Leases!LeasesOwnConsent]_serverVars

\* TollaServer: every certificate that reached a client has its intent on record.
IssuedIntentRecorded == part = "certificates" => Certificates!IssuedIntentRecorded
=============================================================================
