----------------------------- MODULE TollaServer -----------------------------
(***************************************************************************)
(* The server process (src/main.rs, tolla/src/endpoints.rs and             *)
(* tolla/src/register.rs): HTTP threads and the workers of the protobuf    *)
(* service share one ConsentEngine behind a mutex.                         *)
(*                                                                         *)
(* Every handler calls lock().unwrap() and holds the guard while the       *)
(* engine method runs.  A panic inside the method poisons the mutex, and   *)
(* from then on unwrap() panics in every handler.  A panicking HTTP thread *)
(* is replaced; a panicking protobuf worker is gone, and when it is the    *)
(* one that runs on the main thread the process exits.  Nothing restarts   *)
(* the process by itself; a restart builds a new engine, with a new        *)
(* authority, on the same database, containers and certificate files.      *)
(***************************************************************************)
EXTENDS ConsentEngine

CONSTANTS
  Http,        \* threads of the HTTP server
  Workers,     \* threads of the protobuf server
  MainWorker,  \* the worker that runs on the main thread
  Static,      \* the purpose every user onboarded by message consents to
  Kinds,       \* the kinds of request the environment sends
  NoThread     \* the mutex is free

ASSUME ThreadsAssumption == Http \cup Workers = Threads /\ NoThread \notin Threads
ASSUME StaticAssumption == Static \in Purposes

VARIABLES
  lock,      \* the thread that holds the mutex
  poisoned,  \* a thread panicked while it held the mutex
  up,        \* the process runs
  certs      \* identity certificates that reached their clients

serverVars == <<lock, poisoned, up, certs>>
vars == <<engineVars, serverVars>>

\* What the four HTTP routes and the five protobuf messages carry.  A proxy
\* asks for a lease with the serial number it loaded.
HttpRequest ==
  OnboardReq \cup DeboardReq \cup QueryReq \cup
  {r \in LeaseReq : \E p \in proxies : r.user = p.user /\ r.serial = p.serial}

ProtoRequest ==
  {r \in OnboardReq : r.purpose = {Static}} \cup ConsentReq \cup IntentReq
    \cup CertReq \cup IpsReq

\* A request reaches an idle thread; its first engine call waits for the mutex.
Arrive(t) ==
  /\ up /\ pc[t] = "idle"
  /\ \E r \in IF t \in Http THEN HttpRequest ELSE ProtoRequest :
       /\ r.kind \in Kinds
       /\ req' = [req EXCEPT ![t] = r]
  /\ Goto(t, "waiting")
  /\ UNCHANGED <<resp, mongoVars, localVars, storeVars, authorityVars, serverVars>>

\* Mutant of Lock: lock().unwrap_or_else(|e| e.into_inner()).
LockAnyway(t) ==
  /\ pc[t] = "waiting" /\ lock = NoThread
  /\ lock' = t /\ Goto(t, FirstCall[req[t].kind])
  /\ UNCHANGED <<req, resp, mongoVars, localVars, storeVars, authorityVars,
                 poisoned, up, certs>>

\* lock().unwrap().
Lock(t) ==
  /\ pc[t] = "waiting" /\ lock = NoThread
  /\ \/ ~poisoned /\ lock' = t /\ Goto(t, FirstCall[req[t].kind])
     \/ poisoned /\ Goto(t, "panic") /\ UNCHANGED lock
  /\ UNCHANGED <<req, resp, mongoVars, localVars, storeVars, authorityVars,
                 poisoned, up, certs>>

\* The engine method of the thread that holds the mutex.
Engine(t) == EngineStep(t) /\ UNCHANGED serverVars

\* The method returned: the guard is dropped.
Return(t) ==
  /\ pc[t] = "return"
  /\ lock' = NoThread
  /\ Goto(t, "answer")
  /\ draft' = [draft EXCEPT ![t] = NoIssue]
  /\ todo' = [todo EXCEPT ![t] = {}]
  /\ UNCHANGED <<req, resp, cert, mongoVars, storeVars, authorityVars,
                 poisoned, up, certs>>

\* The answer reaches the client, and with it the certificate it asked for.
Answer(t) ==
  /\ pc[t] = "answer"
  /\ Goto(t, "idle")
  /\ req' = [req EXCEPT ![t] = NoReq]
  /\ resp' = [resp EXCEPT ![t] = "none"]
  /\ cert' = [cert EXCEPT ![t] = NoCert]
  /\ certs' = IF req[t].kind = "cert" /\ resp[t] = "ok" THEN certs \cup {cert[t]} ELSE certs
  /\ UNCHANGED <<draft, todo, mongoVars, storeVars, authorityVars, lock, poisoned, up>>

\* All memory of the process is gone.
ProcessGone ==
  /\ up' = FALSE
  /\ lock' = NoThread /\ poisoned' = FALSE
  /\ pc' = [t \in Threads |-> "idle"]
  /\ req' = [t \in Threads |-> NoReq]
  /\ resp' = [t \in Threads |-> "none"]
  /\ draft' = [t \in Threads |-> NoIssue]
  /\ todo' = [t \in Threads |-> {}]
  /\ cert' = [t \in Threads |-> NoCert]

\* A panic unwinds the thread: a guard it holds is dropped and poisons the
\* mutex; no answer is sent.
Unwind(t) ==
  /\ pc[t] = "panic"
  /\ \/ t = MainWorker /\ ProcessGone
     \/ /\ t # MainWorker
        /\ lock' = IF lock = t THEN NoThread ELSE lock
        /\ poisoned' = TRUE
        /\ Goto(t, IF t \in Http THEN "idle" ELSE "dead")
        /\ req' = [req EXCEPT ![t] = NoReq]
        /\ UNCHANGED <<resp, localVars, up>>
  /\ UNCHANGED <<mongoVars, storeVars, authorityVars, certs>>

\* The process is killed.  A file that File::create has truncated and write_all
\* has not yet filled stays empty.
Crash ==
  /\ up /\ ca < MaxBuilds
  /\ \/ UNCHANGED pems
     \/ \E t \in Threads : /\ pc[t] = "mount"
                           /\ \E f \in todo[t] : WriteFile(req[t].user, f, NoIssue)
  /\ ProcessGone
  /\ UNCHANGED <<mongoVars, container, proxies, authorityVars, certs>>

\* run_http: ConsentEngineBuilder::build makes a new authority, reads the ids of
\* the registered views from "views" and hands them to start_containers.
Restart ==
  /\ ~up /\ ca < MaxBuilds
  /\ NewAuthority
  /\ StartContainers(views)
  /\ up' = TRUE
  /\ UNCHANGED <<mongoVars, localVars, threadVars, lock, poisoned, certs>>

\* docker, outside the process.
Docker(u) ==
  /\ StopContainer(u) \/ RestartContainer(u)
  /\ UNCHANGED <<mongoVars, localVars, threadVars, authorityVars, serverVars>>

Init ==
  /\ EngineInit
  /\ lock = NoThread /\ poisoned = FALSE /\ up = TRUE /\ certs = {}

Thread(t) == Arrive(t) \/ Lock(t) \/ Engine(t) \/ Return(t) \/ Answer(t) \/ Unwind(t)

Next ==
  \/ \E t \in Threads : Thread(t)
  \/ Crash \/ Restart
  \/ \E u \in Users : Docker(u)

Spec == Init /\ [][Next]_vars

\* Every call of docker, mongo and openssl eventually returns, and a thread that
\* holds the mutex keeps running.
Progress(t) == Engine(t) \/ Return(t) \/ Unwind(t)
LiveSpec == Spec /\ \A t \in Threads : WF_vars(Progress(t))

\* The resources of each user as the abstract specification sees them.  A consent
\* with serial number 0 came from a consent message and belongs to no certificate.
Held(u) ==
  {r \in {"container", "view", "consent"} :
     \/ r = "container" /\ container[u] # "absent"
     \/ r = "view" /\ u \in view
     \/ r = "consent" /\ \E d \in consents : d.id = u /\ d.serial # 0}

L == INSTANCE UserLifecycle WITH held <- [u \in Users |-> Held(u)]

-----------------------------------------------------------------------------
(***************************************************************************)
(* Properties                                                              *)
(***************************************************************************)

\* Every variable has its type: collections hold documents, a thread is idle,
\* queued, inside an engine method, done or dead.
TypeOK ==
  /\ ca \in Nat /\ issued \in Seq(Serials)
  /\ container \in [Users -> ContainerState]
  /\ pems \in [Users -> [Files -> Issue]]
  /\ proxies \subseteq Proxy
  /\ consents \subseteq ConsentDoc /\ intents \subseteq IntentDoc
  /\ view \subseteq Users /\ views \subseteq Users
  /\ pc \in [Threads -> EngineCalls \cup {"idle", "waiting", "return", "answer",
                                          "panic", "dead"}]
  /\ req \in [Threads -> Request \cup {NoReq}]
  /\ resp \in [Threads -> Responses]
  /\ draft \in [Threads -> Issue]
  /\ todo \in [Threads -> SUBSET Files]
  /\ cert \in [Threads -> Cert \cup {NoCert}]
  /\ lock \in Threads \cup {NoThread}
  /\ poisoned \in BOOLEAN /\ up \in BOOLEAN
  /\ certs \subseteq Cert

\* A consent that belongs to a certificate (serial number 0 is what consent
\* messages store) always has its user's view beside it: onboard_user writes
\* the view first, remove_user deletes it last, and a crash or an error between
\* the two never inverts the order.
ConsentHasView == \A d \in consents : d.serial # 0 => d.id \in view

\* remove_user runs only after remove_container succeeded: a stored consent
\* disappears only when its user's container, and with it the proxy that asks
\* for leases on that consent, is already gone.
EraseAfterRemoval ==
  [][\A d \in consents \ consents' : container[d.id] = "absent" /\ ProxyOf(d.id) = {}]_vars

\* An answer of success is the truth when the method returns: after onboard_user
\* the user has a container, a view and a consent, after deboard_user none.
Onboarded(u) == container[u] # "absent" /\ u \in view /\ Taken(consents, u)
Deboarded(u) == container[u] = "absent" /\ u \notin view /\ ~Taken(consents, u)

SuccessIsComplete ==
  [][\A t \in Threads :
       resp[t] = "none" /\ resp'[t] = "ok" =>
         /\ req[t].kind = "onboard" => Onboarded(req[t].user)'
         /\ req[t].kind = "deboard" => Deboarded(req[t].user)']_vars

\* A container comes into being only over a directory whose three files were written
\* by one onboarding: whatever was interrupted, failed half-way or ran at the same time
\* before, docker never starts a proxy on a certificate and a key of two attempts.
CreatedOverIdentity ==
  [][\A u \in Users :
       container[u] = "absent" /\ container'[u] # "absent" =>
         /\ pems[u]["certificate.pem"].n # 0
         /\ \A f \in Files : pems[u][f] = pems[u]["certificate.pem"]]_vars

\* Once a handler has panicked inside the engine, no later request writes to the
\* database or to a certificate directory: lock().unwrap() stops them all.
NoWriteIfPoisoned == poisoned => UNCHANGED <<mongoVars, pems>>
PoisonStopsWrites == [][NoWriteIfPoisoned]_vars

\* A lease is granted only on the consent of the user whose proxy asks, and only
\* while that consent is stored: serial numbers lead from a proxy to its own
\* user's document, whatever was onboarded, deboarded or stopped in between.
\* (Under DistinctSerials.)
LeasesOwnConsent ==
  \A t \in Threads :
    req[t].kind = "lease" /\ resp[t] = "none" /\ resp'[t] = "ok" =>
      \E d \in consents : d.id = req[t].user /\ req[t].intent \in d.purpose
LeaseIsOwnConsent == [][LeasesOwnConsent]_vars

\* Every identity certificate that reached a client has its intent on record:
\* handle_cert_request stores the intent before it answers, and nothing that
\* happens between signing and storing can give the identifier to another.
IssuedIntentRecorded ==
  \A c \in certs : [id |-> c.id, intent |-> c.intent] \in intents

\* The engine moves a user's resources only as UserLifecycle allows.
Lifecycle == L!Spec

\* The mutex never stays taken: a method ends, or its panic drops the guard.
MutexReleased == \A t \in Threads : (lock = t) ~> (lock # t)

-----------------------------------------------------------------------------
(***************************************************************************)
(* What comments and assertions of the code say, and the code does not do  *)
(***************************************************************************)

\* consent.rs:15, serial_number is "used to cross-reference the id with
\* certificate": with the engine at rest, the serial number in an onboarded
\* user's certificate finds that user's consent.
SerialCrossReference ==
  lock = NoThread =>
    \A u \in Users : Onboarded(u) =>
      \E d \in BySerial(pems[u]["certificate.pem"].serial) : d.id = u

\* consent.rs:383, "Tried to onboard existing user": onboard_user leaves a user
\* who is on record alone, and with it the certificate files in use.
ExistingUserUntouched == [][\A u \in view : pems'[u] = pems[u]]_vars

\* docker.rs:25, "Start containers by id", called by build with the ids that
\* get_views, "retrieve all docker ids", returns: a restarted server starts the
\* container of every user on record.
StartsRegisteredContainers ==
  [][~up /\ up' => \A u \in view : container'[u] # "stopped"]_vars

\* consent.rs:261, c.unwrap(): a proxy that asks for a lease with a serial number
\* that survives the cast to i32 finds its document.
LookupFindsConsent ==
  \A t \in Threads : req[t].kind = "lease" /\ req[t].serial < HalfRange =>
    ~(pc[t] = "panic" /\ lock = t)
=============================================================================
