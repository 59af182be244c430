---------------------------- MODULE ConsentEngine ----------------------------
(***************************************************************************)
(* The consent engine (tolla/src/consent.rs): the four collections of its  *)
(* mongo database and one action for every external call its methods make. *)
(*                                                                         *)
(* A method runs on the thread t that called it; pc[t] is the call the     *)
(* thread makes next.  Between two calls the process can die and docker    *)
(* can stop or start containers, so a method is a sequence of actions.     *)
(* Methods never run concurrently: TollaServer guards the engine with a    *)
(* mutex.  A method ends with pc[t] = "return", or "panic" for unwrap().   *)
(*                                                                         *)
(* A collection is the set of its documents; _id is unique.  The database  *)
(* is external: a call can fail, and a call that reports an error may have *)
(* been carried out.  An insert whose _id is taken changes nothing; it is  *)
(* reported either as an error or, as a write exception inside a success,  *)
(* which the engine does not look at.                                      *)
(***************************************************************************)
EXTENDS StoreManager

CONSTANTS
  Threads,   \* the threads that serve requests
  Faults     \* which external systems can fail: docker, mongo, disk, openssl

ASSUME FaultsAssumption == Faults \subseteq {"docker", "mongo", "disk", "openssl"}

VARIABLES
  consents,  \* collection "consents"
  view,      \* collection "view": the ids of its documents
  views,     \* collection "views": the ids of its documents
  intents,   \* collection "intents"
  pc,        \* the next call of each thread
  req,       \* the request each thread serves
  resp,      \* the answer each thread holds
  draft,     \* onboard_user: the tenant certificate being installed
  todo,      \* new_mountdir: the files still to be written
  cert       \* handle_cert_request: the signed certificate

mongoVars == <<consents, view, views, intents>>
localVars == <<draft, todo, cert>>
threadVars == <<pc, req, resp>>
engineVars == <<mongoVars, localVars, threadVars, storeVars, authorityVars>>

ConsentDoc == [id: Users, serial: (-HalfRange) .. (HalfRange - 1),
               purpose: SUBSET Purposes]
IntentDoc == [id: Uuids, intent: Purposes]

OnboardReq == [kind: {"onboard"}, user: Users, purpose: SUBSET Purposes]
DeboardReq == [kind: {"deboard"}, user: Users]
ConsentReq == [kind: {"consent"}, user: Users, purpose: SUBSET Purposes]
QueryReq   == [kind: {"query"}, user: Users]
LeaseReq   == [kind: {"lease"}, user: Users, serial: Serials, intent: Purposes]
IpsReq     == [kind: {"ips"}]
IntentReq  == [kind: {"intent"}, id: Uuids, intent: Purposes]
CertReq    == [kind: {"cert"}, csr: Csrs, intent: Purposes]
NoReq      == [kind |-> "none"]

\* Requests that name a user, and all requests.  In a lease request, user is
\* the tenant whose proxy asks; the server only sees the serial number.
UserReq == OnboardReq \cup DeboardReq \cup ConsentReq \cup QueryReq \cup LeaseReq
Request == UserReq \cup IpsReq \cup IntentReq \cup CertReq

\* The first call of the method that serves a kind of request.
FirstCall == [onboard |-> "verify", deboard |-> "rmcontainer",
              consent |-> "consent", query |-> "query", lease |-> "lookup",
              ips |-> "ips", intent |-> "intent", cert |-> "sign"]

EngineCalls == {"verify", "certify", "mount", "create", "start", "inspect",
                "register", "consent", "rmcontainer", "rmconsent", "rmview",
                "query", "lookup", "ips", "intent", "sign"}

\* "closed": the connection is dropped without an answer.
Responses == {"none", "ok", "err", "forbidden", "closed"}

Goto(t, call) == pc' = [pc EXCEPT ![t] = call]
Finish(t, r) == Goto(t, "return") /\ resp' = [resp EXCEPT ![t] = r]
Continue(t, call) == Goto(t, call) /\ UNCHANGED resp

Insert(coll, doc) == IF \E d \in coll : d.id = doc.id THEN coll ELSE coll \cup {doc}
DeleteOne(coll, id) == {d \in coll : d.id # id}
Taken(coll, id) == \E d \in coll : d.id = id

-----------------------------------------------------------------------------
(***************************************************************************)
(* onboard_user                                                            *)
(***************************************************************************)

\* verify_container_id, then consent_based_view (which searches "views" and
\* whose failure counts as not found).
Verify(t) ==
  LET u == req[t].user
  IN /\ pc[t] = "verify"
     /\ \/ ~VerifyContainerId(u) /\ u \notin views /\ Continue(t, "certify")
        \/ /\ VerifyContainerId(u) \/ u \in views \/ "docker" \in Faults
           /\ Finish(t, "err")
     /\ UNCHANGED <<req, mongoVars, localVars, storeVars, authorityVars>>

\* create_db_certificate: a random serial number, a fresh key pair.  Some calls
\* of openssl are checked with unwrap(), others return their error.
Certify(t) ==
  /\ pc[t] = "certify"
  /\ \/ /\ Len(issued) < MaxIssues
        /\ \E s \in RandomSerial :
             /\ draft' = [draft EXCEPT ![t] = CreateDbCertificate(s)]
             /\ issued' = Append(issued, s)
        /\ todo' = [todo EXCEPT ![t] = Files]
        /\ Continue(t, "mount")
     \/ /\ "openssl" \in Faults \/ Len(issued) = MaxIssues
        /\ Finish(t, "err")
        /\ UNCHANGED <<draft, todo, issued>>
     \/ /\ "openssl" \in Faults
        /\ Continue(t, "panic")
        /\ UNCHANGED <<draft, todo, issued>>
  /\ UNCHANGED <<req, mongoVars, cert, storeVars, ca>>

\* Mutant of Mount: an error of new_mountdir does not end onboard_user.
MountUnchecked(t) ==
  LET u == req[t].user
  IN /\ pc[t] = "mount"
     /\ \E f \in todo[t] :
          /\ UNCHANGED pems \/ WriteFile(u, f, draft[t])
          /\ todo' = [todo EXCEPT ![t] = @ \ {f}]
          /\ Continue(t, IF todo[t] = {f} THEN "create" ELSE "mount")
     /\ UNCHANGED <<req, mongoVars, draft, cert, container, proxies, authorityVars>>

\* new_mountdir, one file: the files come out of a HashMap in any order.  A
\* failed File::create leaves the file alone, a failed write leaves it empty.
Mount(t) ==
  LET u == req[t].user
  IN /\ pc[t] = "mount"
     /\ \E f \in todo[t] :
          \/ /\ WriteFile(u, f, draft[t])
             /\ todo' = [todo EXCEPT ![t] = @ \ {f}]
             /\ Continue(t, IF todo[t] = {f} THEN "create" ELSE "mount")
          \/ /\ "disk" \in Faults
             /\ UNCHANGED pems \/ WriteFile(u, f, NoIssue)
             /\ Finish(t, "err")
             /\ UNCHANGED todo
     /\ UNCHANGED <<req, mongoVars, draft, cert, container, proxies, authorityVars>>

\* new_container, containers.create.
Create(t) ==
  LET u == req[t].user
  IN /\ pc[t] = "create"
     /\ \/ CreateContainer(u) /\ Continue(t, "start")
        \/ /\ container[u] # "absent" \/ "docker" \in Faults
           /\ UNCHANGED container \/ CreateContainer(u)
           /\ Finish(t, "err")
     /\ UNCHANGED <<req, mongoVars, localVars, pems, proxies, authorityVars>>

\* new_container, container.start.
Start(t) ==
  LET u == req[t].user
  IN /\ pc[t] = "start"
     /\ \/ StartContainer(u) /\ Continue(t, "inspect")
        \/ /\ "docker" \in Faults
           /\ StartContainer(u) \/ UNCHANGED <<container, proxies>>
           /\ Finish(t, "err")
     /\ UNCHANGED <<req, mongoVars, localVars, pems, authorityVars>>

\* Mutant of Inspect: onboard_user goes on without register_view.
InspectUnregistered(t) ==
  /\ pc[t] = "inspect"
  /\ Continue(t, "consent")
  /\ UNCHANGED <<req, mongoVars, localVars, storeVars, authorityVars>>

\* new_container, container.inspect: reads the ip address for the view.
Inspect(t) ==
  /\ pc[t] = "inspect"
  /\ Continue(t, "register") \/ ("docker" \in Faults /\ Finish(t, "err"))
  /\ UNCHANGED <<req, mongoVars, localVars, storeVars, authorityVars>>

\* Mutant of RegisterView: register_view writes to "views".
RegisterViewElsewhere(t) ==
  /\ pc[t] = "register"
  /\ views' = views \cup {req[t].user}
  /\ Continue(t, "consent")
  /\ UNCHANGED <<req, consents, view, intents, localVars, storeVars, authorityVars>>

\* register_view: writes to "view".
RegisterView(t) ==
  LET u == req[t].user
  IN /\ pc[t] = "register"
     /\ \/ view' = view \cup {u} /\ Continue(t, "consent")
        \/ /\ u \in view \/ "mongo" \in Faults
           /\ view' \in {view, view \cup {u}}
           /\ Finish(t, "err")
     /\ UNCHANGED <<req, consents, views, intents, localVars, storeVars, authorityVars>>

\* The document onboard_user stores: the certificate's serial number, cast to
\* i32.  A consent message stores serial number 0.
NewConsent(t) ==
  [id |-> req[t].user,
   serial |-> IF req[t].kind = "onboard" THEN AsI32(draft[t].serial) ELSE 0,
   purpose |-> req[t].purpose]

\* add_consent, the last call of onboard_user and the only one of a consent
\* message.
AddConsent(t) ==
  LET doc == NewConsent(t)
  IN /\ pc[t] = "consent"
     /\ \/ consents' = Insert(consents, doc) /\ Finish(t, "ok")
        \/ /\ Taken(consents, doc.id) \/ "mongo" \in Faults
           /\ consents' \in {consents, Insert(consents, doc)}
           /\ Finish(t, "err")
     /\ UNCHANGED <<req, view, views, intents, localVars, storeVars, authorityVars>>

-----------------------------------------------------------------------------
(***************************************************************************)
(* deboard_user                                                            *)
(***************************************************************************)

\* Mutants of RemoveContainerStep: the error of remove_container is dropped, and
\* remove_container is tried again until it succeeds.
RemoveContainerUnchecked(t) ==
  LET u == req[t].user
  IN /\ pc[t] = "rmcontainer"
     /\ RemoveContainer(u) \/ UNCHANGED <<container, proxies>>
     /\ Continue(t, "rmconsent")
     /\ UNCHANGED <<req, mongoVars, localVars, pems, authorityVars>>

RemoveContainerRetried(t) ==
  /\ pc[t] = "rmcontainer"
  /\ RemoveContainer(req[t].user) /\ Continue(t, "rmconsent")
  /\ UNCHANGED <<req, mongoVars, localVars, pems, authorityVars>>

\* remove_container.
RemoveContainerStep(t) ==
  LET u == req[t].user
  IN /\ pc[t] = "rmcontainer"
     /\ \/ RemoveContainer(u) /\ Continue(t, "rmconsent")
        \/ /\ container[u] = "absent" \/ "docker" \in Faults
           /\ RemoveContainer(u) \/ UNCHANGED <<container, proxies>>
           /\ Finish(t, "err")
     /\ UNCHANGED <<req, mongoVars, localVars, pems, authorityVars>>

\* remove_user, first half: deleting nothing is a success.
RemoveConsent(t) ==
  LET rest == DeleteOne(consents, req[t].user)
  IN /\ pc[t] = "rmconsent"
     /\ \/ consents' = rest /\ Continue(t, "rmview")
        \/ "mongo" \in Faults /\ consents' \in {consents, rest} /\ Finish(t, "err")
     /\ UNCHANGED <<req, view, views, intents, localVars, storeVars, authorityVars>>

\* Mutant of RemoveView: remove_user deletes from "views".
RemoveViewElsewhere(t) ==
  /\ pc[t] = "rmview"
  /\ views' = views \ {req[t].user}
  /\ Finish(t, "ok")
  /\ UNCHANGED <<req, consents, view, intents, localVars, storeVars, authorityVars>>

\* remove_user, second half: deletes from "view".
RemoveView(t) ==
  LET rest == view \ {req[t].user}
  IN /\ pc[t] = "rmview"
     /\ \/ view' = rest /\ Finish(t, "ok")
        \/ "mongo" \in Faults /\ view' \in {view, rest} /\ Finish(t, "err")
     /\ UNCHANGED <<req, consents, views, intents, localVars, storeVars, authorityVars>>

-----------------------------------------------------------------------------
(***************************************************************************)
(* The reads, and certificate requests                                     *)
(***************************************************************************)

\* consent_based_view for a query.
Query(t) ==
  /\ pc[t] = "query"
  /\ \/ req[t].user \in views /\ Finish(t, "ok")
     \/ /\ req[t].user \notin views \/ "mongo" \in Faults
        /\ Finish(t, "err")
  /\ UNCHANGED <<req, mongoVars, localVars, storeVars, authorityVars>>

\* get_tenant_ips: an error drops the connection.
TenantIps(t) ==
  /\ pc[t] = "ips"
  /\ Finish(t, "ok") \/ ("mongo" \in Faults /\ Finish(t, "closed"))
  /\ UNCHANGED <<req, mongoVars, localVars, storeVars, authorityVars>>

\* Documents whose serial number equals the u32 that was asked for.
BySerial(s) == {d \in consents : d.serial = s}

\* consent_by_serial_num and the purpose test of the lease handler, which works
\* on the document the call returned: find_one returns some match, unwrap()
\* panics when there is none.
Lookup(t) ==
  /\ pc[t] = "lookup"
  /\ \/ \E d \in BySerial(req[t].serial) :
          Finish(t, IF req[t].intent \in d.purpose THEN "ok" ELSE "forbidden")
     \/ BySerial(req[t].serial) = {} /\ Continue(t, "panic")
     \/ "mongo" \in Faults /\ Finish(t, "err")
  /\ UNCHANGED <<req, mongoVars, localVars, storeVars, authorityVars>>

UsedIds == {d.id : d \in intents}

\* sign_certificate: from_pem(..).unwrap() panics on an unreadable request, a
\* missing subject entry is an error, which drops the connection.  A new uuid
\* is taken to differ from every id on record.
Sign(t) ==
  /\ pc[t] = "sign"
  /\ \/ /\ req[t].csr = "complete"
        /\ \E id \in Uuids \ UsedIds :
             cert' = [cert EXCEPT ![t] = SignCertificate(id, req[t].intent)]
        /\ Continue(t, "intent")
     \/ /\ req[t].csr = "incomplete" \/ "openssl" \in Faults \/ Uuids = UsedIds
        /\ Finish(t, "closed")
        /\ UNCHANGED cert
     \/ /\ req[t].csr = "unreadable" \/ "openssl" \in Faults
        /\ Continue(t, "panic")
        /\ UNCHANGED cert
  /\ UNCHANGED <<req, mongoVars, draft, todo, storeVars, authorityVars>>

\* The document add_intent stores.
NewIntent(t) ==
  IF req[t].kind = "cert" THEN [id |-> cert[t].id, intent |-> cert[t].intent]
                          ELSE [id |-> req[t].id, intent |-> req[t].intent]

\* Mutant of AddIntent: the error of add_intent is dropped.
AddIntentUnchecked(t) ==
  /\ pc[t] = "intent"
  /\ intents' \in {intents, Insert(intents, NewIntent(t))}
  /\ Finish(t, "ok")
  /\ UNCHANGED <<req, consents, view, views, localVars, storeVars, authorityVars>>

\* add_intent, the last call of a certificate request and the only one of an
\* intent message.
AddIntent(t) ==
  LET doc == NewIntent(t)
  IN /\ pc[t] = "intent"
     /\ \/ intents' = Insert(intents, doc) /\ Finish(t, "ok")
        \/ /\ Taken(intents, doc.id) \/ "mongo" \in Faults
           /\ intents' \in {intents, Insert(intents, doc)}
           /\ Finish(t, IF req[t].kind = "cert" THEN "closed" ELSE "err")
     /\ UNCHANGED <<req, consents, view, views, localVars, storeVars, authorityVars>>

-----------------------------------------------------------------------------
Onboard(t) == \/ Verify(t) \/ Certify(t) \/ Mount(t) \/ Create(t) \/ Start(t)
              \/ Inspect(t) \/ RegisterView(t) \/ AddConsent(t)
Deboard(t) == RemoveContainerStep(t) \/ RemoveConsent(t) \/ RemoveView(t)
Read(t)    == Query(t) \/ TenantIps(t) \/ Lookup(t)
Certificate(t) == Sign(t) \/ AddIntent(t)

EngineStep(t) == Onboard(t) \/ Deboard(t) \/ Read(t) \/ Certificate(t)

EngineInit ==
  /\ AuthorityInit /\ StoreInit
  /\ consents = {} /\ view = {} /\ views = {} /\ intents = {}
  /\ pc = [t \in Threads |-> "idle"]
  /\ req = [t \in Threads |-> NoReq]
  /\ resp = [t \in Threads |-> "none"]
  /\ draft = [t \in Threads |-> NoIssue]
  /\ todo = [t \in Threads |-> {}]
  /\ cert = [t \in Threads |-> NoCert]
=============================================================================
