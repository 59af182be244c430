-------------------------- MODULE TollaServerProofs --------------------------
(***************************************************************************)
(* Proofs about TollaServer, for any number of users, threads, starts and  *)
(* certificates, and with every external system allowed to fail.           *)
(***************************************************************************)
EXTENDS TollaServer, TLAPS

-----------------------------------------------------------------------------
(***************************************************************************)
(* Requests and documents                                                  *)
(***************************************************************************)

\* What each kind of request carries, whatever thread serves it.
LEMMA RequestFields ==
  ASSUME NEW r \in Request \cup {NoReq}
  PROVE  /\ r.kind \in {"onboard", "deboard", "consent", "query", "lease"}
              => r.user \in Users
         /\ r.kind \in {"onboard", "consent"} => r.purpose \in SUBSET Purposes
         /\ r.kind = "lease" => r.serial \in Serials /\ r.intent \in Purposes
         /\ r.kind = "intent" => r.id \in Uuids /\ r.intent \in Purposes
         /\ r.kind = "cert" => r.intent \in Purposes
         /\ r.kind \in {"none", "onboard", "deboard", "consent", "query", "lease",
                        "ips", "intent", "cert"}
  BY DEF Request, UserReq, OnboardReq, DeboardReq, ConsentReq, QueryReq, LeaseReq,
         IpsReq, IntentReq, CertReq, NoReq

\* The cast of a u32 lies in the range of an i32.
LEMMA CastRange ==
  ASSUME NEW s \in Serials
  PROVE  AsI32(s) \in (-HalfRange) .. (HalfRange - 1)
  BY HalfRangeAssumption DEF Serials, AsI32
-----------------------------------------------------------------------------
(***************************************************************************)
(* The inductive invariant                                                 *)
(*                                                                         *)
(* Mutex is the heart of it: a thread inside the engine holds the lock.    *)
(* What a method has achieved so far (Resource, Signed) therefore stays    *)
(* true between its calls, whatever the other threads and docker do.       *)
(***************************************************************************)

OnboardCalls == {"verify", "certify", "mount", "create", "start", "inspect", "register"}
DeboardCalls == {"rmcontainer", "rmconsent", "rmview"}

\* A thread inside an engine method holds the mutex.
Mutex(t) == pc[t] \in EngineCalls \cup {"return"} => lock = t

\* The call a thread makes belongs to the request it serves.
Kind(t) ==
  /\ pc[t] \in OnboardCalls => req[t].kind = "onboard"
  /\ pc[t] = "consent" => req[t].kind \in {"onboard", "consent"}
  /\ pc[t] \in DeboardCalls => req[t].kind = "deboard"
  /\ pc[t] = "query" => req[t].kind = "query"
  /\ pc[t] = "lookup" => req[t].kind = "lease"
  /\ pc[t] = "ips" => req[t].kind = "ips"
  /\ pc[t] = "sign" => req[t].kind = "cert"
  /\ pc[t] = "intent" => req[t].kind \in {"intent", "cert"}
  /\ pc[t] = "waiting" => req[t].kind # "none"

\* What onboard_user has set up, and what deboard_user has taken down, so far.
Resource(t) ==
  /\ pc[t] \in {"start", "inspect", "register"} => container[req[t].user] # "absent"
  /\ pc[t] = "consent" /\ req[t].kind = "onboard" =>
       container[req[t].user] # "absent" /\ req[t].user \in view
  /\ pc[t] \in {"rmconsent", "rmview"} => container[req[t].user] = "absent"
  /\ pc[t] = "rmview" => ~Taken(consents, req[t].user)

\* A signed certificate: its identifier is free until its intent is recorded.
Signed(t) ==
  /\ pc[t] = "intent" /\ req[t].kind = "cert" => cert[t] \in Cert /\ cert[t].id \notin UsedIds
  /\ pc[t] \in {"return", "answer"} /\ req[t].kind = "cert" /\ resp[t] = "ok" =>
       cert[t] \in Cert /\ [id |-> cert[t].id, intent |-> cert[t].intent] \in intents

\* A panic means a poisoned mutex, now or when the guard is dropped.
Poison(t) ==
  /\ pc[t] = "panic" => lock = t \/ poisoned
  /\ poisoned => pc[t] \notin EngineCalls

\* A proxy runs only inside a running container.
ProxyInv == \A p \in proxies : container[p.user] = "running"

ThreadInv(t) == Mutex(t) /\ Kind(t) /\ Resource(t) /\ Signed(t) /\ Poison(t)

Inv ==
  /\ TypeOK
  /\ \A t \in Threads : ThreadInv(t)
  /\ ProxyInv /\ ConsentHasView /\ IssuedIntentRecorded

-----------------------------------------------------------------------------
(***************************************************************************)
(* Types                                                                   *)
(***************************************************************************)

\* The program counters a thread can have.
Pcs == EngineCalls \cup {"idle", "waiting", "return", "answer", "panic", "dead"}

LEMMA NoIssueType == NoIssue \in Issue
  BY HalfRangeAssumption DEF NoIssue, Issue, Serials

\* Certify installs a certificate of the right type.
LEMMA IssueType ==
  ASSUME TypeOK, NEW s \in Serials
  PROVE  CreateDbCertificate(s) \in Issue
  BY DEF TypeOK, CreateDbCertificate, Issue

\* A proxy loads what lies in its user's files.
LEMMA LoadedProxyType ==
  ASSUME TypeOK, NEW u \in Users
  PROVE  LoadedProxy(u) \subseteq Proxy
  BY DEF TypeOK, LoadedProxy, Proxy, Files, Issue

\* Writing one certificate file keeps the directory's type.
LEMMA WriteFileType ==
  ASSUME TypeOK, NEW u \in Users, NEW f \in Files, NEW c \in Issue, WriteFile(u, f, c)
  PROVE  pems' \in [Users -> [Files -> Issue]]
  <1>1. pems[u] \in [Files -> Issue]
    BY DEF TypeOK
  <1>2. [pems[u] EXCEPT ![f] = c] \in [Files -> Issue]
    BY <1>1
  <1> QED
    BY <1>2 DEF TypeOK, WriteFile

LEMMA TypeInit == Init => TypeOK
  <1> SUFFICES ASSUME Init PROVE TypeOK
    OBVIOUS
  <1>1. pems \in [Users -> [Files -> Issue]] /\ draft \in [Threads -> Issue]
    BY NoIssueType DEF Init, EngineInit, StoreInit
  <1>2. /\ ca \in Nat /\ issued \in Seq(Serials)
        /\ container \in [Users -> ContainerState]
    BY DEF Init, EngineInit, AuthorityInit, StoreInit, ContainerState
  <1>3. /\ proxies = {} /\ consents = {} /\ view = {} /\ views = {} /\ intents = {}
        /\ certs = {}
    BY DEF Init, EngineInit, StoreInit
  <1>4. pc \in [Threads -> Pcs] /\ resp \in [Threads -> Responses]
    BY DEF Init, EngineInit, Pcs, Responses
  <1>5. /\ req \in [Threads -> Request \cup {NoReq}]
        /\ todo \in [Threads -> SUBSET Files]
        /\ cert \in [Threads -> Cert \cup {NoCert}]
    BY DEF Init, EngineInit
  <1>6. lock \in Threads \cup {NoThread} /\ poisoned \in BOOLEAN /\ up \in BOOLEAN
    BY DEF Init
  <1> QED
    BY <1>1, <1>2, <1>3, <1>4, <1>5, <1>6 DEF TypeOK, Pcs

\* The steps of onboard_user keep the types.
LEMMA TypeOnboard ==
  ASSUME TypeOK, NEW t \in Threads, Kind(t), Onboard(t), UNCHANGED serverVars
  PROVE  TypeOK'
  <1>r. req[t] \in Request \cup {NoReq} /\ draft[t] \in Issue /\ todo[t] \subseteq Files
    BY DEF TypeOK
  <1>u. req[t].user \in Users /\ req[t].purpose \in SUBSET Purposes
    BY <1>r, RequestFields DEF Kind, OnboardCalls, Onboard, Verify, Certify, Mount, Create,
       Start, Inspect, RegisterView, AddConsent
  <1>1. CASE Verify(t)
    BY <1>1, <1>u DEF TypeOK, Verify, Continue, Finish, Goto, Responses, EngineCalls,
       mongoVars, localVars, storeVars, authorityVars, serverVars
  <1>2. CASE Certify(t)
    <2>1. issued' \in Seq(Serials) /\ draft' \in [Threads -> Issue]
      <3>1. CASE UNCHANGED <<draft, todo, issued>>
        BY <3>1 DEF TypeOK
      <3>2. CASE \E s \in RandomSerial :
                   /\ draft' = [draft EXCEPT ![t] = CreateDbCertificate(s)]
                   /\ issued' = Append(issued, s)
        <4>1. PICK s \in Serials : /\ draft' = [draft EXCEPT ![t] = CreateDbCertificate(s)]
                                   /\ issued' = Append(issued, s)
          BY <3>2 DEF RandomSerial
        <4>2. issued' \in Seq(Serials)
          BY <4>1 DEF TypeOK
        <4> QED
          BY <4>1, <4>2, IssueType DEF TypeOK
      <3> QED
        BY <1>2, <3>1, <3>2 DEF Certify
    <2>2. /\ pc' \in [Threads -> Pcs] /\ resp' \in [Threads -> Responses]
          /\ todo' \in [Threads -> SUBSET Files]
      <3>1. \/ Continue(t, "mount") /\ todo' = [todo EXCEPT ![t] = Files]
            \/ (Finish(t, "err") \/ Continue(t, "panic")) /\ todo' = todo
        BY <1>2 DEF Certify
      <3>2. todo' \in [Threads -> SUBSET Files]
        BY <3>1 DEF TypeOK
      <3>3. pc' \in [Threads -> Pcs] /\ resp' \in [Threads -> Responses]
        BY <3>1 DEF TypeOK, Continue, Finish, Goto, EngineCalls, Responses, Pcs
      <3> QED
        BY <3>2, <3>3
    <2> QED
      BY <1>2, <2>1, <2>2 DEF TypeOK, Certify, Pcs, mongoVars, storeVars, serverVars
  <1>3. CASE Mount(t)
    <2>1. pems' \in [Users -> [Files -> Issue]]
      <3>1. \/ pems' = pems
            \/ \E f \in Files : WriteFile(req[t].user, f, draft[t])
                              \/ WriteFile(req[t].user, f, NoIssue)
        BY <1>3, <1>r DEF Mount
      <3>2. CASE pems' = pems
        BY <3>2 DEF TypeOK
      <3>3. CASE \E f \in Files : WriteFile(req[t].user, f, draft[t])
                                \/ WriteFile(req[t].user, f, NoIssue)
        BY <3>3, <1>u, <1>r, NoIssueType, WriteFileType
      <3> QED
        BY <3>1, <3>2, <3>3
    <2>2. pc' \in [Threads -> Pcs] /\ resp' \in [Threads -> Responses]
      BY <1>3 DEF TypeOK, Mount, Continue, Finish, Goto, EngineCalls, Responses, Pcs
    <2>3. todo' \in [Threads -> SUBSET Files]
      BY <1>3, <1>r DEF TypeOK, Mount
    <2> QED
      BY <1>3, <2>1, <2>2, <2>3 DEF TypeOK, Mount, Pcs, mongoVars, authorityVars, serverVars
  <1>4. CASE Create(t)
    BY <1>4, <1>u DEF TypeOK, Create, CreateContainer, ContainerState, Continue, Finish,
       Goto, Responses, EngineCalls, mongoVars, localVars, storeVars, authorityVars, serverVars
  <1>5. CASE Start(t)
    BY <1>5, <1>u, LoadedProxyType DEF TypeOK, Start, StartContainer, ProxyOf,
       ContainerState, Continue, Finish,
       Goto, Responses, EngineCalls, mongoVars, localVars, storeVars, authorityVars, serverVars
  <1>6. CASE Inspect(t)
    BY <1>6 DEF TypeOK, Inspect, Continue, Finish,
       Goto, Responses, EngineCalls, mongoVars, localVars, storeVars, authorityVars, serverVars
  <1>7. CASE RegisterView(t)
    BY <1>7, <1>u DEF TypeOK, RegisterView, Continue, Finish,
       Goto, Responses, EngineCalls, mongoVars, localVars, storeVars, authorityVars, serverVars
  <1>8. CASE AddConsent(t)
    <2>1. NewConsent(t) \in ConsentDoc
      BY <1>r, <1>u, CastRange, HalfRangeAssumption DEF NewConsent, ConsentDoc, Issue
    <2> QED
      BY <1>8, <2>1 DEF TypeOK, AddConsent, Insert, Finish,
         Goto, Responses, EngineCalls, mongoVars, localVars, storeVars, authorityVars, serverVars
  <1> QED
    BY <1>1, <1>2, <1>3, <1>4, <1>5, <1>6, <1>7, <1>8 DEF Onboard

\* The steps of deboard_user keep the types.
LEMMA TypeDeboard ==
  ASSUME TypeOK, NEW t \in Threads, Kind(t), Deboard(t), UNCHANGED serverVars
  PROVE  TypeOK'
  <1>u. req[t].user \in Users
    BY RequestFields DEF TypeOK, Kind, DeboardCalls, Deboard, RemoveContainerStep,
       RemoveConsent, RemoveView
  <1>1. CASE RemoveContainerStep(t)
    BY <1>1, <1>u DEF TypeOK, RemoveContainerStep, RemoveContainer, ProxyOf, ContainerState,
       Continue, Finish, Goto, Responses, EngineCalls, mongoVars, localVars, authorityVars,
       serverVars
  <1>2. CASE RemoveConsent(t)
    BY <1>2, <1>u DEF TypeOK, RemoveConsent, DeleteOne, Continue, Finish, Goto, Responses,
       EngineCalls, localVars, storeVars, authorityVars, serverVars
  <1>3. CASE RemoveView(t)
    BY <1>3, <1>u DEF TypeOK, RemoveView, Finish, Goto, Responses,
       EngineCalls, localVars, storeVars, authorityVars, serverVars
  <1> QED
    BY <1>1, <1>2, <1>3 DEF Deboard

\* The reads keep the types.
LEMMA TypeRead ==
  ASSUME TypeOK, NEW t \in Threads, Read(t), UNCHANGED serverVars
  PROVE  TypeOK'
  <1>1. /\ pc' \in [Threads -> Pcs] /\ resp' \in [Threads -> Responses]
        /\ UNCHANGED <<req, mongoVars, localVars, storeVars, authorityVars>>
    BY DEF TypeOK, Pcs, Read, Query, TenantIps, Lookup, Continue, Finish, Goto, Responses,
       EngineCalls
  <1> QED
    BY <1>1 DEF TypeOK, Pcs, mongoVars, localVars, storeVars, authorityVars, serverVars

\* Signing and recording intents keep the types.
LEMMA TypeCertificate ==
  ASSUME TypeOK, NEW t \in Threads, Kind(t), Signed(t), Certificate(t), UNCHANGED serverVars
  PROVE  TypeOK'
  <1>r. req[t] \in Request \cup {NoReq}
    BY DEF TypeOK
  <1>1. CASE Sign(t)
    <2>1. cert' \in [Threads -> Cert \cup {NoCert}]
      BY <1>1, <1>r, RequestFields DEF TypeOK, Sign, SignCertificate, Cert, Kind
    <2>2. pc' \in [Threads -> Pcs] /\ resp' \in [Threads -> Responses]
      BY <1>1 DEF TypeOK, Sign, Pcs, Continue, Finish, Goto, Responses, EngineCalls
    <2> QED
      BY <1>1, <2>1, <2>2 DEF TypeOK, Pcs, Sign, mongoVars, storeVars, authorityVars, serverVars
  <1>2. CASE AddIntent(t)
    <2>1. NewIntent(t) \in IntentDoc
      BY <1>2, <1>r, RequestFields DEF AddIntent, Kind, Signed, NewIntent, IntentDoc, Cert
    <2>2. intents' \subseteq IntentDoc
      BY <1>2, <2>1 DEF TypeOK, AddIntent, Insert
    <2>3. pc' \in [Threads -> Pcs] /\ resp' \in [Threads -> Responses]
      BY <1>2 DEF TypeOK, AddIntent, Pcs, Finish, Goto, Responses, EngineCalls
    <2> QED
      BY <1>2, <2>2, <2>3 DEF TypeOK, Pcs, AddIntent, localVars, storeVars, authorityVars,
         serverVars
  <1> QED
    BY <1>1, <1>2 DEF Certificate

-----------------------------------------------------------------------------
(***************************************************************************)
(* The invariant is inductive                                              *)
(***************************************************************************)

\* What a step of the engine does to pc, req, resp and cert, whatever its method.
Moves(t) ==
  /\ pc[t] \in EngineCalls
  /\ pc'[t] \in EngineCalls \cup {"return", "panic"}
  /\ req' = req
  /\ \A s \in Threads \ {t} : pc'[s] = pc[s] /\ resp'[s] = resp[s] /\ cert'[s] = cert[s]

\* Every engine step moves its own thread only, from one call to the next.
LEMMA EngineMoves ==
  ASSUME TypeOK, NEW t \in Threads, EngineStep(t)
  PROVE  Moves(t)
  <1>1. CASE Verify(t)
    BY <1>1 DEF TypeOK, Moves, Verify, EngineCalls, Continue, Finish, Goto, localVars
  <1>2. CASE Certify(t)
    BY <1>2 DEF TypeOK, Moves, Certify, EngineCalls, Continue, Finish, Goto
  <1>3. CASE Mount(t)
    BY <1>3 DEF TypeOK, Moves, Mount, EngineCalls, Continue, Finish, Goto
  <1>4. CASE Create(t)
    BY <1>4 DEF TypeOK, Moves, Create, EngineCalls, Continue, Finish, Goto, localVars
  <1>5. CASE Start(t)
    BY <1>5 DEF TypeOK, Moves, Start, EngineCalls, Continue, Finish, Goto, localVars
  <1>6. CASE Inspect(t)
    BY <1>6 DEF TypeOK, Moves, Inspect, EngineCalls, Continue, Finish, Goto, localVars
  <1>7. CASE RegisterView(t)
    BY <1>7 DEF TypeOK, Moves, RegisterView, EngineCalls, Continue, Finish, Goto, localVars
  <1>8. CASE AddConsent(t)
    BY <1>8 DEF TypeOK, Moves, AddConsent, EngineCalls, Continue, Finish, Goto, localVars
  <1>9. CASE RemoveContainerStep(t)
    BY <1>9 DEF TypeOK, Moves, RemoveContainerStep, EngineCalls, Continue, Finish, Goto, localVars
  <1>10. CASE RemoveConsent(t)
    BY <1>10 DEF TypeOK, Moves, RemoveConsent, EngineCalls, Continue, Finish, Goto, localVars
  <1>11. CASE RemoveView(t)
    BY <1>11 DEF TypeOK, Moves, RemoveView, EngineCalls, Continue, Finish, Goto, localVars
  <1>12. CASE Query(t)
    BY <1>12 DEF TypeOK, Moves, Query, EngineCalls, Continue, Finish, Goto, localVars
  <1>13. CASE TenantIps(t)
    BY <1>13 DEF TypeOK, Moves, TenantIps, EngineCalls, Continue, Finish, Goto, localVars
  <1>14. CASE Lookup(t)
    BY <1>14 DEF TypeOK, Moves, Lookup, EngineCalls, Continue, Finish, Goto, localVars
  <1>15. CASE Sign(t)
    BY <1>15 DEF TypeOK, Moves, Sign, EngineCalls, Continue, Finish, Goto
  <1>16. CASE AddIntent(t)
    BY <1>16 DEF TypeOK, Moves, AddIntent, EngineCalls, Continue, Finish, Goto, localVars
  <1> QED
    BY <1>1, <1>2, <1>3, <1>4, <1>5, <1>6, <1>7, <1>8,
       <1>9, <1>10, <1>11, <1>12, <1>13, <1>14, <1>15, <1>16
       DEF EngineStep, Onboard, Deboard, Read, Certificate

\* Inside the engine there is nobody else.
LEMMA Alone ==
  ASSUME Inv, NEW t \in Threads, NEW s \in Threads \ {t}, pc[t] \in EngineCalls
  PROVE  pc[s] \notin EngineCalls \cup {"return"}
  BY DEF Inv, ThreadInv, Mutex

\* An engine step keeps the types.
LEMMA TypeEngine ==
  ASSUME Inv, NEW t \in Threads, Engine(t)
  PROVE  TypeOK'
  BY TypeOnboard, TypeDeboard, TypeRead, TypeCertificate
     DEF Engine, EngineStep, Inv, ThreadInv

LEMMA MutexEngine ==
  ASSUME Inv, NEW t \in Threads, Engine(t), NEW s \in Threads
  PROVE  Mutex(s)' /\ Poison(s)'
  <1>1. Moves(t) /\ TypeOK
    BY EngineMoves DEF Engine, Inv
  <1>2. Mutex(s) /\ Poison(s) /\ Mutex(t) /\ Poison(t)
    BY DEF Inv, ThreadInv
  <1>3. lock' = lock /\ poisoned' = poisoned
    BY DEF Engine, serverVars
  <1> QED
    BY <1>1, <1>2, <1>3 DEF Moves, Mutex, Poison, EngineCalls

LEMMA KindEngine ==
  ASSUME Inv, NEW t \in Threads, Engine(t), NEW s \in Threads
  PROVE  Kind(s)'
  <1>1. Moves(t) /\ TypeOK /\ Kind(s) /\ Kind(t)
    BY EngineMoves DEF Engine, Inv, ThreadInv
  <1>2. CASE s # t
    BY <1>1, <1>2 DEF Moves, Kind
  <1>3. ASSUME s = t PROVE Kind(t)'
    <2>1. CASE Verify(t)
      BY <1>1, <2>1 DEF TypeOK, Moves, Kind, OnboardCalls, DeboardCalls, Verify, Continue, Finish, Goto
    <2>2. CASE Certify(t)
      BY <1>1, <2>2 DEF TypeOK, Moves, Kind, OnboardCalls, DeboardCalls, Certify, Continue, Finish, Goto
    <2>3. CASE Mount(t)
      BY <1>1, <2>3 DEF TypeOK, Moves, Kind, OnboardCalls, DeboardCalls, Mount, Continue, Finish, Goto
    <2>4. CASE Create(t)
      BY <1>1, <2>4 DEF TypeOK, Moves, Kind, OnboardCalls, DeboardCalls, Create, Continue, Finish, Goto
    <2>5. CASE Start(t)
      BY <1>1, <2>5 DEF TypeOK, Moves, Kind, OnboardCalls, DeboardCalls, Start, Continue, Finish, Goto
    <2>6. CASE Inspect(t)
      BY <1>1, <2>6 DEF TypeOK, Moves, Kind, OnboardCalls, DeboardCalls, Inspect, Continue, Finish, Goto
    <2>7. CASE RegisterView(t)
      BY <1>1, <2>7 DEF TypeOK, Moves, Kind, OnboardCalls, DeboardCalls, RegisterView, Continue, Finish, Goto
    <2>8. CASE AddConsent(t)
      BY <1>1, <2>8 DEF TypeOK, Moves, Kind, OnboardCalls, DeboardCalls, AddConsent, Continue, Finish, Goto
    <2>9. CASE RemoveContainerStep(t)
      BY <1>1, <2>9 DEF TypeOK, Moves, Kind, OnboardCalls, DeboardCalls, RemoveContainerStep, Continue, Finish, Goto
    <2>10. CASE RemoveConsent(t)
      BY <1>1, <2>10 DEF TypeOK, Moves, Kind, OnboardCalls, DeboardCalls, RemoveConsent, Continue, Finish, Goto
    <2>11. CASE RemoveView(t)
      BY <1>1, <2>11 DEF TypeOK, Moves, Kind, OnboardCalls, DeboardCalls, RemoveView, Continue, Finish, Goto
    <2>12. CASE Query(t)
      BY <1>1, <2>12 DEF TypeOK, Moves, Kind, OnboardCalls, DeboardCalls, Query, Continue, Finish, Goto
    <2>13. CASE TenantIps(t)
      BY <1>1, <2>13 DEF TypeOK, Moves, Kind, OnboardCalls, DeboardCalls, TenantIps, Continue, Finish, Goto
    <2>14. CASE Lookup(t)
      BY <1>1, <2>14 DEF TypeOK, Moves, Kind, OnboardCalls, DeboardCalls, Lookup, Continue, Finish, Goto
    <2>15. CASE Sign(t)
      BY <1>1, <2>15 DEF TypeOK, Moves, Kind, OnboardCalls, DeboardCalls, Sign, Continue, Finish, Goto
    <2>16. CASE AddIntent(t)
      BY <1>1, <2>16 DEF TypeOK, Moves, Kind, OnboardCalls, DeboardCalls, AddIntent, Continue, Finish, Goto
    <2> QED
      BY <2>1, <2>2, <2>3, <2>4, <2>5, <2>6, <2>7, <2>8,
         <2>9, <2>10, <2>11, <2>12, <2>13, <2>14, <2>15, <2>16
         DEF Engine, EngineStep, Onboard, Deboard, Read, Certificate
  <1> QED
    BY <1>2, <1>3

\* The methods that change a user's resources work on a user.
LEMMA UserOf ==
  ASSUME Inv, NEW t \in Threads, pc[t] \in OnboardCalls \cup DeboardCalls \cup {"consent"}
  PROVE  req[t].user \in Users
  BY RequestFields DEF Inv, TypeOK, ThreadInv, Kind

LEMMA ResourceEngine ==
  ASSUME Inv, NEW t \in Threads, Engine(t), NEW s \in Threads
  PROVE  Resource(s)'
  <1>1. Moves(t) /\ TypeOK /\ Resource(s) /\ Resource(t) /\ Kind(t)
    BY EngineMoves DEF Engine, Inv, ThreadInv
  <1>2. CASE s # t
    BY <1>1, <1>2, Alone DEF Moves, Resource, EngineCalls
  <1>3. ASSUME s = t PROVE Resource(t)'
    <2>1. CASE Verify(t)
      BY <1>1, <2>1 DEF TypeOK, Moves, Resource, Verify, Continue, Finish, Goto, storeVars
    <2>2. CASE Certify(t)
      BY <1>1, <2>2 DEF TypeOK, Moves, Resource, Certify, Continue, Finish, Goto, storeVars
    <2>3. CASE Mount(t)
      BY <1>1, <2>3 DEF TypeOK, Moves, Resource, Mount, Continue, Finish, Goto, storeVars
    <2>4. CASE Create(t)
      BY <1>1, <2>4, UserOf DEF TypeOK, Moves, Resource, OnboardCalls, DeboardCalls,
         Create, Continue, Finish, Goto, CreateContainer, storeVars
    <2>5. CASE Start(t)
      BY <1>1, <2>5 DEF TypeOK, Moves, Resource, Start, Continue, Finish, Goto, StartContainer, storeVars
    <2>6. CASE Inspect(t)
      BY <1>1, <2>6 DEF TypeOK, Moves, Resource, Inspect, Continue, Finish, Goto, storeVars
    <2>7. CASE RegisterView(t)
      BY <1>1, <2>7 DEF TypeOK, Moves, Resource, RegisterView, Continue, Finish, Goto, storeVars
    <2>8. CASE AddConsent(t)
      BY <1>1, <2>8 DEF TypeOK, Moves, Resource, AddConsent, Continue, Finish, Goto, storeVars
    <2>9. CASE RemoveContainerStep(t)
      BY <1>1, <2>9, UserOf DEF TypeOK, Moves, Resource, OnboardCalls, DeboardCalls,
         RemoveContainerStep, Continue, Finish, Goto, RemoveContainer, storeVars
    <2>10. CASE RemoveConsent(t)
      BY <1>1, <2>10 DEF TypeOK, Moves, Resource, RemoveConsent, Continue, Finish, Goto, DeleteOne, Taken, storeVars
    <2>11. CASE RemoveView(t)
      BY <1>1, <2>11 DEF TypeOK, Moves, Resource, RemoveView, Continue, Finish, Goto, storeVars
    <2>12. CASE Query(t)
      BY <1>1, <2>12 DEF TypeOK, Moves, Resource, Query, Continue, Finish, Goto, storeVars
    <2>13. CASE TenantIps(t)
      BY <1>1, <2>13 DEF TypeOK, Moves, Resource, TenantIps, Continue, Finish, Goto, storeVars
    <2>14. CASE Lookup(t)
      BY <1>1, <2>14 DEF TypeOK, Moves, Resource, Lookup, Continue, Finish, Goto, storeVars
    <2>15. CASE Sign(t)
      BY <1>1, <2>15 DEF TypeOK, Moves, Resource, Sign, Continue, Finish, Goto, storeVars
    <2>16. CASE AddIntent(t)
      BY <1>1, <2>16 DEF TypeOK, Moves, Resource, AddIntent, Continue, Finish, Goto, storeVars
    <2> QED
      BY <2>1, <2>2, <2>3, <2>4, <2>5, <2>6, <2>7, <2>8,
         <2>9, <2>10, <2>11, <2>12, <2>13, <2>14, <2>15, <2>16
         DEF Engine, EngineStep, Onboard, Deboard, Read, Certificate
  <1> QED
    BY <1>2, <1>3

\* Only signing and recording touch certificates and intents.
LEMMA IntentsKept ==
  ASSUME NEW t \in Threads, Onboard(t) \/ Deboard(t) \/ Read(t)
  PROVE  intents' = intents /\ cert' = cert
  <1>1. CASE Verify(t)
    BY <1>1 DEF Verify, mongoVars, localVars
  <1>2. CASE Certify(t)
    BY <1>2 DEF Certify, mongoVars, localVars
  <1>3. CASE Mount(t)
    BY <1>3 DEF Mount, mongoVars, localVars
  <1>4. CASE Create(t)
    BY <1>4 DEF Create, mongoVars, localVars
  <1>5. CASE Start(t)
    BY <1>5 DEF Start, mongoVars, localVars
  <1>6. CASE Inspect(t)
    BY <1>6 DEF Inspect, mongoVars, localVars
  <1>7. CASE RegisterView(t)
    BY <1>7 DEF RegisterView, mongoVars, localVars
  <1>8. CASE AddConsent(t)
    BY <1>8 DEF AddConsent, mongoVars, localVars
  <1>9. CASE RemoveContainerStep(t)
    BY <1>9 DEF RemoveContainerStep, mongoVars, localVars
  <1>10. CASE RemoveConsent(t)
    BY <1>10 DEF RemoveConsent, mongoVars, localVars
  <1>11. CASE RemoveView(t)
    BY <1>11 DEF RemoveView, mongoVars, localVars
  <1>12. CASE Query(t)
    BY <1>12 DEF Query, mongoVars, localVars
  <1>13. CASE TenantIps(t)
    BY <1>13 DEF TenantIps, mongoVars, localVars
  <1>14. CASE Lookup(t)
    BY <1>14 DEF Lookup, mongoVars, localVars
  <1> QED
    BY <1>1, <1>2, <1>3, <1>4, <1>5, <1>6, <1>7,
       <1>8, <1>9, <1>10, <1>11, <1>12, <1>13, <1>14
       DEF Onboard, Deboard, Read

\* A recorded intent is never replaced or lost.
LEMMA IntentsGrow ==
  ASSUME NEW t \in Threads, EngineStep(t)
  PROVE  intents \subseteq intents'
  <1>1. CASE Sign(t)
    BY <1>1 DEF Sign, mongoVars
  <1>2. CASE AddIntent(t)
    BY <1>2 DEF AddIntent, Insert
  <1> QED
    BY <1>1, <1>2, IntentsKept DEF EngineStep, Certificate

LEMMA SignedEngine ==
  ASSUME Inv, NEW t \in Threads, Engine(t), NEW s \in Threads
  PROVE  Signed(s)'
  <1>1. Moves(t) /\ TypeOK /\ Signed(s) /\ Signed(t) /\ Kind(t) /\ intents \subseteq intents'
    BY EngineMoves, IntentsGrow DEF Engine, Inv, ThreadInv
  <1>2. CASE s # t
    BY <1>1, <1>2, Alone DEF Moves, Signed, EngineCalls
  <1>3. ASSUME s = t PROVE Signed(t)'
    <2>1. CASE Onboard(t) \/ Deboard(t) \/ Read(t)
      <3>1. req[t].kind # "cert" /\ req' = req
        BY <1>1, <2>1 DEF Moves, Kind, OnboardCalls, DeboardCalls, Onboard, Deboard, Read,
           Verify, Certify, Mount, Create, Start, Inspect, RegisterView, AddConsent,
           RemoveContainerStep, RemoveConsent, RemoveView, Query, TenantIps, Lookup
      <3> QED
        BY <3>1 DEF Signed
    <2>2. CASE Sign(t)
      <3>1. intents' = intents /\ req' = req
        BY <2>2 DEF Sign, mongoVars
      <3>2. CASE Finish(t, "closed")
        BY <3>1, <3>2, <1>1 DEF Signed, Finish, Goto, TypeOK
      <3>3. CASE Continue(t, "panic")
        BY <3>3, <1>1 DEF Signed, Continue, Goto, TypeOK
      <3>4. CASE /\ \E id \in Uuids \ UsedIds :
                      cert' = [cert EXCEPT ![t] = SignCertificate(id, req[t].intent)]
                 /\ Continue(t, "intent")
        <4>1. PICK id \in Uuids \ UsedIds :
                cert' = [cert EXCEPT ![t] = SignCertificate(id, req[t].intent)]
          BY <3>4
        <4>2. req[t].intent \in Purposes
          BY <2>2, <1>1, RequestFields DEF Sign, Kind, TypeOK
        <4>3. cert'[t] \in Cert /\ cert'[t].id = id
          BY <4>1, <4>2, <1>1 DEF TypeOK, Cert, SignCertificate
        <4> QED
          BY <3>4, <4>3, <3>1, <1>1 DEF Signed, UsedIds, Continue, Goto, TypeOK
      <3> QED
        BY <2>2, <3>2, <3>3, <3>4 DEF Sign
    <2>3. CASE AddIntent(t)
      <3>1. /\ cert' = cert /\ req' = req /\ pc'[t] = "return" /\ pc[t] = "intent"
            /\ resp'[t] = "ok" /\ req[t].kind = "cert" => intents' = Insert(intents, NewIntent(t))
        BY <2>3, <1>1 DEF AddIntent, localVars, Finish, Goto, TypeOK
      <3>2. ASSUME req[t].kind = "cert", resp'[t] = "ok"
            PROVE  /\ cert[t] \in Cert
                   /\ [id |-> cert[t].id, intent |-> cert[t].intent] \in intents'
        BY <3>1, <3>2, <1>1 DEF Signed, Insert, NewIntent, UsedIds
      <3> QED
        BY <3>1, <3>2 DEF Signed
    <2> QED
      BY <2>1, <2>2, <2>3 DEF Engine, EngineStep, Certificate
  <1> QED
    BY <1>2, <1>3

\* Only three calls reach docker's containers.
LEMMA StoreKept ==
  ASSUME NEW t \in Threads, EngineStep(t), ~Create(t), ~Start(t), ~RemoveContainerStep(t)
  PROVE  container' = container /\ proxies' = proxies
  <1>1. CASE Verify(t)
    BY <1>1 DEF Verify, storeVars
  <1>2. CASE Certify(t)
    BY <1>2 DEF Certify, storeVars
  <1>3. CASE Mount(t)
    BY <1>3 DEF Mount, storeVars
  <1>4. CASE Inspect(t)
    BY <1>4 DEF Inspect, storeVars
  <1>5. CASE RegisterView(t)
    BY <1>5 DEF RegisterView, storeVars
  <1>6. CASE AddConsent(t)
    BY <1>6 DEF AddConsent, storeVars
  <1>7. CASE RemoveConsent(t)
    BY <1>7 DEF RemoveConsent, storeVars
  <1>8. CASE RemoveView(t)
    BY <1>8 DEF RemoveView, storeVars
  <1>9. CASE Query(t)
    BY <1>9 DEF Query, storeVars
  <1>10. CASE TenantIps(t)
    BY <1>10 DEF TenantIps, storeVars
  <1>11. CASE Lookup(t)
    BY <1>11 DEF Lookup, storeVars
  <1>12. CASE Sign(t)
    BY <1>12 DEF Sign, storeVars
  <1>13. CASE AddIntent(t)
    BY <1>13 DEF AddIntent, storeVars
  <1> QED
    BY <1>1, <1>2, <1>3, <1>4, <1>5, <1>6, <1>7,
       <1>8, <1>9, <1>10, <1>11, <1>12, <1>13
       DEF EngineStep, Onboard, Deboard, Read, Certificate

\* Only four calls write to the collections of users.
LEMMA RecordsKept ==
  ASSUME NEW t \in Threads, EngineStep(t), ~RegisterView(t), ~AddConsent(t), ~RemoveConsent(t), ~RemoveView(t)
  PROVE  consents' = consents /\ view' = view
  <1>1. CASE Verify(t)
    BY <1>1 DEF Verify, mongoVars
  <1>2. CASE Certify(t)
    BY <1>2 DEF Certify, mongoVars
  <1>3. CASE Mount(t)
    BY <1>3 DEF Mount, mongoVars
  <1>4. CASE Create(t)
    BY <1>4 DEF Create, mongoVars
  <1>5. CASE Start(t)
    BY <1>5 DEF Start, mongoVars
  <1>6. CASE Inspect(t)
    BY <1>6 DEF Inspect, mongoVars
  <1>7. CASE RemoveContainerStep(t)
    BY <1>7 DEF RemoveContainerStep, mongoVars
  <1>8. CASE Query(t)
    BY <1>8 DEF Query, mongoVars
  <1>9. CASE TenantIps(t)
    BY <1>9 DEF TenantIps, mongoVars
  <1>10. CASE Lookup(t)
    BY <1>10 DEF Lookup, mongoVars
  <1>11. CASE Sign(t)
    BY <1>11 DEF Sign, mongoVars
  <1>12. CASE AddIntent(t)
    BY <1>12 DEF AddIntent, mongoVars
  <1> QED
    BY <1>1, <1>2, <1>3, <1>4, <1>5, <1>6,
       <1>7, <1>8, <1>9, <1>10, <1>11, <1>12
       DEF EngineStep, Onboard, Deboard, Read, Certificate

LEMMA ProxyEngine ==
  ASSUME Inv, NEW t \in Threads, Engine(t)
  PROVE  ProxyInv'
  <1>1. TypeOK /\ ProxyInv /\ EngineStep(t)
    BY DEF Engine, Inv
  <1>2. CASE Create(t)
    BY <1>1, <1>2, UserOf DEF OnboardCalls, Create, CreateContainer, ProxyInv, TypeOK, Proxy
  <1>3. CASE Start(t)
    <2>1. req[t].user \in Users
      BY <1>3, UserOf DEF OnboardCalls, Start
    <2>2. \A p \in LoadedProxy(req[t].user) : p.user = req[t].user
      BY DEF LoadedProxy
    <2> QED
      BY <1>1, <1>3, <2>1, <2>2 DEF Start, StartContainer, ProxyOf, ProxyInv, TypeOK, Proxy
  <1>4. CASE RemoveContainerStep(t)
    BY <1>1, <1>4, UserOf DEF DeboardCalls, RemoveContainerStep, RemoveContainer, ProxyOf,
       ProxyInv, TypeOK, Proxy
  <1> QED
    BY <1>1, <1>2, <1>3, <1>4, StoreKept DEF ProxyInv

\* AddConsent adds at most the document it was given.
LEMMA NewConsentOnly ==
  ASSUME NEW t \in Threads, AddConsent(t)
  PROVE  consents' \subseteq consents \cup {NewConsent(t)}
  BY DEF AddConsent, Insert

LEMMA ConsentHasViewEngine ==
  ASSUME Inv, NEW t \in Threads, Engine(t)
  PROVE  ConsentHasView'
  <1>1. /\ TypeOK /\ ConsentHasView /\ EngineStep(t)
        /\ Kind(t) /\ Resource(t)
    BY DEF Engine, Inv, ThreadInv
  <1>2. CASE RegisterView(t)
    BY <1>1, <1>2 DEF RegisterView, ConsentHasView
  <1>3. CASE AddConsent(t)
    <2>1. NewConsent(t).serial # 0 => NewConsent(t).id \in view
      BY <1>1, <1>3 DEF AddConsent, NewConsent, Kind, Resource
    <2>2. view' = view
      BY <1>3 DEF AddConsent
    <2> QED
      BY <1>1, <1>3, <2>1, <2>2, NewConsentOnly DEF ConsentHasView
  <1>4. CASE RemoveConsent(t)
    BY <1>1, <1>4 DEF RemoveConsent, DeleteOne, ConsentHasView
  <1>5. CASE RemoveView(t)
    BY <1>1, <1>5 DEF RemoveView, Resource, Taken, ConsentHasView
  <1> QED
    BY <1>1, <1>2, <1>3, <1>4, <1>5, RecordsKept DEF ConsentHasView

LEMMA IntentEngine ==
  ASSUME Inv, NEW t \in Threads, Engine(t)
  PROVE  IssuedIntentRecorded'
  BY IntentsGrow DEF Engine, Inv, serverVars, IssuedIntentRecorded

\* Every step of the engine preserves the invariant.
LEMMA InvEngine ==
  ASSUME Inv, NEW t \in Threads, Engine(t)
  PROVE  Inv'
  <1>1. \A s \in Threads : ThreadInv(s)'
    BY MutexEngine, KindEngine, ResourceEngine, SignedEngine DEF ThreadInv
  <1> QED
    BY <1>1, TypeEngine, ProxyEngine, ConsentHasViewEngine, IntentEngine DEF Inv

\* Requests from outside are requests.
LEMMA ArrivingRequest ==
  ASSUME NEW r, r \in HttpRequest \/ r \in ProtoRequest
  PROVE  r \in Request /\ r.kind # "none"
  BY DEF HttpRequest, ProtoRequest, Request, UserReq, OnboardReq, DeboardReq, ConsentReq,
     QueryReq, LeaseReq, IpsReq, IntentReq, CertReq

LEMMA InvArrive ==
  ASSUME Inv, NEW t \in Threads, Arrive(t)
  PROVE  Inv'
  <1>1. PICK r \in Request : r.kind # "none" /\ req' = [req EXCEPT ![t] = r]
    BY ArrivingRequest DEF Arrive
  <1>2. /\ pc[t] = "idle" /\ pc' = [pc EXCEPT ![t] = "waiting"]
        /\ UNCHANGED <<resp, mongoVars, localVars, storeVars, authorityVars, serverVars>>
    BY DEF Arrive, Goto
  <1>3. TypeOK'
    BY <1>1, <1>2 DEF Inv, TypeOK, EngineCalls, mongoVars, localVars, storeVars,
       authorityVars, serverVars
  <1>4. ASSUME NEW s \in Threads PROVE ThreadInv(s)'
    <2>1. CASE s = t
      <3>1. pc'[t] = "waiting" /\ req'[t] = r
        BY <1>1, <1>2 DEF Inv, TypeOK
      <3> QED
        BY <2>1, <3>1, <1>1 DEF ThreadInv, Mutex, Kind, Resource, Signed, Poison,
           EngineCalls, OnboardCalls, DeboardCalls
    <2>2. CASE s # t
      <3>1. pc'[s] = pc[s] /\ req'[s] = req[s] /\ ThreadInv(s)
        BY <1>1, <1>2, <2>2 DEF Inv, TypeOK
      <3> QED
        BY <3>1, <1>2 DEF ThreadInv, Mutex, Kind, Resource, Signed, Poison, UsedIds,
           Taken, mongoVars, localVars, storeVars, serverVars
    <2> QED
      BY <2>1, <2>2
  <1> QED
    BY <1>2, <1>3, <1>4 DEF Inv, ProxyInv, ConsentHasView, IssuedIntentRecorded, mongoVars,
       storeVars, serverVars

\* lock().unwrap() enters the engine at the first call of the request's method.
LEMMA FirstCallKind ==
  ASSUME Inv, NEW t \in Threads, pc[t] = "waiting"
  PROVE  /\ FirstCall[req[t].kind] \in EngineCalls
         /\ FirstCall[req[t].kind] \notin {"start", "inspect", "register", "rmconsent",
                                           "rmview"}
         /\ FirstCall[req[t].kind] \in OnboardCalls => req[t].kind = "onboard"
         /\ FirstCall[req[t].kind] = "consent" => req[t].kind = "consent"
         /\ FirstCall[req[t].kind] \in DeboardCalls => req[t].kind = "deboard"
         /\ FirstCall[req[t].kind] = "query" => req[t].kind = "query"
         /\ FirstCall[req[t].kind] = "lookup" => req[t].kind = "lease"
         /\ FirstCall[req[t].kind] = "ips" => req[t].kind = "ips"
         /\ FirstCall[req[t].kind] = "sign" => req[t].kind = "cert"
         /\ FirstCall[req[t].kind] = "intent" => req[t].kind = "intent"
  <1>1. req[t].kind \in {"onboard", "deboard", "consent", "query", "lease", "ips",
                         "intent", "cert"}
    BY RequestFields DEF Inv, TypeOK, ThreadInv, Kind
  <1> QED
    BY <1>1 DEF FirstCall, EngineCalls, OnboardCalls, DeboardCalls

LEMMA InvLock ==
  ASSUME Inv, NEW t \in Threads, Lock(t)
  PROVE  Inv'
  <1>1. /\ pc[t] = "waiting" /\ lock = NoThread
        /\ UNCHANGED <<req, resp, mongoVars, localVars, storeVars, authorityVars,
                       poisoned, up, certs>>
    BY DEF Lock
  <1>2. \/ ~poisoned /\ lock' = t /\ pc' = [pc EXCEPT ![t] = FirstCall[req[t].kind]]
        \/ poisoned /\ lock' = lock /\ pc' = [pc EXCEPT ![t] = "panic"]
    BY DEF Lock, Goto
  <1>3. TypeOK'
    BY <1>1, <1>2, FirstCallKind DEF Inv, TypeOK, mongoVars, localVars, storeVars,
       authorityVars
  <1>4. ASSUME NEW s \in Threads PROVE ThreadInv(s)'
    <2>1. CASE s = t
      BY <2>1, <1>1, <1>2, FirstCallKind DEF Inv, TypeOK, ThreadInv, Mutex, Kind, Resource,
         Signed, Poison, EngineCalls, OnboardCalls, DeboardCalls
    <2>2. CASE s # t
      <3>1. pc'[s] = pc[s] /\ ThreadInv(s)
        BY <1>2, <2>2 DEF Inv, TypeOK
      <3>2. pc[s] \notin EngineCalls \cup {"return"} /\ (pc[s] = "panic" => poisoned)
        BY <3>1, <1>1, ThreadsAssumption DEF ThreadInv, Mutex, Poison
      <3> QED
        BY <3>1, <3>2, <1>1 DEF ThreadInv, Mutex, Kind, Resource, Signed, Poison, UsedIds,
           Taken, mongoVars, localVars, storeVars
    <2> QED
      BY <2>1, <2>2
  <1> QED
    BY <1>1, <1>3, <1>4 DEF Inv, ProxyInv, ConsentHasView, IssuedIntentRecorded, mongoVars,
       storeVars

LEMMA InvReturn ==
  ASSUME Inv, NEW t \in Threads, Return(t)
  PROVE  Inv'
  <1>1. /\ pc[t] = "return" /\ lock' = NoThread /\ pc' = [pc EXCEPT ![t] = "answer"]
        /\ UNCHANGED <<req, resp, cert, mongoVars, storeVars, authorityVars, poisoned, up,
                       certs>>
    BY DEF Return, Goto
  <1>2. TypeOK'
    <2>1. draft' \in [Threads -> Issue] /\ todo' \in [Threads -> SUBSET Files]
      BY NoIssueType DEF Return, Inv, TypeOK
    <2> QED
      BY <1>1, <2>1 DEF Inv, TypeOK, EngineCalls, mongoVars, storeVars, authorityVars
  <1>3. ASSUME NEW s \in Threads PROVE ThreadInv(s)'
    <2>1. CASE s = t
      BY <2>1, <1>1 DEF Inv, TypeOK, ThreadInv, Mutex, Kind, Resource, Signed, Poison,
         EngineCalls, OnboardCalls, DeboardCalls, mongoVars
    <2>2. CASE s # t
      <3>1. pc'[s] = pc[s] /\ ThreadInv(s) /\ ThreadInv(t)
        BY <1>1, <2>2 DEF Inv, TypeOK
      <3>2. pc[s] \notin EngineCalls \cup {"return"} /\ (pc[s] = "panic" => poisoned)
        BY <3>1, <1>1, <2>2 DEF ThreadInv, Mutex, Poison
      <3> QED
        BY <3>1, <3>2, <1>1 DEF ThreadInv, Mutex, Kind, Resource, Signed, Poison, UsedIds,
           Taken, mongoVars, storeVars
    <2> QED
      BY <2>1, <2>2
  <1> QED
    BY <1>1, <1>2, <1>3 DEF Inv, ProxyInv, ConsentHasView, IssuedIntentRecorded, mongoVars,
       storeVars

LEMMA InvAnswer ==
  ASSUME Inv, NEW t \in Threads, Answer(t)
  PROVE  Inv'
  <1>1. /\ pc[t] = "answer" /\ pc' = [pc EXCEPT ![t] = "idle"]
        /\ req' = [req EXCEPT ![t] = NoReq] /\ resp' = [resp EXCEPT ![t] = "none"]
        /\ cert' = [cert EXCEPT ![t] = NoCert]
        /\ UNCHANGED <<draft, todo, mongoVars, storeVars, authorityVars, lock, poisoned, up>>
    BY DEF Answer, Goto
  <1>2. \/ certs' = certs
        \/ /\ req[t].kind = "cert" /\ resp[t] = "ok"
           /\ certs' = certs \cup {cert[t]}
    BY DEF Answer
  <1>3. req[t].kind = "cert" /\ resp[t] = "ok" =>
          cert[t] \in Cert /\ [id |-> cert[t].id, intent |-> cert[t].intent] \in intents
    BY <1>1 DEF Inv, ThreadInv, Signed
  <1>4. TypeOK'
    BY <1>1, <1>2, <1>3 DEF Inv, TypeOK, EngineCalls, Responses, mongoVars, storeVars,
       authorityVars
  <1>5. IssuedIntentRecorded'
    BY <1>1, <1>2, <1>3 DEF Inv, IssuedIntentRecorded, mongoVars
  <1>6. ASSUME NEW s \in Threads PROVE ThreadInv(s)'
    <2>1. CASE s = t
      BY <2>1, <1>1 DEF Inv, TypeOK, ThreadInv, Mutex, Kind, Resource, Signed, Poison,
         EngineCalls, OnboardCalls, DeboardCalls
    <2>2. CASE s # t
      <3>1. /\ pc'[s] = pc[s] /\ req'[s] = req[s] /\ resp'[s] = resp[s]
            /\ cert'[s] = cert[s] /\ ThreadInv(s)
        BY <1>1, <2>2 DEF Inv, TypeOK
      <3> QED
        BY <3>1, <1>1 DEF ThreadInv, Mutex, Kind, Resource, Signed, Poison, UsedIds,
           Taken, mongoVars, storeVars
    <2> QED
      BY <2>1, <2>2
  <1> QED
    BY <1>1, <1>4, <1>5, <1>6 DEF Inv, ProxyInv, ConsentHasView, mongoVars, storeVars

\* The end of the process, in whatever state, keeps the invariant: what is left is
\* the database, docker and the files.
LEMMA InvGone ==
  ASSUME Inv, ProcessGone, pems' \in [Users -> [Files -> Issue]],
         UNCHANGED <<mongoVars, container, proxies, authorityVars, certs>>
  PROVE  Inv'
  <1>1. TypeOK'
    <2>1. draft' \in [Threads -> Issue]
      BY NoIssueType DEF ProcessGone
    <2>2. /\ pc' \in [Threads -> Pcs] /\ resp' \in [Threads -> Responses]
      BY DEF ProcessGone, Pcs, Responses
    <2>3. /\ req' \in [Threads -> Request \cup {NoReq}] /\ todo' \in [Threads -> SUBSET Files]
          /\ cert' \in [Threads -> Cert \cup {NoCert}]
      BY DEF ProcessGone
    <2>4. lock' \in Threads \cup {NoThread} /\ poisoned' \in BOOLEAN /\ up' \in BOOLEAN
      BY DEF ProcessGone
    <2> QED
      BY <2>1, <2>2, <2>3, <2>4 DEF Inv, TypeOK, Pcs, mongoVars, authorityVars
  <1>2. ASSUME NEW s \in Threads PROVE ThreadInv(s)'
    <2>1. pc'[s] = "idle" /\ poisoned' = FALSE
      BY DEF ProcessGone
    <2> QED
      BY <2>1 DEF ThreadInv, Mutex, Kind, Resource, Signed, Poison, EngineCalls,
         OnboardCalls, DeboardCalls
  <1> QED
    BY <1>1, <1>2 DEF Inv, ProxyInv, ConsentHasView, IssuedIntentRecorded, mongoVars

LEMMA InvUnwind ==
  ASSUME Inv, NEW t \in Threads, Unwind(t)
  PROVE  Inv'
  <1>1. CASE ProcessGone
    BY <1>1, InvGone DEF Unwind, Inv, TypeOK, storeVars
  <1>2. CASE ~ProcessGone
    <2>1. /\ pc[t] = "panic" /\ lock' = (IF lock = t THEN NoThread ELSE lock)
          /\ poisoned' = TRUE
          /\ pc' = [pc EXCEPT ![t] = IF t \in Http THEN "idle" ELSE "dead"]
          /\ req' = [req EXCEPT ![t] = NoReq]
          /\ UNCHANGED <<resp, localVars, up, mongoVars, storeVars, authorityVars, certs>>
      BY <1>2 DEF Unwind, Goto
    <2>2. TypeOK'
      BY <2>1 DEF Inv, TypeOK, EngineCalls, mongoVars, localVars, storeVars, authorityVars
    <2>3. ASSUME NEW s \in Threads PROVE ThreadInv(s)'
      <3>1. CASE s = t
        BY <3>1, <2>1 DEF Inv, TypeOK, ThreadInv, Mutex, Kind, Resource, Signed, Poison,
           EngineCalls, OnboardCalls, DeboardCalls
      <3>2. CASE s # t
        <4>1. /\ pc'[s] = pc[s] /\ req'[s] = req[s] /\ ThreadInv(s) /\ ThreadInv(t)
          BY <2>1, <3>2 DEF Inv, TypeOK
        <4>2. pc[s] \notin EngineCalls
          BY <4>1, <2>1, <3>2 DEF ThreadInv, Mutex, Poison
        <4>3. pc[s] = "return" => lock' = s
          BY <4>1, <2>1, <3>2 DEF ThreadInv, Mutex
        <4> QED
          BY <4>1, <4>2, <4>3, <2>1 DEF ThreadInv, Mutex, Kind, Resource, Signed, Poison,
             UsedIds, Taken, mongoVars, localVars, storeVars
      <3> QED
        BY <3>1, <3>2
    <2> QED
      BY <2>1, <2>2, <2>3 DEF Inv, ProxyInv, ConsentHasView, IssuedIntentRecorded, mongoVars,
         storeVars
  <1> QED
    BY <1>1, <1>2

LEMMA InvCrash == Inv /\ Crash => Inv'
  <1> SUFFICES ASSUME Inv, Crash PROVE Inv'
    OBVIOUS
  <1>1. pems' \in [Users -> [Files -> Issue]]
    <2>1. CASE UNCHANGED pems
      BY <2>1 DEF Inv, TypeOK
    <2>2. CASE \E t \in Threads : /\ pc[t] = "mount"
                                  /\ \E f \in todo[t] : WriteFile(req[t].user, f, NoIssue)
      <3>1. PICK t \in Threads : /\ pc[t] = "mount"
                                 /\ \E f \in todo[t] : WriteFile(req[t].user, f, NoIssue)
        BY <2>2
      <3>2. req[t].user \in Users /\ todo[t] \subseteq Files
        BY <3>1, UserOf DEF OnboardCalls, Inv, TypeOK
      <3> QED
        BY <3>1, <3>2, NoIssueType, WriteFileType DEF Inv
    <2> QED
      BY <2>1, <2>2 DEF Crash
  <1> QED
    BY <1>1, InvGone DEF Crash

LEMMA InvRestart == Inv /\ Restart => Inv'
  <1> SUFFICES ASSUME Inv, Restart PROVE Inv'
    OBVIOUS
  <1>1. /\ ca' = ca + 1 /\ up' = TRUE
        /\ UNCHANGED <<issued, storeVars, mongoVars, localVars, threadVars, lock, poisoned, certs>>
    BY DEF Restart, NewAuthority, StartContainers
  <1>2. TypeOK'
    BY <1>1 DEF Inv, TypeOK, storeVars, mongoVars, localVars, threadVars
  <1>3. \A s \in Threads : ThreadInv(s)'
    BY <1>1 DEF Inv, ThreadInv, Mutex, Kind, Resource, Signed, Poison, UsedIds, Taken,
       storeVars, mongoVars, localVars, threadVars
  <1> QED
    BY <1>1, <1>2, <1>3 DEF Inv, ProxyInv, ConsentHasView, IssuedIntentRecorded, mongoVars,
       storeVars

LEMMA InvDocker ==
  ASSUME Inv, NEW u \in Users, Docker(u)
  PROVE  Inv'
  <1>1. UNCHANGED <<pems, mongoVars, localVars, threadVars, authorityVars, serverVars>>
    BY DEF Docker, StopContainer, RestartContainer
  <1>2. /\ container' \in [Users -> ContainerState]
        /\ \A v \in Users : (container'[v] = "absent") <=> (container[v] = "absent")
    BY DEF Docker, StopContainer, RestartContainer, StartContainer, Inv, TypeOK,
       ContainerState
  <1>3. proxies' \subseteq Proxy /\ ProxyInv'
    <2>1. CASE StopContainer(u)
      BY <2>1 DEF StopContainer, ProxyOf, ProxyInv, Inv, TypeOK, Proxy
    <2>2. CASE RestartContainer(u)
      <3>1. LoadedProxy(u) \subseteq Proxy /\ \A p \in LoadedProxy(u) : p.user = u
        BY LoadedProxyType DEF Inv, LoadedProxy
      <3> QED
        BY <2>2, <3>1 DEF RestartContainer, StartContainer, ProxyOf, ProxyInv, Inv, TypeOK, Proxy
    <2> QED
      BY <2>1, <2>2 DEF Docker
  <1>4. TypeOK'
    BY <1>1, <1>2, <1>3 DEF Inv, TypeOK, mongoVars, localVars, threadVars, authorityVars,
       serverVars
  <1>5. ASSUME NEW s \in Threads PROVE ThreadInv(s)'
    <2>1. ThreadInv(s)
      BY DEF Inv
    <2>2. Resource(s)'
      <3>1. pc[s] \in OnboardCalls \cup DeboardCalls \cup {"consent"} => req[s].user \in Users
        BY UserOf
      <3> QED
        BY <2>1, <3>1, <1>1, <1>2 DEF ThreadInv, Resource, OnboardCalls, DeboardCalls, Taken,
           threadVars, mongoVars
    <2>3. Mutex(s)' /\ Kind(s)' /\ Signed(s)' /\ Poison(s)'
      BY <2>1, <1>1 DEF ThreadInv, Mutex, Kind, Signed, Poison, UsedIds, mongoVars, localVars,
         threadVars, serverVars
    <2> QED
      BY <2>2, <2>3 DEF ThreadInv
  <1> QED
    BY <1>1, <1>3, <1>4, <1>5 DEF Inv, ConsentHasView, IssuedIntentRecorded, mongoVars,
       serverVars

LEMMA InvInit == Init => Inv
  <1> SUFFICES ASSUME Init PROVE Inv
    OBVIOUS
  <1>1. /\ \A t \in Threads : pc[t] = "idle"
        /\ proxies = {} /\ consents = {} /\ certs = {} /\ poisoned = FALSE
    BY DEF Init, EngineInit, StoreInit
  <1>2. \A t \in Threads : ThreadInv(t)
    BY <1>1 DEF ThreadInv, Mutex, Kind, Resource, Signed, Poison, EngineCalls, OnboardCalls,
       DeboardCalls
  <1> QED
    BY <1>1, <1>2, TypeInit DEF Inv, ProxyInv, ConsentHasView, IssuedIntentRecorded

\* A step that changes nothing preserves the invariant.
LEMMA InvStutter == Inv /\ UNCHANGED vars => Inv'
  <1> SUFFICES ASSUME Inv, UNCHANGED vars PROVE Inv'
    OBVIOUS
  <1>1. UNCHANGED <<consents, view, views, intents, pc, req, resp, draft, todo, cert, ca,
                    issued, container, pems, proxies, lock, poisoned, up, certs>>
    BY DEF vars, engineVars, serverVars, mongoVars, localVars, threadVars, storeVars,
       authorityVars
  <1>2. TypeOK'
    BY <1>1 DEF Inv, TypeOK
  <1>3. \A t \in Threads : ThreadInv(t)'
    BY <1>1 DEF Inv, ThreadInv, Mutex, Kind, Resource, Signed, Poison, UsedIds, Taken
  <1> QED
    BY <1>1, <1>2, <1>3 DEF Inv, ProxyInv, ConsentHasView, IssuedIntentRecorded

LEMMA InvNext == Inv /\ [Next]_vars => Inv'
  BY InvArrive, InvLock, InvEngine, InvReturn, InvAnswer, InvUnwind, InvCrash, InvRestart,
     InvDocker, InvStutter DEF Next, Thread

THEOREM InvHolds == Spec => []Inv
  BY InvInit, InvNext, PTL DEF Spec

-----------------------------------------------------------------------------
(***************************************************************************)
(* Theorems                                                                *)
(***************************************************************************)

\* Type correctness.
THEOREM TypeCorrect == Spec => []TypeOK
  <1>1. Inv => TypeOK
    BY DEF Inv
  <1> QED
    BY <1>1, InvHolds, PTL

\* A consent that belongs to a certificate never exists without its user's view,
\* whatever fails in onboard_user and remove_user and wherever they are cut short.
THEOREM ConsentAlwaysHasView == Spec => []ConsentHasView
  <1>1. Inv => ConsentHasView
    BY DEF Inv
  <1> QED
    BY <1>1, InvHolds, PTL

\* handle_cert_request: every certificate a client holds has its intent on record.
THEOREM IntentsRecorded == Spec => []IssuedIntentRecorded
  <1>1. Inv => IssuedIntentRecorded
    BY DEF Inv
  <1> QED
    BY <1>1, InvHolds, PTL

\* The steps that leave the collections, the containers and the files alone: all but
\* those of the engine, a crash and docker.
LEMMA ServerStep ==
  ASSUME NEW t \in Threads, Arrive(t) \/ Lock(t) \/ Return(t) \/ Answer(t) \/ Unwind(t)
  PROVE  UNCHANGED <<mongoVars, storeVars>>
  BY DEF Arrive, Lock, Return, Answer, Unwind

\* Which steps write to the collections: only those of the engine.
LEMMA OnlyEngineWrites ==
  ASSUME [Next]_vars, \A t \in Threads : ~Engine(t)
  PROVE  UNCHANGED mongoVars
  <1>1. CASE \E t \in Threads : Thread(t)
    BY <1>1, ServerStep DEF Thread
  <1>2. CASE Crash \/ Restart \/ \E u \in Users : Docker(u)
    BY <1>2 DEF Crash, Restart, Docker
  <1>3. CASE UNCHANGED vars
    BY <1>3 DEF vars, engineVars
  <1> QED
    BY <1>1, <1>2, <1>3 DEF Next

\* Once the mutex is poisoned no thread is inside the engine, so nothing writes to
\* the database or to a certificate directory, not even a crash.
THEOREM PoisonStops == Spec => PoisonStopsWrites
  <1>1. ASSUME Inv, [Next]_vars, poisoned PROVE UNCHANGED <<mongoVars, pems>>
    <2>1. \A t \in Threads : pc[t] \notin EngineCalls
      BY <1>1 DEF Inv, ThreadInv, Poison
    <2>2. \A t \in Threads : ~Engine(t)
      BY <1>1, <2>1, EngineMoves DEF Engine, Inv, Moves
    <2>3. UNCHANGED mongoVars
      BY <1>1, <2>2, OnlyEngineWrites
    <2>4. UNCHANGED pems
      <3>1. CASE \E t \in Threads : Thread(t)
        BY <2>2, <3>1, ServerStep DEF Thread, storeVars
      <3>2. CASE Crash
        BY <2>1, <3>2 DEF Crash, EngineCalls
      <3>3. CASE Restart \/ \E u \in Users : Docker(u)
        BY <3>3 DEF Restart, StartContainers, storeVars, Docker, StopContainer, RestartContainer
      <3>4. CASE UNCHANGED vars
        BY <3>4 DEF vars, engineVars, storeVars
      <3> QED
        BY <1>1, <3>1, <3>2, <3>3, <3>4 DEF Next
    <2> QED
      BY <2>3, <2>4
  <1>2. Inv /\ [Next]_vars => [NoWriteIfPoisoned]_vars
    BY <1>1 DEF NoWriteIfPoisoned
  <1> QED
    BY <1>2, InvHolds, PTL DEF Spec, PoisonStopsWrites

\* A consent disappears only when its user's container and proxy are gone.
THEOREM ErasedAfterRemoval == Spec => EraseAfterRemoval
  <1>1. ASSUME Inv, [Next]_vars, NEW d \in consents \ consents'
        PROVE  container[d.id] = "absent" /\ ProxyOf(d.id) = {}
    <2>1. PICK t \in Threads : Engine(t)
      BY <1>1, OnlyEngineWrites DEF mongoVars
    <2>2. ~RegisterView(t) /\ ~AddConsent(t) /\ ~RemoveView(t)
      BY <1>1 DEF RegisterView, AddConsent, Insert, RemoveView
    <2>3. RemoveConsent(t)
      BY <1>1, <2>1, <2>2, RecordsKept DEF Engine
    <2>4. d.id = req[t].user
      BY <1>1, <2>3 DEF RemoveConsent, DeleteOne
    <2>5. container[d.id] = "absent"
      BY <1>1, <2>3, <2>4 DEF Inv, ThreadInv, Resource, RemoveConsent
    <2> QED
      BY <1>1, <2>5 DEF Inv, ProxyInv, ProxyOf
  <1>2. Inv /\ [Next]_vars =>
          [\A d \in consents \ consents' : container[d.id] = "absent" /\ ProxyOf(d.id) = {}]_vars
    BY <1>1
  <1> QED
    BY <1>2, InvHolds, PTL DEF Spec, EraseAfterRemoval

\* Only its own engine step can turn a thread's answer into a success.
LEMMA SuccessStep ==
  ASSUME Inv, [Next]_vars, NEW t \in Threads, resp[t] = "none", resp'[t] = "ok"
  PROVE  Engine(t)
  <1>1. ASSUME NEW s \in Threads, Thread(s), ~Engine(t) PROVE FALSE
    <2>1. CASE Engine(s)
      BY <1>1, <2>1, EngineMoves DEF Engine, Inv, Moves
    <2>2. CASE Answer(s)
      BY <2>2 DEF Answer, Inv, TypeOK
    <2>3. CASE Unwind(s)
      BY <2>3 DEF Unwind, ProcessGone
    <2>4. CASE Arrive(s) \/ Lock(s) \/ Return(s)
      BY <2>4 DEF Arrive, Lock, Return
    <2> QED
      BY <1>1, <2>1, <2>2, <2>3, <2>4 DEF Thread
  <1>2. CASE Crash
    BY <1>2 DEF Crash, ProcessGone
  <1>3. CASE Restart \/ \E u \in Users : Docker(u)
    BY <1>3 DEF Restart, Docker, threadVars
  <1>4. CASE UNCHANGED vars
    BY <1>4 DEF vars, engineVars, threadVars
  <1> QED
    BY <1>1, <1>2, <1>3, <1>4 DEF Next

\* "ok" tells the truth: onboard_user has left a container, a view and a consent,
\* deboard_user none of them.
THEOREM SuccessComplete == Spec => SuccessIsComplete
  <1>1. ASSUME Inv, [Next]_vars, NEW t \in Threads, resp[t] = "none", resp'[t] = "ok"
        PROVE  /\ req[t].kind = "onboard" => Onboarded(req[t].user)'
               /\ req[t].kind = "deboard" => Deboarded(req[t].user)'
    <2>1. /\ Engine(t) /\ EngineStep(t) /\ TypeOK /\ Kind(t) /\ Resource(t)
          /\ req' = req
      BY <1>1, SuccessStep, EngineMoves DEF Engine, Inv, ThreadInv, Moves
    <2>2. ASSUME req[t].kind = "onboard" PROVE Onboarded(req[t].user)'
      <3>1. ~Verify(t) /\ ~Certify(t) /\ ~Mount(t) /\ ~Create(t)
        BY <1>1, <2>1 DEF Verify, Certify, Mount, Create, Continue, Finish, TypeOK
      <3>2. ~Start(t) /\ ~Inspect(t) /\ ~RegisterView(t)
        BY <1>1, <2>1 DEF Start, Inspect, RegisterView, Continue, Finish, TypeOK
      <3>3. ~Deboard(t) /\ ~Read(t) /\ ~Certificate(t)
        BY <2>1, <2>2 DEF Kind, DeboardCalls, Deboard, Read, Certificate,
           RemoveContainerStep, RemoveConsent, RemoveView, Query, TenantIps, Lookup, Sign,
           AddIntent
      <3>4. AddConsent(t)
        BY <2>1, <3>1, <3>2, <3>3 DEF EngineStep, Onboard
      <3>5. consents' = Insert(consents, NewConsent(t))
        BY <1>1, <2>1, <3>4 DEF AddConsent, Finish, TypeOK
      <3>6. Taken(consents', req[t].user)
        <4>1. NewConsent(t).id = req[t].user
          BY DEF NewConsent
        <4> QED
          BY <3>5, <4>1 DEF Insert, Taken
      <3> QED
        BY <2>1, <2>2, <3>4, <3>6 DEF AddConsent, Resource, Onboarded, Taken, storeVars
    <2>3. ASSUME req[t].kind = "deboard" PROVE Deboarded(req[t].user)'
      <3>1. ~RemoveContainerStep(t) /\ ~RemoveConsent(t)
        BY <1>1, <2>1 DEF RemoveContainerStep, RemoveConsent, Continue, Finish, TypeOK
      <3>2. ~Onboard(t) /\ ~Read(t) /\ ~Certificate(t)
        BY <2>1, <2>3 DEF Kind, OnboardCalls, Onboard, Read, Certificate, Verify, Certify,
           Mount, Create, Start, Inspect, RegisterView, AddConsent, Query, TenantIps,
           Lookup, Sign, AddIntent
      <3>3. RemoveView(t)
        BY <2>1, <3>1, <3>2 DEF EngineStep, Deboard
      <3>4. view' = view \ {req[t].user}
        BY <1>1, <2>1, <3>3 DEF RemoveView, Finish, TypeOK
      <3> QED
        BY <2>1, <3>3, <3>4 DEF RemoveView, Resource, Deboarded, Taken, storeVars
    <2> QED
      BY <2>2, <2>3
  <1>2. Inv /\ [Next]_vars =>
          [\A t \in Threads : resp[t] = "none" /\ resp'[t] = "ok" =>
             /\ req[t].kind = "onboard" => Onboarded(req[t].user)'
             /\ req[t].kind = "deboard" => Deboarded(req[t].user)']_vars
    BY <1>1
  <1> QED
    BY <1>2, InvHolds, PTL DEF Spec, SuccessIsComplete

-----------------------------------------------------------------------------
(***************************************************************************)
(* TollaServer implements UserLifecycle                                    *)
(***************************************************************************)

held == [u \in Users |-> Held(u)]

HasConsent(u) == \E d \in consents : d.id = u /\ d.serial # 0

\* Which resources a user holds, one by one.
LEMMA HeldMembers ==
  ASSUME NEW u \in Users
  PROVE  /\ held[u] \subseteq {"container", "view", "consent"}
         /\ "container" \in held[u] <=> container[u] # "absent"
         /\ "view" \in held[u] <=> u \in view
         /\ "consent" \in held[u] <=> HasConsent(u)
  BY DEF held, Held, HasConsent

LEMMA HeldMembersPrime ==
  ASSUME NEW u \in Users
  PROVE  /\ held'[u] \subseteq {"container", "view", "consent"}
         /\ "container" \in held'[u] <=> container'[u] # "absent"
         /\ "view" \in held'[u] <=> u \in view'
         /\ "consent" \in held'[u] <=> HasConsent(u)'
  BY DEF held, Held, HasConsent

\* A user's resources are the same when each of the three is.
LEMMA SameMembers ==
  ASSUME NEW u \in Users,
         \A q \in {"container", "view", "consent"} : q \in held'[u] <=> q \in held[u]
  PROVE  held'[u] = held[u]
  <1>1. /\ held[u] \subseteq {"container", "view", "consent"}
        /\ held'[u] \subseteq {"container", "view", "consent"}
    BY HeldMembers, HeldMembersPrime
  <1>2. ASSUME NEW x PROVE x \in held'[u] <=> x \in held[u]
    BY <1>1
  <1> QED
    BY <1>2

\* A step that changes at most resource r of user u takes it, gives it back, or
\* leaves everything as it was.
LEMMA HeldStep ==
  ASSUME NEW u \in Users, NEW r \in {"container", "view", "consent"},
         \A v \in Users, q \in {"container", "view", "consent"} :
           v # u \/ q # r => (q \in held'[v] <=> q \in held[v])
  PROVE  /\ r \in held'[u] => held' = [held EXCEPT ![u] = @ \cup {r}]
         /\ r \notin held'[u] => held' = [held EXCEPT ![u] = @ \ {r}]
  <1>1. ASSUME NEW v \in Users, v # u PROVE held'[v] = held[v]
    BY <1>1, SameMembers
  <1>2. r \in held'[u] => held'[u] = held[u] \cup {r}
    BY HeldMembers, HeldMembersPrime
  <1>3. r \notin held'[u] => held'[u] = held[u] \ {r}
    BY HeldMembers, HeldMembersPrime
  <1>4. held = [v \in Users |-> held[v]] /\ held' = [v \in Users |-> held'[v]]
    BY DEF held
  <1> QED
    BY <1>1, <1>2, <1>3, <1>4

\* Steps that change no resource stutter.
LEMMA HeldSame ==
  ASSUME consents' = consents, view' = view,
         \A v \in Users : (container'[v] = "absent") <=> (container[v] = "absent")
  PROVE  held' = held
  <1>1. \A v \in Users, q \in {"container", "view", "consent"} : q \in held'[v] <=> q \in held[v]
    BY HeldMembers, HeldMembersPrime DEF HasConsent
  <1>2. \A v \in Users : held'[v] = held[v]
    BY <1>1, SameMembers
  <1> QED
    BY <1>2 DEF held

\* The steps of the engine, seen by the abstract specification.
LEMMA LifecycleEngine ==
  ASSUME Inv, NEW t \in Threads, Engine(t)
  PROVE  [L!Next]_held
  <1> DEFINE u == req[t].user
  <1>1. TypeOK /\ EngineStep(t) /\ Kind(t) /\ Resource(t) /\ ConsentHasView
    BY DEF Inv, ThreadInv, Engine
  <1>2. CASE Create(t)
    <2>1. u \in Users /\ consents' = consents /\ view' = view
      BY <1>2, UserOf DEF Create, OnboardCalls, mongoVars
    <2>2. container' = container \/ container' = [container EXCEPT ![u] = "stopped"]
      BY <1>2 DEF Create, CreateContainer
    <2>3. CASE container' = container
      BY <2>1, <2>3, HeldSame
    <2>4. CASE container' = [container EXCEPT ![u] = "stopped"]
      <3>1. /\ "container" \in held'[u]
            /\ \A v \in Users, q \in {"container", "view", "consent"} :
                 v # u \/ q # "container" => (q \in held'[v] <=> q \in held[v])
        BY <1>1, <2>1, <2>4, HeldMembers, HeldMembersPrime DEF TypeOK, HasConsent
      <3>2. held' = [held EXCEPT ![u] = @ \cup {"container"}]
        BY <2>1, <3>1, HeldStep
      <3> QED
        BY <2>1, <3>2 DEF L!Next, L!Provision, L!Take, held
    <2> QED
      BY <2>2, <2>3, <2>4
  <1>3. CASE Start(t)
    <2>1. u \in Users /\ consents' = consents /\ view' = view /\ container[u] # "absent"
      BY <1>1, <1>3, UserOf DEF Start, OnboardCalls, mongoVars, Resource
    <2>2. container' = container \/ container' = [container EXCEPT ![u] = "running"]
      BY <1>3 DEF Start, StartContainer
    <2> QED
      BY <1>1, <2>1, <2>2, HeldSame DEF TypeOK
  <1>4. CASE RegisterView(t)
    <2>1. /\ u \in Users /\ consents' = consents /\ container' = container
          /\ container[u] # "absent" /\ view' \in {view, view \cup {u}}
      BY <1>1, <1>4, UserOf DEF RegisterView, OnboardCalls, storeVars, Resource
    <2>2. CASE view' = view
      BY <2>1, <2>2, HeldSame
    <2>3. CASE view' = view \cup {u}
      <3>1. /\ "view" \in held'[u] /\ "container" \in held[u]
            /\ \A v \in Users, q \in {"container", "view", "consent"} :
                 v # u \/ q # "view" => (q \in held'[v] <=> q \in held[v])
        BY <2>1, <2>3, HeldMembers, HeldMembersPrime DEF HasConsent
      <3>2. held' = [held EXCEPT ![u] = @ \cup {"view"}]
        BY <2>1, <3>1, HeldStep
      <3> QED
        BY <2>1, <3>1, <3>2 DEF L!Next, L!RegisterView, L!Take, held
    <2> QED
      BY <2>1, <2>2, <2>3
  <1>5. CASE AddConsent(t)
    <2>1. /\ u \in Users /\ view' = view /\ container' = container
          /\ NewConsent(t).id = u
      BY <1>5, UserOf DEF AddConsent, storeVars, NewConsent
    <2>2. consents \subseteq consents' /\ consents' \subseteq consents \cup {NewConsent(t)}
      BY <1>5 DEF AddConsent, Insert
    <2>3. \A v \in Users, q \in {"container", "view", "consent"} :
            v # u \/ q # "consent" => (q \in held'[v] <=> q \in held[v])
      BY <2>1, <2>2, HeldMembers, HeldMembersPrime DEF HasConsent
    <2>4. CASE NewConsent(t).serial # 0 /\ NewConsent(t) \in consents'
      <3>1. container[u] # "absent" /\ u \in view
        BY <1>1, <1>5, <2>4 DEF AddConsent, NewConsent, Kind, Resource
      <3>2. "consent" \in held'[u] /\ {"container", "view"} \subseteq held[u]
        BY <2>1, <2>4, <3>1, HeldMembers, HeldMembersPrime DEF HasConsent
      <3>3. held' = [held EXCEPT ![u] = @ \cup {"consent"}]
        BY <2>1, <2>3, <3>2, HeldStep
      <3> QED
        BY <2>1, <3>2, <3>3 DEF L!Next, L!RecordConsent, L!Take, held
    <2>5. CASE ~(NewConsent(t).serial # 0 /\ NewConsent(t) \in consents')
      <3>1. \A v \in Users : HasConsent(v)' <=> HasConsent(v)
        BY <2>2, <2>5 DEF HasConsent
      <3>2. \A v \in Users : held'[v] = held[v]
        BY <3>1, <2>1, HeldMembers, HeldMembersPrime, SameMembers
      <3> QED
        BY <3>2 DEF held
    <2> QED
      BY <2>4, <2>5
  <1>6. CASE RemoveContainerStep(t)
    <2>1. u \in Users /\ consents' = consents /\ view' = view
      BY <1>6, UserOf DEF RemoveContainerStep, DeboardCalls, mongoVars
    <2>2. container' = container \/ container' = [container EXCEPT ![u] = "absent"]
      BY <1>6 DEF RemoveContainerStep, RemoveContainer
    <2>3. CASE container' = container
      BY <2>1, <2>3, HeldSame
    <2>4. CASE container' = [container EXCEPT ![u] = "absent"]
      <3>1. /\ "container" \notin held'[u]
            /\ \A v \in Users, q \in {"container", "view", "consent"} :
                 v # u \/ q # "container" => (q \in held'[v] <=> q \in held[v])
        BY <1>1, <2>1, <2>4, HeldMembers, HeldMembersPrime DEF TypeOK, HasConsent
      <3>2. held' = [held EXCEPT ![u] = @ \ {"container"}]
        BY <2>1, <3>1, HeldStep
      <3> QED
        BY <2>1, <3>2 DEF L!Next, L!Decommission, L!GiveBack, held
    <2> QED
      BY <2>2, <2>3, <2>4
  <1>7. CASE RemoveConsent(t)
    <2>1. /\ u \in Users /\ view' = view /\ container' = container
          /\ container[u] = "absent" /\ consents' \in {consents, DeleteOne(consents, u)}
      BY <1>1, <1>7, UserOf DEF RemoveConsent, DeboardCalls, storeVars, Resource
    <2>2. CASE consents' = consents
      BY <2>1, <2>2, HeldSame
    <2>3. CASE consents' = DeleteOne(consents, u)
      <3>1. /\ "consent" \notin held'[u] /\ "container" \notin held[u]
            /\ \A v \in Users, q \in {"container", "view", "consent"} :
                 v # u \/ q # "consent" => (q \in held'[v] <=> q \in held[v])
        BY <2>1, <2>3, HeldMembers, HeldMembersPrime DEF HasConsent, DeleteOne
      <3>2. held' = [held EXCEPT ![u] = @ \ {"consent"}]
        BY <2>1, <3>1, HeldStep
      <3> QED
        BY <2>1, <3>1, <3>2 DEF L!Next, L!EraseConsent, L!GiveBack, held
    <2> QED
      BY <2>1, <2>2, <2>3
  <1>8. CASE RemoveView(t)
    <2>1. /\ u \in Users /\ consents' = consents /\ container' = container
          /\ container[u] = "absent" /\ ~Taken(consents, u)
          /\ view' \in {view, view \ {u}}
      BY <1>1, <1>8, UserOf DEF RemoveView, DeboardCalls, storeVars, Resource
    <2>2. CASE view' = view
      BY <2>1, <2>2, HeldSame
    <2>3. CASE view' = view \ {u}
      <3>1. /\ "view" \notin held'[u] /\ held[u] \cap {"container", "consent"} = {}
            /\ \A v \in Users, q \in {"container", "view", "consent"} :
                 v # u \/ q # "view" => (q \in held'[v] <=> q \in held[v])
        BY <2>1, <2>3, HeldMembers, HeldMembersPrime DEF HasConsent, Taken
      <3>2. held' = [held EXCEPT ![u] = @ \ {"view"}]
        BY <2>1, <3>1, HeldStep
      <3> QED
        BY <2>1, <3>1, <3>2 DEF L!Next, L!EraseView, L!GiveBack, held
    <2> QED
      BY <2>1, <2>2, <2>3
  <1>9. CASE ~Create(t) /\ ~Start(t) /\ ~RegisterView(t) /\ ~AddConsent(t)
             /\ ~RemoveContainerStep(t) /\ ~RemoveConsent(t) /\ ~RemoveView(t)
    BY <1>1, <1>9, StoreKept, RecordsKept, HeldSame
  <1> QED
    BY <1>2, <1>3, <1>4, <1>5, <1>6, <1>7, <1>8, <1>9

\* Whatever fails and wherever the process dies, the engine moves every user's
\* container, view and consent only by the steps of UserLifecycle.
THEOREM ImplementsLifecycle == Spec => Lifecycle
  <1>1. Init => L!Init
    <2> SUFFICES ASSUME Init PROVE held = [u \in Users |-> {}]
      BY DEF L!Init, held
    <2>1. consents = {} /\ view = {} /\ \A u \in Users : container[u] = "absent"
      BY DEF Init, EngineInit, StoreInit
    <2>2. \A u \in Users : held[u] = {}
      BY <2>1, HeldMembers DEF HasConsent
    <2> QED
      BY <2>2 DEF held
  <1>2. Inv /\ [Next]_vars => [L!Next]_held
    <2> SUFFICES ASSUME Inv, [Next]_vars PROVE [L!Next]_held
      OBVIOUS
    <2>1. CASE \E t \in Threads : Engine(t)
      BY <2>1, LifecycleEngine
    <2>2. CASE \A t \in Threads : ~Engine(t)
      <3>1. consents' = consents /\ view' = view
        BY <2>2, OnlyEngineWrites DEF mongoVars
      <3>2. \A v \in Users : (container'[v] = "absent") <=> (container[v] = "absent")
        <4>1. CASE \E t \in Threads : Thread(t)
          BY <2>2, <4>1, ServerStep DEF Thread, storeVars
        <4>2. CASE Crash \/ Restart
          BY <4>2 DEF Crash, Restart, StartContainers, storeVars
        <4>3. CASE \E u \in Users : Docker(u)
          BY <4>3 DEF Docker, StopContainer, RestartContainer, StartContainer, Inv, TypeOK
        <4>4. CASE UNCHANGED vars
          BY <4>4 DEF vars, engineVars, storeVars
        <4> QED
          BY <4>1, <4>2, <4>3, <4>4 DEF Next
      <3> QED
        BY <3>1, <3>2, HeldSame
    <2> QED
      BY <2>1, <2>2
  <1> QED
    BY <1>1, <1>2, InvHolds, PTL DEF Spec, Lifecycle, L!Spec, held
=============================================================================
