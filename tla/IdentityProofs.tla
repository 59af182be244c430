---------------------------- MODULE IdentityProofs ----------------------------
(***************************************************************************)
(* Proofs about the identities of the tenants' stores: the files a         *)
(* container is created over come from one onboarding, and a serial number *)
(* leads from a proxy to its own user's consent.  Both arguments are about *)
(* who can hold a certificate, and rest on the invariant of                *)
(* TollaServerProofs (a thread inside the engine is alone there).          *)
(***************************************************************************)
EXTENDS TollaServerProofs

-----------------------------------------------------------------------------
(***************************************************************************)
(* The files a container is created over                                   *)
(***************************************************************************)

\* new_mountdir has written, for its user, every file that is no longer to do.
Installed(t) ==
  /\ pc[t] \in {"mount", "create"} => draft[t].n # 0
  /\ pc[t] = "mount" => \A f \in Files \ todo[t] : pems[req[t].user][f] = draft[t]
  /\ pc[t] = "create" => \A f \in Files : pems[req[t].user][f] = draft[t]

InstalledInv == \A t \in Threads : Installed(t)

\* Which steps of the engine touch the certificate files and the drafts.
LEMMA FilesKept ==
  ASSUME NEW t \in Threads, EngineStep(t), ~Certify(t), ~Mount(t)
  PROVE  pems' = pems /\ draft' = draft /\ todo' = todo /\ issued' = issued
  <1>1. CASE Onboard(t)
    BY <1>1 DEF Onboard, Verify, Create, Start, Inspect, RegisterView, AddConsent, localVars,
       storeVars, authorityVars
  <1>2. CASE Deboard(t)
    BY <1>2 DEF Deboard, RemoveContainerStep, RemoveConsent, RemoveView, localVars, storeVars,
       authorityVars
  <1>3. CASE Read(t) \/ Certificate(t)
    BY <1>3 DEF Read, Query, TenantIps, Lookup, Certificate, Sign, AddIntent, localVars,
       storeVars, authorityVars
  <1> QED
    BY <1>1, <1>2, <1>3 DEF EngineStep

\* No other engine step leads to new_mountdir or to containers.create.
LEMMA InstallingCalls ==
  ASSUME TypeOK, NEW t \in Threads, EngineStep(t), ~Certify(t), ~Mount(t)
  PROVE  pc'[t] \notin {"mount", "create"}
  <1>1. CASE Onboard(t)
    BY <1>1 DEF TypeOK, Onboard, Verify, Create, Start, Inspect, RegisterView, AddConsent,
       Continue, Finish, Goto
  <1>2. CASE Deboard(t)
    BY <1>2 DEF TypeOK, Deboard, RemoveContainerStep, RemoveConsent, RemoveView, Continue,
       Finish, Goto
  <1>3. CASE Read(t) \/ Certificate(t)
    BY <1>3 DEF TypeOK, Read, Query, TenantIps, Lookup, Certificate, Sign, AddIntent,
       Continue, Finish, Goto
  <1> QED
    BY <1>1, <1>2, <1>3 DEF EngineStep

LEMMA InstalledEngine ==
  ASSUME Inv, InstalledInv, NEW t \in Threads, Engine(t), NEW s \in Threads
  PROVE  Installed(s)'
  <1>1. TypeOK /\ EngineStep(t) /\ Installed(t) /\ Moves(t)
    BY EngineMoves DEF Inv, InstalledInv, Engine
  <1>2. CASE s # t
    BY <1>1, <1>2, Alone DEF Installed, Moves, EngineCalls
  <1>3. CASE s = t /\ ~Certify(t) /\ ~Mount(t)
    BY <1>1, <1>3, InstallingCalls DEF Installed
  <1>4. CASE s = t /\ Certify(t)
    <2>1. CASE pc'[t] # "mount"
      BY <1>1, <1>4, <2>1 DEF Certify, Continue, Finish, Goto, TypeOK, Installed
    <2>2. CASE pc'[t] = "mount"
      <3>1. /\ todo' = [todo EXCEPT ![t] = Files]
            /\ \E q \in RandomSerial : draft' = [draft EXCEPT ![t] = CreateDbCertificate(q)]
        BY <1>1, <1>4, <2>2 DEF Certify, Continue, Finish, Goto, TypeOK
      <3>2. PICK q \in RandomSerial : draft' = [draft EXCEPT ![t] = CreateDbCertificate(q)]
        BY <3>1
      <3>3. draft'[t].n = Len(issued) + 1
        BY <1>1, <3>2 DEF TypeOK, CreateDbCertificate
      <3>4. draft'[t].n # 0
        BY <1>1, <3>3 DEF TypeOK
      <3>5. todo'[t] = Files
        BY <1>1, <3>1 DEF TypeOK
      <3> QED
        BY <1>4, <2>2, <3>4, <3>5 DEF Installed
    <2> QED
      BY <2>1, <2>2
  <1>5. CASE s = t /\ Mount(t)
    <2>1. /\ req[t].user \in Users /\ todo[t] \subseteq Files /\ draft[t] \in Issue
          /\ draft' = draft /\ req' = req /\ pc[t] = "mount"
      BY <1>1, <1>5, UserOf DEF Mount, OnboardCalls, TypeOK
    <2>2. CASE pc'[t] \notin {"mount", "create"}
      BY <1>5, <2>2 DEF Installed
    <2>3. CASE pc'[t] \in {"mount", "create"}
      <3>1. PICK f \in todo[t] :
              /\ WriteFile(req[t].user, f, draft[t])
              /\ todo' = [todo EXCEPT ![t] = @ \ {f}]
              /\ Continue(t, IF todo[t] = {f} THEN "create" ELSE "mount")
        BY <1>1, <1>5, <2>3 DEF Mount, Finish, Goto, TypeOK
      <3>2. todo'[t] = todo[t] \ {f}
        BY <1>1, <3>1 DEF TypeOK
      <3>3. pc'[t] = "create" => todo[t] = {f}
        BY <1>1, <3>1 DEF TypeOK, Continue, Goto
      <3>4. pems[req[t].user] \in [Files -> Issue]
        BY <1>1, <2>1 DEF TypeOK
      <3>5. pems'[req[t].user] = [pems[req[t].user] EXCEPT ![f] = draft[t]]
        BY <1>1, <2>1, <3>1 DEF TypeOK, WriteFile
      <3>6. ASSUME NEW g \in Files, g \notin todo'[t]
            PROVE  pems'[req[t].user][g] = draft[t]
        <4>1. CASE g = f
          BY <2>1, <3>4, <3>5, <4>1
        <4>2. CASE g # f
          <5>1. g \notin todo[t]
            BY <3>2, <3>6, <4>2
          <5>2. pems[req[t].user][g] = draft[t]
            BY <1>1, <2>1, <5>1 DEF Installed
          <5> QED
            BY <3>4, <3>5, <4>2, <5>2
        <4> QED
          BY <4>1, <4>2
      <3>7. pc'[t] = "create" => todo'[t] = {}
        BY <3>2, <3>3
      <3>8. draft'[t].n # 0
        BY <1>1, <2>1 DEF Installed
      <3> QED
        BY <1>5, <2>1, <3>6, <3>7, <3>8 DEF Installed
    <2> QED
      BY <2>2, <2>3
  <1> QED
    BY <1>2, <1>3, <1>4, <1>5

\* The other steps of a thread, of docker and of the process.
LEMMA InstalledThread ==
  ASSUME Inv, InstalledInv, NEW t \in Threads, Thread(t), NEW s \in Threads
  PROVE  Installed(s)'
  <1>1. TypeOK /\ Installed(s)
    BY DEF Inv, InstalledInv
  <1>2. CASE Engine(t)
    BY <1>2, InstalledEngine
  <1>3. CASE Arrive(t)
    BY <1>1, <1>3 DEF Arrive, Goto, TypeOK, Installed, localVars, storeVars
  <1>4. CASE Lock(t)
    <2>1. pc'[t] \notin {"mount", "create"}
      <3>1. pc[t] = "waiting"
        BY <1>4 DEF Lock
      <3>2. FirstCall[req[t].kind] \notin {"mount", "create"}
        BY <3>1, RequestFields DEF Inv, TypeOK, ThreadInv, Kind, FirstCall
      <3> QED
        BY <1>1, <1>4, <3>2 DEF Lock, Goto, TypeOK
    <2> QED
      BY <1>1, <1>4, <2>1 DEF Lock, Goto, TypeOK, Installed, localVars, storeVars
  <1>5. CASE Return(t)
    BY <1>1, <1>5 DEF Return, Goto, TypeOK, Installed, storeVars
  <1>6. CASE Answer(t)
    BY <1>1, <1>6 DEF Answer, Goto, TypeOK, Installed, storeVars
  <1>7. CASE Unwind(t)
    BY <1>1, <1>7 DEF Unwind, ProcessGone, Goto, TypeOK, Installed, storeVars, localVars
  <1> QED
    BY <1>2, <1>3, <1>4, <1>5, <1>6, <1>7 DEF Thread

LEMMA InstalledNext == Inv /\ InstalledInv /\ [Next]_vars => InstalledInv'
  <1> SUFFICES ASSUME Inv, InstalledInv, [Next]_vars PROVE InstalledInv'
    OBVIOUS
  <1>1. CASE \E t \in Threads : Thread(t)
    BY <1>1, InstalledThread DEF InstalledInv
  <1>2. CASE Crash
    BY <1>2 DEF Crash, ProcessGone, InstalledInv, Installed
  <1>3. CASE Restart
    BY <1>3 DEF Restart, StartContainers, InstalledInv, Installed, threadVars, localVars,
       storeVars
  <1>4. CASE \E u \in Users : Docker(u)
    BY <1>4 DEF Docker, StopContainer, RestartContainer, InstalledInv, Installed, threadVars,
       localVars
  <1>5. CASE UNCHANGED vars
    BY <1>5 DEF vars, engineVars, InstalledInv, Installed, threadVars, localVars, storeVars
  <1> QED
    BY <1>1, <1>2, <1>3, <1>4, <1>5 DEF Next

THEOREM InstalledHolds == Spec => []InstalledInv
  <1>1. Init => InstalledInv
    BY DEF Init, EngineInit, InstalledInv, Installed
  <1> QED
    BY <1>1, InstalledNext, InvHolds, PTL DEF Spec

\* Only containers.create makes a container.
LEMMA CreatedByCreate ==
  ASSUME Inv, [Next]_vars, NEW u \in Users,
         container[u] = "absent", container'[u] # "absent"
  PROVE  \E t \in Threads : Create(t) /\ req[t].user = u
  <1>t. TypeOK
    BY DEF Inv
  <1>1. ASSUME NEW t \in Threads, Thread(t)
        PROVE  Create(t) /\ req[t].user = u
    <2>1. EngineStep(t)
      BY <1>1, ServerStep DEF Thread, Engine, storeVars
    <2>2. ~Start(t)
      <3>1. ASSUME Start(t) PROVE FALSE
        <4>1. container[req[t].user] # "absent"
          BY <3>1 DEF Start, Inv, ThreadInv, Resource
        <4>2. \/ container' = container
              \/ container' = [container EXCEPT ![req[t].user] = "running"]
          BY <3>1 DEF Start, StartContainer
        <4> QED
          BY <1>t, <4>1, <4>2 DEF TypeOK
      <3> QED
        BY <3>1
    <2>3. ~RemoveContainerStep(t)
      BY <1>t DEF RemoveContainerStep, RemoveContainer, TypeOK
    <2>4. Create(t)
      BY <2>1, <2>2, <2>3, StoreKept
    <2>5. container' = container \/ container' = [container EXCEPT ![req[t].user] = "stopped"]
      BY <2>4 DEF Create, CreateContainer
    <2> QED
      BY <1>t, <2>4, <2>5 DEF TypeOK
  <1>2. ~Crash /\ ~Restart /\ ~UNCHANGED vars
    BY DEF Crash, Restart, StartContainers, vars, engineVars, storeVars
  <1>3. ASSUME NEW v \in Users, Docker(v) PROVE FALSE
    BY <1>t, <1>3 DEF Docker, StopContainer, RestartContainer, StartContainer, TypeOK
  <1> QED
    BY <1>1, <1>2, <1>3 DEF Next

\* Whatever failed, crashed or ran at the same time before, containers.create finds
\* the three files of one onboarding in its user's directory.
THEOREM CreatedOverOneIdentity == Spec => CreatedOverIdentity
  <1>1. ASSUME Inv, InstalledInv, [Next]_vars, NEW u \in Users,
               container[u] = "absent", container'[u] # "absent"
        PROVE  /\ pems[u]["certificate.pem"].n # 0
               /\ \A f \in Files : pems[u][f] = pems[u]["certificate.pem"]
    <2>1. PICK t \in Threads : Create(t) /\ req[t].user = u
      BY <1>1, CreatedByCreate
    <2>2. draft[t].n # 0 /\ \A f \in Files : pems[u][f] = draft[t]
      BY <1>1, <2>1 DEF Create, InstalledInv, Installed
    <2> QED
      BY <2>2 DEF Files
  <1>2. Inv /\ InstalledInv /\ [Next]_vars =>
          [\A u \in Users :
             container[u] = "absent" /\ container'[u] # "absent" =>
               /\ pems[u]["certificate.pem"].n # 0
               /\ \A f \in Files : pems[u][f] = pems[u]["certificate.pem"]]_vars
    BY <1>1
  <1> QED
    BY <1>2, InvHolds, InstalledHolds, PTL DEF Spec, CreatedOverIdentity

-----------------------------------------------------------------------------
(***************************************************************************)
(* Whose serial number it is                                               *)
(*                                                                         *)
(* A serial number is used by a user when a file of theirs, their proxy, a *)
(* lease request of that proxy, an onboarding under way or a stored        *)
(* consent carries it.  Only create_db_certificate brings a serial number  *)
(* into use; every other step passes on what its own user had.             *)
(***************************************************************************)

\* The calls of onboard_user that hold a certificate.
Drafting(t) ==
  \/ pc[t] \in {"mount", "create", "start", "inspect", "register"}
  \/ pc[t] = "consent" /\ req[t].kind = "onboard"

UsedInFile(s, u) == \E f \in Files : pems[u][f].n # 0 /\ pems[u][f].serial = s
UsedByProxy(s, u) == \E p \in proxies : p.user = u /\ p.serial = s
UsedInLease(s, u) ==
  \E t \in Threads : req[t].kind = "lease" /\ req[t].user = u /\ req[t].serial = s
UsedInDraft(s, u) ==
  \E t \in Threads : Drafting(t) /\ req[t].user = u /\ draft[t].serial = s
UsedInConsent(s, u) == \E d \in consents : d.id = u /\ d.serial = AsI32(s) /\ s # 0

Uses(s, u) == \/ UsedInFile(s, u) \/ UsedByProxy(s, u) \/ UsedInLease(s, u)
              \/ UsedInDraft(s, u) \/ UsedInConsent(s, u)

\* A serial number in use was issued, is not 0, and has one user.
SerialInv ==
  \A s \in Serials, u \in Users : Uses(s, u) =>
    /\ s # 0
    /\ \E k \in 1 .. Len(issued) : issued[k] = s
    /\ \A v \in Users : Uses(s, v) => v = u

\* The cast to i32 loses nothing.
LEMMA CastInjective ==
  ASSUME NEW r \in Serials, NEW s \in Serials, AsI32(r) = AsI32(s)
  PROVE  r = s
  BY HalfRangeAssumption DEF Serials, AsI32

LEMMA CastZero ==
  ASSUME NEW s \in Serials, AsI32(s) = 0
  PROVE  s = 0
  BY HalfRangeAssumption DEF Serials, AsI32

\* A step of the engine other than create_db_certificate passes serial numbers on,
\* and only from a user to the same user.
LEMMA FileUse ==
  ASSUME Inv, NEW t \in Threads, EngineStep(t), ~Certify(t),
         NEW s \in Serials, NEW u \in Users, UsedInFile(s, u)'
  PROVE  Uses(s, u)
  <1>1. CASE ~Mount(t)
    BY <1>1, FilesKept DEF UsedInFile, Uses
  <1>2. CASE Mount(t)
    <2>1. TypeOK /\ req[t].user \in Users /\ todo[t] \subseteq Files
      BY <1>2, UserOf DEF Inv, Mount, OnboardCalls, TypeOK
    <2>2. PICK f \in Files : pems'[u][f].n # 0 /\ pems'[u][f].serial = s
      BY DEF UsedInFile
    <2>3. CASE pems'[u][f] = pems[u][f]
      BY <2>2, <2>3 DEF UsedInFile, Uses
    <2>4. CASE pems'[u][f] # pems[u][f]
      <3>1. PICK g \in Files : \/ WriteFile(req[t].user, g, draft[t])
                               \/ WriteFile(req[t].user, g, NoIssue)
        BY <1>2, <2>1, <2>4 DEF Mount
      <3>2. PICK c \in {draft[t], NoIssue} : pems' = [pems EXCEPT ![req[t].user][g] = c]
        BY <3>1 DEF WriteFile
      <3>3. /\ req[t].user # u \/ g # f => pems'[u][f] = pems[u][f]
            /\ req[t].user = u /\ g = f => pems'[u][f] = c
        BY <2>1, <3>2 DEF TypeOK
      <3>4. req[t].user = u /\ c.n # 0 /\ c.serial = s
        BY <2>2, <2>4, <3>3
      <3>5. c = draft[t]
        BY <3>2, <3>4 DEF NoIssue
      <3>6. Drafting(t)
        BY <1>2 DEF Mount, Drafting
      <3> QED
        BY <3>4, <3>5, <3>6 DEF UsedInDraft, Uses
    <2> QED
      BY <2>3, <2>4
  <1> QED
    BY <1>1, <1>2

\* A proxy that docker starts takes its serial number from its user's certificate.
LEMMA LoadedUse ==
  ASSUME NEW v \in Users, proxies' = (proxies \ ProxyOf(v)) \cup LoadedProxy(v),
         NEW s \in Serials, NEW u \in Users, UsedByProxy(s, u)'
  PROVE  Uses(s, u)
  <1>1. PICK p \in proxies' : p.user = u /\ p.serial = s
    BY DEF UsedByProxy
  <1>2. CASE p \in proxies
    BY <1>1, <1>2 DEF UsedByProxy, Uses
  <1>3. CASE p \in LoadedProxy(v)
    <2>1. /\ p.user = v /\ p.serial = pems[v]["certificate.pem"].serial
          /\ pems[v]["certificate.pem"].n # 0
      BY <1>3 DEF LoadedProxy
    <2> QED
      BY <1>1, <2>1 DEF UsedInFile, Uses, Files
  <1> QED
    BY <1>1, <1>2, <1>3

LEMMA ProxyUse ==
  ASSUME Inv, NEW t \in Threads, EngineStep(t),
         NEW s \in Serials, NEW u \in Users, UsedByProxy(s, u)'
  PROVE  Uses(s, u)
  <1>1. CASE proxies' \subseteq proxies
    BY <1>1 DEF UsedByProxy, Uses
  <1>2. CASE ~(proxies' \subseteq proxies)
    <2>1. ~Create(t)
      BY <1>2 DEF Create
    <2>2. ~RemoveContainerStep(t)
      BY <1>2 DEF RemoveContainerStep, RemoveContainer
    <2>3. Start(t)
      BY <1>2, <2>1, <2>2, StoreKept
    <2>4. proxies' = (proxies \ ProxyOf(req[t].user)) \cup LoadedProxy(req[t].user)
      BY <1>2, <2>3 DEF Start, StartContainer
    <2>5. req[t].user \in Users
      BY <2>3, UserOf DEF Start, OnboardCalls
    <2> QED
      BY <2>4, <2>5, LoadedUse
  <1> QED
    BY <1>1, <1>2

\* Only create_db_certificate starts a draft.
LEMMA DraftUse ==
  ASSUME Inv, NEW t \in Threads, EngineStep(t), ~Certify(t), NEW r \in Threads, Drafting(r)'
  PROVE  Drafting(r) /\ draft' = draft
  <1>1. TypeOK /\ Kind(t) /\ Moves(t) /\ req' = req
    BY EngineMoves DEF Inv, ThreadInv, Moves
  <1>2. draft' = draft
    BY FilesKept DEF Mount
  <1>3. CASE r # t
    BY <1>1, <1>2, <1>3 DEF Drafting, Moves
  <1>4. CASE r = t
    <2>1. CASE Verify(t)
      BY <1>1, <1>4, <2>1 DEF Verify, Drafting, Continue, Finish, Goto, TypeOK
    <2>2. CASE Mount(t) \/ Create(t) \/ Start(t) \/ Inspect(t) \/ RegisterView(t)
      BY <1>2, <1>4, <2>2 DEF Mount, Create, Start, Inspect, RegisterView, Drafting
    <2>3. CASE AddConsent(t)
      BY <1>1, <1>4, <2>3 DEF AddConsent, Drafting, Finish, Goto, TypeOK
    <2>4. CASE Deboard(t)
      BY <1>1, <1>4, <2>4 DEF Deboard, RemoveContainerStep, RemoveConsent, RemoveView,
         Drafting, Continue, Finish, Goto, TypeOK
    <2>5. CASE Read(t) \/ Certificate(t)
      BY <1>1, <1>4, <2>5 DEF Read, Query, TenantIps, Lookup, Certificate, Sign, AddIntent,
         Drafting, Continue, Finish, Goto, TypeOK
    <2> QED
      BY <2>1, <2>2, <2>3, <2>4, <2>5 DEF EngineStep, Onboard
  <1> QED
    BY <1>3, <1>4

\* onboard_user stores its own serial number, a consent message the number 0.
LEMMA ConsentUse ==
  ASSUME Inv, NEW t \in Threads, EngineStep(t),
         NEW s \in Serials, NEW u \in Users, UsedInConsent(s, u)'
  PROVE  Uses(s, u)
  <1>1. CASE consents' \subseteq consents
    BY <1>1 DEF UsedInConsent, Uses
  <1>2. CASE ~(consents' \subseteq consents)
    <2>1. ~RegisterView(t) /\ ~RemoveView(t)
      BY <1>2 DEF RegisterView, RemoveView
    <2>2. ~RemoveConsent(t)
      BY <1>2 DEF RemoveConsent, DeleteOne
    <2>3. AddConsent(t)
      BY <1>2, <2>1, <2>2, RecordsKept
    <2>4. PICK d \in consents' : d.id = u /\ d.serial = AsI32(s) /\ s # 0
      BY DEF UsedInConsent
    <2>5. CASE d \in consents
      BY <2>4, <2>5 DEF UsedInConsent, Uses
    <2>6. CASE d \notin consents
      <3>1. d = NewConsent(t)
        BY <2>3, <2>6, NewConsentOnly
      <3>2. draft[t].serial \in Serials
        BY DEF Inv, TypeOK, Issue
      <3>3. req[t].user = u /\ req[t].kind = "onboard" /\ AsI32(draft[t].serial) = AsI32(s)
        BY <2>4, <3>1, CastZero DEF NewConsent
      <3>4. draft[t].serial = s
        BY <3>2, <3>3, CastInjective
      <3>5. Drafting(t)
        BY <2>3, <3>3 DEF AddConsent, Drafting
      <3> QED
        BY <3>3, <3>4, <3>5 DEF UsedInDraft, Uses
    <2> QED
      BY <2>5, <2>6
  <1> QED
    BY <1>1, <1>2

\* No user comes to use a serial number.
NoNewUse == \A s \in Serials, u \in Users : Uses(s, u)' => Uses(s, u)

LEMMA UsesEngine ==
  ASSUME Inv, NEW t \in Threads, Engine(t), ~Certify(t)
  PROVE  NoNewUse /\ issued' = issued
  <1>1. EngineStep(t) /\ req' = req
    BY EngineMoves DEF Engine, Inv, Moves
  <1>2. issued' = issued
    BY <1>1, FilesKept DEF Mount, authorityVars
  <1>3. ASSUME NEW s \in Serials, NEW u \in Users, Uses(s, u)' PROVE Uses(s, u)
    <2>1. CASE UsedInFile(s, u)'
      BY <1>1, <2>1, FileUse
    <2>2. CASE UsedByProxy(s, u)'
      BY <1>1, <2>2, ProxyUse
    <2>3. CASE UsedInLease(s, u)'
      BY <1>1, <2>3 DEF UsedInLease, Uses
    <2>4. CASE UsedInDraft(s, u)'
      BY <1>1, <2>4, DraftUse DEF UsedInDraft, Uses
    <2>5. CASE UsedInConsent(s, u)'
      BY <1>1, <2>5, ConsentUse
    <2> QED
      BY <1>3, <2>1, <2>2, <2>3, <2>4, <2>5 DEF Uses
  <1> QED
    BY <1>2, <1>3 DEF NoNewUse

\* create_db_certificate: the new serial number, if there is one, is used by the
\* user who is being onboarded.
LEMMA UsesCertify ==
  ASSUME Inv, NEW t \in Threads, Engine(t), Certify(t)
  PROVE  \/ NoNewUse /\ issued' = issued
         \/ \E q \in RandomSerial :
              /\ issued' = Append(issued, q)
              /\ \A s \in Serials, u \in Users :
                   Uses(s, u)' => Uses(s, u) \/ (s = q /\ u = req[t].user)
  <1>1. TypeOK /\ Moves(t) /\ req' = req /\ pc[t] = "certify"
    BY EngineMoves DEF Inv, Engine, Moves, Certify
  <1>2. pems' = pems /\ proxies' = proxies /\ consents' = consents
    BY DEF Certify, storeVars, mongoVars
  <1>3. ASSUME NEW s \in Serials, NEW u \in Users, Uses(s, u)'
        PROVE  Uses(s, u) \/ UsedInDraft(s, u)'
    BY <1>1, <1>2, <1>3 DEF Uses, UsedInFile, UsedByProxy, UsedInLease, UsedInConsent
  <1>4. ASSUME NEW r \in Threads \ {t}, Drafting(r)' PROVE Drafting(r)
    BY <1>1, <1>4 DEF Moves, Drafting
  <1>5. CASE UNCHANGED <<draft, todo, issued>>
    <2>1. ~Drafting(t)'
      <3>1. pc'[t] \in {"return", "panic"} \/ todo' = [todo EXCEPT ![t] = Files]
        BY <1>1 DEF Certify, Continue, Finish, Goto, TypeOK
      <3>2. CASE pc'[t] \in {"return", "panic"}
        BY <3>2 DEF Drafting
      <3>3. CASE pc'[t] \notin {"return", "panic"}
        <4>1. PICK q \in RandomSerial : issued' = Append(issued, q)
          BY <1>1, <3>3 DEF Certify, Continue, Finish, Goto, TypeOK
        <4>2. Len(issued') = Len(issued) + 1
          BY <1>1, <4>1 DEF TypeOK, RandomSerial
        <4> QED
          BY <1>1, <1>5, <4>2 DEF TypeOK
      <3> QED
        BY <3>2, <3>3
    <2> QED
      BY <1>1, <1>3, <1>4, <1>5, <2>1 DEF NoNewUse, UsedInDraft, Uses
  <1>6. CASE \E q \in RandomSerial : /\ draft' = [draft EXCEPT ![t] = CreateDbCertificate(q)]
                                     /\ issued' = Append(issued, q)
    <2>1. PICK q \in RandomSerial : /\ draft' = [draft EXCEPT ![t] = CreateDbCertificate(q)]
                                    /\ issued' = Append(issued, q)
      BY <1>6
    <2>2. ASSUME NEW s \in Serials, NEW u \in Users, UsedInDraft(s, u)'
          PROVE  Uses(s, u) \/ (s = q /\ u = req[t].user)
      <3>1. PICK r \in Threads : Drafting(r)' /\ req[r].user = u /\ draft'[r].serial = s
        BY <1>1, <2>2 DEF UsedInDraft
      <3>2. CASE r # t
        BY <1>1, <1>4, <2>1, <3>1, <3>2 DEF UsedInDraft, Uses, TypeOK
      <3>3. CASE r = t
        <4>1. draft'[t] = CreateDbCertificate(q)
          BY <1>1, <2>1 DEF TypeOK
        <4> QED
          BY <3>1, <3>3, <4>1 DEF CreateDbCertificate
      <3> QED
        BY <3>2, <3>3
    <2> QED
      BY <1>3, <2>1, <2>2
  <1> QED
    BY <1>5, <1>6 DEF Certify

\* Requests, answers and panics: a lease request repeats its proxy's serial number.
LEMMA UsesThread ==
  ASSUME Inv, NEW t \in Threads,
         Arrive(t) \/ Lock(t) \/ Return(t) \/ Answer(t) \/ Unwind(t)
  PROVE  NoNewUse /\ issued' = issued
  <1>1. TypeOK /\ UNCHANGED <<mongoVars, storeVars>>
    BY ServerStep DEF Inv
  <1>2. issued' = issued
    BY DEF Arrive, Lock, Return, Answer, Unwind, authorityVars
  <1>3. ASSUME NEW s \in Serials, NEW u \in Users, Uses(s, u)'
        PROVE  Uses(s, u) \/ UsedInLease(s, u)' \/ UsedInDraft(s, u)'
    BY <1>1, <1>3 DEF Uses, UsedInFile, UsedByProxy, UsedInConsent, mongoVars, storeVars
  <1>4. ASSUME NEW s \in Serials, NEW u \in Users, UsedInLease(s, u)' PROVE Uses(s, u)
    <2>1. PICK r \in Threads : req'[r].kind = "lease" /\ req'[r].user = u /\ req'[r].serial = s
      BY <1>4 DEF UsedInLease
    <2>2. CASE req'[r] = req[r]
      BY <2>1, <2>2 DEF UsedInLease, Uses
    <2>3. CASE req'[r] # req[r] /\ ~Arrive(t)
      <3>1. req'[r] = NoReq
        BY <1>1, <2>3 DEF Lock, Return, Answer, Unwind, ProcessGone, TypeOK
      <3> QED
        BY <2>1, <3>1 DEF NoReq
    <2>4. CASE req'[r] # req[r] /\ Arrive(t)
      <3>1. PICK q \in HttpRequest \cup ProtoRequest : req' = [req EXCEPT ![t] = q]
        BY <2>4 DEF Arrive
      <3>2. req'[r] = q
        BY <1>1, <2>4, <3>1 DEF TypeOK
      <3>3. q.kind = "lease" /\ q.user = u /\ q.serial = s
        BY <2>1, <3>2
      <3>4. \E p \in proxies : q.user = p.user /\ q.serial = p.serial
        BY <3>1, <3>3 DEF HttpRequest, ProtoRequest, OnboardReq, DeboardReq, QueryReq,
           ConsentReq, IntentReq, CertReq, IpsReq
      <3> QED
        BY <3>3, <3>4 DEF UsedByProxy, Uses
    <2> QED
      BY <2>2, <2>3, <2>4
  <1>5. ASSUME NEW r \in Threads, Drafting(r)'
        PROVE  Drafting(r) /\ req'[r] = req[r] /\ draft'[r] = draft[r]
    <2>1. CASE Arrive(t) \/ Return(t)
      BY <1>1, <1>5, <2>1 DEF Arrive, Return, Goto, Drafting, TypeOK, localVars
    <2>2. CASE Answer(t)
      BY <1>1, <1>5, <2>2 DEF Answer, Goto, Drafting, TypeOK
    <2>3. CASE Unwind(t)
      BY <1>1, <1>5, <2>3 DEF Unwind, ProcessGone, Goto, Drafting, TypeOK, localVars
    <2>4. CASE Lock(t)
      <3>1. pc[t] = "waiting" /\ req' = req /\ draft' = draft
        BY <2>4 DEF Lock, localVars
      <3>2. /\ FirstCall[req[t].kind] \notin {"mount", "create", "start", "inspect", "register"}
            /\ FirstCall[req[t].kind] = "consent" => req[t].kind = "consent"
        BY <3>1, RequestFields DEF Inv, TypeOK, ThreadInv, Kind, FirstCall
      <3>3. pc'[t] \in {FirstCall[req[t].kind], "panic"}
        BY <1>1, <2>4 DEF Lock, Goto, TypeOK
      <3>4. ~Drafting(t)'
        BY <3>1, <3>2, <3>3 DEF Drafting
      <3>5. r # t
        BY <1>5, <3>4
      <3>6. pc'[r] = pc[r]
        BY <1>1, <2>4, <3>5 DEF Lock, Goto, TypeOK
      <3> QED
        BY <1>5, <3>1, <3>6 DEF Drafting
    <2> QED
      BY <2>1, <2>2, <2>3, <2>4
  <1>6. ASSUME NEW s \in Serials, NEW u \in Users, UsedInDraft(s, u)' PROVE Uses(s, u)
    BY <1>5, <1>6 DEF UsedInDraft, Uses
  <1> QED
    BY <1>2, <1>3, <1>4, <1>6 DEF NoNewUse

\* A crash can only lose serial numbers; docker loads them from the same files.
LEMMA UsesOutside ==
  ASSUME Inv, Crash \/ Restart \/ (\E v \in Users : Docker(v)) \/ UNCHANGED vars
  PROVE  NoNewUse /\ issued' = issued
  <1>1. TypeOK
    BY DEF Inv
  <1>2. CASE Crash
    <2>1. /\ proxies' = proxies /\ consents' = consents /\ issued' = issued
          /\ \A r \in Threads : req'[r] = NoReq /\ pc'[r] = "idle"
      BY <1>2 DEF Crash, ProcessGone, mongoVars, authorityVars
    <2>2. ASSUME NEW s \in Serials, NEW u \in Users, UsedInFile(s, u)'
          PROVE  UsedInFile(s, u)
      <3>1. CASE pems' = pems
        BY <2>2, <3>1 DEF UsedInFile
      <3>2. CASE pems' # pems
        <4>1. PICK t \in Threads : pc[t] = "mount"
                                   /\ \E g \in todo[t] : WriteFile(req[t].user, g, NoIssue)
          BY <1>2, <3>2 DEF Crash
        <4>2. req[t].user \in Users /\ todo[t] \subseteq Files
          BY <1>1, <4>1, UserOf DEF OnboardCalls, TypeOK
        <4>3. PICK g \in Files : pems' = [pems EXCEPT ![req[t].user][g] = NoIssue]
          BY <4>1, <4>2 DEF WriteFile
        <4>4. \A f \in Files : pems'[u][f] = pems[u][f] \/ pems'[u][f] = NoIssue
          BY <1>1, <4>2, <4>3 DEF TypeOK
        <4> QED
          BY <2>2, <4>4 DEF UsedInFile, NoIssue
      <3> QED
        BY <3>1, <3>2
    <2>3. \A s \in Serials, u \in Users : ~UsedInLease(s, u)' /\ ~UsedInDraft(s, u)'
      BY <2>1 DEF UsedInLease, UsedInDraft, Drafting, NoReq
    <2> QED
      BY <2>1, <2>2, <2>3 DEF NoNewUse, Uses, UsedByProxy, UsedInConsent
  <1>3. CASE Restart \/ UNCHANGED vars
    <2>1. UNCHANGED <<pems, proxies, consents, req, pc, draft, issued>>
      BY <1>3 DEF Restart, StartContainers, NewAuthority, vars, engineVars, mongoVars,
         localVars, threadVars, storeVars, authorityVars
    <2> QED
      BY <2>1 DEF NoNewUse, Uses, UsedInFile, UsedByProxy, UsedInLease, UsedInDraft, Drafting,
         UsedInConsent
  <1>4. CASE \E v \in Users : Docker(v)
    <2>1. PICK v \in Users : Docker(v)
      BY <1>4
    <2>2. UNCHANGED <<pems, consents, req, pc, draft, issued>>
      BY <2>1 DEF Docker, StopContainer, RestartContainer, mongoVars, localVars, threadVars,
         authorityVars
    <2>3. \/ proxies' \subseteq proxies
          \/ proxies' = (proxies \ ProxyOf(v)) \cup LoadedProxy(v)
      BY <2>1 DEF Docker, StopContainer, RestartContainer, StartContainer
    <2>4. ASSUME NEW s \in Serials, NEW u \in Users, UsedByProxy(s, u)' PROVE Uses(s, u)
      <3>1. CASE proxies' \subseteq proxies
        BY <2>4, <3>1 DEF UsedByProxy, Uses
      <3> QED
        BY <2>3, <2>4, <3>1, LoadedUse
    <2> QED
      BY <2>2, <2>4 DEF NoNewUse, Uses, UsedInFile, UsedInLease, UsedInDraft, Drafting,
         UsedInConsent
  <1> QED
    BY <1>2, <1>3, <1>4

\* A fresh serial number has no user yet, so its first user is its only one.
LEMMA SerialNext ==
  ASSUME DistinctSerials, Inv, SerialInv, [Next]_vars
  PROVE  SerialInv'
  <1>1. CASE NoNewUse /\ issued' = issued
    BY <1>1 DEF NoNewUse, SerialInv
  <1>2. ASSUME NEW t \in Threads, Inv, NEW q \in RandomSerial, issued' = Append(issued, q),
               \A s \in Serials, u \in Users :
                 Uses(s, u)' => Uses(s, u) \/ (s = q /\ u = req[t].user)
        PROVE  SerialInv'
    <2>1. issued \in Seq(Serials) /\ q \in Serials /\ q # 0
          /\ \A k \in 1 .. Len(issued) : issued[k] # q
      BY <1>2 DEF Inv, TypeOK, RandomSerial
    <2>2. \A u \in Users : ~Uses(q, u)
      BY <2>1 DEF SerialInv
    <2>3. /\ \A k \in 1 .. Len(issued) : k \in 1 .. Len(issued') /\ issued'[k] = issued[k]
          /\ Len(issued') \in 1 .. Len(issued') /\ issued'[Len(issued')] = q
      BY <1>2, <2>1
    <2>4. ASSUME NEW s \in Serials, NEW u \in Users, Uses(s, u)'
          PROVE  /\ s # 0
                 /\ \E k \in 1 .. Len(issued') : issued'[k] = s
                 /\ \A v \in Users : Uses(s, v)' => v = u
      <3>1. CASE s = q
        BY <1>2, <2>1, <2>2, <2>3, <2>4, <3>1
      <3>2. CASE s # q
        <4>1. Uses(s, u) /\ \A v \in Users : Uses(s, v)' => Uses(s, v)
          BY <1>2, <2>4, <3>2
        <4> QED
          BY <2>3, <4>1 DEF SerialInv
      <3> QED
        BY <3>1, <3>2
    <2> QED
      BY <2>4 DEF SerialInv
  <1>3. ASSUME NEW t \in Threads, Thread(t) PROVE SerialInv'
    <2>1. CASE Engine(t) /\ Certify(t)
      BY <1>1, <1>2, <2>1, UsesCertify
    <2>2. CASE Engine(t) /\ ~Certify(t)
      BY <1>1, <2>2, UsesEngine
    <2>3. CASE ~Engine(t)
      BY <1>1, <1>3, <2>3, UsesThread DEF Thread
    <2> QED
      BY <2>1, <2>2, <2>3
  <1> QED
    BY <1>1, <1>3, UsesOutside DEF Next

\* Serial numbers that never repeat, and are not 0, have one user each: in files,
\* proxies, requests and stored consents, across deboarding, crashes and restarts.
THEOREM SerialHasOneUser ==
  ASSUME DistinctSerials
  PROVE  Spec => []SerialInv
  <1>1. Init => SerialInv
    <2> SUFFICES ASSUME Init, NEW s \in Serials, NEW u \in Users PROVE ~Uses(s, u)
      BY DEF SerialInv
    <2>1. proxies = {} /\ consents = {} /\ \A t \in Threads : pc[t] = "idle" /\ req[t] = NoReq
      BY DEF Init, EngineInit, StoreInit
    <2>2. \A f \in Files : pems[u][f].n = 0
      BY DEF Init, EngineInit, StoreInit, NoIssue
    <2> QED
      BY <2>1, <2>2 DEF Uses, UsedInFile, UsedByProxy, UsedInLease, UsedInDraft, Drafting,
         UsedInConsent, NoReq
  <1>2. Inv /\ SerialInv /\ [Next]_vars => SerialInv'
    BY SerialNext
  <1> QED
    BY <1>1, <1>2, InvHolds, PTL DEF Spec

\* A lease is granted only on the stored consent of the user whose proxy asks.
THEOREM LeaseOnOwnConsent ==
  ASSUME DistinctSerials
  PROVE  Spec => LeaseIsOwnConsent
  <1>1. ASSUME Inv, SerialInv, [Next]_vars, NEW t \in Threads,
               req[t].kind = "lease", resp[t] = "none", resp'[t] = "ok"
        PROVE  \E d \in consents : d.id = req[t].user /\ req[t].intent \in d.purpose
    <2>1. TypeOK /\ Kind(t) /\ EngineStep(t)
      BY <1>1, SuccessStep DEF Inv, ThreadInv, Engine
    <2>2. Lookup(t)
      <3>1. ~Onboard(t)
        BY <1>1, <2>1 DEF Onboard, Verify, Certify, Mount, Create, Start, Inspect,
           RegisterView, AddConsent, Kind, OnboardCalls
      <3>2. ~Deboard(t) /\ ~Certificate(t) /\ ~Query(t) /\ ~TenantIps(t)
        BY <1>1, <2>1 DEF Deboard, RemoveContainerStep, RemoveConsent, RemoveView,
           Certificate, Sign, AddIntent, Query, TenantIps, Kind, DeboardCalls
      <3> QED
        BY <2>1, <3>1, <3>2 DEF EngineStep, Read
    <2>3. PICK d \in BySerial(req[t].serial) : req[t].intent \in d.purpose
      BY <1>1, <2>1, <2>2 DEF Lookup, Finish, Continue, TypeOK
    <2>4. req[t].serial \in Serials /\ req[t].user \in Users
      BY <1>1, <2>1, RequestFields DEF TypeOK
    <2>5. d \in consents /\ d \in ConsentDoc /\ d.serial = req[t].serial
      BY <2>1, <2>3 DEF BySerial, TypeOK
    <2>6. AsI32(req[t].serial) = d.serial
      BY <2>4, <2>5, HalfRangeAssumption DEF ConsentDoc, Serials, AsI32
    <2>7. Uses(req[t].serial, req[t].user)
      BY <1>1 DEF Uses, UsedInLease
    <2>8. req[t].serial # 0
      BY <1>1, <2>4, <2>7 DEF SerialInv
    <2>9. Uses(req[t].serial, d.id) /\ d.id \in Users
      BY <2>5, <2>6, <2>8 DEF Uses, UsedInConsent, ConsentDoc
    <2>10. d.id = req[t].user
      BY <1>1, <2>4, <2>7, <2>9 DEF SerialInv
    <2> QED
      BY <2>3, <2>5, <2>10
  <1>2. Inv /\ SerialInv /\ [Next]_vars => [LeasesOwnConsent]_vars
    BY <1>1 DEF LeasesOwnConsent
  <1> QED
    BY <1>2, InvHolds, SerialHasOneUser, PTL DEF Spec, LeaseIsOwnConsent
=============================================================================
