---------------------------- MODULE StoreManager -----------------------------
(***************************************************************************)
(* The tenants' stores (tolla/src/docker.rs): one docker container per     *)
(* user, named after the user, and one directory of certificate files per  *)
(* user from which the proxy inside the container reads its identity when  *)
(* the container starts (mongodb/docker-alpine-mongo/proxy/main.go).       *)
(*                                                                         *)
(* The docker daemon is external.  It keeps its containers across restarts *)
(* of the server, gives a name to one container only, lists only running   *)
(* containers, and may report an error for a call it has carried out.      *)
(***************************************************************************)
EXTENDS Authority

CONSTANTS
  Users,     \* user ids, which are also container names
  BareNames  \* whether docker lists a name as it was given (it adds a "/")

ASSUME BareNamesAssumption == BareNames \in BOOLEAN

VARIABLES
  container,  \* docker: the state of the container named after a user
  pems,       \* /tmp/certificates/<user>/: which certificate each file holds
  proxies     \* the proxies running inside containers, with what they loaded

storeVars == <<container, pems, proxies>>

Files == {"certificate.pem", "keys.pem", "CAcert.pem"}
ContainerState == {"absent", "stopped", "running"}

\* serial is the proxy's own identity, ca the root whose clients it accepts.
Proxy == [user: Users, serial: Serials, ca: Nat]

StoreInit ==
  /\ container = [u \in Users |-> "absent"]
  /\ pems = [u \in Users |-> [f \in Files |-> NoIssue]]
  /\ proxies = {}

\* container_by_id and verify_container_id: containers.list with the default
\* options, which report running containers; a listed name must equal the id.
VerifyContainerId(u) == container[u] = "running" /\ BareNames

\* File::create truncates the file, write_all fills it with the content.
WriteFile(u, f, content) == pems' = [pems EXCEPT ![u][f] = content]

\* The proxy of u as it comes up: main() exits unless the certificate and the
\* key belong together, else it takes its serial number from the certificate
\* and its client root from CAcert.pem.
LoadedProxy(u) ==
  LET pem == pems[u]
  IN IF pem["certificate.pem"].n # 0 /\ pem["certificate.pem"].n = pem["keys.pem"].n
     THEN {[user |-> u, serial |-> pem["certificate.pem"].serial,
            ca |-> pem["CAcert.pem"].ca]}
     ELSE {}

ProxyOf(u) == {p \in proxies : p.user = u}

\* containers.create: refused when the name is taken.
CreateContainer(u) ==
  /\ container[u] = "absent"
  /\ container' = [container EXCEPT ![u] = "stopped"]

\* container.start: the container runs, and with it its proxy.
StartContainer(u) ==
  /\ container' = [container EXCEPT ![u] = "running"]
  /\ proxies' = (proxies \ ProxyOf(u)) \cup LoadedProxy(u)

\* remove_container with force: stops it if it runs; refused when there is none.
RemoveContainer(u) ==
  /\ container[u] # "absent"
  /\ container' = [container EXCEPT ![u] = "absent"]
  /\ proxies' = proxies \ ProxyOf(u)

\* start_containers: the loop's body, which would start each container, is
\* commented out in the code; it only logs.
StartContainers(ids) == UNCHANGED storeVars

\* docker stopping a container or starting it again, outside the server's
\* control: an operator, or a reboot of the host.
StopContainer(u) ==
  /\ container[u] = "running"
  /\ container' = [container EXCEPT ![u] = "stopped"]
  /\ proxies' = proxies \ ProxyOf(u)
  /\ UNCHANGED pems

RestartContainer(u) ==
  /\ container[u] = "stopped"
  /\ StartContainer(u)
  /\ UNCHANGED pems
=============================================================================
