------------------------------- MODULE Client --------------------------------
(***************************************************************************)
(* The client program (client/src/main.rs): it makes a key pair, has it    *)
(* certified by the server, stores certificate, root and key in files,     *)
(* asks for the tenants' addresses, and connects to a database with the    *)
(* files.  It is run again after it crashed or panicked; the files stay.   *)
(*                                                                         *)
(* Each request has a connection of its own, whose bytes arrive in pieces. *)
(* The server (register.rs, handle_incoming of consent.rs) is what the     *)
(* client sees of it: it answers, or it closes the connection; it can be   *)
(* restarted, and then has a new root certificate.                         *)
(***************************************************************************)
EXTENDS Codec

CONSTANTS
  MaxRuns,    \* bound: how often the program is run
  MaxBuilds,  \* bound: how often the server is started
  Sizes       \* sizes of stored files, in units

ASSUME ClientAssumption == Sizes \subseteq Nat \ {0}

Files == {"cert.pem", "ca.pem", "key.pem"}

VARIABLES
  run,     \* number of this run, which also stands for its key pair
  pc,      \* the step the program is at
  ca,      \* the server's current root certificate
  up,      \* units on their way to the server
  sbuf,    \* the server's decode buffer
  heard,   \* the requests the server has decoded on this connection
  down,    \* units on their way to the client
  cbuf,    \* the client's decode buffer
  closed,  \* the server has closed the connection
  reply,   \* the answer the client has decoded
  files,   \* contents of the files: what each unit belongs to
  ips      \* whether a tenant is registered

netVars == <<up, sbuf, heard, down, cbuf, closed>>
clientVars == <<run, pc, ca, netVars, reply, files, ips>>

NoMsg == [success |-> FALSE, msg |-> None]

ClientInit ==
  /\ run = 0 /\ pc = "off" /\ ca = 1
  /\ up = <<>> /\ sbuf = <<>> /\ heard = <<>>
  /\ down = <<>> /\ cbuf = <<>> /\ closed = FALSE
  /\ reply = NoMsg
  /\ files = [f \in Files |-> <<>>]
  /\ ips \in BOOLEAN

-----------------------------------------------------------------------------
(***************************************************************************)
(* send_protorequest: connect, send, take(1).                              *)
(***************************************************************************)

Request(step) ==
  IF step = "certify" THEN [success |-> FALSE, msg |-> [kind |-> "cert", key |-> run]]
                      ELSE [success |-> FALSE, msg |-> [kind |-> "ips"]]

\* The first request of a run and, once the files are stored, the second.
SendRequest ==
  /\ pc \in {"certify", "locate"}
  /\ up' = Encode(Request(pc))
  /\ sbuf' = <<>> /\ heard' = <<>> /\ down' = <<>> /\ cbuf' = <<>> /\ closed' = FALSE
  /\ pc' = IF pc = "certify" THEN "certifying" ELSE "locating"
  /\ UNCHANGED <<run, ca, reply, files, ips>>

\* The stream delivers some of what is on its way.
ArriveAtServer ==
  /\ \E n \in 1 .. Len(up) :
       /\ sbuf' = sbuf \o SubSeq(up, 1, n)
       /\ up' = SubSeq(up, n + 1, Len(up))
  /\ UNCHANGED <<run, pc, ca, heard, down, cbuf, closed, reply, files, ips>>

ArriveAtClient ==
  /\ \E n \in 1 .. Len(down) :
       /\ cbuf' = cbuf \o SubSeq(down, 1, n)
       /\ down' = SubSeq(down, n + 1, Len(down))
  /\ UNCHANGED <<run, pc, ca, up, sbuf, heard, closed, reply, files, ips>>

Answers(req) ==
  IF req.msg = None THEN {}
  ELSE IF req.msg.kind = "cert"
       THEN {[success |-> TRUE, msg |-> [kind |-> "cert", key |-> req.msg.key, ca |-> ca]]}
       ELSE {[success |-> TRUE, msg |-> [kind |-> "ips", some |-> ips]]}

\* The server decodes a request and answers it; handle_incoming's error, which
\* an empty message is, closes the connection.
Serve ==
  /\ pc \in {"certifying", "locating"} /\ ~closed
  /\ Decodable(sbuf)
  /\ heard' = Append(heard, Merged(sbuf))
  /\ sbuf' = <<>>
  /\ \/ \E a \in Answers(Merged(sbuf)) : down' = down \o Encode(a) /\ UNCHANGED closed
     \/ closed' = TRUE /\ UNCHANGED down
  /\ UNCHANGED <<run, pc, ca, up, cbuf, reply, files, ips>>

\* The first message the decoder returns is the answer.
Receive ==
  /\ pc \in {"certifying", "locating"}
  /\ Decodable(cbuf)
  /\ reply' = Merged(cbuf)
  /\ cbuf' = <<>>
  /\ pc' = IF pc = "certifying" THEN "certified" ELSE "located"
  /\ UNCHANGED <<run, ca, up, sbuf, heard, down, closed, files, ips>>

\* Mutant of EndOfStream: the client goes on reading a closed connection.
EndOfStreamIgnored == FALSE /\ UNCHANGED clientVars

\* The connection ends without an answer: resp[0] is out of range, or the bytes
\* left over are an error, which the callers unwrap.
EndOfStream ==
  /\ pc \in {"certifying", "locating"}
  /\ closed /\ down = <<>> /\ ~Decodable(cbuf)
  /\ pc' = "panicked"
  /\ UNCHANGED <<run, ca, netVars, reply, files, ips>>

\* connect fails: both callers unwrap.
ConnectFails ==
  /\ pc \in {"certify", "locate"}
  /\ pc' = "panicked"
  /\ UNCHANGED <<run, ca, netVars, reply, files, ips>>

-----------------------------------------------------------------------------
(***************************************************************************)
(* retrieve_certificate and setup_mongod                                   *)
(***************************************************************************)

\* What a PEM reader makes of a file: the first block, if it is complete.
FirstBlock(f, file) ==
  IF /\ file # <<>>
     /\ Head(file).size <= Len(file)
     /\ SubSeq(file, 1, Head(file).size) = Units(f, Head(file).val, Head(file).size)
  THEN Head(file).val ELSE None

Stored(f) == FirstBlock(f, files[f])

\* Mutant of Overwrite: the file is opened with append.
OverwriteAppends(file, units) == file \o units

\* OpenOptions without truncate: the old contents stay behind the new.
Overwrite(file, units) ==
  units \o SubSeq(file, Len(units) + 1, Len(file))

Dumped(f) == CASE f = "cert.pem" -> [key |-> reply.msg.key, ca |-> reply.msg.ca]
               [] f = "ca.pem"   -> [ca |-> reply.msg.ca]
               [] f = "key.pem"  -> [key |-> run]

After == [certified |-> "cert.pem", rooted |-> "ca.pem", keyed |-> "key.pem"]

\* dump_certificate for the file that is next: write_all can fail or be cut
\* short, and unwrap ends the run.
Dump(step, next) ==
  LET f == After[step]
  IN /\ pc = step
     /\ \E size \in Sizes :
          LET units == Units(f, Dumped(f), size)
          IN \/ /\ files' = [files EXCEPT ![f] = Overwrite(@, units)]
                /\ pc' = next
             \/ \E n \in 0 .. size - 1 :
                  /\ files' = [files EXCEPT ![f] = Overwrite(@, SubSeq(units, 1, n))]
                  /\ pc' = "panicked"
     /\ UNCHANGED <<run, ca, netVars, reply, ips>>

\* certificate.msg.unwrap(); only a Certificate is stored.
IsCertificate == reply.msg # None /\ reply.msg.kind = "cert"

DumpCert == IsCertificate /\ Dump("certified", "rooted")
DumpRoot == Dump("rooted", "keyed")
DumpKey  == Dump("keyed", "locate")

\* unwrap() of a message that is not there.
NoCertificate ==
  /\ pc = "certified" /\ reply.msg = None
  /\ pc' = "panicked"
  /\ UNCHANGED <<run, ca, netVars, reply, files, ips>>

\* addr.ip[0]: without a tenant the index is out of range; another answer than
\* addresses ends the program quietly.
UseAddress ==
  /\ pc = "located"
  /\ pc' = IF reply.msg = None THEN "off"
           ELSE IF reply.msg.some THEN "mongod" ELSE "panicked"
  /\ UNCHANGED <<run, ca, netVars, reply, files, ips>>

\* setup_mongod works on the database until it is through or an unwrap fails.
Measure ==
  /\ pc = "mongod"
  /\ pc' \in {"off", "panicked"}
  /\ UNCHANGED <<run, ca, netVars, reply, files, ips>>

\* main: a new run makes a new key pair.
Launch ==
  /\ pc \in {"off", "panicked"} /\ run < MaxRuns
  /\ run' = run + 1
  /\ pc' = "certify"
  /\ reply' = NoMsg
  /\ UNCHANGED <<ca, netVars, files, ips>>

Crash ==
  /\ pc \notin {"off", "panicked"}
  /\ pc' = "off"
  /\ UNCHANGED <<run, ca, netVars, reply, files, ips>>

\* The server stops, and with it the connection; it comes back with a new root.
ServerRestarts ==
  /\ ca < MaxBuilds
  /\ ca' = ca + 1
  /\ closed' = TRUE /\ up' = <<>> /\ sbuf' = <<>>
  /\ \E n \in 0 .. Len(down) : down' = SubSeq(down, 1, n)
  /\ ips' \in BOOLEAN
  /\ UNCHANGED <<run, pc, heard, cbuf, reply, files>>

Net == ArriveAtServer \/ ArriveAtClient \/ Serve
Program == SendRequest \/ ConnectFails \/ Receive \/ EndOfStream \/ DumpCert \/ DumpRoot \/ DumpKey
             \/ NoCertificate \/ UseAddress \/ Measure

ClientNext == Net \/ Program \/ Launch \/ Crash \/ ServerRestarts

ClientSpec == ClientInit /\ [][ClientNext]_clientVars

\* The program runs, the network delivers, and the server answers or closes.
ClientLive == ClientSpec /\ WF_clientVars(Program) /\ WF_clientVars(Net)

-----------------------------------------------------------------------------
\* When setup_mongod loads the files, certificate and key belong together and
\* the root is the certificate's issuer, whatever earlier runs, crashes, longer
\* files and other roots have left behind.
FilesBelongTogether ==
  pc = "mongod" =>
    /\ Stored("cert.pem") # None /\ Stored("key.pem") # None /\ Stored("ca.pem") # None
    /\ Stored("cert.pem").key = Stored("key.pem").key
    /\ Stored("cert.pem").ca = Stored("ca.pem").ca

\* Although nothing marks the end of a request, the server acts on exactly the
\* request the client sent.
RequestExact ==
  /\ pc = "certifying" => heard \in {<<>>, <<Request("certify")>>}
  /\ pc = "locating" => heard \in {<<>>, <<Request("locate")>>}

\* A run never waits for good: each request is answered or its connection ends.
RunEnds == (pc \notin {"off", "panicked"}) ~> (pc \in {"off", "panicked"})

\* certificate.msg.unwrap() and the request for addresses take for granted that a
\* decoded answer carries its message.  It need not (see README), and run panics.
AnswerHasMessage == reply # NoMsg => reply.msg # None
=============================================================================
