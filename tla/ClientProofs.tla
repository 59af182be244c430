---------------------------- MODULE ClientProofs -----------------------------
(***************************************************************************)
(* Theorems about Client and Codec: without framing, the server still acts *)
(* on exactly the request that was sent, and the files the client uses     *)
(* belong together, for any number of runs and restarts and any sizes.     *)
(***************************************************************************)
EXTENDS Client, SequenceTheorems, TLAPS

(***************************************************************************)
(* Bytes on their way: what has arrived (buf) and what is still under way  *)
(* (rest) are, one after the other, a beginning of what was sent (whole).  *)
(***************************************************************************)
UnitsOf(whole) == {whole[k] : k \in 1 .. Len(whole)}

Wire(buf, rest, whole) ==
  /\ buf \in Seq(UnitsOf(whole)) /\ rest \in Seq(UnitsOf(whole))
  /\ Len(buf) + Len(rest) <= Len(whole)
  /\ \A k \in 1 .. Len(buf) : buf[k] = whole[k]
  /\ \A k \in 1 .. Len(rest) : rest[k] = whole[Len(buf) + k]

LEMMA WireEmpty ==
  ASSUME NEW whole, Len(whole) \in Nat
  PROVE  Wire(<<>>, <<>>, whole)
  BY DEF Wire

LEMMA WireStarts ==
  ASSUME NEW whole, NEW S, whole \in Seq(S)
  PROVE  Wire(<<>>, whole, whole)
<1>1. \A k \in 1 .. Len(whole) : whole[k] \in UnitsOf(whole)
  BY DEF UnitsOf
<1>2. whole \in Seq(UnitsOf(whole))
  BY <1>1
<1> QED  BY <1>2 DEF Wire

\* A piece arrives.
LEMMA WireMoves ==
  ASSUME NEW buf, NEW rest, NEW whole, Wire(buf, rest, whole), NEW n \in 1 .. Len(rest)
  PROVE  Wire(buf \o SubSeq(rest, 1, n), SubSeq(rest, n + 1, Len(rest)), whole)
<1> DEFINE S == UnitsOf(whole)
           piece == SubSeq(rest, 1, n)
           left == SubSeq(rest, n + 1, Len(rest))
<1>1. buf \in Seq(S) /\ rest \in Seq(S) /\ Len(buf) \in Nat /\ Len(rest) \in Nat
  BY DEF Wire
<1> HIDE DEF S
<1>2. /\ piece \in Seq(S) /\ Len(piece) = n
      /\ \A k \in 1 .. n : piece[k] = rest[k]
  BY <1>1
<1>3. /\ left \in Seq(S) /\ Len(left) = Len(rest) - n
      /\ \A k \in 1 .. Len(left) : left[k] = rest[n + k]
  BY <1>1
<1> HIDE DEF piece, left
<1>4. /\ buf \o piece \in Seq(S) /\ Len(buf \o piece) = Len(buf) + n
      /\ \A k \in 1 .. Len(buf) + n :
           (buf \o piece)[k] = IF k <= Len(buf) THEN buf[k] ELSE piece[k - Len(buf)]
  BY <1>1, <1>2
<1>5. Len(buf \o piece) + Len(left) <= Len(whole)
  BY <1>1, <1>3, <1>4 DEF Wire
<1>6. \A k \in 1 .. Len(buf \o piece) : (buf \o piece)[k] = whole[k]
  <2> TAKE k \in 1 .. Len(buf \o piece)
  <2>1. CASE k <= Len(buf)
    BY <1>1, <1>4, <2>1 DEF Wire
  <2>2. CASE k > Len(buf)
    <3>1. k - Len(buf) \in 1 .. n /\ k - Len(buf) \in 1 .. Len(rest)
      BY <1>1, <1>4, <2>2
    <3>2. (buf \o piece)[k] = rest[k - Len(buf)]
      BY <1>1, <1>2, <1>4, <2>2, <3>1
    <3>3. rest[k - Len(buf)] = whole[Len(buf) + (k - Len(buf))]
      BY <3>1 DEF Wire
    <3> QED  BY <1>1, <1>4, <3>2, <3>3
  <2> QED  BY <1>1, <1>4, <2>1, <2>2
<1>7. \A k \in 1 .. Len(left) : left[k] = whole[Len(buf \o piece) + k]
  <2> TAKE k \in 1 .. Len(left)
  <2>1. n + k \in 1 .. Len(rest)
    BY <1>1, <1>3
  <2>2. left[k] = whole[Len(buf) + (n + k)]
    BY <1>3, <2>1 DEF Wire
  <2> QED  BY <1>1, <1>4, <2>2
<1>8. Wire(buf \o piece, left, whole)
  BY <1>3, <1>4, <1>5, <1>6, <1>7 DEF Wire, S
<1> QED  BY <1>8 DEF piece, left

\* The server stops, and only some of what was under way still arrives.
LEMMA WireCut ==
  ASSUME NEW buf, NEW rest, NEW whole, Wire(buf, rest, whole), Len(whole) \in Nat,
         NEW n \in 0 .. Len(rest)
  PROVE  Wire(buf, SubSeq(rest, 1, n), whole)
<1> DEFINE S == UnitsOf(whole)
           piece == SubSeq(rest, 1, n)
<1>1. buf \in Seq(S) /\ rest \in Seq(S) /\ Len(buf) \in Nat /\ Len(rest) \in Nat
  BY DEF Wire
<1> HIDE DEF S
<1>2. /\ piece \in Seq(S) /\ Len(piece) = n
      /\ \A k \in 1 .. n : piece[k] = rest[k]
  BY <1>1
<1> HIDE DEF piece
<1>3. Wire(buf, piece, whole)
  BY <1>1, <1>2 DEF Wire, S
<1> QED  BY <1>3 DEF piece

-----------------------------------------------------------------------------
(***************************************************************************)
(* The codec                                                               *)
(***************************************************************************)

LEMMA UnitsAreSeq ==
  ASSUME NEW name, NEW val, NEW size \in Nat, NEW S,
         \A i \in 1 .. size : [name |-> name, val |-> val, at |-> i, size |-> size] \in S
  PROVE  /\ Units(name, val, size) \in Seq(S) /\ Len(Units(name, val, size)) = size
         /\ \A k \in 1 .. size :
              Units(name, val, size)[k] = [name |-> name, val |-> val, at |-> k, size |-> size]
  BY DEF Units

\* The bytes of a request: the units of its message.
IsRequest(whole, m) ==
  /\ whole \in Seq(UnitsOf(whole)) /\ Len(whole) = 3
  /\ \A k \in 1 .. 3 : /\ whole[k].name = "msg" /\ whole[k].val = m
                       /\ whole[k].at = k /\ whole[k].size = 3

\* The bytes of an answer: a unit for success goes before the message.
IsAnswer(whole, m) ==
  /\ whole \in Seq(UnitsOf(whole)) /\ Len(whole) = 4
  /\ whole[1].name = "success"
  /\ \A k \in 2 .. 4 : whole[k].name = "msg" /\ whole[k].val = m

LEMMA EncodeRequest ==
  ASSUME NEW m, m # None
  PROVE  IsRequest(Encode([success |-> FALSE, msg |-> m]), m)
<1> DEFINE U == Units("msg", m, 3)
           S == {[name |-> "msg", val |-> m, at |-> k, size |-> 3] : k \in 1 .. 3}
<1>1. \A i \in 1 .. 3 : [name |-> "msg", val |-> m, at |-> i, size |-> 3] \in S
  OBVIOUS
<1> HIDE DEF S
<1>2. /\ U \in Seq(S) /\ Len(U) = 3
      /\ \A k \in 1 .. 3 : U[k] = [name |-> "msg", val |-> m, at |-> k, size |-> 3]
  BY <1>1 DEF Units
<1> HIDE DEF U
<1>3. Encode([success |-> FALSE, msg |-> m]) = <<>> \o U
  BY DEF Encode, MsgSize, U
<1>4. <<>> \o U = U
  BY <1>2
<1>5. IsRequest(U, m)
  BY <1>2, WireStarts DEF Wire, IsRequest
<1> QED  BY <1>3, <1>4, <1>5

LEMMA EncodeAnswer ==
  ASSUME NEW m, m # None
  PROVE  IsAnswer(Encode([success |-> TRUE, msg |-> m]), m)
<1> DEFINE U == Units("msg", m, 3)
           u == [name |-> "success", val |-> TRUE, at |-> 1, size |-> 1]
           V == Units("success", TRUE, 1)
           S == {[name |-> "msg", val |-> m, at |-> k, size |-> 3] : k \in 1 .. 3} \cup {u}
<1>1. \A i \in 1 .. 3 : [name |-> "msg", val |-> m, at |-> i, size |-> 3] \in S
  OBVIOUS
<1>2. V = [i \in 1 .. 1 |-> u]
  BY DEF Units
<1>3. u \in S /\ u.name = "success"
  OBVIOUS
<1>4. Encode([success |-> TRUE, msg |-> m]) = V \o U
  BY DEF Encode, MsgSize
<1> HIDE DEF S, u, V
<1>5. V \in Seq(S) /\ Len(V) = 1 /\ V[1] = u
  BY <1>2, <1>3
<1>6. /\ U \in Seq(S) /\ Len(U) = 3
      /\ \A k \in 1 .. 3 : U[k] = [name |-> "msg", val |-> m, at |-> k, size |-> 3]
  BY <1>1 DEF Units
<1> HIDE DEF U
<1>7. /\ V \o U \in Seq(S) /\ Len(V \o U) = 4 /\ (V \o U)[1] = V[1]
      /\ \A k \in 2 .. 4 : (V \o U)[k] = U[k - 1]
  <2>1. U \in Seq(S) /\ Len(U) = 3 /\ V \in Seq(S) /\ Len(V) = 1
    BY <1>5, <1>6
  <2>2. /\ V \o U \in Seq(S) /\ Len(V \o U) = Len(V) + Len(U)
        /\ \A i \in 1 .. Len(V) + Len(U) :
             (V \o U)[i] = IF i <= Len(V) THEN V[i] ELSE U[i - Len(V)]
    BY <2>1, ConcatProperties
  <2> QED  BY <2>1, <2>2
<1>8. \A k \in 2 .. 4 : (V \o U)[k].name = "msg" /\ (V \o U)[k].val = m
  <2> TAKE k \in 2 .. 4
  <2>1. k - 1 \in 1 .. 3
    OBVIOUS
  <2> QED  BY <1>6, <1>7, <2>1
<1>9. IsAnswer(V \o U, m)
  BY <1>3, <1>5, <1>7, <1>8, WireStarts DEF Wire, IsAnswer
<1> QED  BY <1>4, <1>9

\* The last field of a name wins.
LEMMA LastOfIs ==
  ASSUME NEW buf, NEW name, NEW default, Len(buf) \in Nat,
         NEW k \in 1 .. Len(buf), buf[k].name = name,
         \A j \in 1 .. Len(buf) : buf[j].name = name => j <= k
  PROVE  LastOf(buf, name, default) = buf[k].val
<1> DEFINE found == {j \in 1 .. Len(buf) : buf[j].name = name}
<1>1. k \in found /\ (\A j \in found : j <= k) /\ found \subseteq Nat
  OBVIOUS
<1>2. (CHOOSE i \in found : \A j \in found : j <= i) = k
  <2> HIDE DEF found
  <2>1. \A i \in found : (\A j \in found : j <= i) => i = k
    BY <1>1
  <2> QED  BY <1>1, <2>1
<1>3. found # {}
  BY <1>1
<1> QED  BY <1>2, <1>3 DEF LastOf

LEMMA LastOfNone ==
  ASSUME NEW buf, NEW name, NEW default, \A j \in 1 .. Len(buf) : buf[j].name # name
  PROVE  LastOf(buf, name, default) = default
  BY DEF LastOf

\* The server decodes a request when all of it has arrived, and decodes it right.
LEMMA DecodesRequest ==
  ASSUME NEW m, NEW whole, IsRequest(whole, m), NEW buf, NEW rest,
         Wire(buf, rest, whole), Decodable(buf)
  PROVE  Merged(buf) = [success |-> FALSE, msg |-> m] /\ rest = <<>>
<1>1. /\ buf \in Seq(UnitsOf(whole)) /\ rest \in Seq(UnitsOf(whole))
      /\ Len(buf) + Len(rest) <= 3
      /\ \A k \in 1 .. Len(buf) : buf[k] = whole[k]
  BY DEF Wire, IsRequest
<1>2. Len(buf) \in 1 .. 3 /\ Len(rest) \in Nat
  <2>1. Len(buf) \in Nat \ {0}
    BY <1>1, EmptySeq DEF Decodable
  <2>2. Len(rest) \in Nat
    BY <1>1, LenProperties
  <2>3. Len(buf) + Len(rest) <= 3
    BY <1>1
  <2>4. \A i \in Nat \ {0}, j \in Nat : i + j <= 3 => i \in 1 .. 3
    OBVIOUS
  <2> QED  BY <2>1, <2>2, <2>3, <2>4
<1>3. \A k \in 1 .. Len(buf) : buf[k].name = "msg" /\ buf[k].val = m /\ buf[k].at = k /\ buf[k].size = 3
  BY <1>1, <1>2 DEF IsRequest
<1>4. Len(buf) = 3
  BY <1>2, <1>3 DEF Decodable, Accepts
<1>5. rest = <<>>
  BY <1>1, <1>2, <1>4
<1>6. LastOf(buf, "msg", None) = m
  BY <1>3, <1>4, LastOfIs
<1>7. \A k \in 1 .. Len(buf) : buf[k].name # "success"
  BY <1>3
<1>8. LastOf(buf, "success", FALSE) = FALSE
  BY <1>7, LastOfNone, Zenon
<1> QED  BY <1>5, <1>6, <1>8 DEF Merged

\* The client decodes an answer or, when it ends after its first field, that field.
LEMMA DecodesAnswer ==
  ASSUME NEW m, NEW whole, IsAnswer(whole, m), NEW buf, NEW rest,
         Wire(buf, rest, whole), Decodable(buf)
  PROVE  Merged(buf).msg \in {None, m}
<1>1. /\ buf \in Seq(UnitsOf(whole)) /\ rest \in Seq(UnitsOf(whole))
      /\ Len(buf) + Len(rest) <= 4
      /\ \A k \in 1 .. Len(buf) : buf[k] = whole[k]
  BY DEF Wire, IsAnswer
<1>2. Len(buf) \in 1 .. 4 /\ Len(rest) \in Nat
  <2>1. Len(buf) \in Nat \ {0}
    BY <1>1, EmptySeq DEF Decodable
  <2>2. Len(rest) \in Nat
    BY <1>1, LenProperties
  <2>3. Len(buf) + Len(rest) <= 4
    BY <1>1
  <2>4. \A i \in Nat \ {0}, j \in Nat : i + j <= 4 => i \in 1 .. 4
    OBVIOUS
  <2> QED  BY <2>1, <2>2, <2>3, <2>4
<1>3. Merged(buf).msg = LastOf(buf, "msg", None)
  BY DEF Merged
<1>4. CASE Len(buf) = 1
  <2>1. \A j \in 1 .. Len(buf) : buf[j].name # "msg"
    BY <1>1, <1>4 DEF IsAnswer
  <2> QED  BY <1>3, <2>1, LastOfNone
<1>5. CASE Len(buf) \in 2 .. 4
  <2>1. \A j \in 2 .. Len(buf) : buf[j].name = "msg" /\ buf[j].val = m
    BY <1>1, <1>5 DEF IsAnswer
  <2>2. LastOf(buf, "msg", None) = buf[Len(buf)].val
    BY <1>5, <2>1, LastOfIs
  <2> QED  BY <1>3, <1>5, <2>1, <2>2
<1> QED  BY <1>2, <1>4, <1>5

-----------------------------------------------------------------------------
(***************************************************************************)
(* The files                                                               *)
(***************************************************************************)
PemVals == [key : Nat, ca : Nat] \cup [ca : Nat] \cup [key : Nat]
PemUnits == [name : Files, val : PemVals, at : Nat, size : Nat]

LEMMA PemUnitsAreSeq ==
  ASSUME NEW f \in Files, NEW v \in PemVals, NEW size \in Nat
  PROVE  /\ Units(f, v, size) \in Seq(PemUnits) /\ Len(Units(f, v, size)) = size
         /\ \A k \in 1 .. size :
              Units(f, v, size)[k] = [name |-> f, val |-> v, at |-> k, size |-> size]
<1>1. \A i \in 1 .. size : [name |-> f, val |-> v, at |-> i, size |-> size] \in PemUnits
  BY DEF PemUnits
<1> QED  BY <1>1, UnitsAreSeq

\* write_all into a file that is not truncated.
LEMMA OverwriteIs ==
  ASSUME NEW S, NEW file \in Seq(S), NEW units \in Seq(S)
  PROVE  /\ Overwrite(file, units) \in Seq(S) /\ Len(Overwrite(file, units)) >= Len(units)
         /\ Len(Overwrite(file, units)) \in Nat
         /\ \A k \in 1 .. Len(units) : Overwrite(file, units)[k] = units[k]
<1> DEFINE old == SubSeq(file, Len(units) + 1, Len(file))
<1>1. Len(units) \in Nat /\ Len(file) \in Nat
  BY LenProperties
<1>2. \A i \in Len(units) + 1 .. Len(file) : file[i] \in S
  BY <1>1, ElementOfSeq
<1>3. old \in Seq(S)
  BY <1>1, <1>2, SubSeqProperties
<1>4. Len(old) \in Nat
  BY <1>3, LenProperties
<1> HIDE DEF old
<1>5. /\ units \o old \in Seq(S) /\ Len(units \o old) = Len(units) + Len(old)
      /\ \A i \in 1 .. Len(units) + Len(old) :
           (units \o old)[i] = IF i <= Len(units) THEN units[i] ELSE old[i - Len(units)]
  BY <1>3, ConcatProperties
<1>6. Overwrite(file, units) = units \o old
  BY DEF Overwrite, old
<1> QED  BY <1>1, <1>4, <1>5, <1>6

\* Whatever the file held before, a PEM reader finds the block that was written.
LEMMA BlockWritten ==
  ASSUME NEW f \in Files, NEW v \in PemVals, NEW size \in Nat \ {0}, NEW file \in Seq(PemUnits)
  PROVE  /\ Overwrite(file, Units(f, v, size)) \in Seq(PemUnits)
         /\ FirstBlock(f, Overwrite(file, Units(f, v, size))) = v
<1> DEFINE units == Units(f, v, size)
           new == Overwrite(file, units)
<1>1. /\ units \in Seq(PemUnits) /\ Len(units) = size
      /\ \A k \in 1 .. size : units[k] = [name |-> f, val |-> v, at |-> k, size |-> size]
  BY PemUnitsAreSeq
<1> HIDE DEF units
<1>2. /\ new \in Seq(PemUnits) /\ Len(new) >= size /\ Len(new) \in Nat
      /\ \A k \in 1 .. size : new[k] = units[k]
  BY <1>1, OverwriteIs
<1> HIDE DEF new
<1>3. new # <<>> /\ Head(new) = units[1]
  BY <1>1, <1>2
<1>4. Head(new).size = size /\ Head(new).val = v
  BY <1>1, <1>3
<1>5. SubSeq(new, 1, size) = units
  <2>1. \A i \in 1 .. size : new[i] \in PemUnits
    BY <1>2, ElementOfSeq
  <2>2. /\ SubSeq(new, 1, size) \in Seq(PemUnits)
        /\ Len(SubSeq(new, 1, size)) = size
        /\ \A i \in 1 .. size : SubSeq(new, 1, size)[i] = new[i]
    BY <1>2, <2>1, SubSeqProperties
  <2> QED  BY <1>1, <1>2, <2>2, SeqEqual
<1>6. FirstBlock(f, new) = v
  BY <1>2, <1>3, <1>4, <1>5 DEF FirstBlock, units
<1> QED  BY <1>2, <1>6 DEF new, units

\* A write that is cut short leaves a sequence of units.
LEMMA PartWritten ==
  ASSUME NEW f \in Files, NEW v \in PemVals, NEW size \in Nat, NEW file \in Seq(PemUnits),
         NEW n \in 0 .. size - 1
  PROVE  Overwrite(file, SubSeq(Units(f, v, size), 1, n)) \in Seq(PemUnits)
<1> DEFINE units == Units(f, v, size)
<1>1. units \in Seq(PemUnits) /\ Len(units) = size
  BY PemUnitsAreSeq
<1> HIDE DEF units
<1>2. \A i \in 1 .. n : units[i] \in PemUnits
  BY <1>1, ElementOfSeq
<1>3. SubSeq(units, 1, n) \in Seq(PemUnits)
  BY <1>2, SubSeqProperties
<1> QED  BY <1>3, OverwriteIs DEF units

-----------------------------------------------------------------------------
(***************************************************************************)
(* The inductive invariant                                                 *)
(***************************************************************************)
Waiting == pc \in {"certifying", "locating"}

AskedMsg == IF pc = "certifying" THEN [kind |-> "cert", key |-> run] ELSE [kind |-> "ips"]
CertMsgs == [kind : {"cert"}, key : {run}, ca : Nat]
AddrMsgs == [kind : {"ips"}, some : BOOLEAN]
AnswerMsgs == IF pc = "certifying" THEN CertMsgs ELSE AddrMsgs

Req(m) == [success |-> FALSE, msg |-> m]
Ans(m) == [success |-> TRUE, msg |-> m]

\* A request is on its way to the server, or it was decoded and an answer to it, or
\* the beginning of one, is on its way back.
NetInv ==
  Waiting =>
    \/ heard = <<>> /\ Wire(sbuf, up, Encode(Req(AskedMsg))) /\ down = <<>> /\ cbuf = <<>>
    \/ /\ heard = <<Req(AskedMsg)>> /\ up = <<>> /\ sbuf = <<>>
       /\ \E m \in AnswerMsgs : Wire(cbuf, down, Encode(Ans(m)))

\* The certificate at hand is for the key of this run.
ReplyInv ==
  /\ pc = "certified" => reply.msg = None \/ reply.msg \in CertMsgs
  /\ pc \in {"rooted", "keyed"} => reply.msg \in CertMsgs

\* The files this run has written so far are there, and belong together.
StoredInv ==
  pc \in {"rooted", "keyed", "locate", "locating", "located", "mongod"} =>
    \E c \in Nat :
      /\ Stored("cert.pem") = [key |-> run, ca |-> c]
      /\ pc \in {"rooted", "keyed"} => reply.msg.ca = c
      /\ pc # "rooted" => Stored("ca.pem") = [ca |-> c]
      /\ pc \notin {"rooted", "keyed"} => Stored("key.pem") = [key |-> run]

ClientTypes ==
  /\ run \in Nat /\ ca \in Nat /\ ips \in BOOLEAN
  /\ files \in [Files -> Seq(PemUnits)]

ClientInv == ClientTypes /\ NetInv /\ ReplyInv /\ StoredInv

LEMMA InitClientInv == ClientInit => ClientInv
  BY DEF ClientInit, ClientInv, ClientTypes, NetInv, Waiting, ReplyInv, StoredInv, Files

\* The steps that leave the network, or have nothing left to wait for.
LEMMA NetInvElse ==
  ASSUME NetInv, Receive \/ EndOfStream \/ ConnectFails \/ DumpCert \/ DumpRoot \/ DumpKey
                 \/ NoCertificate \/ UseAddress \/ Measure \/ Launch \/ Crash
  PROVE  NetInv'
<1>1. ~Waiting'
  BY DEF Waiting, Receive, EndOfStream, ConnectFails, DumpCert, DumpRoot, DumpKey, Dump,
         NoCertificate, UseAddress, Measure, Launch, Crash
<1> QED  BY <1>1 DEF NetInv

LEMMA MsgsNotNone == AskedMsg # None /\ \A m \in AnswerMsgs : m # None
  BY DEF AskedMsg, AnswerMsgs, CertMsgs, AddrMsgs, None

LEMMA ReqBytes == ASSUME NEW m, m # None
                  PROVE  IsRequest(Encode(Req(m)), m)
  BY EncodeRequest DEF Req

LEMMA AnsBytes == ASSUME NEW m, m # None
                  PROVE  IsAnswer(Encode(Ans(m)), m)
  BY EncodeAnswer DEF Ans

LEMMA NetInvSend ==
  ASSUME SendRequest
  PROVE  NetInv'
<1>1. up' = Encode(Req(AskedMsg'))
  BY DEF SendRequest, Request, Req, AskedMsg
<1>2. AskedMsg' # None
  BY DEF AskedMsg, None
<1>3. IsRequest(up', AskedMsg')
  BY <1>1, <1>2, ReqBytes
<1>4. Wire(<<>>, up', Encode(Req(AskedMsg')))
  BY <1>1, <1>3, WireStarts DEF IsRequest
<1> QED  BY <1>4 DEF SendRequest, NetInv

LEMMA NetInvArrive ==
  ASSUME NetInv, ArriveAtServer \/ ArriveAtClient
  PROVE  NetInv'
<1> SUFFICES ASSUME Waiting'
             PROVE  NetInv'
  BY DEF NetInv
<1>1. Waiting /\ AskedMsg' = AskedMsg /\ AnswerMsgs' = AnswerMsgs /\ heard' = heard
  BY DEF ArriveAtServer, ArriveAtClient, Waiting, AskedMsg, AnswerMsgs, CertMsgs, AddrMsgs
<1>2. CASE ArriveAtServer
  <2>1. PICK n \in 1 .. Len(up) : /\ sbuf' = sbuf \o SubSeq(up, 1, n)
                                  /\ up' = SubSeq(up, n + 1, Len(up))
    BY <1>2 DEF ArriveAtServer
  <2>2. up # <<>>
    BY <2>1
  <2>3. heard = <<>> /\ Wire(sbuf, up, Encode(Req(AskedMsg))) /\ down = <<>> /\ cbuf = <<>>
    BY <1>1, <2>2 DEF NetInv
  <2>4. Wire(sbuf', up', Encode(Req(AskedMsg)))
    BY <2>1, <2>3, WireMoves
  <2> QED  BY <1>1, <1>2, <2>3, <2>4 DEF NetInv, ArriveAtServer
<1>3. CASE ArriveAtClient
  <2>1. PICK n \in 1 .. Len(down) : /\ cbuf' = cbuf \o SubSeq(down, 1, n)
                                    /\ down' = SubSeq(down, n + 1, Len(down))
    BY <1>3 DEF ArriveAtClient
  <2>2. down # <<>>
    BY <2>1
  <2>3. /\ heard = <<Req(AskedMsg)>> /\ up = <<>> /\ sbuf = <<>>
        /\ \E m \in AnswerMsgs : Wire(cbuf, down, Encode(Ans(m)))
    BY <1>1, <2>2 DEF NetInv
  <2>4. PICK m \in AnswerMsgs : Wire(cbuf, down, Encode(Ans(m)))
    BY <2>3
  <2>5. Wire(cbuf', down', Encode(Ans(m)))
    BY <2>1, <2>4, WireMoves
  <2> QED  BY <1>1, <1>3, <2>3, <2>5 DEF NetInv, ArriveAtClient
<1> QED  BY <1>2, <1>3

\* What the server may answer is an answer to what was asked.
LEMMA AnswersMatch ==
  ASSUME ca \in Nat, Waiting, ips \in BOOLEAN
  PROVE  \A a \in Answers(Req(AskedMsg)) : \E m \in AnswerMsgs : a = Ans(m)
<1>1. Req(AskedMsg).msg = AskedMsg /\ AskedMsg # None
  BY MsgsNotNone DEF Req
<1>2. CASE pc = "certifying"
  <2>1. AskedMsg.kind = "cert" /\ AskedMsg.key = run
    BY <1>2 DEF AskedMsg
  <2>2. Answers(Req(AskedMsg)) = {Ans([kind |-> "cert", key |-> run, ca |-> ca])}
    BY <1>1, <2>1 DEF Answers, Ans
  <2>3. [kind |-> "cert", key |-> run, ca |-> ca] \in AnswerMsgs
    BY <1>2 DEF AnswerMsgs, CertMsgs
  <2> QED  BY <2>2, <2>3
<1>3. CASE pc # "certifying"
  <2>1. AskedMsg.kind = "ips"
    BY <1>3 DEF AskedMsg
  <2>2. Answers(Req(AskedMsg)) = {Ans([kind |-> "ips", some |-> ips])}
    BY <1>1, <2>1 DEF Answers, Ans
  <2>3. [kind |-> "ips", some |-> ips] \in AnswerMsgs
    BY <1>3 DEF AnswerMsgs, AddrMsgs
  <2> QED  BY <2>2, <2>3
<1> QED  BY <1>2, <1>3

LEMMA SomeAnswer == \E m \in AnswerMsgs : m # None
<1>1. [kind |-> "cert", key |-> run, ca |-> 0] \in CertMsgs
  BY DEF CertMsgs
<1>2. [kind |-> "ips", some |-> FALSE] \in AddrMsgs
  BY DEF AddrMsgs
<1>3. \E m \in AnswerMsgs : TRUE
  BY <1>1, <1>2 DEF AnswerMsgs
<1> QED  BY <1>3, MsgsNotNone

LEMMA NetInvServe ==
  ASSUME ClientTypes, NetInv, Serve
  PROVE  NetInv'
<1>1. Waiting /\ AskedMsg' = AskedMsg /\ AnswerMsgs' = AnswerMsgs
  BY DEF Serve, Waiting, AskedMsg, AnswerMsgs, CertMsgs, AddrMsgs
<1>2. /\ heard = <<>> /\ Wire(sbuf, up, Encode(Req(AskedMsg))) /\ down = <<>> /\ cbuf = <<>>
      /\ Decodable(sbuf)
  BY <1>1 DEF NetInv, Serve, Decodable
<1>3. IsRequest(Encode(Req(AskedMsg)), AskedMsg)
  BY MsgsNotNone, ReqBytes
<1>4. Merged(sbuf) = Req(AskedMsg) /\ up = <<>>
  BY <1>2, <1>3, DecodesRequest DEF Req
<1>5. heard' = <<Req(AskedMsg)>> /\ up' = <<>> /\ sbuf' = <<>> /\ cbuf' = <<>>
  BY <1>2, <1>4 DEF Serve
<1>6. \E m \in AnswerMsgs : Wire(cbuf', down', Encode(Ans(m)))
  <2>1. CASE down' = down
    <3>1. PICK m \in AnswerMsgs : m # None
      BY SomeAnswer
    <3>2. IsAnswer(Encode(Ans(m)), m)
      BY <3>1, AnsBytes
    <3>3. Wire(<<>>, <<>>, Encode(Ans(m)))
      BY <3>2, WireEmpty DEF IsAnswer
    <3> QED  BY <1>2, <1>5, <2>1, <3>3
  <2>2. CASE \E a \in Answers(Merged(sbuf)) : down' = down \o Encode(a)
    <3>1. PICK a \in Answers(Req(AskedMsg)) : down' = <<>> \o Encode(a)
      BY <1>2, <1>4, <2>2
    <3>2. PICK m \in AnswerMsgs : a = Ans(m)
      BY <1>1, <3>1, AnswersMatch DEF ClientTypes
    <3>3. m # None
      BY MsgsNotNone
    <3>4. IsAnswer(Encode(Ans(m)), m)
      BY <3>3, AnsBytes
    <3>5. down' = Encode(Ans(m))
      BY <3>1, <3>2, <3>4, ConcatEmptySeq DEF IsAnswer
    <3>6. Wire(<<>>, Encode(Ans(m)), Encode(Ans(m)))
      BY <3>4, WireStarts DEF IsAnswer
    <3> QED  BY <1>5, <3>5, <3>6
  <2> QED  BY <2>1, <2>2 DEF Serve
<1> QED  BY <1>1, <1>5, <1>6 DEF NetInv

LEMMA NetInvRestart ==
  ASSUME NetInv, ServerRestarts
  PROVE  NetInv'
<1> SUFFICES ASSUME Waiting'
             PROVE  NetInv'
  BY DEF NetInv
<1>1. /\ Waiting /\ AskedMsg' = AskedMsg /\ AnswerMsgs' = AnswerMsgs /\ heard' = heard
      /\ up' = <<>> /\ sbuf' = <<>> /\ cbuf' = cbuf
  BY DEF ServerRestarts, Waiting, AskedMsg, AnswerMsgs, CertMsgs, AddrMsgs
<1>2. PICK n \in 0 .. Len(down) : down' = SubSeq(down, 1, n)
  BY DEF ServerRestarts
<1>3. CASE heard = <<>> /\ Wire(sbuf, up, Encode(Req(AskedMsg))) /\ down = <<>> /\ cbuf = <<>>
  <2>1. IsRequest(Encode(Req(AskedMsg)), AskedMsg)
    BY MsgsNotNone, ReqBytes
  <2>2. Wire(<<>>, <<>>, Encode(Req(AskedMsg)))
    BY <2>1, WireEmpty DEF IsRequest
  <2>3. down' = <<>>
    BY <1>2, <1>3
  <2> QED  BY <1>1, <1>3, <2>2, <2>3 DEF NetInv
<1>4. CASE /\ heard = <<Req(AskedMsg)>> /\ up = <<>> /\ sbuf = <<>>
           /\ \E m \in AnswerMsgs : Wire(cbuf, down, Encode(Ans(m)))
  <2>1. PICK m \in AnswerMsgs : Wire(cbuf, down, Encode(Ans(m)))
    BY <1>4
  <2>2. m # None
    BY MsgsNotNone
  <2>3. IsAnswer(Encode(Ans(m)), m)
    BY <2>2, AnsBytes
  <2>4. Wire(cbuf, down', Encode(Ans(m)))
    BY <1>2, <2>1, <2>3, WireCut DEF IsAnswer
  <2> QED  BY <1>1, <1>4, <2>4 DEF NetInv
<1> QED  BY <1>1, <1>3, <1>4 DEF NetInv

LEMMA NetInvNext ==
  ASSUME ClientTypes, NetInv, ClientNext
  PROVE  NetInv'
  BY NetInvElse, NetInvSend, NetInvArrive, NetInvServe, NetInvRestart DEF ClientNext, Net, Program

-----------------------------------------------------------------------------
\* The steps that do not touch run, reply and files: the program goes on or stops.
LEMMA InvQuiet ==
  ASSUME ClientInv, SendRequest \/ ArriveAtServer \/ ArriveAtClient \/ Serve \/ EndOfStream
                    \/ ConnectFails \/ NoCertificate \/ UseAddress \/ Measure \/ Crash
                    \/ ServerRestarts
  PROVE  ClientTypes' /\ ReplyInv' /\ StoredInv'
<1>1. /\ run' = run /\ reply' = reply /\ files' = files
      /\ ca' \in {ca, ca + 1} /\ (ips' = ips \/ ips' \in BOOLEAN)
      /\ \/ pc' = pc
         \/ pc' \in {"certifying", "off", "panicked"}
         \/ pc = "locate" /\ pc' = "locating"
         \/ pc = "located" /\ pc' = "mongod"
  BY DEF SendRequest, ArriveAtServer, ArriveAtClient, Serve, EndOfStream, ConnectFails,
         NoCertificate, UseAddress, Measure, Crash, ServerRestarts
<1>2. ClientTypes'
  BY <1>1 DEF ClientInv, ClientTypes
<1>3. ReplyInv'
  BY <1>1 DEF ClientInv, ReplyInv, CertMsgs
<1>4. \A f : Stored(f)' = Stored(f)
  BY <1>1 DEF Stored
<1>5. StoredInv'
  BY <1>1, <1>4 DEF ClientInv, StoredInv
<1> QED  BY <1>2, <1>3, <1>5

LEMMA InvLaunch ==
  ASSUME ClientInv, Launch
  PROVE  ClientTypes' /\ ReplyInv' /\ StoredInv'
  BY DEF ClientInv, ClientTypes, ReplyInv, StoredInv, Launch

\* The answer that is decoded was made for this run.
LEMMA InvReceive ==
  ASSUME ClientInv, Receive
  PROVE  ClientTypes' /\ ReplyInv' /\ StoredInv'
<1>1. ClientTypes'
  BY DEF ClientInv, ClientTypes, Receive
<1>2. ReplyInv'
  <2>1. CASE pc = "certifying"
    <3>1. PICK m \in AnswerMsgs : Wire(cbuf, down, Encode(Ans(m)))
      BY <2>1 DEF ClientInv, NetInv, Waiting, Receive, Decodable
    <3>2. m # None
      BY MsgsNotNone
    <3>3. IsAnswer(Encode(Ans(m)), m)
      BY <3>2, AnsBytes
    <3>4. reply'.msg \in {None, m}
      BY <3>1, <3>3, DecodesAnswer DEF Receive
    <3>5. m \in CertMsgs' /\ pc' = "certified"
      BY <2>1 DEF AnswerMsgs, CertMsgs, Receive
    <3> QED  BY <3>4, <3>5 DEF ReplyInv
  <2>2. CASE pc # "certifying"
    BY <2>2 DEF Receive, ReplyInv
  <2> QED  BY <2>1, <2>2
<1>3. \A f : Stored(f)' = Stored(f)
  BY DEF Stored, Receive
<1>4. StoredInv'
  BY <1>3 DEF ClientInv, StoredInv, Receive
<1> QED  BY <1>1, <1>2, <1>4

\* dump_certificate, for the step whose file is f: the file holds what was to be
\* written, or the run has ended; the other files are as they were.
LEMMA DumpIs ==
  ASSUME NEW step \in DOMAIN After, NEW next, ClientTypes, Dump(step, next),
         After[step] \in Files, Dumped(After[step]) \in PemVals
  PROVE  LET f == After[step]
         IN  /\ ClientTypes' /\ run' = run /\ reply' = reply
             /\ \A g \in Files \ {f} : Stored(g)' = Stored(g)
             /\ \/ pc' = next /\ Stored(f)' = Dumped(f)
                \/ pc' = "panicked"
<1> DEFINE f == After[step]
           v == Dumped(f)
<1>1. f \in Files /\ v \in PemVals
  OBVIOUS
<1>2. PICK size \in Sizes :
        \/ files' = [files EXCEPT ![f] = Overwrite(@, Units(f, v, size))] /\ pc' = next
        \/ \E n \in 0 .. size - 1 :
             /\ files' = [files EXCEPT ![f] = Overwrite(@, SubSeq(Units(f, v, size), 1, n))]
             /\ pc' = "panicked"
  BY DEF Dump
<1>3. size \in Nat \ {0}
  BY ClientAssumption
<1>4. files \in [Files -> Seq(PemUnits)] /\ files[f] \in Seq(PemUnits)
  BY <1>1 DEF ClientTypes
<1>5. /\ run' = run /\ reply' = reply /\ ca' = ca /\ ips' = ips
  BY DEF Dump
<1> HIDE DEF f, v
<1>6. CASE files' = [files EXCEPT ![f] = Overwrite(@, Units(f, v, size))] /\ pc' = next
  <2>1. /\ Overwrite(files[f], Units(f, v, size)) \in Seq(PemUnits)
        /\ FirstBlock(f, Overwrite(files[f], Units(f, v, size))) = v
    BY <1>1, <1>3, <1>4, BlockWritten
  <2>2. /\ files' \in [Files -> Seq(PemUnits)] /\ FirstBlock(f, files'[f]) = v
        /\ \A g \in Files \ {f} : files'[g] = files[g]
    BY <1>1, <1>4, <1>6, <2>1
  <2> QED  BY <1>5, <1>6, <2>2 DEF ClientTypes, Stored, f, v
<1>7. CASE \E n \in 0 .. size - 1 :
             /\ files' = [files EXCEPT ![f] = Overwrite(@, SubSeq(Units(f, v, size), 1, n))]
             /\ pc' = "panicked"
  <2>1. PICK n \in 0 .. size - 1 :
          files' = [files EXCEPT ![f] = Overwrite(@, SubSeq(Units(f, v, size), 1, n))]
    BY <1>7
  <2>2. Overwrite(files[f], SubSeq(Units(f, v, size), 1, n)) \in Seq(PemUnits)
    BY <1>1, <1>3, <1>4, PartWritten
  <2>3. /\ files' \in [Files -> Seq(PemUnits)]
        /\ \A g \in Files \ {f} : files'[g] = files[g]
    BY <1>1, <1>4, <2>1, <2>2
  <2> QED  BY <1>5, <1>7, <2>3 DEF ClientTypes, Stored, f
<1> QED  BY <1>2, <1>6, <1>7

LEMMA InvDump ==
  ASSUME ClientInv, DumpCert \/ DumpRoot \/ DumpKey
  PROVE  ClientTypes' /\ ReplyInv' /\ StoredInv'
<1> USE DEF After, Files
<1>1. CASE DumpCert
  <2>1. reply.msg \in CertMsgs /\ pc = "certified"
    BY <1>1 DEF DumpCert, Dump, IsCertificate, ClientInv, ReplyInv
  <2>2. /\ Dumped("cert.pem") = [key |-> run, ca |-> reply.msg.ca] /\ reply.msg.ca \in Nat
        /\ Dumped("cert.pem") \in PemVals
    BY <2>1 DEF Dumped, CertMsgs, PemVals, ClientInv, ClientTypes
  <2>3. /\ ClientTypes' /\ run' = run /\ reply' = reply
        /\ \/ pc' = "rooted" /\ Stored("cert.pem")' = Dumped("cert.pem")
           \/ pc' = "panicked"
    BY <1>1, <2>2, DumpIs DEF DumpCert, ClientInv
  <2>4. ReplyInv'
    BY <2>1, <2>3 DEF ReplyInv, CertMsgs
  <2>5. StoredInv'
    BY <2>2, <2>3 DEF StoredInv
  <2> QED  BY <2>3, <2>4, <2>5
<1>2. CASE DumpRoot
  <2>1. reply.msg \in CertMsgs /\ pc = "rooted" /\ reply.msg.ca \in Nat
    BY <1>2 DEF DumpRoot, Dump, ClientInv, ReplyInv, CertMsgs
  <2>2. Dumped("ca.pem") = [ca |-> reply.msg.ca] /\ Dumped("ca.pem") \in PemVals
    BY <2>1 DEF Dumped, PemVals
  <2>3. Stored("cert.pem") = [key |-> run, ca |-> reply.msg.ca]
    BY <2>1 DEF ClientInv, StoredInv
  <2>4. /\ ClientTypes' /\ run' = run /\ reply' = reply
        /\ Stored("cert.pem")' = Stored("cert.pem")
        /\ \/ pc' = "keyed" /\ Stored("ca.pem")' = Dumped("ca.pem")
           \/ pc' = "panicked"
    BY <1>2, <2>2, DumpIs DEF DumpRoot, ClientInv
  <2>5. ReplyInv'
    BY <2>1, <2>4 DEF ReplyInv, CertMsgs
  <2>6. StoredInv'
    BY <2>1, <2>2, <2>3, <2>4 DEF StoredInv
  <2> QED  BY <2>4, <2>5, <2>6
<1>3. CASE DumpKey
  <2>1. pc = "keyed"
    BY <1>3 DEF DumpKey, Dump
  <2>2. Dumped("key.pem") = [key |-> run] /\ Dumped("key.pem") \in PemVals
    BY DEF Dumped, PemVals, ClientInv, ClientTypes
  <2>3. PICK c \in Nat : /\ Stored("cert.pem") = [key |-> run, ca |-> c]
                         /\ Stored("ca.pem") = [ca |-> c]
    BY <2>1 DEF ClientInv, StoredInv
  <2>4. /\ ClientTypes' /\ run' = run /\ reply' = reply
        /\ Stored("cert.pem")' = Stored("cert.pem") /\ Stored("ca.pem")' = Stored("ca.pem")
        /\ \/ pc' = "locate" /\ Stored("key.pem")' = Dumped("key.pem")
           \/ pc' = "panicked"
    BY <1>3, <2>2, DumpIs DEF DumpKey, ClientInv
  <2>5. ReplyInv'
    BY <2>4 DEF ReplyInv
  <2>6. StoredInv'
    BY <2>2, <2>3, <2>4 DEF StoredInv
  <2> QED  BY <2>4, <2>5, <2>6
<1> QED  BY <1>1, <1>2, <1>3

LEMMA ClientInvHolds == ClientSpec => []ClientInv
<1>1. ClientInv /\ [ClientNext]_clientVars => ClientInv'
  <2> SUFFICES ASSUME ClientInv, [ClientNext]_clientVars
               PROVE  ClientInv'
    OBVIOUS
  <2>1. CASE ClientNext
    <3>1. NetInv'
      BY <2>1, NetInvNext DEF ClientInv
    <3>2. ClientTypes' /\ ReplyInv' /\ StoredInv'
      BY <2>1, InvQuiet, InvLaunch, InvReceive, InvDump DEF ClientNext, Net, Program
    <3> QED  BY <3>1, <3>2 DEF ClientInv
  <2>2. CASE UNCHANGED clientVars
    <3>1. \A f : Stored(f)' = Stored(f)
      BY <2>2 DEF Stored, clientVars
    <3>2. NetInv'
      BY <2>2 DEF ClientInv, NetInv, Waiting, AskedMsg, AnswerMsgs, CertMsgs, AddrMsgs,
                  clientVars, netVars
    <3> QED  BY <2>2, <3>1, <3>2 DEF ClientInv, ClientTypes, ReplyInv, StoredInv, CertMsgs,
                                     clientVars
  <2> QED  BY <2>1, <2>2
<1> QED  BY <1>1, InitClientInv, PTL DEF ClientSpec

-----------------------------------------------------------------------------
\* When setup_mongod loads the files, certificate and key belong together and the
\* root is the certificate's issuer, after any runs, crashes, cut-off writes, restarts
\* of the server, and whatever sizes the files have.
THEOREM FilesTogether == ClientSpec => []FilesBelongTogether
<1>1. ClientInv => FilesBelongTogether
  <2> SUFFICES ASSUME ClientInv, pc = "mongod"
               PROVE  FilesBelongTogether
    BY DEF FilesBelongTogether
  <2>1. PICK c \in Nat : /\ Stored("cert.pem") = [key |-> run, ca |-> c]
                         /\ Stored("ca.pem") = [ca |-> c]
                         /\ Stored("key.pem") = [key |-> run]
    BY DEF ClientInv, StoredInv
  <2> QED  BY <2>1 DEF FilesBelongTogether, None
<1> QED  BY <1>1, ClientInvHolds, PTL

\* Although nothing marks the end of a request, the server acts on exactly the
\* request the client sent, in whatever pieces it arrives.
THEOREM RequestsExact == ClientSpec => []RequestExact
<1>1. ClientInv => RequestExact
  <2> SUFFICES ASSUME ClientInv
               PROVE  RequestExact
    OBVIOUS
  <2>1. pc = "certifying" => Req(AskedMsg) = Request("certify")
    BY DEF Req, AskedMsg, Request
  <2>2. pc = "locating" => Req(AskedMsg) = Request("locate")
    BY DEF Req, AskedMsg, Request
  <2> QED  BY <2>1, <2>2 DEF ClientInv, NetInv, Waiting, RequestExact
<1> QED  BY <1>1, ClientInvHolds, PTL
=============================================================================
