-------------------------------- MODULE Codec --------------------------------
(***************************************************************************)
(* The protobuf codec (tolla_proto/src/lib.rs).  There is no framing: the  *)
(* decoder hands the whole buffer to prost and, when prost accepts it,     *)
(* clears the buffer.                                                      *)
(*                                                                         *)
(* A message is a sequence of top-level fields, a field a sequence of      *)
(* units; a unit knows its field, its place and the field's size, which is *)
(* what prost learns from a tag and a length.  prost accepts a buffer that *)
(* ends between two top-level fields, takes a missing field for its        *)
(* default, and lets a later field of a oneof replace an earlier one.      *)
(***************************************************************************)
EXTENDS Naturals, Sequences

None == [kind |-> "none"]

\* Field "success" is one unit, a field of the oneof "msg" is more.
MsgSize == 3
Units(name, val, size) ==
  [i \in 1 .. size |-> [name |-> name, val |-> val, at |-> i, size |-> size]]

\* encode: fields in the order of their tags, default values left out.
Encode(msg) ==
  (IF msg.success THEN Units("success", TRUE, 1) ELSE <<>>)
    \o (IF msg.msg # None THEN Units("msg", msg.msg, MsgSize) ELSE <<>>)

\* prost: the buffer does not end inside a field.
Accepts(buf) == buf = <<>> \/ buf[Len(buf)].at = buf[Len(buf)].size

LastOf(buf, name, default) ==
  LET found == {k \in 1 .. Len(buf) : buf[k].name = name}
  IN IF found = {} THEN default ELSE buf[CHOOSE k \in found : \A j \in found : j <= k].val

\* prost's decode of a buffer it accepts.
Merged(buf) == [success |-> LastOf(buf, "success", FALSE), msg |-> LastOf(buf, "msg", None)]

\* Mutant of Decodable: without the test for an empty buffer.
DecodableEmpty(buf) == Accepts(buf)

\* Decoder::decode returns a message; otherwise it waits for more.
Decodable(buf) == buf # <<>> /\ Accepts(buf)
=============================================================================
