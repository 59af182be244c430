---------------------------- MODULE ProtocolLists ----------------------------
(* The protocol lists of ALPN and NPN (ssl/mod.rs, ssl/callbacks.rs): a      *)
(* context keeps its list encoded as bytes, each name after its length, and  *)
(* the callback has OpenSSL match it with the list of the peer.  A byte is a *)
(* number up to MaxByte, 255 in the program.                                 *)
EXTENDS Integers, Sequences, SequencesExt

CONSTANTS MaxByte,     \* the largest byte
          Names,       \* protocol names a program configures, sequences of bytes
          MaxNames     \* bound: names in a list

ASSUME ProtocolsAssumption ==
    /\ MaxByte \in Nat /\ MaxNames \in Nat
    /\ Names \subseteq Seq(0..MaxByte)

VARIABLES configured,  \* what the program passed to set_alpn_protocols
          protocols,   \* the Vec<u8> in the context's extra data
          offered,     \* the names the peer sent
          selected     \* what the callback told OpenSSL

protocolVars == <<configured, protocols, offered, selected>>

NoAck == <<-2>>       \* no sequences of bytes
Unselected == <<-3>>

Fits(name) == Len(name) <= MaxByte
Lists(names) == UNION {[1..n -> names] : n \in 0..MaxNames}

\* What a peer may send: TLS has no empty names and no longer ones.
PeerNames == {n \in Names : n # <<>> /\ Fits(n)}

-----------------------------------------------------------------------------
\* A mutant: the length is cut to a byte and the name kept.
Encoded_cut(name) == <<Len(name) % (MaxByte + 1)>> \o name

\* A name that does not fit is discarded: `len as usize != string.len()`.
Encoded(name) == IF Fits(name) THEN <<Len(name)>> \o name ELSE <<>>

ssl_encode_byte_strings(names) == FlattenSeq([i \in DOMAIN names |-> Encoded(names[i])])

(* SSL_select_next_proto, external: the entries of the first list in turn,   *)
(* each compared with all of the second; bytes past the end are whatever is  *)
(* there.  A walk stops where it has passed the end.                         *)
Starts(l) == LET at[k \in 1..(Len(l) + 1)] ==
                     IF k = 1 THEN 1
                     ELSE LET i == at[k - 1] IN IF i > Len(l) THEN i ELSE i + l[i] + 1
             IN  at
Entry(l, i) == [k \in 1..l[i] |-> IF i + k <= Len(l) THEN l[i + k] ELSE -1]
Entries(l) == LET at == Starts(l)
              IN  [k \in {j \in DOMAIN at : at[j] <= Len(l)} |-> Entry(l, at[k])]

SSL_select_next_proto(first, second) ==
    LET entries == Entries(first)
        found == {k \in DOMAIN entries : entries[k] \in ToSet(Entries(second))}
    IN  IF found = {} THEN NoAck ELSE entries[Min(found)]

-----------------------------------------------------------------------------
\* A list was configured, and with it the callback.
ProtocolsInit == /\ configured \in Lists(Names)
                 /\ protocols = ssl_encode_byte_strings(configured)
                 /\ offered = <<>> /\ selected = Unselected

\* set_alpn_protocols and set_npn_protocols again: the list is replaced.
set_protocols(names) == /\ selected = Unselected
                        /\ configured' = names
                        /\ protocols' = ssl_encode_byte_strings(names)
                        /\ UNCHANGED <<offered, selected>>

\* The peer's list, in its encoding, is the first argument.
select_proto_using(names) ==
    /\ selected = Unselected
    /\ offered' = names
    /\ selected' = SSL_select_next_proto(ssl_encode_byte_strings(names), protocols)
    /\ UNCHANGED <<configured, protocols>>

ProtocolsNext == \/ \E l \in Lists(Names) : set_protocols(l)
                 \/ \E l \in Lists(PeerNames) : select_proto_using(l)

ProtocolsSpec == ProtocolsInit /\ [][ProtocolsNext]_protocolVars

-----------------------------------------------------------------------------
\* The protocol that is selected is one that both sides named, and there is none only
\* if they have no name in common among those short enough to be encoded: names that
\* do not fit leave no trace in the encoding, and no byte past the end of a list is
\* read.  Which of several is taken, see OwnOrderDecides.
SelectedIsCommon ==
    selected # Unselected =>
        LET common == {n \in ToSet(configured) \cap ToSet(offered) : Fits(n)}
        IN  IF common = {} THEN selected = NoAck ELSE selected \in common

-----------------------------------------------------------------------------
\* set_alpn_protocols (ssl/mod.rs:693): "Note that ordering of the protocols controls
\* the priority with which they are chosen."  Of the names that both sides have, the
\* one that is selected comes first in the list the program configured.
OwnOrderDecides ==
    selected \notin {Unselected, NoAck} =>
        \E i \in DOMAIN configured :
            /\ configured[i] = selected
            /\ \A j \in 1..(i - 1) : configured[j] \notin ToSet(offered)
=============================================================================
