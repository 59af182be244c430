------------------------------ MODULE MCOpenssl ------------------------------
(***************************************************************************)
(* The parts of rust-openssl that keep state of their own, for TLC.  They  *)
(* share none, so a behaviour follows one of them, part, and the others    *)
(* stay as they start: the run explores the parts one after the other and  *)
(* never their product.                                                    *)
(***************************************************************************)
EXTENDS CryptoLocks, SslStream, SslCallbacks, VerifyHostname, Hasher, Signer, Crypter,
        ProtocolLists

CONSTANTS
  Parts,       \* the parts that the run explores
  Nothing,     \* no value of any part
  CN, O        \* two entries of a name

VARIABLES
  part,                                                           \* the part that runs
  extensions, indexes, names, cert, added,                        \* CertExtensions
  kind, critical, flags, options, list, ext, calls                \* ExtensionBuilders

certVars == <<extensions, indexes, names, cert, added>>
builderVars == <<kind, critical, flags, options, list, ext, calls>>
opensslVars ==
  <<part, vars, streamVars, callbackVars, hostVars, protocolVars, certVars, builderVars,
    hasherVars, signerVars, crypterVars>>

-----------------------------------------------------------------------------
\* Bytes are 0 to 3, and the names include the empty one, one as long as a byte can
\* say and two that are longer.
MCNames == {<<>>, <<1>>, <<2>>, <<1, 2>>, <<2, 1, 1>>, <<1, 1, 2, 1>>, <<1, 2, 1, 1, 2>>}

\* Three objects, one of them under two types, an OtherNid and an OtherStr with its
\* short name.
Type(k, name, obj) == [kind |-> k, name |-> name, object |-> obj]
Exts == [type : {Type("KeyUsage", "", "keyUsage"),
                 Type("OtherNid", "82", "subjectKeyIdentifier"),
                 Type("OtherNid", "87", "basicConstraints"),
                 Type("OtherStr", "basicConstraints", "basicConstraints")},
         value : {"v1", "v2"}]
Certs == INSTANCE CertExtensions WITH
  Attrs <- {CN, O}, Default <- Nothing, MaxAdds <- 4, NoCert <- Nothing, asked <- added

\* A name, another one, and one with a comma.
Builders == INSTANCE ExtensionBuilders WITH
  Kinds <- {"BasicConstraints", "KeyUsage", "ExtendedKeyUsage", "SubjectKeyIdentifier",
            "AuthorityKeyIdentifier", "SubjectAlternativeName"},
  Texts <- {<<"a">>, <<"b">>, <<"a", ",", "b">>}, MaxCalls <- 3, NoExt <- Nothing, Unset <- Nothing

-----------------------------------------------------------------------------
(***************************************************************************)
(* Names for VerifyHostname: a first label of up to three characters and   *)
(* one of a few tails, which gives every case of the matching its          *)
(* instances: wildcards before, after and inside text, more than one,      *)
(* outside the first label, too few labels, trailing dots, empty labels    *)
(* and prefixes that overlap suffixes.  Two sessions get few of them.      *)
(***************************************************************************)
Dot == <<".">>
A == <<"a">>
B == <<"b">>

Labels(chars, n) == UNION {[1..k -> chars] : k \in 0..n}

V4 == <<"1", ".", "1", ".", "1", ".", "1">>
V6 == <<"f", ":", ":", "1">>
WildV4 == <<"*", ".", "1", ".", "1", ".", "1">>
Tail2 == Dot \o A \o Dot \o B

IpOfHosts ==
  V4 :> [family |-> "v4", octets |-> "loop"] @@ V6 :> [family |-> "v6", octets |-> "loop"]

AllHosts == {l \o t : l \in Labels({"a", "x"}, 3) \cup {<<"*">>},
                      t \in {<<>>, Dot, Dot \o A, Tail2, Tail2 \o Dot, A \o Dot \o Tail2}}
            \cup {V4, V6}
FewHosts == {A \o Tail2, B \o Tail2, V4}

AllPatterns == {l \o t : l \in Labels({"a", "x", "*"}, 3),
                         t \in {<<>>, Dot, Dot \o A, Tail2, Tail2 \o Dot, Tail2 \o <<"*">>}}
               \cup {V4, WildV4, V4 \o Dot}
FewPatterns == {A \o Tail2, <<"*">> \o Tail2, <<"*">>}

Leaf(san, cn) == [valid |-> TRUE, san |-> san, cn |-> cn]
Dns(p) == [kind |-> "dns", value |-> p]
Ip(n) == [kind |-> "ip", value |-> [len |-> n, octets |-> "loop"]]
OtherIp == [kind |-> "ip", value |-> [len |-> 4, octets |-> "other"]]
Mail == [kind |-> "email", value |-> A \o Tail2]
Cn(p) == [kind |-> "utf8", value |-> p]
BadCn == [kind |-> "latin", value |-> A \o Tail2]

Leaves(patterns) ==
  {Leaf(<<Dns(p)>>, <<>>) : p \in patterns}
    \cup {Leaf(Nothing, <<Cn(p)>>) : p \in patterns}
    \cup {Leaf(<<Mail, OtherIp, Ip(n), Dns(V4)>>, <<Cn(A \o Tail2)>>) : n \in {4, 5, 16}}
    \cup {Leaf(<<Mail, Dns(A), Dns(A \o Tail2)>>, <<>>),
          Leaf(Nothing, <<BadCn, Cn(A \o Tail2)>>),
          Leaf(Nothing, <<Cn(A), Cn(A \o Tail2)>>),
          Leaf(Nothing, <<>>)}

Root == [valid |-> TRUE, san |-> Nothing, cn |-> <<Cn(B)>>]
Good == Leaf(<<Dns(A \o Tail2)>>, <<>>)
Broken == {<<[Good EXCEPT !.valid = FALSE], Root>>, <<Good, [Root EXCEPT !.valid = FALSE]>>}
AllChains == {<<l, Root>> : l \in Leaves(AllPatterns)} \cup Broken
FewChains == {<<l, Root>> : l \in Leaves(FewPatterns)} \cup Broken

MCHosts == AllHosts
MCChains == AllChains
MCIpOf == IpOfHosts

-----------------------------------------------------------------------------
\* The parts that do not run start in one of their initial states.
OpensslInit ==
  /\ part \in Parts
  /\ Init /\ StreamInit /\ CallbacksInit /\ HostInit /\ HasherInit /\ SignerInit
  /\ ProtocolsInit /\ (part # "protocols" => configured = <<>>)
  /\ Certs!CertInit
  /\ Builders!Init /\ (part # "builders" => kind = "KeyUsage")
  /\ CrypterInit /\ (part # "ciphers" => crypter = New("Encrypt", 1))

Others(p) ==
  /\ UNCHANGED part
  /\ p # "locks" => UNCHANGED vars
  /\ p # "stream" => UNCHANGED streamVars
  /\ p # "callbacks" => UNCHANGED callbackVars
  /\ p \notin {"names", "sessions"} => UNCHANGED hostVars
  /\ p # "protocols" => UNCHANGED protocolVars
  /\ p # "certs" => UNCHANGED certVars
  /\ p # "builders" => UNCHANGED builderVars
  /\ p # "hashers" => UNCHANGED hasherVars
  /\ p # "signers" => UNCHANGED signerVars
  /\ p # "ciphers" => UNCHANGED crypterVars

\* One session with every host and chain, or two with few.
OpensslNext ==
  \/ part = "locks" /\ Next /\ Others("locks")
  \/ part = "stream" /\ StreamNext /\ Others("stream")
  \/ part = "callbacks" /\ CallbacksNext /\ Others("callbacks")
  \/ part = "names" /\ Session("s1", AllHosts, AllChains) /\ Others("names")
  \/ /\ part = "sessions" /\ \E s \in Sessions : Session(s, FewHosts, FewChains)
     /\ Others("sessions")
  \/ part = "protocols" /\ ProtocolsNext /\ Others("protocols")
  \/ part = "certs" /\ Certs!CertNext /\ Others("certs")
  \/ part = "builders" /\ Builders!Next /\ Others("builders")
  \/ part = "hashers" /\ HasherNext /\ Others("hashers")
  \/ part = "signers" /\ SignerNext /\ Others("signers")
  \/ part = "ciphers" /\ CrypterNext /\ Others("ciphers")

OpensslSpec == OpensslInit /\ [][OpensslNext]_opensslVars

\* Programs that switch contexts where set_servername_callback says, in its closure.
ServernameNext ==
  OpensslNext /\ (ssl.alive /\ ssl'.alive /\ ssl'.ctx # ssl.ctx => running.slot = "sni")
ServernameSpec == OpensslInit /\ [][ServernameNext]_opensslVars

-----------------------------------------------------------------------------
\* CertExtensions and ExtensionBuilders: a certificate has what was asked for when it
\* was signed, one extension for each ExtensionType with its last value, and the text
\* of an extension that a builder made is read back as what its setters were given.
ExtensionsAsAsked ==
  /\ [](part = "certs" => Certs!SignedAsAsked)
  /\ [][part = "builders" => Builders!BuildsAsAsked]_builderVars

\* CertExtensions, against the comment on Extensions: a signed certificate has no two
\* extensions of one object.
OneOfEachExtension == Certs!OneOfEachExtension
=============================================================================
