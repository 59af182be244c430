--------------------------- MODULE VerifyHostname ---------------------------
(* The client side of rust-openssl's connector built against OpenSSL 1.0.1   *)
(* (ssl/connector.rs): one shared SslConnector, the sessions configured and  *)
(* connected from it, and the crate's own verification of the host name,     *)
(* which OpenSSL runs from its chain verification through one closure kept   *)
(* on the context.  A name is a sequence of characters, the characters the   *)
(* code tells apart: "." and "*", "x" for the prefix `xn--` of an            *)
(* internationalised name, and ordinary ones.                                *)
EXTENDS Naturals, Sequences, SequencesExt

CONSTANTS Sessions,    \* the Ssls made from the connector
          Hosts,       \* the domains a caller passes to connect
          Chains,      \* the chains a peer presents, leaf first
          IpOf,        \* the address of every host that parses as one
          NoHost, NoSan, NoIp, NoCert

Name == Seq(STRING)

\* The certificates of a chain: names of its alternative names, if it has the
\* extension, and its common names.  OpenSSL always has a current certificate when
\* it reports one as verified.
IsCert(cert) ==
    /\ cert # NoCert
    /\ cert.valid \in BOOLEAN
    /\ cert.san # NoSan =>
          \A i \in DOMAIN cert.san : cert.san[i].kind = "dns" => cert.san[i].value \in Name
    /\ cert.cn \in Seq([kind : STRING, value : Name])

ASSUME HostAssumption ==
    /\ Hosts \subseteq Name /\ NoHost \notin Hosts
    /\ \A c \in Chains : /\ Len(c) \in Nat \ {0} /\ DOMAIN c = 1..Len(c)
                         /\ \A i \in DOMAIN c : IsCert(c[i])
    /\ \A h \in DOMAIN IpOf : IpOf[h] # NoIp

VARIABLES state,       \* of each session
          asked,       \* the domain its caller gave, NoHost for the danger_ call
          hostname,    \* the ex_data at HOSTNAME_IDX of its Ssl
          chain,       \* the chain its peer presented
          depth        \* the depth the chain verification has reached

hostVars == <<state, asked, hostname, chain, depth>>

States == {"configured", "verifying", "connected", "failed"}

HostTypeOK == /\ state \in [Sessions -> States]
          /\ asked \in [Sessions -> Hosts \cup {NoHost}]
          /\ hostname \in [Sessions -> Hosts \cup {NoHost}]
          /\ chain \in [Sessions -> Chains \cup {<<>>}]
          /\ depth \in [Sessions -> Nat]

ParseIp(domain) == IF domain \in DOMAIN IpOf THEN IpOf[domain] ELSE NoIp

-----------------------------------------------------------------------------
(* mod verify.                                                               *)

Find(s, c) == SelectInSeq(s, LAMBDA e : e = c)
From(s, i) == SubSeq(s, i, Len(s))
Stripped(s) == IF s # <<>> /\ Last(s) = "." THEN Front(s) ELSE s

\* A mutant: the suffix is looked for in the whole label, so that it may overlap
\* the prefix.
matches_wildcard_overlap(pattern, host, isIp) ==
    LET star == Find(pattern, "*")
        dot  == Find(pattern, ".")
        cut  == Find(host, ".")
        label == SubSeq(host, 1, cut - 1)
    IN  IF \/ isIp \/ (pattern # <<>> /\ pattern[1] = "x")
           \/ star = 0 \/ dot = 0 \/ Find(From(pattern, dot + 1), ".") = 0
           \/ star > dot \/ cut = 0
        THEN "none"
        ELSE IF /\ From(pattern, dot) = From(host, cut)
                /\ IsPrefix(SubSeq(pattern, 1, star - 1), label)
                /\ IsSuffix(SubSeq(pattern, star + 1, dot - 1), label)
             THEN "yes" ELSE "no"

\* Some(b) is "yes" or "no"; None leaves the verdict to plain equality.
matches_wildcard(pattern, host, isIp) ==
    LET star == Find(pattern, "*")
        dot  == Find(pattern, ".")
        cut  == Find(host, ".")
        prefix == SubSeq(pattern, 1, star - 1)
        suffix == SubSeq(pattern, star + 1, dot - 1)
        label  == SubSeq(host, 1, cut - 1)
    IN  IF \/ isIp \/ (pattern # <<>> /\ pattern[1] = "x")
           \/ star = 0 \/ dot = 0 \/ Find(From(pattern, dot + 1), ".") = 0
           \/ star > dot \/ cut = 0
        THEN "none"
        ELSE IF /\ From(pattern, dot) = From(host, cut)
                /\ IsPrefix(prefix, label)
                /\ IsSuffix(suffix, From(label, Len(prefix) + 1))
             THEN "yes" ELSE "no"

matches_dns(pattern, host, isIp) ==
    LET p == Stripped(pattern)
        h == Stripped(host)
        w == matches_wildcard(p, h, isIp)
    IN  IF w = "none" THEN p = h ELSE w = "yes"

\* Four octets for an IPv4 address, sixteen for an IPv6 one.
matches_ip(expected, actual) ==
    /\ actual.len = (IF expected.family = "v4" THEN 4 ELSE 16)
    /\ actual.octets = expected.octets

verify_subject_alt_names(domain, names) ==
    \E i \in DOMAIN names :
        IF ParseIp(domain) # NoIp
        THEN names[i].kind = "ip" /\ matches_ip(ParseIp(domain), names[i].value)
        ELSE names[i].kind = "dns" /\ matches_dns(names[i].value, domain, FALSE)

\* Only the first common name counts; one that is not UTF-8 matches nothing.
verify_subject_name(domain, cn) ==
    /\ cn # <<>>
    /\ cn[1].kind = "utf8"
    /\ matches_dns(cn[1].value, domain, ParseIp(domain) # NoIp)

verify_hostname(domain, cert) ==
    IF cert.san # NoSan THEN verify_subject_alt_names(domain, cert.san)
                        ELSE verify_subject_name(domain, cert.cn)

\* A mutant: every certificate of the chain has to name the host.
verify_callback_all(domain, preverify, error_depth, cert) ==
    IF ~preverify THEN preverify ELSE verify_hostname(domain, cert)

verify_callback(domain, preverify, error_depth, cert) ==
    IF ~preverify \/ error_depth # 0 THEN preverify
    ELSE cert # NoCert => verify_hostname(domain, cert)

\* The closure setup_verify keeps on the context: the host name of the
\* session it runs for, when that has one.
Verdict(s, preverify, cert) ==
    IF hostname[s] = NoHost THEN preverify
    ELSE verify_callback(hostname[s], preverify, depth[s], cert)

-----------------------------------------------------------------------------
(* ConnectConfiguration: set_hostname may be refused, and the configuration  *)
(* is consumed either way.                                                   *)

HostInit == /\ state = [s \in Sessions |-> "configured"]
        /\ asked = [s \in Sessions |-> NoHost]
        /\ hostname = [s \in Sessions |-> NoHost]
        /\ chain = [s \in Sessions |-> <<>>]
        /\ depth = [s \in Sessions |-> 0]

\* A mutant: the name is kept once for the connector.
setup_verify_hostname_shared(s, domain) == hostname' = [t \in Sessions |-> domain]

setup_verify_hostname(s, domain) == hostname' = [hostname EXCEPT ![s] = domain]

\* The peer's chain reaches the session; verification begins at its root end.
Handshake(s, chains) == \E c \in chains : /\ state' = [state EXCEPT ![s] = "verifying"]
                                          /\ chain' = [chain EXCEPT ![s] = c]
                                          /\ depth' = [depth EXCEPT ![s] = Len(c) - 1]

connect(s, domain, chains) ==
    /\ state[s] = "configured"
    /\ asked' = [asked EXCEPT ![s] = domain]
    /\ \/ /\ setup_verify_hostname(s, domain)
          /\ Handshake(s, chains)
       \/ /\ state' = [state EXCEPT ![s] = "failed"]
          /\ UNCHANGED <<hostname, chain, depth>>

danger_connect(s, chains) == /\ state[s] = "configured"
                             /\ Handshake(s, chains)
                             /\ UNCHANGED <<asked, hostname>>

\* OpenSSL's chain verification: from the root end to the leaf, and a refusal
\* ends the handshake, the mode being SSL_VERIFY_PEER.
Verify(s) ==
    /\ state[s] = "verifying"
    /\ LET cert == chain[s][depth[s] + 1]
       IN  IF ~ Verdict(s, cert.valid, cert)
           THEN state' = [state EXCEPT ![s] = "failed"] /\ UNCHANGED depth
           ELSE IF depth[s] > 0
                THEN depth' = [depth EXCEPT ![s] = @ - 1] /\ UNCHANGED state
                ELSE state' = [state EXCEPT ![s] = "connected"] /\ UNCHANGED depth
    /\ UNCHANGED <<asked, hostname, chain>>

\* One of the sessions, with callers and peers that use these hosts and chains.
Session(s, hosts, chains) ==
    \/ \E d \in hosts : connect(s, d, chains)
    \/ danger_connect(s, chains)
    \/ Verify(s)

HostNext == \E s \in Sessions : Session(s, Hosts, Chains)

HostSpec == HostInit /\ [][HostNext]_hostVars

-----------------------------------------------------------------------------
(* What a name covers, said by splitting it and not by the code's search:    *)
(* the pattern itself, or, when the pattern has at least three labels and a  *)
(* wildcard in its first, a host with the same remaining labels whose first  *)
(* label is the text before the wildcard, anything, and the text after it.   *)

Splits(s, c) == {i \in DOMAIN s : s[i] = c /\ \A j \in 1..(i - 1) : s[j] # c}

Covers(p, h, isIp) ==
    \/ p = h
    \/ /\ ~ isIp
       /\ \E star \in Splits(p, "*"), dot \in Splits(p, "."), cut \in Splits(h, ".") :
              /\ p[1] # "x"
              /\ star < dot
              /\ \E k \in (dot + 1)..Len(p) : p[k] = "."
              /\ SubSeq(p, dot, Len(p)) = SubSeq(h, cut, Len(h))
              /\ \E i \in 1..cut, j \in 0..(cut - 1) :
                     SubSeq(h, 1, cut - 1) = SubSeq(p, 1, star - 1) \o SubSeq(h, i, j)
                                             \o SubSeq(p, star + 1, dot - 1)

\* The certificate is one for the domain: by an alternative name if it has
\* any, of the domain's own kind, and by its common name otherwise.
IsFor(cert, domain) ==
    IF cert.san # NoSan
    THEN \E n \in ToSet(cert.san) :
             IF domain \in DOMAIN IpOf
             THEN /\ n.kind = "ip"
                  /\ n.value.octets = IpOf[domain].octets
                  /\ n.value.len = (IF IpOf[domain].family = "v4" THEN 4 ELSE 16)
             ELSE n.kind = "dns" /\ Covers(Stripped(n.value), Stripped(domain), FALSE)
    ELSE /\ cert.cn # <<>>
         /\ Head(cert.cn).kind = "utf8"
         /\ Covers(Stripped(Head(cert.cn).value), Stripped(domain), domain \in DOMAIN IpOf)

ChainValid(c) == \A i \in DOMAIN c : c[i].valid

\* A session whose caller named a domain is connected only to a peer with a
\* valid chain whose leaf is a certificate for that domain, whatever the other
\* sessions of the connector were asked for (connect, setup_verify).
ConnectedIsNamed ==
    \A s \in Sessions : state[s] = "connected" =>
        /\ ChainValid(chain[s])
        /\ asked[s] # NoHost => IsFor(chain[s][1], asked[s])

\* Nobody is turned away for another reason: a handshake with a valid chain
\* fails only when a domain was named and the leaf is not for it.
RefusedIsNotNamed ==
    \A s \in Sessions : (state[s] = "failed" /\ chain[s] # <<>> /\ ChainValid(chain[s])) =>
        (asked[s] # NoHost /\ ~ IsFor(chain[s][1], asked[s]))

\* Both: connected exactly to those the certificate names.
ConnectedIffNamed == ConnectedIsNamed /\ RefusedIsNotNamed
=============================================================================
