------------------------------ MODULE Authority ------------------------------
(***************************************************************************)
(* The certificate authority of the tolla server (tolla/src/ca.rs).        *)
(*                                                                         *)
(* Its key pair lives only in memory: every start of the server generates  *)
(* a new one, so a key pair is identified by the number of that start, ca. *)
(* A certificate for a tenant's store is identified by the order in which  *)
(* it was issued and carries a random u32 serial number; the serial number *)
(* is later stored as an i32 and looked up again as a u32, so the width of *)
(* the integers matters and is kept: HalfRange stands for 2^31.            *)
(***************************************************************************)
EXTENDS Integers, Sequences

CONSTANTS
  HalfRange,   \* 2^31 in the code: u32 is 0 .. 2*HalfRange-1
  Uuids,       \* the subject key identifiers Uuid::new_v4 can return
  Purposes,    \* purposes and intents: the same strings, compared by contains
  DistinctSerials,  \* assumption: random serial numbers never repeat, nor are 0
  MaxIssues,   \* bound: tenant certificates issued in a behaviour
  MaxBuilds    \* bound: starts of the server in a behaviour

ASSUME HalfRangeAssumption == HalfRange \in Nat \ {0}
ASSUME DistinctSerialsAssumption == DistinctSerials \in BOOLEAN
ASSUME BoundsAssumption == MaxIssues \in Nat /\ MaxBuilds \in Nat \ {0}

VARIABLES
  ca,      \* which key pair the authority holds: the number of this start
  issued   \* the serial numbers of the tenant certificates issued so far

authorityVars == <<ca, issued>>

Serials == 0 .. (2 * HalfRange - 1)

\* Mutants of AsI32: the cast forgotten, and the sign bit masked off.
AsI32Forgotten(s) == s
AsI32Masked(s) == s % HalfRange

\* `serial_number as i32`: the two's-complement reading of a u32.
AsI32(s) == IF s < HalfRange THEN s ELSE s - 2 * HalfRange

\* A tenant's certificate (or its private key): the n-th one issued.
Issue == [n: Nat, serial: Serials, ca: Nat]

\* The content of a file that is missing or was truncated and not rewritten.
NoIssue == [n |-> 0, serial |-> 0, ca |-> 0]

\* A process's identity certificate: the subject key identifier and the
\* intent it is bound to, signed with key pair ca.
Cert == [id: Uuids, intent: Purposes, ca: Nat]
NoCert == [ca |-> 0]

\* What X509Req::from_pem and subject_name can make of a request: a complete
\* one, one whose subject lacks a required entry, one that is not a PEM request.
Csrs == {"complete", "incomplete", "unreadable"}

AuthorityInit == ca = 1 /\ issued = << >>

\* Authority::new: a fresh RSA key pair and a self-signed root certificate.
NewAuthority == ca' = ca + 1 /\ UNCHANGED issued

\* The serial numbers rand::random::<u32>() can return.  DistinctSerials rules out
\* what one draw in 2^32 does: a serial number that is on a certificate already, or
\* the 0 that consents without a certificate carry.
RandomSerial ==
  {s \in Serials :
     DistinctSerials => s # 0 /\ \A k \in 1 .. Len(issued) : issued[k] # s}

\* create_db_certificate with the random serial number s: the key pair and the
\* certificate, signed with the authority's key.
CreateDbCertificate(s) == [n |-> Len(issued) + 1, serial |-> s, ca |-> ca]

\* sign_certificate for a complete request, with the fresh identifier id.
SignCertificate(id, intent) == [id |-> id, intent |-> intent, ca |-> ca]
=============================================================================
