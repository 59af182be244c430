------------------------------ MODULE X509Types ------------------------------
(***************************************************************************)
(* The functions of x509/mod.rs, x509/store.rs, asn1.rs, stack.rs,         *)
(* string.rs, pkcs12.rs, ocsp.rs and cms.rs as rows of ForeignType.        *)
(*                                                                         *)
(* A builder that wraps the type it builds (X509Builder and so on) and the *)
(* Rust structures that own a stack (Pkcs12Builder, IntoIter) are kinds of *)
(* objects too.  A stack that C makes has one element or none.             *)
(***************************************************************************)
EXTENDS ForeignType

\* C returns a stack, as the n-th object of the function.
Returned(n, stack, elem) ==
  <<New(stack), Local(elem), Sure(Put(n, {n + 1}, "take", "add", "forget"))>>

-----------------------------------------------------------------------------
(***************************************************************************)
(* Stacks (stack.rs).  A dropped stack pops and drops its elements: they   *)
(* are its parts.                                                          *)
(***************************************************************************)

StackRef(stack, elem) ==
  { Data({"len"}, <<Ref(stack)>>),
    Fn({"get", "index", "iter"}, <<Ref(stack)>>, <<Get(1, elem, "held", "borrow")>>),
    Fn({"get_mut", "index_mut", "iter_mut"}, <<Mut(stack)>>, <<Get(1, elem, "held", "mut")>>),
    Fn({"push"}, <<Mut(stack), Own(elem)>>, <<Put(1, {2}, "take", "add", "forget")>>),
    Fn({"pop"}, <<Mut(stack)>>, <<Get(1, elem, "out", "own")>>) }

\* The iterator owns the elements it has not given out.
StackIntoIter(stack, elem, iter) ==
  { Fn({"into_iter"}, <<Own(stack)>>, <<Wrap(1, iter, "forget")>>),
    Fn({"next"}, <<Mut(iter)>>, <<Get(1, elem, "out", "own")>>),
    Data({"size_hint"}, <<Ref(iter)>>) }

Stack(stack, elem, iter) ==
  {Fn({"new"}, <<>>, <<New(stack)>>)} \union StackRef(stack, elem)
    \union StackIntoIter(stack, elem, iter)

-----------------------------------------------------------------------------
(***************************************************************************)
(* Values (asn1.rs, string.rs)                                             *)
(***************************************************************************)

Asn1Time ==
  { Fn({"days_from_now"}, <<>>, <<New("Asn1Time")>>),
    Data({"fmt"}, <<Ref("Asn1Time")>>) }

Asn1StringRef ==
  { Fn({"as_utf8"}, <<Ref("Asn1String")>>, <<New("OpensslString")>>),
    Data({"as_slice", "len"}, <<Ref("Asn1String")>>) }

\* BigNumRef::to_asn1_integer makes one.
Asn1IntegerRef ==
  { Fn({"to_asn1_integer"}, <<>>, <<New("Asn1Integer")>>),
    Data({"get"}, <<Ref("Asn1Integer")>>), Data({"set"}, <<Mut("Asn1Integer")>>) }

Asn1BitStringRef == { Data({"as_slice", "len"}, <<Ref("Asn1BitString")>>) }
Asn1ObjectRef == { Data({"nid", "fmt"}, <<Ref("Asn1Object")>>) }
OpensslStringRef == { Data({"deref", "fmt"}, <<Ref("OpensslString")>>) }
GeneralNameRef == { Data({"dnsname", "ipaddress"}, <<Ref("GeneralName")>>) }
X509AlgorithmRef ==
  { Fn({"object"}, <<Ref("X509Algorithm")>>, <<Get(1, "Asn1Object", "part", "borrow")>>) }

-----------------------------------------------------------------------------
(***************************************************************************)
(* Names                                                                   *)
(***************************************************************************)

X509NameBuilder ==
  { Fn({"new", "builder"}, <<>>, <<New("X509NameBuilder")>>),
    Data({"append_entry_by_text", "append_entry_by_nid"}, <<Mut("X509NameBuilder")>>),
    Fn({"build"}, <<Own("X509NameBuilder")>>, <<Wrap(1, "X509Name", "forget")>>) }

X509Name ==
  { Fn({"load_client_ca_file"}, <<>>, Returned(1, "X509Names", "X509Name")),
    Fn({"entries_by_nid", "next"}, <<Ref("X509Name")>>, <<Get(1, "X509NameEntry", "part", "borrow")>>) }

X509NameEntryRef ==
  { Fn({"data"}, <<Ref("X509NameEntry")>>, <<Get(1, "Asn1String", "part", "borrow")>>) }

-----------------------------------------------------------------------------
(***************************************************************************)
(* Certificates                                                            *)
(***************************************************************************)

\* The setters copy what they are given, the public key is shared.  The context for
\* extensions borrows the builder.
X509Builder ==
  { Fn({"new", "builder"}, <<>>, <<New("X509Builder")>>),
    Fn({"set_not_after", "set_not_before"}, <<Mut("X509Builder"), Ref("Asn1Time")>>,
       <<Put(1, {2}, "copy", "set", "keep")>>),
    Fn({"set_serial_number"}, <<Mut("X509Builder"), Ref("Asn1Integer")>>,
       <<Put(1, {2}, "copy", "set", "keep")>>),
    Fn({"set_issuer_name", "set_subject_name"}, <<Mut("X509Builder"), Ref("X509Name")>>,
       <<Put(1, {2}, "copy", "set", "keep")>>),
    Data({"set_version"}, <<Mut("X509Builder")>>),
    Fn({"set_pubkey"}, <<Mut("X509Builder"), Ref("PKey")>>,
       <<Put(1, {2}, "share", "set", "keep")>>) }

\* X509_add_ext appends a copy, and append_extension forgets the extension it copied.
AppendExtension(n, k) == Leaky(Put(n, {k}, "read", "add", "forget"), {"done"})

X509BuilderFinish ==
  { Fn({"x509v3_context"}, <<Ref("X509Builder")>>, <<Sure(Get(1, "X509Builder", "here", "borrow"))>>),
    Fn({"append_extension"}, <<Mut("X509Builder"), Own("X509Extension")>>,
       <<AppendExtension(1, 2)>>),
    Data({"sign"}, <<Mut("X509Builder"), Ref("PKey")>>),
    Fn({"build"}, <<Own("X509Builder")>>, <<Wrap(1, "X509", "forget")>>) }

\* sign builds a certificate out of temporaries and appends extensions; request signs
\* one and makes a request of it.
X509Generator ==
  { Fn({"sign"}, <<Ref("PKey")>>,
       <<Local("X509Builder"), Put(2, {1}, "share", "set", "keep"), Local("X509Extension"),
         AppendExtension(2, 3), Wrap(2, "X509", "forget")>>),
    Fn({"request"}, <<Ref("PKey")>>, <<Local("X509"), New("X509Req")>>) }

X509Ref ==
  { Fn({"subject_name"}, <<Ref("X509")>>, <<Sure(Get(1, "X509Name", "part", "borrow"))>>),
    Fn({"subject_alt_names"}, <<Ref("X509")>>, Returned(2, "GeneralNames", "GeneralName")),
    Fn({"public_key"}, <<Ref("X509")>>, <<Get(1, "PKey", "up", "own")>>),
    Fn({"not_after", "not_before"}, <<Ref("X509")>>, <<Sure(Get(1, "Asn1Time", "part", "borrow"))>>),
    Fn({"signature"}, <<Ref("X509")>>, <<Sure(Get(1, "Asn1BitString", "part", "borrow"))>>),
    Fn({"signature_algorithm"}, <<Ref("X509")>>, <<Sure(Get(1, "X509Algorithm", "part", "borrow"))>>),
    Fn({"ocsp_responders"}, <<Ref("X509")>>, Returned(2, "OpensslStrings", "OpensslString")),
    Data({"issued"}, <<Ref("X509"), Ref("X509")>>),
    Data({"fingerprint", "to_pem", "to_der"}, <<Ref("X509")>>) }

\* stack_from_pem gives a vector of them.
X509 ==
  { Fn({"to_owned", "clone"}, <<Ref("X509")>>, <<Sure(Get(1, "X509", "self", "own"))>>),
    Fn({"from_pem", "from_der"}, <<>>, <<New("X509")>>),
    Fn({"stack_from_pem"}, <<>>, <<New("X509"), New("X509")>>) }

\* With the context that borrowed a certificate, a request or nothing.
X509Extension == { Fn({"new", "new_nid"}, <<>>, <<New("X509Extension")>>) }

X509ReqBuilder ==
  { Fn({"new", "builder"}, <<>>, <<New("X509ReqBuilder")>>),
    Data({"set_version"}, <<Mut("X509ReqBuilder")>>),
    Fn({"set_subject_name"}, <<Mut("X509ReqBuilder"), Ref("X509Name")>>,
       <<Put(1, {2}, "copy", "set", "keep")>>),
    Fn({"set_pubkey"}, <<Mut("X509ReqBuilder"), Ref("PKey")>>, <<Put(1, {2}, "share", "set", "keep")>>),
    Fn({"x509v3_context"}, <<Ref("X509ReqBuilder")>>,
       <<Sure(Get(1, "X509ReqBuilder", "here", "borrow"))>>),
    Fn({"add_extensions"}, <<Mut("X509ReqBuilder"), Ref("X509Extensions")>>,
       <<Put(1, {2}, "read", "add", "keep")>>),
    Data({"sign"}, <<Mut("X509ReqBuilder"), Ref("PKey")>>),
    Fn({"build"}, <<Own("X509ReqBuilder")>>, <<Wrap(1, "X509Req", "forget")>>) }

X509Req ==
  { Fn({"from_pem", "from_der"}, <<>>, <<New("X509Req")>>),
    Data({"to_pem", "to_der", "version"}, <<Ref("X509Req")>>),
    Fn({"subject_name"}, <<Ref("X509Req")>>, <<Sure(Get(1, "X509Name", "part", "borrow"))>>),
    Fn({"public_key"}, <<Ref("X509Req")>>, <<Get(1, "PKey", "up", "own")>>) }

-----------------------------------------------------------------------------
(***************************************************************************)
(* Stores and archives                                                     *)
(***************************************************************************)

\* X509_STORE_add_cert takes a reference of its own, and none when it fails; add_cert
\* has forgotten the caller's before.
X509StoreBuilder ==
  { Fn({"new"}, <<>>, <<New("X509StoreBuilder")>>),
    Fn({"add_cert"}, <<Mut("X509StoreBuilder"), Own("X509")>>,
       <<Leaky(Put(1, {2}, "share", "add", "forget_first"), {"done", "failed"})>>),
    Data({"set_default_paths"}, <<Mut("X509StoreBuilder")>>),
    Fn({"build"}, <<Own("X509StoreBuilder")>>, <<Wrap(1, "X509Store", "forget")>>) }

\* PKCS12_parse returns a key, a certificate and a chain, for which an empty stack
\* stands in if there is none.
Pkcs12 ==
  { Fn({"from_der"}, <<>>, <<New("Pkcs12")>>),
    Fn({"parse"}, <<Ref("Pkcs12")>>, <<New("PKey"), Sure(New("X509")), New("X509s")>>),
    Data({"to_der"}, <<Ref("Pkcs12")>>) }

\* The builder owns the additional certificates and drops them when it has built.
Pkcs12Builder ==
  { Fn({"builder"}, <<>>, <<Sure(New("Pkcs12Builder"))>>),
    Data({"key_algorithm", "cert_algorithm", "key_iter", "mac_iter"}, <<Mut("Pkcs12Builder")>>),
    Fn({"ca"}, <<Mut("Pkcs12Builder"), Own("X509s")>>, <<Sure(Put(1, {2}, "take", "set", "forget"))>>),
    Fn({"build"}, <<Own("Pkcs12Builder"), Ref("PKey"), Ref("X509")>>, <<New("Pkcs12")>>) }

CmsContentInfo ==
  { Fn({"smime_read_cms"}, <<>>, <<New("CmsContentInfo")>>),
    Data({"decrypt"}, <<Ref("CmsContentInfo"), Ref("PKey"), Ref("X509")>>) }

\* find_status lends the times inside the response.
OcspBasicResponse ==
  { Data({"verify"}, <<Ref("OcspBasicResponse"), Ref("X509s"), Ref("X509Store")>>),
    Fn({"find_status"}, <<Ref("OcspBasicResponse"), Ref("OcspCertId")>>,
       <<Get(1, "Asn1GeneralizedTime", "part", "borrow")>>),
    Data({"check_validity", "fmt"}, <<Ref("Asn1GeneralizedTime")>>) }

OcspCertId == { Fn({"from_cert"}, <<Ref("X509"), Ref("X509")>>, <<New("OcspCertId")>>) }

OcspResponse ==
  { Fn({"create"}, <<Ref("OcspBasicResponse")>>, <<New("OcspResponse")>>),
    Fn({"create", "from_der"}, <<>>, <<New("OcspResponse")>>),
    Data({"to_der", "status"}, <<Ref("OcspResponse")>>),
    Fn({"basic"}, <<Ref("OcspResponse")>>, <<New("OcspBasicResponse")>>) }

\* add_id hands the id over and lends the entry that was made of it.
OcspRequest ==
  { Fn({"new", "from_der"}, <<>>, <<New("OcspRequest")>>),
    Data({"to_der"}, <<Ref("OcspRequest")>>),
    Fn({"add_id"}, <<Mut("OcspRequest"), Own("OcspCertId")>>,
       <<Put(1, {2}, "take", "add", "forget"), Sure(Get(1, "OcspOneReq", "part", "mut"))>>) }

-----------------------------------------------------------------------------
\* A key from anywhere, for the rows that need one.
SomeKey == Fn({"generate"}, <<>>, <<New("PKey")>>)

\* Building and reading a certificate or a request.
CertificateRows ==
  UNION {{SomeKey}, Asn1Time, Asn1StringRef, Asn1IntegerRef, Asn1BitStringRef, Asn1ObjectRef,
         OpensslStringRef, GeneralNameRef, X509AlgorithmRef, X509NameBuilder, X509Name,
         X509NameEntryRef, X509Builder, X509BuilderFinish, X509Generator, X509Ref, X509,
         X509Extension, X509ReqBuilder, X509Req, StackRef("GeneralNames", "GeneralName"),
         StackRef("OpensslStrings", "OpensslString"), StackRef("X509Names", "X509Name"),
         StackRef("X509Extensions", "X509Extension"),
         {Fn({"new"}, <<>>, <<New("X509Extensions")>>)}}

\* Collections of certificates.
CollectionRows ==
  UNION {{SomeKey}, X509, Stack("X509s", "X509", "IntoIter"), X509StoreBuilder, Pkcs12,
         Pkcs12Builder, CmsContentInfo}

OcspRows ==
  UNION {{Fn({"from_pem"}, <<>>, <<New("X509")>>), Fn({"new"}, <<>>, <<New("X509Store")>>)},
         OcspBasicResponse, OcspCertId, OcspResponse, OcspRequest,
         {Fn({"new"}, <<>>, <<New("X509s")>>)}}
=============================================================================
