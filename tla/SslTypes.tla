------------------------------ MODULE SslTypes -------------------------------
(***************************************************************************)
(* SslContextBuilder, SslContext, SslSession and Ssl of ssl/mod.rs as rows *)
(* of ForeignType, with the boxes (closures, protocol lists, extra data)   *)
(* that are given to C as raw pointers.  A box stays in a slot of its      *)
(* owner, which frees it when it is freed itself (free_data_box).  One     *)
(* slot of each kind stands for all.  An SslStream is an Ssl with a Bio.   *)
(***************************************************************************)
EXTENDS ForeignType

\* Box::new, then into_raw or transmute.  SSL_CTX_set_ex_data and SSL_set_ex_data
\* overwrite the slot without freeing what was there, or fail, which the callers do
\* not look at.
Kept(kind) ==
  <<Sure(Local(kind)), Sure(Leaky(Put(1, {2}, "take", "over", "forget"), {"old"}))>>
NotKept(kind) ==
  <<Sure(Local(kind)), Sure(Leaky(Put(1, {2}, "read", "add", "forget"), {"done"}))>>

\* The functions that store a box, and what they do afterwards.
SetBox(names, owner, kind, rest) ==
  {Fn(names, <<Mut(owner)>>, steps \o rest) : steps \in {Kept(kind), NotKept(kind)}}

\* A call of C that may fail and moves no reference.
Check == Put(1, {}, "read", "add", "keep")

\* C makes an object of its own, out of a file for instance, and keeps it.
Loads(kind) == <<Local(kind), Put(1, {2}, "share", "set", "keep")>>

-----------------------------------------------------------------------------
(***************************************************************************)
(* SslContextBuilder                                                       *)
(***************************************************************************)
Ctx == "SslContextBuilder"

CtxVerification ==
  { Fn({"new", "builder"}, <<>>, <<New(Ctx)>>),
    Data({"set_verify", "set_verify_depth"}, <<Mut(Ctx)>>),
    Fn({"set_verify_cert_store"}, <<Mut(Ctx), Own("X509Store")>>,
       <<Put(1, {2}, "take", "set", "forget")>>) }
  \union SetBox({"set_verify_callback", "set_servername_callback"}, Ctx, "Callback", <<>>)

CtxParameters ==
  { Data({"set_read_ahead", "set_mode", "set_default_verify_paths", "set_ca_file"}, <<Mut(Ctx)>>),
    Fn({"set_tmp_dh"}, <<Mut(Ctx), Ref("Dh")>>, <<Put(1, {2}, "copy", "set", "keep")>>),
    Data({"set_tmp_ecdh"}, <<Mut(Ctx)>>) }
  \union SetBox({"set_tmp_dh_callback", "set_tmp_ecdh_callback"}, Ctx, "Callback", <<>>)

CtxIdentity ==
  { Fn({"set_client_ca_list"}, <<Mut(Ctx), Own("X509Names")>>,
       <<Sure(Put(1, {2}, "take", "set", "forget"))>>),
    Data({"set_session_id_context"}, <<Mut(Ctx)>>),
    Fn({"set_certificate_file", "set_certificate_chain_file"}, <<Mut(Ctx)>>, Loads("X509")),
    Fn({"set_certificate"}, <<Mut(Ctx), Ref("X509")>>, <<Put(1, {2}, "share", "set", "keep")>>),
    Fn({"add_extra_chain_cert"}, <<Mut(Ctx), Own("X509")>>,
       <<Sure(Get(1, "X509s", "part", "none")), Put(3, {2}, "take", "add", "forget")>>),
    Fn({"set_private_key_file"}, <<Mut(Ctx)>>, Loads("PKey")),
    Fn({"set_private_key"}, <<Mut(Ctx), Ref("PKey")>>, <<Put(1, {2}, "share", "set", "keep")>>) }

\* set_npn_protocols and set_alpn_protocols give up their box before the call that
\* may fail.
SetProtocols == Leaky(Put(1, {2}, "take", "over", "forget_first"), {"old", "failed"})

CtxProtocols ==
  { Data({"set_cipher_list", "set_ecdh_auto", "set_options", "clear_options"}, <<Mut(Ctx)>>),
    Data({"options"}, <<Ref(Ctx)>>),
    Fn({"set_npn_protocols"}, <<Mut(Ctx)>>,
       <<Sure(Local("Protocols")), SetProtocols>>),
    Fn({"set_alpn_protocols"}, <<Mut(Ctx)>>,
       <<Sure(Local("Protocols")), Check, SetProtocols>>) }

CtxBuild ==
  { Data({"check_private_key"}, <<Ref(Ctx)>>),
    Fn({"cert_store"}, <<Ref(Ctx)>>, <<Sure(Get(1, "X509StoreBuilder", "part", "borrow"))>>),
    Fn({"cert_store_mut"}, <<Mut(Ctx)>>, <<Sure(Get(1, "X509StoreBuilder", "part", "mut"))>>),
    Fn({"build"}, <<Own(Ctx)>>, <<Wrap(1, "SslContext", "forget")>>) }
  \union SetBox({"set_status_callback"}, Ctx, "Callback", <<Check>>)
  \union SetBox({"set_psk_callback"}, Ctx, "Callback", <<>>)
  \union SetBox({"set_ex_data"}, Ctx, "ExData", <<>>)

\* The store of a context is the one its builder had.
SslContext ==
  { Fn({"clone"}, <<Ref("SslContext")>>, <<Sure(Get(1, "SslContext", "self", "own"))>>),
    Fn({"certificate"}, <<Ref("SslContext")>>, <<Get(1, "X509", "held", "borrow")>>),
    Fn({"private_key"}, <<Ref("SslContext")>>, <<Get(1, "PKey", "held", "borrow")>>),
    Fn({"cert_store"}, <<Ref("SslContext")>>,
       <<Sure(Get(1, "X509StoreBuilder", "part", "borrow"))>>),
    Fn({"extra_chain_certs"}, <<Ref("SslContext")>>, <<Sure(Get(1, "X509s", "part", "borrow"))>>),
    Fn({"ex_data"}, <<Ref("SslContext")>>, <<Get(1, "ExData", "held", "borrow")>>) }

-----------------------------------------------------------------------------
(***************************************************************************)
(* SslSession, Ssl                                                         *)
(***************************************************************************)

SslSession ==
  { Fn({"to_owned", "clone"}, <<Ref("SslSession")>>, <<Sure(Get(1, "SslSession", "self", "own"))>>),
    Data({"id", "master_key_len", "master_key"}, <<Ref("SslSession")>>) }

SslCipherRef == { Data({"name", "version", "bits", "description"}, <<Ref("SslCipher")>>) }

\* An Ssl holds its context; new_base hands its Bio over.
SslNew ==
  { Fn({"new"}, <<Ref("SslContext")>>,
       <<New("Ssl"), Sure(Put(2, {1}, "share", "set", "keep"))>>),
    Fn({"connect", "accept"}, <<Own("Ssl")>>,
       <<Local("Bio"), Sure(Put(1, {2}, "take", "set", "forget")), Wrap(1, "Ssl", "forget")>>) }

SslHandshake ==
  { Data({"read", "write", "set_verify", "set_ecdh_auto"}, <<Mut("Ssl")>>),
    Data({"get_raw_rbio", "get_error", "fmt"}, <<Ref("Ssl")>>),
    Fn({"set_tmp_dh"}, <<Mut("Ssl"), Ref("Dh")>>, <<Put(1, {2}, "copy", "set", "keep")>>),
    Data({"set_tmp_ecdh"}, <<Mut("Ssl")>>) }
  \union SetBox({"set_verify_callback", "set_tmp_dh_callback", "set_tmp_ecdh_callback"},
                "Ssl", "Callback", <<>>)

\* The certificate and the key are those of the context; the peer's certificate
\* belongs to the session.
SslPeer ==
  { Fn({"current_cipher"}, <<Ref("Ssl")>>, <<Get(1, "SslCipher", "part", "borrow")>>),
    Data({"state_string", "state_string_long", "version"}, <<Ref("Ssl")>>),
    Data({"set_hostname"}, <<Mut("Ssl")>>),
    Fn({"peer_certificate"}, <<Ref("Ssl")>>,
       <<Get(1, "SslSession", "part", "none"), Get(2, "X509", "up", "own")>>),
    Fn({"peer_cert_chain"}, <<Ref("Ssl")>>, <<Get(1, "X509s", "part", "borrow")>>),
    Fn({"certificate"}, <<Ref("Ssl")>>,
       <<Sure(Get(1, "SslContext", "held", "none")), Get(2, "X509", "held", "borrow")>>),
    Fn({"private_key"}, <<Ref("Ssl")>>,
       <<Sure(Get(1, "SslContext", "held", "none")), Get(2, "PKey", "held", "borrow")>>) }

SslContextOfSsl ==
  { Data({"selected_npn_protocol", "selected_alpn_protocol", "pending", "compression",
          "servername", "verify_result"}, <<Ref("Ssl")>>),
    Fn({"set_ssl_context"}, <<Mut("Ssl"), Ref("SslContext")>>,
       <<Put(1, {2}, "share", "set", "keep")>>),
    Fn({"ssl_context"}, <<Ref("Ssl")>>, <<Sure(Get(1, "SslContext", "held", "borrow"))>>),
    Fn({"param_mut"}, <<Mut("Ssl")>>, <<Sure(Get(1, "X509VerifyParam", "part", "mut"))>>) }

\* set_ocsp_status copies the response into a buffer for C, which nobody frees when
\* the call fails.
SslSessionOfSsl ==
  { Fn({"session"}, <<Ref("Ssl")>>, <<Get(1, "SslSession", "part", "borrow")>>),
    Fn({"set_session"}, <<Mut("Ssl"), Ref("SslSession")>>, <<Put(1, {2}, "share", "set", "keep")>>),
    Data({"session_reused", "ocsp_status", "is_server"}, <<Ref("Ssl")>>),
    Data({"set_status_type"}, <<Mut("Ssl")>>),
    Fn({"set_ocsp_status"}, <<Mut("Ssl")>>,
       <<Local("OcspBytes"), Leaky(Put(1, {2}, "take", "set", "forget_first"), {"failed"})>>),
    Fn({"ex_data"}, <<Ref("Ssl")>>, <<Get(1, "ExData", "held", "borrow")>>) }
  \union SetBox({"set_ex_data"}, "Ssl", "ExData", <<>>)

X509VerifyParamRef == { Data({"set_hostflags", "set_host", "set_ip"}, <<Mut("X509VerifyParam")>>) }

\* raw_verify and ssl_raw_verify lend the context of the verification to the closure.
X509StoreContextRef ==
  { Fn({"raw_verify", "ssl_raw_verify"}, <<Mut("Ssl")>>,
       <<Sure(Get(1, "X509StoreContext", "part", "borrow"))>>),
    Data({"error", "error_depth"}, <<Ref("X509StoreContext")>>),
    Fn({"current_cert"}, <<Ref("X509StoreContext")>>, <<Get(1, "X509", "part", "borrow")>>),
    Fn({"chain"}, <<Ref("X509StoreContext")>>, <<Get(1, "X509s", "part", "borrow")>>),
    Fn({"ssl"}, <<Ref("X509StoreContext")>>, <<Get(1, "Ssl", "whole", "borrow")>>) }

-----------------------------------------------------------------------------
\* The objects that come from elsewhere.
Others ==
  { Fn({"from_pem"}, <<>>, <<New("X509")>>), Fn({"to_owned"}, <<Ref("X509")>>, <<Sure(Get(1, "X509", "self", "own"))>>),
    Fn({"from_pem"}, <<>>, <<New("PKey")>>),
    Fn({"build"}, <<>>, <<New("X509Store")>>), Fn({"load_client_ca_file"}, <<>>, <<New("X509Names")>>),
    Fn({"from_pem"}, <<>>, <<New("Dh")>>),
    Fn({"add_cert"}, <<Mut("X509StoreBuilder"), Own("X509")>>,
       <<Leaky(Put(1, {2}, "share", "add", "forget_first"), {"done", "failed"})>>),
    Fn({"get"}, <<Ref("X509s")>>, <<Get(1, "X509", "held", "borrow")>>) }

CtxRows ==
  UNION {CtxVerification, CtxParameters, CtxIdentity, CtxProtocols, CtxBuild, SslContext, Others}

SslRows ==
  UNION {{Fn({"builder"}, <<>>, <<New(Ctx)>>)}, CtxBuild, SslContext, SslSession, SslCipherRef,
         SslNew, SslHandshake, SslPeer, SslContextOfSsl, SslSessionOfSsl, X509VerifyParamRef,
         X509StoreContextRef}
=============================================================================
