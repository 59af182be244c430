------------------------------ MODULE KeyTypes -------------------------------
(***************************************************************************)
(* The functions of pkey.rs, rsa.rs, dsa.rs, dh.rs and ec.rs as rows of    *)
(* ForeignType.  The numbers that one call of C takes over together (n, e  *)
(* and d of an RSA key, say) are one parameter.                            *)
(***************************************************************************)
EXTENDS ForeignType

ToPrivate == {"private_key_to_pem", "private_key_to_pem_passphrase", "private_key_to_der"}
ToPublic == {"public_key_to_pem", "public_key_to_der"}

\* private_key_from_pem! and public_key_from_pem!: with the passphrase, the
\* callback or nothing, a key is made from bytes.
FromPem == {"private_key_from_pem", "private_key_from_pem_passphrase",
            "private_key_from_pem_callback", "private_key_from_pem_cb", "public_key_from_pem"}
FromDer == {"private_key_from_der", "public_key_from_der"}
Decoded(kind) == Fn(FromPem \union FromDer, <<>>, <<New(kind)>>)

PKeyRef ==
  { Fn({"rsa"}, <<Ref("PKey")>>, <<Get(1, "Rsa", "sole", "own")>>),
    Fn({"dsa"}, <<Ref("PKey")>>, <<Get(1, "Dsa", "sole", "own")>>),
    Fn({"dh"}, <<Ref("PKey")>>, <<Get(1, "Dh", "sole", "own")>>),
    Fn({"ec_key"}, <<Ref("PKey")>>, <<Get(1, "EcKey", "sole", "own")>>),
    Data(ToPrivate \union ToPublic \union {"bits"}, <<Ref("PKey")>>),
    Data({"public_eq"}, <<Ref("PKey"), Ref("PKey")>>) }

\* EVP_PKEY_assign takes the key over when it succeeds.
Assign(kind, rust) ==
  Fn({"from_rsa", "from_dsa", "from_dh", "from_ec_key"}, <<Own(kind)>>,
     <<New("PKey"), Put(2, {1}, "take", "set", rust)>>)

\* Mutant of PKeyFromKey: the key is dropped after EVP_PKEY_assign.
PKeyFromKeyDropped == {Assign(kind, "keep") : kind \in {"Rsa", "Dsa", "Dh", "EcKey"}}

PKeyFromKey == {Assign(kind, "forget") : kind \in {"Rsa", "Dsa", "Dh", "EcKey"}}

PKeyDecode ==
  { Decoded("PKey"),
    Fn({"hmac", "private_key_from_pkcs8_callback", "private_key_from_pkcs8_passphrase"},
       <<>>, <<New("PKey")>>) }

\* EVP_PKEY_CTX_new and EVP_PKEY_derive_set_peer take references of their own.
PKeyCtx ==
  { Fn({"from_pkey"}, <<Ref("PKey")>>, <<New("PKeyCtx"), Sure(Put(2, {1}, "share", "add", "keep"))>>),
    Fn({"derive_set_peer"}, <<Mut("PKeyCtx"), Ref("PKey")>>, <<Put(1, {2}, "share", "add", "keep")>>),
    Data({"set_rsa_padding", "derive_init", "derive"}, <<Mut("PKeyCtx")>>),
    Data({"rsa_padding"}, <<Ref("PKeyCtx")>>) }

RsaRef ==
  { Data(ToPrivate \union ToPublic \union
         {"public_key_to_der_pkcs1", "size", "private_decrypt", "private_encrypt",
          "public_decrypt", "public_encrypt"}, <<Ref("Rsa")>>) }

RsaParts == { Fn({"n", "d", "e", "p", "q"}, <<Ref("Rsa")>>, <<Get(1, "BigNum", "part", "borrow")>>) }

\* Mutant of RsaFromComponents: the numbers are forgotten before the set calls.
RsaFromComponentsEarly ==
  { Fn({"from_private_components"}, <<Own("BigNum"), Own("BigNum"), Own("BigNum")>>,
       <<New("Rsa"), Put(4, {1}, "take", "add", "forget_first"),
         Put(4, {2}, "take", "add", "forget_first"), Put(4, {3}, "take", "add", "forget_first")>>) }

\* Each set call takes its numbers over; the ones that come after a failed call are
\* dropped, and those already taken are freed with the key.
RsaFromComponents ==
  { Fn({"from_public_components"}, <<Own("BigNum")>>,
       <<New("Rsa"), Put(2, {1}, "take", "add", "forget")>>),
    Fn({"from_private_components"}, <<Own("BigNum"), Own("BigNum"), Own("BigNum")>>,
       <<New("Rsa"), Put(4, {1}, "take", "add", "forget"),
         Put(4, {2}, "take", "add", "forget"), Put(4, {3}, "take", "add", "forget")>>) }

RsaDecode ==
  { Decoded("Rsa"), Fn({"public_key_from_der_pkcs1"}, <<>>, <<New("Rsa")>>),
    Fn({"generate"}, <<>>, <<New("Rsa"), Local("BigNum"), Put(1, {2}, "read", "set", "keep")>>) }

DsaRef ==
  { Data(ToPrivate \union ToPublic \union {"size", "has_public_key", "has_private_key"},
         <<Ref("Dsa")>>),
    Fn({"p", "q", "g"}, <<Ref("Dsa")>>, <<Get(1, "BigNum", "part", "borrow")>>) }

Dsa == { Decoded("Dsa"), Fn({"generate"}, <<>>, <<New("Dsa")>>) }

Dh ==
  { Data({"to_pem", "to_der"}, <<Ref("Dh")>>),
    Fn({"from_params"}, <<Own("BigNum")>>, <<New("Dh"), Put(2, {1}, "take", "add", "forget")>>),
    Fn({"from_pem", "from_der", "get_1024_160", "get_2048_224", "get_2048_256"},
       <<>>, <<New("Dh")>>) }

EcGroup ==
  { Fn({"from_curve_name"}, <<>>, <<New("EcGroup")>>),
    Data({"components_gfp", "components_gf2m", "order"}, <<Ref("EcGroup"), Mut("BigNum")>>),
    Data({"degree"}, <<Ref("EcGroup")>>),
    Data({"set_asn1_flag"}, <<Mut("EcGroup")>>) }

\* The contexts for intermediate numbers are left out.
EcPoint ==
  { Data({"add"}, <<Mut("EcPoint"), Ref("EcGroup"), Ref("EcPoint")>>),
    Data({"mul", "mul_full"}, <<Mut("EcPoint"), Ref("EcGroup"), Ref("EcPoint"), Ref("BigNum")>>),
    Data({"mul_generator"}, <<Mut("EcPoint"), Ref("EcGroup"), Ref("BigNum")>>),
    Data({"invert"}, <<Mut("EcPoint"), Ref("EcGroup")>>),
    Data({"to_bytes"}, <<Ref("EcPoint"), Ref("EcGroup")>>) }

EcPointValues ==
  { Data({"eq"}, <<Ref("EcPoint"), Ref("EcGroup"), Ref("EcPoint")>>),
    Data({"affine_coordinates_gfp", "affine_coordinates_gf2m"},
         <<Ref("EcPoint"), Ref("EcGroup"), Mut("BigNum")>>),
    Fn({"new", "from_bytes"}, <<Ref("EcGroup")>>, <<New("EcPoint")>>) }

\* Mutant of EcKeyRef: the group inside the key is shared with the caller.
EcKeyRefShared ==
  { Fn({"group"}, <<Ref("EcKey")>>, <<Get(1, "EcGroup", "up", "own")>>) }

EcKeyRef ==
  { Data({"private_key_to_pem", "private_key_to_pem_passphrase", "private_key_to_der", "check_key"},
         <<Ref("EcKey")>>),
    Fn({"group"}, <<Ref("EcKey")>>, <<Get(1, "EcGroup", "part", "borrow")>>),
    Fn({"public_key"}, <<Ref("EcKey")>>, <<Get(1, "EcPoint", "part", "borrow")>>),
    Fn({"private_key"}, <<Ref("EcKey")>>, <<Get(1, "BigNum", "part", "borrow")>>),
    Fn({"to_owned"}, <<Ref("EcKey")>>, <<New("EcKey")>>) }

\* from_public_key and generate go through a builder of their own.
EcKey ==
  { Fn({"from_curve_name", "new_by_curve_name"}, <<>>, <<New("EcKey")>>),
    Fn({"from_public_key"}, <<Ref("EcGroup"), Ref("EcPoint")>>,
       <<Local("EcKeyBuilder"), Put(3, {1}, "copy", "set", "keep"),
         Put(3, {2}, "copy", "set", "keep"), Wrap(3, "EcKey", "forget")>>),
    Fn({"generate"}, <<Ref("EcGroup")>>,
       <<Local("EcKeyBuilder"), Put(2, {1}, "copy", "set", "keep"), Wrap(2, "EcKey", "forget")>>),
    Fn({"private_key_from_pem", "private_key_from_pem_passphrase",
        "private_key_from_pem_callback", "private_key_from_der"}, <<>>, <<New("EcKey")>>) }

EcKeyBuilder ==
  { Fn({"new"}, <<>>, <<New("EcKeyBuilder")>>),
    Fn({"build"}, <<Own("EcKeyBuilder")>>, <<Wrap(1, "EcKey", "forget")>>),
    Fn({"set_group"}, <<Mut("EcKeyBuilder"), Ref("EcGroup")>>, <<Put(1, {2}, "copy", "set", "keep")>>),
    Fn({"set_public_key"}, <<Mut("EcKeyBuilder"), Ref("EcPoint")>>,
       <<Put(1, {2}, "copy", "set", "keep")>>),
    Fn({"set_private_key"}, <<Mut("EcKeyBuilder"), Ref("BigNum")>>,
       <<Put(1, {2}, "copy", "set", "keep")>>),
    Data({"set_public_key_affine_coordinates"}, <<Mut("EcKeyBuilder"), Ref("BigNum")>>),
    Data({"generate_key"}, <<Mut("EcKeyBuilder")>>) }

\* BigNum::new and the constructors of numbers from data.
BigNum == { Fn({"new", "from_u32", "from_dec_str", "from_hex_str", "from_slice"}, <<>>, <<New("BigNum")>>) }

KeyRows ==
  UNION {PKeyRef, PKeyFromKey, PKeyDecode, PKeyCtx, RsaRef, RsaParts, RsaFromComponents, RsaDecode,
         DsaRef, Dsa, Dh, EcGroup, EcPoint, EcPointValues, EcKeyRef, EcKey, EcKeyBuilder, BigNum}
=============================================================================
