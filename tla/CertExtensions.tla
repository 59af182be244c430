--------------------------- MODULE CertExtensions ---------------------------
(* The X509Generator of rust-openssl (x509/mod.rs) and its collection of     *)
(* extensions: a vector and a map from extension types to indexes of the     *)
(* vector, filled by add and read by sign, which may be called again after   *)
(* more was added.                                                           *)
EXTENDS Naturals, Sequences

CONSTANTS Exts,        \* extensions a caller adds: [type, value]
          Attrs,       \* name entries a caller adds
          Default,     \* the entry CN=rust-openssl
          MaxAdds,     \* bound: calls of add_extension and add_name
          NoCert

VARIABLES extensions,  \* Vec<Extension>
          indexes,     \* HashMap<ExtensionType, usize>
          names,       \* Vec<(String, String)>
          cert,        \* what the last call of sign returned
          asked        \* what the caller has added so far, in order: extensions and names

certVars == <<extensions, indexes, names, cert, asked>>

(* The object an extension type names.  get_nid of a typed or OtherNid       *)
(* extension, or OpenSSL's reading of the name of an OtherStr one.           *)
Object(type) == type.object

-----------------------------------------------------------------------------
CertInit == /\ extensions = <<>>
            /\ indexes = <<>>
            /\ names = <<>>
            /\ cert = NoCert
            /\ asked = [exts |-> <<>>, names |-> <<>>]

Adds == Len(asked.exts) + Len(asked.names)

\* A mutant: the index is taken after the push.
InsertedAt_len(exts) == Len(exts) + 1

\* Where push puts the extension.
InsertedAt(exts) == Len(exts)

add_extension(ext) ==
    /\ Adds < MaxAdds
    /\ asked' = [asked EXCEPT !.exts = Append(@, ext)]
    /\ IF ext.type \in DOMAIN indexes
       THEN /\ extensions' = [extensions EXCEPT ![indexes[ext.type]] = ext]
            /\ UNCHANGED indexes
       ELSE /\ extensions' = Append(extensions, ext)
            /\ indexes' = [t \in DOMAIN indexes \cup {ext.type} |->
                              IF t = ext.type THEN InsertedAt(extensions') ELSE indexes[t]]
    /\ UNCHANGED <<names, cert>>

add_name(attr) ==
    /\ Adds < MaxAdds
    /\ asked' = [asked EXCEPT !.names = Append(@, attr)]
    /\ names' = Append(names, attr)
    /\ UNCHANGED <<extensions, indexes, cert>>

\* ExtensionsIter walks the vector; X509_add_ext appends.
iter(exts) == [i \in DOMAIN exts |-> [object |-> Object(exts[i].type), value |-> exts[i].value]]

\* Any call of OpenSSL on the way may fail: the half-made certificate is dropped.
sign ==
    /\ \/ cert' = [names |-> IF names = <<>> THEN <<Default>> ELSE names,
                   extensions |-> iter(extensions), asked |-> asked]
       \/ cert' = NoCert
    /\ UNCHANGED <<extensions, indexes, names, asked>>

CertNext == \/ \E e \in Exts : add_extension(e)
            \/ \E a \in Attrs : add_name(a)
            \/ sign

CertSpec == CertInit /\ [][CertNext]_certVars

-----------------------------------------------------------------------------
\* The types that a history of adds names, and the first and the last add of one.
TypesIn(h) == {h[i].type : i \in DOMAIN h}
FirstAdd(h, t) == CHOOSE i \in DOMAIN h : h[i].type = t /\ \A j \in 1..(i - 1) : h[j].type # t
LastAdd(h, t) == CHOOSE i \in DOMAIN h : h[i].type = t /\ \A j \in (i + 1)..Len(h) : h[j].type # t

\* A certificate c carries one extension for each ExtensionType added, with the value
\* added last, in the order in which the types were first added, and the names in their order.
AsAsked(c) ==
    LET h == c.asked.exts
    IN  /\ \E order \in [1..Len(c.extensions) -> TypesIn(h)] :
               /\ \A t \in TypesIn(h) : \E i \in DOMAIN order : order[i] = t
               /\ \A i, j \in DOMAIN order : i < j => FirstAdd(h, order[i]) < FirstAdd(h, order[j])
               /\ \A i \in DOMAIN order :
                      c.extensions[i] = [object |-> Object(order[i]),
                                         value |-> h[LastAdd(h, order[i])].value]
        /\ c.names = IF c.asked.names = <<>> THEN <<Default>> ELSE c.asked.names

\* However adds and signatures alternate, a certificate is as it was asked for when it
\* was signed (Extensions::add, ExtensionsIter::next, X509Generator::sign).  This is
\* one extension for each ExtensionType, the key of the map, and says nothing of two
\* types that name one object: see OneOfEachExtension.
SignedAsAsked == cert # NoCert => AsAsked(cert)

-----------------------------------------------------------------------------
\* Stated by the comment on Extensions and violated: "Upholds the invariant that a
\* certificate MUST NOT include more than one instance of a particular extension".
\* No object has two extensions in a signed certificate.
OneOfEachExtension ==
    cert # NoCert => \A i, j \in DOMAIN cert.extensions :
        i # j => cert.extensions[i].object # cert.extensions[j].object
=============================================================================
