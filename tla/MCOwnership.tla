---------------------------- MODULE MCOwnership ------------------------------
(* The groups of functions that TLC explores, each with its bound. *)
EXTENDS KeyTypes, X509Types, SslTypes

\* Functions that do the same with their objects are called as one.
Alike(rows) == {[params |-> row.params, steps |-> row.steps] : row \in rows}

\* TLC evaluates these once, unlike what a configuration substitutes for a constant.
AllGroups ==
  [ keys |-> Alike(KeyRows), certificates |-> Alike(CertificateRows),
    collections |-> Alike(CollectionRows), ocsp |-> Alike(OcspRows),
    context |-> Alike(CtxRows), ssl |-> Alike(SslRows) ]

AllObjects ==
  [keys |-> 4, certificates |-> 3, collections |-> 4, ocsp |-> 4, context |-> 3, ssl |-> 4]

MCGroups == AllGroups
MCObjects == AllObjects
=============================================================================
