------------------------- MODULE ExtensionBuilders --------------------------
(* The builders of x509/extension.rs: BasicConstraints, KeyUsage,            *)
(* ExtendedKeyUsage, SubjectKeyIdentifier, AuthorityKeyIdentifier and        *)
(* SubjectAlternativeName.  A builder collects flags, optional values and    *)
(* names; build writes them as the text of an x509v3_config value, which     *)
(* X509Extension::new_nid has OpenSSL read back.  The text is a sequence of  *)
(* words and commas.                                                         *)
EXTENDS Naturals, Sequences, SequencesExt

CONSTANTS Kinds,       \* the builders of the run
          Texts,       \* names a caller passes, not empty, sequences of words and commas: so
                       \* the flag `first` of append says that the text is empty
          MaxCalls,    \* bound: setter calls
          NoExt, Unset

VARIABLES kind, critical, flags, options, list,   \* the builder
          ext,                                    \* what the last build returned
          calls                                   \* the caller's setter calls

vars == <<kind, critical, flags, options, list, ext, calls>>

Comma == ","

KeyUsageWords == <<"digitalSignature", "nonRepudiation", "keyEncipherment", "dataEncipherment",
                   "keyAgreement", "keyCertSign", "cRLSign", "encipherOnly", "decipherOnly">>
\* emailProtection has a field and no setter.
ExtendedKeyUsageWords == <<"serverAuth", "clientAuth", "codeSigning", "emailProtection", "timeStamping",
                           "msCodeInd", "msCodeCom", "msCTLSign", "msSGC", "msEFS", "nsSGC">>
SanPrefixes == {"email:", "URI:", "DNS:", "RID:", "IP:", "dirName:", "otherName:"}

Flags == CASE kind = "BasicConstraints" -> {"CA"}
           [] kind = "KeyUsage" -> ToSet(KeyUsageWords)
           [] kind = "ExtendedKeyUsage" -> ToSet(ExtendedKeyUsageWords) \ {"emailProtection"}
           [] OTHER -> {}
Options == CASE kind = "BasicConstraints" -> {<<"pathlen", n>> : n \in {"0", "1"}}
             [] kind = "AuthorityKeyIdentifier" -> {<<o, b>> : o \in {"keyid", "issuer"}, b \in BOOLEAN}
             [] OTHER -> {}
Listed == CASE kind = "ExtendedKeyUsage" -> Texts
            [] kind = "SubjectAlternativeName" -> {<<p>> \o t : p \in SanPrefixes, t \in Texts}
            [] OTHER -> {}

TypeOK == /\ kind \in Kinds
          /\ critical \in BOOLEAN
          /\ flags \subseteq Flags
          /\ options \in [{"pathlen", "keyid", "issuer"} -> {Unset, "0", "1"} \cup BOOLEAN]
          /\ list \in Seq(Listed)

-----------------------------------------------------------------------------
Init == /\ kind \in Kinds
        /\ critical = FALSE
        /\ flags = {}
        /\ options = [o \in {"pathlen", "keyid", "issuer"} |-> Unset]
        /\ list = <<>>
        /\ ext = NoExt
        /\ calls = <<>>

Call(c) == Len(calls) < MaxCalls /\ calls' = Append(calls, c) /\ UNCHANGED <<kind, ext>>

set_critical == /\ Call(<<"critical">>)
                /\ critical' = TRUE
                /\ UNCHANGED <<flags, options, list>>

set_flag(f) == /\ Call(<<"flag", f>>)
               /\ flags' = flags \cup {f}
               /\ UNCHANGED <<critical, options, list>>

set_option(o, v) == /\ Call(<<"option", o, v>>)
                    /\ options' = [options EXCEPT ![o] = v]
                    /\ UNCHANGED <<critical, flags, list>>

add_text(t) == /\ Call(<<"text", t>>)
               /\ list' = Append(list, t)
               /\ UNCHANGED <<critical, flags, options>>

-----------------------------------------------------------------------------
(* build.                                                                    *)

\* A mutant: `first` is never cleared, so no element is set apart.
append_first(value, element) == value \o element

\* fn append, of an element that is wanted.
append(value, element) == IF value = <<>> THEN element ELSE value \o <<Comma>> \o element

Word(w) == <<w>>
Set(words) == SelectSeq(words, LAMBDA w : w \in flags)
Maybe(o) == IF options[o] = Unset THEN <<>>
            ELSE <<IF options[o] THEN <<o, ":always">> ELSE <<o>> >>

\* The elements each build appends, in its order.
Elements ==
    CASE kind = "KeyUsage" -> [i \in DOMAIN Set(KeyUsageWords) |-> Word(Set(KeyUsageWords)[i])]
      [] kind = "ExtendedKeyUsage" ->
             [i \in DOMAIN Set(ExtendedKeyUsageWords) |-> Word(Set(ExtendedKeyUsageWords)[i])] \o list
      [] kind = "SubjectKeyIdentifier" -> <<Word("hash")>>
      [] kind = "AuthorityKeyIdentifier" -> Maybe("keyid") \o Maybe("issuer")
      [] kind = "SubjectAlternativeName" -> list

Appended == FoldLeft(append, IF critical THEN Word("critical") ELSE <<>>, Elements)

\* BasicConstraints::build writes its commas itself.
BasicConstraintsValue ==
    (IF critical THEN <<"critical", Comma>> ELSE <<>>)
    \o <<IF "CA" \in flags THEN "CA:TRUE" ELSE "CA:FALSE">>
    \o (IF options["pathlen"] = Unset THEN <<>> ELSE <<Comma, "pathlen:", options["pathlen"]>>)

Value == IF kind = "BasicConstraints" THEN BasicConstraintsValue ELSE Appended

\* OpenSSL reads `critical,` off the front and splits the rest at its commas.
Read(value) ==
    LET marked == Len(value) >= 2 /\ value[1] = "critical" /\ value[2] = Comma
        rest == IF marked THEN SubSeq(value, 3, Len(value)) ELSE value
        split == FoldLeft(LAMBDA acc, w : IF w = Comma THEN Append(acc, <<>>)
                                          ELSE Append(Front(acc), Append(Last(acc), w)),
                          << <<>> >>, rest)
    IN  [critical |-> marked, elements |-> split]

\* It knows no element that is empty or the word critical.
Readable(r) == \A i \in DOMAIN r.elements : r.elements[i] \notin {<<>>, Word("critical")}

build == /\ ext' = IF Readable(Read(Value)) THEN Read(Value) ELSE NoExt
         /\ UNCHANGED <<kind, critical, flags, options, list, calls>>

Next == \/ set_critical
        \/ \E f \in Flags : set_flag(f)
        \/ \E o \in Options : set_option(o[1], o[2])
        \/ \E t \in Listed : add_text(t)
        \/ build

Spec == Init /\ [][Next]_vars

-----------------------------------------------------------------------------
Called(c) == \E i \in DOMAIN calls : calls[i] = c
LastOption(o) == LET is == {i \in DOMAIN calls : calls[i][1] = "option" /\ calls[i][2] = o}
                 IN  IF is = {} THEN Unset ELSE calls[CHOOSE i \in is : \A j \in is : j <= i][3]
TextsCalled == LET cs == SelectSeq(calls, LAMBDA c : c[1] = "text") IN [i \in DOMAIN cs |-> cs[i][2]]
FlagsCalled == {calls[i][2] : i \in {i \in DOMAIN calls : calls[i][1] = "flag"}}

\* The elements the caller asked for, as a set.
AskedFor ==
    {Word(f) : f \in FlagsCalled \ {"CA"}}
    \cup ToSet(TextsCalled)
    \cup (IF kind = "BasicConstraints" THEN {Word(IF Called(<<"flag", "CA">>) THEN "CA:TRUE" ELSE "CA:FALSE")}
          ELSE {})
    \cup (IF kind = "SubjectKeyIdentifier" THEN {Word("hash")} ELSE {})
    \cup {IF LastOption(o) THEN <<o, ":always">> ELSE <<o>> :
              o \in {p \in {"keyid", "issuer"} : LastOption(p) # Unset}}
    \cup {<<"pathlen:", LastOption(p)>> : p \in {q \in {"pathlen"} : LastOption(q) # Unset}}

Plain == \A i \in DOMAIN TextsCalled : \A j \in DOMAIN TextsCalled[i] : TextsCalled[i][j] # Comma

\* A step that calls build.
BuildsAsAsked ==
    (build /\ Plain) =>
       IF AskedFor = {} THEN ext' = NoExt
       ELSE /\ ext' # NoExt
            /\ ext'.critical = Called(<<"critical">>)
            /\ ToSet(ext'.elements) = AskedFor
            /\ SelectSeq(ext'.elements, LAMBDA e : e \in ToSet(TextsCalled)) = TextsCalled

\* What OpenSSL reads from the text build wrote is what the caller asked of the
\* builder, the mark critical included and each name once per call, as long as no name
\* contains a comma; only a builder that was asked for nothing fails.
BuiltAsAsked == [][BuildsAsAsked]_vars
=============================================================================
