------------------------------- MODULE Digest --------------------------------
(***************************************************************************)
(* What a Hasher, a Signer or a Verifier promises: a result is computed    *)
(* over exactly what was written, in order, since it was made or, if it    *)
(* resets, since its last result.  A write that fails is in doubt.         *)
(***************************************************************************)
EXTENDS Integers, Sequences

CONSTANTS
  Objects,  \* hashers, or signers
  Chunks,   \* pieces of data
  Resets    \* whether a result starts over

VARIABLES
  written,  \* what each object has been given
  result    \* what the last result of each was computed over

absVars == <<written, result>>

NoResult == <<"no result">>

Init ==
  /\ written = [o \in Objects |-> <<>>]
  /\ result = [o \in Objects |-> NoResult]

New(o) ==
  /\ written' = [written EXCEPT ![o] = <<>>]
  /\ result' = [result EXCEPT ![o] = NoResult]

Write(o, c) ==
  /\ written' \in {written, [written EXCEPT ![o] = Append(@, c)]}
  /\ result' = [result EXCEPT ![o] = NoResult]

Finish(o) ==
  /\ result' = [result EXCEPT ![o] = written[o]]
  /\ written' = IF Resets THEN [written EXCEPT ![o] = <<>>] ELSE written

Clone(o, p) ==
  /\ written' = [written EXCEPT ![p] = written[o]]
  /\ result' = [result EXCEPT ![p] = NoResult]

Next ==
  \E o \in Objects :
    \/ New(o) \/ Finish(o) \/ (\E c \in Chunks : Write(o, c)) \/ (\E p \in Objects : Clone(o, p))

Spec == Init /\ [][Next]_absVars
=============================================================================
