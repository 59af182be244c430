---------------------------- MODULE UserLifecycle ----------------------------
(***************************************************************************)
(* What the consent engine promises about a user's resources, without      *)
(* threads, the mutex, errors or crashes: a user's container, view and     *)
(* consent are taken in that order, and given back container first and     *)
(* view last.  Whatever fails, and whenever the process dies, what a user  *)
(* is left with was reached by these steps, one at a time.                 *)
(***************************************************************************)
CONSTANT Users

VARIABLE held   \* the resources each user holds

Resources == {"container", "view", "consent"}

TypeOK == held \in [Users -> SUBSET Resources]

Init == held = [u \in Users |-> {}]

Take(u, r) == held' = [held EXCEPT ![u] = @ \cup {r}]
GiveBack(u, r) == held' = [held EXCEPT ![u] = @ \ {r}]

Provision(u) == Take(u, "container")

RegisterView(u) == "container" \in held[u] /\ Take(u, "view")

\* The consent is what leases are answered from: everything it refers to exists.
RecordConsent(u) == {"container", "view"} \subseteq held[u] /\ Take(u, "consent")

Decommission(u) == GiveBack(u, "container")

\* The consent goes when nobody can ask for leases on it any more.
EraseConsent(u) == "container" \notin held[u] /\ GiveBack(u, "consent")

\* The view goes last: as long as anything is left, the user is on record.
EraseView(u) == held[u] \cap {"container", "consent"} = {} /\ GiveBack(u, "view")

Next ==
  \E u \in Users : \/ Provision(u) \/ RegisterView(u) \/ RecordConsent(u)
                   \/ Decommission(u) \/ EraseConsent(u) \/ EraseView(u)

Spec == Init /\ [][Next]_held

-----------------------------------------------------------------------------
\* A consent never outlives, or precedes, its user's view.
ConsentOnRecord == \A u \in Users : "consent" \in held[u] => "view" \in held[u]
=============================================================================
