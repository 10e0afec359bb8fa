-------------------------- MODULE MC_RequestScope --------------------------
(* Instances of RequestScope for TLC. *)
EXTENDS RequestScope

CONSTANTS r1, r2

OneScope == {r1}
TwoScopes == {r1, r2}

\* Bounds: two requests where handlers run through; where they do not, the
\* second one only interrupts what the first one may have left, because a late
\* cancel of the first may silence its waiter (see SleeperHasCause).
FewRequests == suspends => client[r2] \in {"new", "interrupting", "interrupted"}
OnlySuspending == suspends /\ client[r2] = "new"
=============================================================================
