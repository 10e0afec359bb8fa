------------------------ MODULE MC_GraphLifecycle ------------------------
(* Instances of GraphLifecycle for TLC. *)
EXTENDS GraphLifecycle, TLC

CONSTANTS g1, g2

OneInstance == {g1}
TwoInstances == {g1, g2}
OneSlot == {1}
TwoSlots == {1, 2}

\* Two instances at once, for recovery: nobody stops, cancels or unregisters,
\* and the second instance alone may be invoked a third time.
RecoveryOnly ==
    /\ \A g \in Instances, s \in Slots :
          ~run[g][s].stop /\ run[g][s].raised \notin {"cancel"}
    /\ version[g1] <= 2
    /\ \A g \in Instances : Status(g) # "ABSENT" => g \in live \/ Status(g) \in Terminal
==========================================================================
