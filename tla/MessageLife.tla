---------------------------- MODULE MessageLife ----------------------------
(***************************************************************************)
(* What the inbox of a session promises about a message, whoever sends it  *)
(* and whatever fails: it is accepted once, stays until somebody reserves  *)
(* it, and a reserved message is kept until it is acknowledged.  Inbox is  *)
(* the detailed specification that implements this one.                    *)
(***************************************************************************)
CONSTANT Messages

VARIABLE life   \* life[m]: how far message m has come

Stages == {"unknown", "queued", "reserved", "done"}

Init == life = [m \in Messages |-> "unknown"]

\* The queue accepts a message it has never seen.
Accept(m) ==
    /\ life[m] = "unknown"
    /\ life' = [life EXCEPT ![m] = "queued"]

\* One consume makes the receipts of its messages durable in one write.
Reserve(ms) ==
    /\ \A m \in ms : life[m] = "queued"
    /\ life' = [m \in Messages |-> IF m \in ms THEN "reserved" ELSE life[m]]

\* A receipt is retired: nobody will see the message again.
Acknowledge(m) ==
    /\ life[m] = "reserved"
    /\ life' = [life EXCEPT ![m] = "done"]

Next ==
    \/ \E m \in Messages : Accept(m) \/ Acknowledge(m)
    \/ \E ms \in SUBSET Messages : Reserve(ms)

Spec == Init /\ [][Next]_life
=============================================================================
