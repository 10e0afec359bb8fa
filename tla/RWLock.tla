------------------------------ MODULE RWLock ------------------------------
(* What StorageLock promises its callers: a task reads or writes, nobody     *)
(* reads or writes beside a writer, and a task that writes may also read.    *)
EXTENDS Naturals

CONSTANTS Tasks

VARIABLES
    reading,  \* the tasks inside a read section
    writing   \* the tasks inside a write section

vars == <<reading, writing>>

Init == reading = {} /\ writing = {}

EnterRead(t) ==
    /\ writing \subseteq {t}
    /\ reading' = reading \union {t}
    /\ UNCHANGED writing

EnterWrite(t) ==
    /\ reading = {} /\ writing = {}
    /\ writing' = {t}
    /\ UNCHANGED reading

LeaveRead(t) == t \in reading /\ reading' = reading \ {t} /\ UNCHANGED writing

LeaveWrite(t) == t \in writing \ reading /\ writing' = writing \ {t} /\ UNCHANGED reading

Next == \E t \in Tasks : EnterRead(t) \/ EnterWrite(t) \/ LeaveRead(t) \/ LeaveWrite(t)

Spec == Init /\ [][Next]_vars
===========================================================================
