---------------------------- MODULE StorageLock ----------------------------
(* The read-write lock of the memory stores: AioRWLock and the contexts that *)
(* enter it (src/modex_agent/memory/core/lock.py).                           *)
(*                                                                           *)
(* Nobody awaits while it holds the lock of the condition, so an operation   *)
(* is one step up to its wait, and a wait is one step from the wakeup on.    *)
(* A task enters and leaves with "async with": it leaves in reverse order.   *)
EXTENDS Integers, Sequences, FiniteSets

CONSTANTS
    Tasks,
    NoTask,
    Upgrading,   \* tasks that may ask for the write lock while they read
    MaxDepth,    \* bound: sections a task nests
    MaxUses      \* bound: sections a task enters in all

ASSUME LockAssumption ==
    /\ IsFiniteSet(Tasks) /\ NoTask \notin Tasks /\ Upgrading \subseteq Tasks
    /\ MaxDepth \in Nat \ {0} /\ MaxUses \in Nat

VARIABLES
    writerTask, writerDepth,   \* the fields of AioRWLock
    readerDepths, activeReaders,
    waitingWriters,
    wait,                      \* what a task is suspended for, and whether it was notified
    held,                      \* the sections a task is in, the last one entered at the end
    uses                       \* counts against MaxUses

lock == <<writerTask, writerDepth, readerDepths, activeReaders, waitingWriters>>
vars == <<lock, wait, held, uses>>

Kinds == {"read", "write"}
NotWaiting == [for |-> "none", woken |-> FALSE]

Init ==
    /\ writerTask = NoTask /\ writerDepth = 0
    /\ readerDepths = [t \in Tasks |-> 0] /\ activeReaders = 0
    /\ waitingWriters = 0
    /\ wait = [t \in Tasks |-> NotWaiting]
    /\ held = [t \in Tasks |-> <<>>]
    /\ uses = [t \in Tasks |-> 0]

-----------------------------------------------------------------------------
(* The condition *)

Suspend(t, kind) == wait' = [wait EXCEPT ![t] = [for |-> kind, woken |-> FALSE]]

\* notify_all: everybody in w that is suspended will look again.
NotifyAll(w) == [t \in Tasks |-> [w[t] EXCEPT !.woken = @ \/ w[t].for # "none"]]

\* What a reader waits for: it also lets the writers that wait go first.
MayRead == writerTask = NoTask /\ waitingWriters = 0

\* Mutant: a writer does not wait for the readers.
MayWrite_IgnoresReaders == writerTask = NoTask

\* What a writer waits for.
MayWrite == writerTask = NoTask /\ activeReaders = 0

-----------------------------------------------------------------------------
(* Entering *)

Running(t) == wait[t].for = "none"

MayEnter(t) == Running(t) /\ Len(held[t]) < MaxDepth /\ uses[t] < MaxUses

Enters(t, kind) == held' = [held EXCEPT ![t] = Append(@, kind)]

Use(t) == uses' = [uses EXCEPT ![t] = @ + 1]

\* The writer reads under its own lock: nothing is recorded.
ReadUnderWrite(t) ==
    /\ MayEnter(t) /\ writerTask = t
    /\ Enters(t, "read") /\ Use(t)
    /\ UNCHANGED <<lock, wait>>

AddReader(t) ==
    /\ readerDepths' = [readerDepths EXCEPT ![t] = @ + 1]
    /\ activeReaders' = activeReaders + 1

\* A reader reads again, whoever waits.
ReadAgain(t) ==
    /\ MayEnter(t) /\ writerTask # t /\ readerDepths[t] > 0
    /\ AddReader(t)
    /\ Enters(t, "read") /\ Use(t)
    /\ UNCHANGED <<writerTask, writerDepth, waitingWriters, wait>>

\* acquire_read of a task that holds nothing.
AcquireRead(t) ==
    /\ MayEnter(t) /\ writerTask # t /\ readerDepths[t] = 0
    /\ Use(t)
    /\ \/ MayRead /\ AddReader(t) /\ Enters(t, "read")
          /\ UNCHANGED <<writerTask, writerDepth, waitingWriters, wait>>
       \/ ~MayRead /\ Suspend(t, "read")
          /\ UNCHANGED <<lock, held>>

\* The writer writes again.
WriteAgain(t) ==
    /\ MayEnter(t) /\ writerTask = t
    /\ writerDepth' = writerDepth + 1
    /\ Enters(t, "write") /\ Use(t)
    /\ UNCHANGED <<writerTask, readerDepths, activeReaders, waitingWriters, wait>>

TakeWrite(t) == writerTask' = t /\ writerDepth' = 1

\* acquire_write of any other task: a reader may be among them.
AcquireWrite(t) ==
    /\ MayEnter(t) /\ writerTask # t
    /\ readerDepths[t] > 0 => t \in Upgrading
    /\ Use(t)
    /\ \/ MayWrite /\ TakeWrite(t) /\ Enters(t, "write")
          /\ UNCHANGED <<readerDepths, activeReaders, waitingWriters, wait>>
       \/ ~MayWrite /\ Suspend(t, "write") /\ waitingWriters' = waitingWriters + 1
          /\ UNCHANGED <<writerTask, writerDepth, readerDepths, activeReaders, held>>

-----------------------------------------------------------------------------
(* Waiting *)

Woken(t, kind) == wait[t] = [for |-> kind, woken |-> TRUE]

\* A woken reader looks again: it reads or goes on waiting.
ResumeRead(t) ==
    /\ Woken(t, "read")
    /\ \/ MayRead /\ AddReader(t) /\ Enters(t, "read")
          /\ wait' = [wait EXCEPT ![t] = NotWaiting]
          /\ UNCHANGED <<writerTask, writerDepth, waitingWriters, uses>>
       \/ ~MayRead /\ Suspend(t, "read")
          /\ UNCHANGED <<lock, held, uses>>

\* The same for a writer.
ResumeWrite(t) ==
    /\ Woken(t, "write")
    /\ \/ MayWrite /\ TakeWrite(t) /\ Enters(t, "write")
          /\ waitingWriters' = waitingWriters - 1
          /\ wait' = [wait EXCEPT ![t] = NotWaiting]
          /\ UNCHANGED <<readerDepths, activeReaders, uses>>
       \/ ~MayWrite /\ Suspend(t, "write")
          /\ UNCHANGED <<lock, held, uses>>

\* Mutant: a writer that gives up tells nobody.
GiveUp_Silent(t) ==
    /\ wait[t].for # "none"
    /\ waitingWriters' = IF wait[t].for = "write" THEN waitingWriters - 1 ELSE waitingWriters
    /\ wait' = [wait EXCEPT ![t] = NotWaiting]
    /\ UNCHANGED <<writerTask, writerDepth, readerDepths, activeReaders, held, uses>>

\* The timeout of a wait, or the cancellation of its task.
GiveUp(t) ==
    /\ wait[t].for # "none"
    /\ LET w == [wait EXCEPT ![t] = NotWaiting]
       IN  IF wait[t].for = "write"
           THEN /\ waitingWriters' = waitingWriters - 1
                /\ wait' = IF waitingWriters' = 0 /\ writerTask = NoTask THEN NotifyAll(w) ELSE w
           ELSE wait' = w /\ UNCHANGED waitingWriters
    /\ UNCHANGED <<writerTask, writerDepth, readerDepths, activeReaders, held, uses>>

-----------------------------------------------------------------------------
(* Leaving *)

Leaves(t, kind) ==
    /\ Running(t) /\ held[t] # <<>> /\ held[t][Len(held[t])] = kind
    /\ held' = [held EXCEPT ![t] = SubSeq(@, 1, Len(@) - 1)]

LeaveReadUnderWrite(t) ==
    /\ Leaves(t, "read") /\ writerTask = t
    /\ UNCHANGED <<lock, wait, uses>>

\* Mutant: release_read forgets the task although it reads on.
ReleaseRead_Forgets(t) ==
    /\ Leaves(t, "read") /\ writerTask # t /\ readerDepths[t] > 0
    /\ readerDepths' = [readerDepths EXCEPT ![t] = 0]
    /\ activeReaders' = activeReaders - readerDepths[t]
    /\ wait' = IF activeReaders' = 0 THEN NotifyAll(wait) ELSE wait
    /\ UNCHANGED <<writerTask, writerDepth, waitingWriters, uses>>

\* release_read: the last reader wakes everybody.
ReleaseRead(t) ==
    /\ Leaves(t, "read") /\ writerTask # t /\ readerDepths[t] > 0
    /\ readerDepths' = [readerDepths EXCEPT ![t] = @ - 1]
    /\ activeReaders' = activeReaders - 1
    /\ wait' = IF activeReaders' = 0 THEN NotifyAll(wait) ELSE wait
    /\ UNCHANGED <<writerTask, writerDepth, waitingWriters, uses>>

\* Mutant: the first release of a nested writer frees the lock.
ReleaseWrite_First(t) ==
    /\ Leaves(t, "write") /\ writerTask = t
    /\ writerDepth' = 0 /\ writerTask' = NoTask
    /\ wait' = NotifyAll(wait)
    /\ UNCHANGED <<readerDepths, activeReaders, waitingWriters, uses>>

\* Mutant: release_write wakes nobody.
ReleaseWrite_Silent(t) ==
    /\ Leaves(t, "write") /\ writerTask = t
    /\ writerDepth' = writerDepth - 1
    /\ writerTask' = IF writerDepth' = 0 THEN NoTask ELSE writerTask
    /\ UNCHANGED <<wait, readerDepths, activeReaders, waitingWriters, uses>>

\* release_write: the outermost one frees the lock and wakes everybody.
ReleaseWrite(t) ==
    /\ Leaves(t, "write") /\ writerTask = t
    /\ writerDepth' = writerDepth - 1
    /\ IF writerDepth' = 0
       THEN writerTask' = NoTask /\ wait' = NotifyAll(wait)
       ELSE UNCHANGED <<writerTask, wait>>
    /\ UNCHANGED <<readerDepths, activeReaders, waitingWriters, uses>>

-----------------------------------------------------------------------------

Enter(t) ==
    \/ ReadUnderWrite(t) \/ ReadAgain(t) \/ AcquireRead(t)
    \/ WriteAgain(t) \/ AcquireWrite(t)

Resume(t) == ResumeRead(t) \/ ResumeWrite(t)

Leave(t) == LeaveReadUnderWrite(t) \/ ReleaseRead(t) \/ ReleaseWrite(t)

Next == \E t \in Tasks : Enter(t) \/ Resume(t) \/ GiveUp(t) \/ Leave(t)

Spec == Init /\ [][Next]_vars

\* A woken task runs, and a section ends.  A task that asks for the write
\* lock while it reads has a timeout; nobody else is made to give up.
FairSpec ==
    /\ Spec
    /\ \A t \in Tasks : WF_vars(Resume(t)) /\ WF_vars(Leave(t))
    /\ \A t \in Tasks : WF_vars(readerDepths[t] > 0 /\ GiveUp(t))

-----------------------------------------------------------------------------
(* Properties *)

\* Every variable has its type.
TypeOK ==
    /\ writerTask \in Tasks \union {NoTask}
    /\ writerDepth \in 0..MaxDepth
    /\ readerDepths \in [Tasks -> 0..MaxDepth]
    /\ activeReaders \in Nat
    /\ waitingWriters \in Nat
    /\ wait \in [Tasks -> [for : Kinds \union {"none"}, woken : BOOLEAN]]
    /\ held \in [Tasks -> Seq(Kinds)]
    /\ uses \in [Tasks -> Nat]

Reads(t) == \E i \in DOMAIN held[t] : held[t][i] = "read"
Writes(t) == \E i \in DOMAIN held[t] : held[t][i] = "write"

\* Whoever is inside a write section is alone, however sections are nested,
\* waits time out and tasks are cancelled.
WriterIsAlone ==
    \A t, u \in Tasks : t # u /\ Writes(t) => held[u] = <<>>

\* The section a task would leave next is one the lock knows it holds, so a
\* release never raises "not held by the current task".
ReleaseIsLegal ==
    \A t \in Tasks : held[t] # <<>> =>
        IF held[t][Len(held[t])] = "write" THEN writerTask = t
        ELSE writerTask = t \/ readerDepths[t] > 0

\* A task that could go on has been told so: no wakeup is lost.
NoLostWakeup ==
    \A t \in Tasks :
        (wait[t].for = "read" /\ MayRead) \/ (wait[t].for = "write" /\ MayWrite)
            => wait[t].woken

\* The lock does what its callers rely on.
Abstract == INSTANCE RWLock WITH
    reading <- {t \in Tasks : Reads(t)}, writing <- {t \in Tasks : Writes(t)}
ImplementsRWLock == Abstract!Spec

\* Whoever waits is served or gives up, even beside readers that ask for the
\* write lock (which no release can grant them: only their timeout helps).
WaitEnds == \A t \in Tasks : wait[t].for # "none" ~> wait[t].for = "none"
=============================================================================
