--------------------------- MODULE GraphLifecycle ---------------------------
(***************************************************************************)
(* GraphOrchestrator (src/modex_agent/orchestration/graph_orchestrator.py) *)
(* with the parts it owns: the versioned GraphInstanceStore, one           *)
(* GraphRunControl per execution, GraphRecoveryService and the stale       *)
(* instance sweeper of the bot.  The scheduler that runs the nodes is      *)
(* reduced to how it can end (GraphRun models it).                         *)
(*                                                                         *)
(* One action is one uninterrupted stretch of the asyncio loop: everything *)
(* between two awaits that can really suspend.  The store is durable, the  *)
(* rest dies with the process.                                             *)
(***************************************************************************)
EXTENDS Integers, FiniteSets, Sequences

CONSTANTS
    Instances,     \* graph instance ids
    MaxVersion,    \* bound: invocations of one instance
    MaxRestart,    \* bound: process deaths
    Slots          \* execution tasks of one instance that may coexist

ASSUME InstancesAssumption == 0 \notin Slots
ASSUME BoundAssumption == MaxVersion \in Nat /\ MaxRestart \in Nat

VARIABLES
    (* durable: the graph_instances table *)
    version,   \* version[g]: number of the latest version row
    row,       \* row[g][v]: status of version v, "ABSENT" when not written
    runVer,    \* runVer[g]: attr graph_run_version of the latest row
    executor,  \* executor[g]: attr executor_process_id, 0 when never claimed
    (* memory of the process *)
    epoch,     \* the process id: a restart is a new process
    run,       \* run[g][s]: an execution task, see RunRecord
    owner,     \* owner[g]: the slot _executions[gid] points to, 0 for none
    live,      \* instances with a runtime in _active_instances
    outq,      \* outq[g]: STATUS_CHANGED events created, not yet emitted
    seen,      \* seen[g]: the last status an output adapter received
    recov      \* the recover_crashed call in progress

memory == <<epoch, run, owner, live, outq, seen, recov>>
durable == <<version, row, runVer, executor>>
vars == <<version, row, runVer, executor,
          epoch, run, owner, live, outq, seen, recov>>

-----------------------------------------------------------------------------
(* Statuses and records *)

Active == {"RUNNING", "PAUSING", "STOPPING"}
Terminal == {"COMPLETED", "FAILED", "CRASHED", "STOPPED"}
Statuses == {"ABSENT", "PENDING", "PAUSED"} \union Active \union Terminal

\* How far an execution task has got.
\*   starting    admitted, waiting for the RUNNING event
\*   running     inside GraphEngine.run_async
\*   draining    _finalize_instance waits for the coordinator's output events
\*   flushing    ... and for the status events queued so far
\*   emitting    final status written, its event not emitted yet
\*   upgrading   PAUSED turned into STOPPED, event not emitted yet
\*   output      the graph's output not emitted yet
\*   settled     _finalize_instance is over, _execute has not resumed yet
\*   done        the task is done, its done callback has not run yet
Phases == {"none", "starting", "running", "draining", "flushing", "emitting",
           "upgrading", "output", "settled", "done"}

RunRecord ==
    [ phase   : Phases,
      engine  : BOOLEAN,                       \* FALSE: finalize-only stop
      ver     : 0..MaxVersion,                 \* the invocation's version
      pause   : BOOLEAN,                       \* GraphRunControl flags
      stop    : BOOLEAN,
      outcome : Terminal \union {"PAUSED", "none"}, \* execution.outcome
      final   : Terminal \union {"PAUSED"},    \* status of _finalize_instance
      raised  : {"no", "error", "interrupt", "cancel"}, \* how the task ends
      wait    : Nat ]                          \* events it still waits for

NoRun == [phase |-> "none", engine |-> FALSE, ver |-> 0, pause |-> FALSE, stop |-> FALSE,
          outcome |-> "none", final |-> "CRASHED", raised |-> "no", wait |-> 0]

NoRecovery == [active |-> FALSE, todo |-> {}, at |-> {}]

\* The status a reader of the store sees.
Status(g) == row[g][version[g]]

FreeSlots(g) == {s \in Slots : run[g][s].phase = "none"}
Idle(g) == owner[g] = 0

Init ==
    /\ version = [g \in Instances |-> 0]
    /\ row = [g \in Instances |-> [v \in 0..MaxVersion |-> "ABSENT"]]
    /\ runVer = [g \in Instances |-> 0]
    /\ executor = [g \in Instances |-> 0]
    /\ epoch = 1
    /\ run = [g \in Instances |-> [s \in Slots |-> NoRun]]
    /\ owner = [g \in Instances |-> 0]
    /\ live = {}
    /\ outq = [g \in Instances |-> <<>>]
    /\ seen = [g \in Instances |-> "ABSENT"]
    /\ recov = NoRecovery

-----------------------------------------------------------------------------
(* The store *)

\* update_status: whatever the latest version is.
UpdateStatus(g, s) == [row EXCEPT ![g][version[g]] = s]

\* Mutant: closes whatever status the previous version had.
BeginInvocation_ClosesAll(g) ==
    [row EXCEPT ![g] = [v \in 0..MaxVersion |->
        IF v = version[g] + 1 THEN "RUNNING" ELSE IF v = version[g] THEN "CRASHED" ELSE row[g][v]]]

\* begin_invocation: an active latest row is closed, a RUNNING row appended.
BeginInvocation(g) ==
    [row EXCEPT ![g] = [v \in 0..MaxVersion |->
        IF v = version[g] + 1 THEN "RUNNING"
        ELSE IF v = version[g] /\ row[g][v] \in Active THEN "CRASHED"
        ELSE row[g][v]]]

\* finalize_invocation on rows rs: a version left active is closed as crashed.
FinalizeInvocation(rs, g, v) ==
    IF rs[g][v] \in Active THEN [rs EXCEPT ![g][v] = "CRASHED"] ELSE rs

\* create_instance: a PENDING row and a runtime.
CreateInstance(g) ==
    /\ Status(g) = "ABSENT"
    /\ row' = UpdateStatus(g, "PENDING")
    /\ live' = live \union {g}
    /\ UNCHANGED <<version, runVer, executor, epoch, run, owner, outq, seen, recov>>

-----------------------------------------------------------------------------
(* Admission: _start_execution and the eager part of _execute *)

\* Mutant: recovery takes whatever its list says.
Allowed_Listed(mode) == IF mode = "RECOVERY" THEN {"PAUSED", "CRASHED", "COMPLETED", "FAILED"}
                        ELSE {"PENDING", "COMPLETED", "FAILED", "CRASHED"}

Allowed(mode) == IF mode = "RECOVERY" THEN {"PAUSED", "CRASHED"}
                 ELSE {"PENDING", "COMPLETED", "FAILED", "CRASHED"}

CanStart(g, mode) == Idle(g) /\ Status(g) \in Allowed(mode)

NewRun(g, ph, fin, w) ==
    [NoRun EXCEPT !.phase = ph, !.engine = TRUE, !.ver = version[g] + 1, !.wait = w,
                  !.outcome = IF ph = "draining" THEN fin ELSE "none",
                  !.final = fin,
                  !.raised = IF ph = "draining" THEN "error" ELSE "no"]

\* The rows and attributes an admission commits.
AdmitRows(g, mode) ==
    /\ version[g] < MaxVersion
    /\ version' = [version EXCEPT ![g] = @ + 1]
    /\ row' = BeginInvocation(g)
    /\ runVer' = IF mode = "FRESH" THEN [runVer EXCEPT ![g] = version[g] + 1] ELSE runVer
    /\ executor' = [executor EXCEPT ![g] = epoch]

\* The run is assembled; it suspends until the RUNNING event is emitted.
AdmitAssembled(g, s, mode) ==
    /\ CanStart(g, mode)
    /\ AdmitRows(g, mode)
    /\ outq' = [outq EXCEPT ![g] = Append(@, "RUNNING")]
    /\ run' = [run EXCEPT ![g][s] = NewRun(g, "starting", "CRASHED", Len(outq[g]) + 1)]
    /\ owner' = [owner EXCEPT ![g] = s]
    /\ live' = live \union {g}

\* Saving the IO record (no event yet) or compiling and assembling the graph
\* fails: the run goes straight to its finalization.
AdmitFails(g, s, mode) ==
    /\ CanStart(g, mode)
    /\ AdmitRows(g, mode)
    /\ outq' = outq \/ outq' = [outq EXCEPT ![g] = Append(@, "RUNNING")]
    /\ run' = [run EXCEPT ![g][s] = NewRun(g, "draining", "CRASHED", 0)]
    /\ owner' = [owner EXCEPT ![g] = s]
    /\ live' = live

Admit(g, s, mode) == AdmitAssembled(g, s, mode) \/ AdmitFails(g, s, mode)

\* start_run, start_invoke, create_and_run.
StartFresh(g) ==
    /\ \E s \in FreeSlots(g) : Admit(g, s, "FRESH")
    /\ UNCHANGED <<epoch, seen, recov>>

\* start_resume: PAUSED only.
StartResume(g) ==
    /\ Status(g) = "PAUSED"
    /\ \E s \in FreeSlots(g) : Admit(g, s, "RECOVERY")
    /\ UNCHANGED <<epoch, seen, recov>>

-----------------------------------------------------------------------------
(* Recovery: recover_crashed reads the crashed instances once, then runs    *)
(* them one after the other, waiting for each.                              *)

RecoverStart(g) ==
    /\ ~recov.active
    /\ Status(g) = "CRASHED"
    /\ \E s \in FreeSlots(g) :
          /\ Admit(g, s, "RECOVERY")
          /\ recov' = [active |-> TRUE, at |-> {<<g, s>>},
                       todo |-> {h \in Instances \ {g} : Status(h) = "CRASHED"}]
    /\ UNCHANGED <<epoch, seen>>

RecoverNext(g) ==
    /\ recov.active /\ recov.at = {} /\ g \in recov.todo
    /\ \E s \in FreeSlots(g) :
          /\ Admit(g, s, "RECOVERY")
          /\ recov' = [recov EXCEPT !.todo = @ \ {g}, !.at = {<<g, s>>}]
    /\ UNCHANGED <<epoch, seen>>

\* The admission error is logged and swallowed.
RecoverSkip(g) ==
    /\ recov.active /\ recov.at = {} /\ g \in recov.todo
    /\ ~CanStart(g, "RECOVERY")
    /\ recov' = [recov EXCEPT !.todo = @ \ {g}]
    /\ UNCHANGED <<durable, epoch, run, owner, live, outq, seen>>

RecoverEnd ==
    /\ recov.active /\ recov.at = {} /\ recov.todo = {}
    /\ recov' = NoRecovery
    /\ UNCHANGED <<durable, epoch, run, owner, live, outq, seen>>

-----------------------------------------------------------------------------
(* Control: pause and stop requests (_drain) *)

\* The task _drain would wait for: the owner, unless it is already done.
LiveOwner(g, s) == owner[g] = s /\ s \in Slots /\ run[g][s].phase # "done"

SetStatus(g, s) ==
    /\ row' = UpdateStatus(g, s)
    /\ outq' = [outq EXCEPT ![g] = Append(@, s)]

\* Mutant: a pause may follow a stop.
RequestPause_AfterStop(g, s) ==
    /\ LiveOwner(g, s)
    /\ run[g][s].outcome = "none"
    /\ ~run[g][s].pause
    /\ SetStatus(g, "PAUSING")
    /\ run' = [run EXCEPT ![g][s].pause = TRUE]
    /\ UNCHANGED <<version, runVer, executor, epoch, owner, live, seen, recov>>

\* Mutant: a pause is taken although the run has already ended.
RequestPause_TooLate(g, s) ==
    /\ LiveOwner(g, s)
    /\ run[g][s].outcome \notin Terminal
    /\ ~run[g][s].pause /\ ~run[g][s].stop
    /\ SetStatus(g, "PAUSING")
    /\ run' = [run EXCEPT ![g][s].pause = TRUE]
    /\ UNCHANGED <<version, runVer, executor, epoch, owner, live, seen, recov>>

RequestPause(g, s) ==
    /\ LiveOwner(g, s)
    /\ run[g][s].outcome = "none"
    /\ ~run[g][s].pause /\ ~run[g][s].stop
    /\ SetStatus(g, "PAUSING")
    /\ run' = [run EXCEPT ![g][s].pause = TRUE]
    /\ UNCHANGED <<version, runVer, executor, epoch, owner, live, seen, recov>>

RequestStop(g, s) ==
    /\ LiveOwner(g, s)
    /\ run[g][s].outcome \notin Terminal
    /\ ~run[g][s].stop
    /\ SetStatus(g, "STOPPING")
    /\ run' = [run EXCEPT ![g][s].stop = TRUE]
    /\ UNCHANGED <<version, runVer, executor, epoch, owner, live, seen, recov>>

\* Stopping a paused instance has no engine to drain: a task that only
\* finalizes becomes the owner.
StopPaused(g, s) ==
    /\ ~\E t \in Slots : LiveOwner(g, t)
    /\ Status(g) = "PAUSED"
    /\ s \in FreeSlots(g)
    /\ SetStatus(g, "STOPPING")
    /\ run' = [run EXCEPT ![g][s] = [NoRun EXCEPT !.phase = "draining", !.stop = TRUE,
                                                  !.final = "STOPPED"]]
    /\ owner' = [owner EXCEPT ![g] = s]
    /\ UNCHANGED <<version, runVer, executor, epoch, live, seen, recov>>

-----------------------------------------------------------------------------
(* Execution: the rest of _execute *)

RunningEmitted(g, s) ==
    /\ run[g][s].phase = "starting"
    /\ run[g][s].wait = 0
    /\ run' = [run EXCEPT ![g][s].phase = "running"]
    /\ UNCHANGED <<durable, epoch, owner, live, outq, seen, recov>>

\* The finally clause: the outcome is recorded and _finalize_instance spawned.
Conclude(g, s, outcome, raised) ==
    /\ run' = [run EXCEPT ![g][s].phase = "draining", ![g][s].outcome = outcome,
                          ![g][s].final = outcome, ![g][s].raised = raised]
    /\ UNCHANGED <<durable, epoch, owner, live, outq, seen, recov>>

\* Mutant: the safe point tests the stop flag alone.
EngineDrained_StopOnly(g, s) ==
    /\ run[g][s].phase = "running" /\ run[g][s].stop
    /\ Conclude(g, s, "PAUSED", "no")

\* The scheduler saw a request at a safe point, cancelled its nodes and they
\* have all returned: GraphDrained.
EngineDrained(g, s) ==
    /\ run[g][s].phase = "running"
    /\ run[g][s].pause \/ run[g][s].stop
    /\ Conclude(g, s, "PAUSED", "no")

\* run_async returns.  A LINEAR graph suspends once more after its last look
\* at the control, so this can happen with a request pending.
EngineReturns(g, s) ==
    /\ run[g][s].phase = "running"
    /\ \E outcome \in {"COMPLETED", "FAILED"} : Conclude(g, s, outcome, "no")

EngineInterrupted(g, s) ==
    /\ run[g][s].phase = "running"
    /\ Conclude(g, s, "PAUSED", "interrupt")

EngineFaults(g, s) ==
    /\ run[g][s].phase = "running"
    /\ Conclude(g, s, "CRASHED", "error")

\* The coroutine that awaits the task is cancelled, and the task with it.
\* During finalization the cancellation is delayed (wait_for_settlement).
Cancelled(g, s) ==
    /\ run[g][s].phase \in {"starting", "running"}
    /\ Conclude(g, s, "CRASHED", "cancel")

-----------------------------------------------------------------------------
(* Finalization: _finalize_instance *)

DrainOutput(g, s) ==
    /\ run[g][s].phase = "draining"
    /\ run' = [run EXCEPT ![g][s].phase = "flushing", ![g][s].wait = Len(outq[g])]
    /\ UNCHANGED <<durable, epoch, owner, live, outq, seen, recov>>

\* Mutants: the stop request is not read again; the drain status is kept.
Upgraded_Never(r) == r.final
Upgraded_KeepsDrain(r) == IF r.final = "PAUSED" /\ r.stop THEN "STOPPING" ELSE r.final

\* A pause that was overtaken by a stop ends as STOPPED.
Upgraded(r) == IF r.final = "PAUSED" /\ r.stop THEN "STOPPED" ELSE r.final

WriteFinal(g, s) ==
    LET r == run[g][s]
        f == Upgraded(r)
        drained == f \in {"PAUSED", "STOPPED"}
        rows == UpdateStatus(g, f)
    IN  /\ r.phase = "flushing" /\ r.wait = 0
        /\ row' = IF r.engine THEN FinalizeInvocation(rows, g, r.ver) ELSE rows
        /\ outq' = IF drained THEN [outq EXCEPT ![g] = Append(@, f)] ELSE outq
        /\ run' = [run EXCEPT ![g][s] = [r EXCEPT
                      !.phase = IF drained THEN "emitting" ELSE "output",
                      !.wait = Len(outq'[g]), !.final = f, !.outcome = f]]
        /\ UNCHANGED <<version, runVer, executor, epoch, owner, live, seen, recov>>

\* The stop arrived while the PAUSED event was being emitted.
UpgradeToStopped(g, s) ==
    /\ run[g][s].phase = "emitting" /\ run[g][s].wait = 0
    /\ run[g][s].final = "PAUSED" /\ run[g][s].stop
    /\ SetStatus(g, "STOPPED")
    /\ run' = [run EXCEPT ![g][s] = [@ EXCEPT !.phase = "upgrading", !.wait = Len(outq[g]) + 1,
                                              !.final = "STOPPED", !.outcome = "STOPPED"]]
    /\ UNCHANGED <<version, runVer, executor, epoch, owner, live, seen, recov>>

\* The end of _finalize_instance; a terminal instance loses its runtime.
Settle(g, s, r) ==
    /\ run' = [run EXCEPT ![g][s] = [r EXCEPT !.phase = IF r.engine THEN "settled" ELSE "done"]]
    /\ live' = IF r.final \in Terminal THEN live \ {g} ELSE live
    /\ UNCHANGED <<durable, epoch, owner, outq, recov>>

FinishDrained(g, s) ==
    LET r == run[g][s]
    IN  /\ \/ r.phase = "emitting" /\ ~(r.final = "PAUSED" /\ r.stop)
           \/ r.phase = "upgrading"
        /\ r.wait = 0
        /\ Settle(g, s, r)
        /\ UNCHANGED seen

FinishOutput(g, s) ==
    /\ run[g][s].phase = "output" /\ run[g][s].wait = 0
    /\ Settle(g, s, run[g][s])
    /\ seen' = [seen EXCEPT ![g] = run[g][s].final]

ExecuteEnds(g, s) ==
    /\ run[g][s].phase = "settled"
    /\ run' = [run EXCEPT ![g][s].phase = "done"]
    /\ UNCHANGED <<durable, epoch, owner, live, outq, seen, recov>>

\* Mutant: the callback pops the entry without comparing the task.
Release_PopsAny(g, s) ==
    /\ run[g][s].phase = "done"
    /\ owner' = [owner EXCEPT ![g] = 0]
    /\ run' = [run EXCEPT ![g][s] = NoRun]
    /\ recov' = IF <<g, s>> \notin recov.at THEN recov
                ELSE IF run[g][s].raised \in {"interrupt", "cancel"} THEN NoRecovery
                ELSE [recov EXCEPT !.at = {}]
    /\ UNCHANGED <<durable, epoch, live, outq, seen>>

\* Mutant: a recovery whose run failed is not woken.
Release_ErrorKeepsWaiting(g, s) ==
    /\ run[g][s].phase = "done"
    /\ owner' = IF owner[g] = s THEN [owner EXCEPT ![g] = 0] ELSE owner
    /\ run' = [run EXCEPT ![g][s] = NoRun]
    /\ recov' = IF <<g, s>> \notin recov.at \/ run[g][s].raised = "error" THEN recov
                ELSE IF run[g][s].raised # "no" THEN NoRecovery
                ELSE [recov EXCEPT !.at = {}]
    /\ UNCHANGED <<durable, epoch, live, outq, seen>>

\* The done callback, and the wakeup of a recovery that waited for the task:
\* an interrupt or a cancellation ends the recovery.
Release(g, s) ==
    /\ run[g][s].phase = "done"
    /\ owner' = IF owner[g] = s THEN [owner EXCEPT ![g] = 0] ELSE owner
    /\ run' = [run EXCEPT ![g][s] = NoRun]
    /\ recov' = IF <<g, s>> \notin recov.at THEN recov
                ELSE IF run[g][s].raised \in {"interrupt", "cancel"} THEN NoRecovery
                ELSE [recov EXCEPT !.at = {}]
    /\ UNCHANGED <<durable, epoch, live, outq, seen>>

-----------------------------------------------------------------------------
(* Events, runtimes, process death and the sweeper *)

\* Mutant: an event does not wait for the previous one.
EmitStatus_Unchained(g) ==
    /\ \E i \in 1..Len(outq[g]) :
          /\ seen' = [seen EXCEPT ![g] = outq[g][i]]
          /\ outq' = [outq EXCEPT ![g] = SubSeq(@, 1, i - 1) \o SubSeq(@, i + 1, Len(@))]
    /\ run' = [run EXCEPT ![g] = [s \in Slots |->
                  [run[g][s] EXCEPT !.wait = IF @ > 0 THEN @ - 1 ELSE 0]]]
    /\ UNCHANGED <<durable, epoch, owner, live, recov>>

\* The output adapter takes the next status event.
EmitStatus(g) ==
    /\ outq[g] # <<>>
    /\ seen' = [seen EXCEPT ![g] = Head(outq[g])]
    /\ outq' = [outq EXCEPT ![g] = Tail(@)]
    /\ run' = [run EXCEPT ![g] = [s \in Slots |->
                  [run[g][s] EXCEPT !.wait = IF @ > 0 THEN @ - 1 ELSE 0]]]
    /\ UNCHANGED <<durable, epoch, owner, live, recov>>

\* unregister_instance refuses an instance that has an owner.
Unregister(g) ==
    /\ g \in live /\ Idle(g)
    /\ live' = live \ {g}
    /\ UNCHANGED <<durable, epoch, run, owner, outq, seen, recov>>

\* _lookup_coordinator of an external deliver rebuilds a runtime.
LookupCoordinator(g) ==
    /\ g \notin live /\ Status(g) \in {"PENDING", "PAUSED"}
    /\ live' = live \union {g}
    /\ UNCHANGED <<durable, epoch, run, owner, outq, seen, recov>>

ForgetMemory ==
    /\ epoch <= MaxRestart
    /\ epoch' = epoch + 1
    /\ run' = [g \in Instances |-> [s \in Slots |-> NoRun]]
    /\ owner' = [g \in Instances |-> 0]
    /\ live' = {}
    /\ outq' = [g \in Instances |-> <<>>]
    /\ seen' = [g \in Instances |-> "ABSENT"]
    /\ recov' = NoRecovery

ProcessDies == ForgetMemory /\ UNCHANGED durable

\* The process dies inside an admission, after begin_invocation committed and
\* before update_attrs did.
DiesInAdmission(g) ==
    /\ \E mode \in {"FRESH", "RECOVERY"} : CanStart(g, mode)
    /\ version[g] < MaxVersion
    /\ version' = [version EXCEPT ![g] = @ + 1]
    /\ row' = BeginInvocation(g)
    /\ UNCHANGED <<runVer, executor>>
    /\ ForgetMemory

\* StaleInstanceSweeper.sweep: it does not suspend.
Stale == {g \in Instances : Status(g) \in Active /\ executor[g] # epoch}

Sweep ==
    /\ Stale # {}
    /\ row' = [g \in Instances |-> IF g \in Stale
                                   THEN [row[g] EXCEPT ![version[g]] = "CRASHED"] ELSE row[g]]
    /\ UNCHANGED <<version, runVer, executor, memory>>

Progress(g, s) ==
    \/ RunningEmitted(g, s) \/ EngineDrained(g, s) \/ DrainOutput(g, s) \/ WriteFinal(g, s)
    \/ UpgradeToStopped(g, s) \/ FinishDrained(g, s) \/ FinishOutput(g, s)
    \/ ExecuteEnds(g, s) \/ Release(g, s)

Next ==
    \/ \E g \in Instances :
          \/ CreateInstance(g) \/ StartFresh(g) \/ StartResume(g)
          \/ RecoverStart(g) \/ RecoverNext(g) \/ RecoverSkip(g)
          \/ EmitStatus(g) \/ Unregister(g) \/ LookupCoordinator(g) \/ DiesInAdmission(g)
    \/ \E g \in Instances, s \in Slots :
          \/ RequestPause(g, s) \/ RequestStop(g, s) \/ StopPaused(g, s)
          \/ EngineReturns(g, s) \/ EngineInterrupted(g, s) \/ EngineFaults(g, s)
          \/ Cancelled(g, s) \/ Progress(g, s)
    \/ RecoverEnd \/ ProcessDies \/ Sweep

Spec == Init /\ [][Next]_vars

\* The event loop runs a task that can run, an adapter takes an event, the
\* nodes of a drained scheduler return from their cancellation, and the
\* sweeper's period passes.  Nothing makes a graph end by itself.
Fairness ==
    /\ \A g \in Instances : WF_vars(EmitStatus(g))
    /\ \A g \in Instances, s \in Slots : WF_vars(Progress(g, s))
    /\ WF_vars(Sweep)

FairSpec == Spec /\ Fairness

-----------------------------------------------------------------------------
(* Properties *)

\* Every variable has its type.
TypeOK ==
    /\ version \in [Instances -> 0..MaxVersion]
    /\ row \in [Instances -> [0..MaxVersion -> Statuses]]
    /\ runVer \in [Instances -> 0..MaxVersion]
    /\ executor \in [Instances -> Nat]
    /\ epoch \in Nat
    /\ run \in [Instances -> [Slots -> RunRecord]]
    /\ owner \in [Instances -> Slots \union {0}]
    /\ live \subseteq Instances
    /\ outq \in [Instances -> Seq(Statuses)]
    /\ seen \in [Instances -> Statuses]
    /\ recov \in [active : BOOLEAN, todo : SUBSET Instances, at : SUBSET (Instances \X Slots)]

Working(g, s) == run[g][s].phase \notin {"none", "done"}

\* At most one task works on an instance, and it is the one _executions
\* points to: what the admission guard, the reservation without an await and
\* the identity test of the done callback are for.
OneOwner == \A g \in Instances, s \in Slots : Working(g, s) => owner[g] = s

\* While the engine may be running nodes, the stored status is the one its
\* control implies and the latest row is its own, claimed by this process.
StatusReflectsControl ==
    \A g \in Instances, s \in Slots :
        LET r == run[g][s]
        IN  r.phase \in {"starting", "running"} =>
               /\ Status(g) = IF r.stop THEN "STOPPING" ELSE IF r.pause THEN "PAUSING" ELSE "RUNNING"
               /\ r.ver = version[g]
               /\ executor[g] = epoch
               /\ g \in live

\* A RUNNING or PAUSING row that this process claims has a task that has yet
\* to write its final status, so the drain it announces will be settled.
ActiveHasOwner ==
    \A g \in Instances :
        Status(g) \in {"RUNNING", "PAUSING"} /\ executor[g] = epoch =>
            \E s \in Slots : owner[g] = s /\ run[g][s].phase \in
                {"starting", "running", "draining", "flushing"}

\* The same for STOPPING.  The comment in _finalize_instance says the owner
\* "remains reserved, so it must settle the upgrade before releasing it".
StoppingHasOwner ==
    \A g \in Instances :
        Status(g) = "STOPPING" /\ executor[g] = epoch => owner[g] # 0

\* Once the owner is gone and its events are out, the last status a
\* subscriber saw is the stored one: no event overtakes a later one.
ObserverUpToDate ==
    \A g \in Instances :
        owner[g] = 0 /\ outq[g] = <<>> /\ seen[g] # "ABSENT" => seen[g] = Status(g)

\* The outcome recorded for a version survives the next invocation and every
\* late writer of the older run, and STOPPED is final.
OutcomesStay ==
    [][\A g \in Instances, v \in 0..MaxVersion :
          (v < version'[g] /\ row[g][v] \notin Active) \/ row[g][v] = "STOPPED"
             => row'[g][v] = row[g][v]]_<<row, version>>

\* A finished graph run is never resumed: its instance runs again only as a
\* fresh run, even if a recovery still has the instance on its list.  (A death
\* inside the admission is not covered: it leaves the new row with the
\* attributes of the old run.)
FinishedRunIsNotResumed ==
    [][\A g \in Instances :
          version'[g] # version[g] /\ Status(g) \in {"COMPLETED", "FAILED"} /\ epoch' = epoch
             => runVer'[g] = version'[g]]_<<version, runVer>>

\* A recovery that waits, waits for a task that owns its instance.
RecoveryWaitsOnOwner ==
    \A g \in Instances, s \in Slots : <<g, s>> \in recov.at =>
        run[g][s].phase # "none" /\ run[g][s].engine /\ (Working(g, s) => owner[g] = s)

\* The statuses move as the lifecycle table says.
Latest == [g \in Instances |-> Status(g)]
Lifecycle == INSTANCE InstanceLifecycle WITH st <- Latest
ImplementsLifecycle == Lifecycle!Spec

\* A requested pause ends: the instance leaves PAUSING.
PauseSettles == \A g \in Instances : Status(g) = "PAUSING" ~> Status(g) # "PAUSING"
=============================================================================
