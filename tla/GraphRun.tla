------------------------------ MODULE GraphRun ------------------------------
(***************************************************************************)
(* One graph instance under the ParallelScheduler (src/modex_graph):       *)
(* the scheduler, Node.run, the SQLite deliver and node state stores and   *)
(* the recovery bootstrap.  The instance's own lifecycle is GraphLifecycle;*)
(* here a run starts, ends, is drained or dies with the process.           *)
(*                                                                         *)
(* One action is one stretch of the event loop.  Every store call commits  *)
(* by itself, so the stretches that write more than once also exist cut    *)
(* short by the death of the process (the actions named ...Dies).          *)
(***************************************************************************)
EXTENDS Integers, FiniteSets, Sequences

CONSTANTS
    Nodes, Start, End,  \* the node names; Start is the entry node
    Edges,              \* declared edges, a set of pairs
    Strays,             \* pairs a node delivers along although no edge is declared
    OnReceive,          \* nodes with trigger ON_RECEIVE, the others ON_ALL_PREDS
    MaxExternal,        \* bound: external delivers
    MaxStarts,          \* bound: executions of the engine
    MaxRuns,            \* bound: how many of them are FRESH
    MaxInv              \* bound: invocations of one node

ASSUME GraphAssumption ==
    /\ Start \in Nodes /\ End \in Nodes /\ Start # End
    /\ Edges \subseteq (Nodes \ {End}) \X (Nodes \ {Start})
    /\ Strays \subseteq (Nodes \ {End}) \X (Nodes \ {Start})
    /\ OnReceive \subseteq Nodes \ {Start, End}
ASSUME RunBoundAssumption ==
    {MaxExternal, MaxStarts, MaxRuns, MaxInv} \subseteq Nat

VARIABLES
    (* durable *)
    delivers,  \* rows of the deliver table, see Deliver
    inv,       \* inv[n]: the invocations of node n, oldest first
    status,    \* status of the graph instance
    runVer,    \* its graph_run_version
    (* memory of the process *)
    phase,     \* what the engine does
    drain,     \* GraphRunControl: pause (or stop) requested
    sched,     \* the scheduler object, see NewScheduler
    final,     \* the status the finished engine leads to
    starts     \* engine executions so far (bound only)

durable == <<delivers, inv, status, runVer>>
vars == <<delivers, inv, status, runVer, phase, drain, sched, final, starts>>

-----------------------------------------------------------------------------
(* Records *)

External == "__external__"

\* A row of the deliver table: src's invocation number from produced it for
\* dst; by is the invocation of dst that last took it.  A node that delivers
\* several contents to one target makes several rows that always change
\* together: they are one row here.
Deliver == [src : Nodes \union {External}, from : Nat, dst : Nodes, by : Nat,
            st : {"STAGED", "PENDING", "CONSUMED_PENDING", "CONSUMED_COMPLETED"}]

Key(d) == <<d.src, d.from, d.dst>>

InvocationStatus == {"RUNNING", "COMPLETED", "CRASHED", "CANCELED"}

Latest(n) == Len(inv[n])
LatestStatus(n) == IF inv[n] = <<>> THEN "none" ELSE inv[n][Latest(n)].st
\* The latest record, if it belongs to this logical run (bootstrap 119-123).
RunStatus(n) == IF inv[n] # <<>> /\ inv[n][Latest(n)].run = runVer THEN LatestStatus(n) ELSE "none"

\* A node instance and the task that runs it.
\*   ready        created, not begun (DORMANT, READY, or before_node)
\*   busy         Node.run has begun an invocation and executes the node
\*   after        the invocation is complete, after_node is awaited
\*   faulted, interrupted   the task raised
NoTask == [phase |-> "none", inv |-> 0]
ReadyTask == [phase |-> "ready", inv |-> 0]
Unfinished == {"ready", "busy", "after"}
TaskPhases == {"none", "faulted", "interrupted"} \union Unfinished

\* The instances of one node: an instance is only added to another one right
\* after one was removed (Finish), so there are never more than two.
Slots == {1, 2}

NewScheduler ==
    [ task      |-> [n \in Nodes |-> [s \in Slots |-> NoTask]],
      waiting   |-> {},                  \* targets in _pending_dispatches
      queued    |-> [n \in Nodes |-> 0], \* length of _on_receive_queue
      scheduled |-> {},                  \* keys of _scheduled_deliver_ids
      reached   |-> FALSE ]              \* ctx.reached_end

\* Every field of the scheduler has its type.
Scheduler ==
    [ task      : [Nodes -> [Slots -> [phase : TaskPhases, inv : Nat]]],
      waiting   : SUBSET Nodes,
      queued    : [Nodes -> Nat],
      scheduled : SUBSET ((Nodes \union {External}) \X Nat \X Nodes),
      reached   : BOOLEAN ]

Init ==
    /\ delivers = {}
    /\ inv = [n \in Nodes |-> <<>>]
    /\ status = "PENDING" /\ runVer = 0
    /\ phase = "idle" /\ drain = FALSE
    /\ sched = NewScheduler
    /\ final = "none" /\ starts = 0

-----------------------------------------------------------------------------
(* Stores *)

\* The rows of dl that satisfy P(d) move to status s.
Promote(dl, P(_), s) == {IF P(d) THEN [d EXCEPT !.st = s] ELSE d : d \in dl}

\* query_consumable
Consumable(dl, n) == {d \in dl : d.dst = n /\ d.st \in {"PENDING", "CONSUMED_PENDING"}}

PendingAt(dl, n) == {d \in dl : d.dst = n /\ d.st = "PENDING"}

\* mark_consumed of everything consumable, by invocation k.
MarkConsumed(dl, n, k) ==
    {IF d \in Consumable(dl, n) THEN [d EXCEPT !.st = "CONSUMED_PENDING", !.by = k] ELSE d : d \in dl}

\* Mutant: the test on the status is missing.
PromoteStaged_AnyStatus(dl, srcs, dsts) ==
    Promote(dl, LAMBDA d : d.src \in srcs /\ d.dst \in dsts, "PENDING")
\* promote_staged_by_source, for the stores of the nodes in dsts.
PromoteStaged(dl, srcs, dsts) ==
    Promote(dl, LAMBDA d : d.src \in srcs /\ d.st = "STAGED" /\ d.dst \in dsts, "PENDING")

\* promote_delivers of the nodes in ns.
PromoteConsumed(dl, ns) ==
    Promote(dl, LAMBDA d : d.dst \in ns /\ d.st = "CONSUMED_PENDING", "CONSUMED_COMPLETED")

\* begin_invocation: an orphan RUNNING record is closed, a new one appended.
BeginInvocation(n) ==
    [inv EXCEPT ![n] = Append([i \in DOMAIN @ |-> IF i = Len(@) /\ @[i].st = "RUNNING"
                                                 THEN [@[i] EXCEPT !.st = "CRASHED"] ELSE @[i]],
                              [st |-> "RUNNING", run |-> runVer])]

CloseInvocation(n, k, s) == [inv EXCEPT ![n][k].st = s]

-----------------------------------------------------------------------------
(* Trigger admission.  The operators take the scheduler m and the rows dl  *)
(* and return the scheduler after the call.                                *)

\* Mutant: an instance that awaits after_node does not count.
ActiveNodes_NotAfter(m) == {n \in Nodes : \E s \in Slots : m.task[n][s].phase \notin {"none", "after"}}

ActiveNodes(m) == {n \in Nodes : \E s \in Slots : m.task[n][s].phase # "none"}

\* _create_instance and _mark_ready for every node of ns.
CreateInstances(m, ns) ==
    [m EXCEPT !.task = [n \in Nodes |->
        IF n \in ns THEN [m.task[n] EXCEPT ![IF m.task[n][1] = NoTask THEN 1 ELSE 2] = ReadyTask]
        ELSE m.task[n]]]

\* Downstream[n]: the nodes that a path of at least one edge leads to from n.
Downstream ==
    [n \in Nodes |-> {t \in Nodes : \A S \in SUBSET Nodes :
        (\A e \in Edges : e[1] = n \/ e[1] \in S => e[2] \in S) => t \in S}]

\* Mutant: a waiting target blocks itself.
CanReachActive_SelfBlocks(m, dl, t) ==
    \E n \in ActiveNodes(m) \union m.waiting
             \union {n \in Nodes \ {Start, t} : PendingAt(dl, n) # {}} : t \in Downstream[n]

\* _can_reach_active
CanReachActive(m, dl, t) ==
    \E n \in ActiveNodes(m) \union (m.waiting \ {t})
             \union {n \in Nodes \ {Start, t} : PendingAt(dl, n) # {}} : t \in Downstream[n]

\* Mutant: no reachability gate.
Fireable_Ungated(m, dl) == m.waiting \ ActiveNodes(m)
\* _try_fire_on_all_preds.  A source is activated exactly when it has a
\* pending wakeup, so the test on activated sources never stops a target; and
\* a target that fires stays a reachability source, so the order is immaterial.
Fireable(m, dl) == {t \in m.waiting \ ActiveNodes(m) : ~CanReachActive(m, dl, t)}

FireAllPreds(m, dl) ==
    LET ts == Fireable(m, dl)
    IN  CreateInstances([m EXCEPT !.waiting = @ \ ts], ts)

\* Delivers of n that no wakeup has been recorded for.
Unscheduled(m, dl, n) == {Key(d) : d \in PendingAt(dl, n)} \ m.scheduled

\* _recheck_pending
Recheck(m, dl) ==
    LET fresh == {n \in Nodes \ {Start} : Unscheduled(m, dl, n) # {}}
        fire == (fresh \intersect OnReceive) \ ActiveNodes(m)
        wake == fresh \ OnReceive
        m1 == [m EXCEPT !.waiting = @ \union wake,
                        !.scheduled = @ \union UNION {Unscheduled(m, dl, n) : n \in fire \union wake},
                        !.reached = @ \/ End \in fresh]
    IN  FireAllPreds(CreateInstances(m1, fire), dl)

\* _handle_dispatch, for every target of one completed node.
Dispatch(m, targets) ==
    LET busy == ActiveNodes(m)
        m1 == [m EXCEPT !.waiting = @ \union (targets \ OnReceive),
                        !.queued = [n \in Nodes |->
                            IF n \in targets \intersect OnReceive \intersect busy
                            THEN m.queued[n] + 1 ELSE m.queued[n]],
                        !.reached = @ \/ End \in targets]
    IN  CreateInstances(m1, (targets \intersect OnReceive) \ busy)

\* _drain_on_receive_queue
DrainOnReceive(m, n) ==
    IF m.queued[n] = 0 THEN m ELSE CreateInstances([m EXCEPT !.queued[n] = @ - 1], {n})

-----------------------------------------------------------------------------
(* The start of a run: bootstrap and the head of run_async *)

\* Mutant: the rescan does not know that a ready seed takes what waits for it.
Launch_Unreserved(seeds, reached, dl) ==
    LET ready == {n \in seeds : n = Start \/ LatestStatus(n) \in {"CRASHED", "RUNNING", "CANCELED"}}
    IN  Recheck(CreateInstances([NewScheduler EXCEPT !.reached = reached], ready), dl)

\* Every ready seed takes the delivers that wait for it.
Launch(seeds, reached, dl) ==
    LET ready == {n \in seeds : n = Start \/ LatestStatus(n) \in {"CRASHED", "RUNNING", "CANCELED"}}
        m == [NewScheduler EXCEPT !.reached = reached,
                 !.scheduled = {Key(d) : d \in {x \in dl : x.dst \in ready /\ x.st = "PENDING"}}]
    IN  Recheck(CreateInstances(m, ready), dl)

Enter(seeds, reached, dl) ==
    /\ phase = "idle" /\ starts < MaxStarts
    /\ starts' = starts + 1
    /\ status' = "RUNNING" /\ phase' = "running" /\ drain' = FALSE
    /\ delivers' = dl
    /\ sched' = Launch(seeds, reached, dl)
    /\ UNCHANGED <<inv, final>>

StartFresh ==
    /\ status \in {"PENDING", "COMPLETED", "FAILED", "CRASHED"}
    /\ runVer < MaxRuns
    /\ runVer' = runVer + 1
    /\ Enter({Start}, FALSE, delivers)

\* The run never began its entry node: bootstrap returns it unexamined.
NeverBegan == RunStatus(Start) = "none"

RecoverFromEntry ==
    /\ status \in {"PAUSED", "CRASHED"} /\ NeverBegan
    /\ Enter({Start}, FALSE, delivers)
    /\ UNCHANGED runVer

CompletedNodes == {n \in Nodes : RunStatus(n) = "COMPLETED"}

\* Mutant: outputs of completed invocations stay invisible.
AutoPromoted_NotStaged ==
    PromoteConsumed(delivers, {n \in CompletedNodes \ {Start} : \E d \in delivers :
        d.dst = n /\ d.st = "CONSUMED_PENDING" /\ d.by = Latest(n)})
\* Mutant: consumed rows are settled whatever became of the consumer.
AutoPromoted_AnyConsumer ==
    PromoteConsumed(PromoteStaged(delivers, CompletedNodes, Nodes), Nodes \ {Start})

\* Outputs of completed invocations become visible, inputs they took settled.
AutoPromoted ==
    PromoteConsumed(PromoteStaged(delivers, CompletedNodes, Nodes),
                    {n \in CompletedNodes \ {Start} : \E d \in delivers :
                        d.dst = n /\ d.st = "CONSUMED_PENDING" /\ d.by = Latest(n)})

\* Seeds (a): invocations that did not complete.
Redo == {n \in Nodes : RunStatus(n) \notin {"none", "COMPLETED"}}

\* Mutant: a recovery that enters END directly forgets that END is reached.
RecoverFromHistory_NoReached ==
    /\ status \in {"PAUSED", "CRASHED"} /\ ~NeverBegan
    /\ LET dl == AutoPromoted
       IN  Enter(Redo \union {n \in Nodes \ {Start} : PendingAt(dl, n) # {}}, FALSE, dl)
    /\ UNCHANGED runVer

RecoverFromHistory ==
    /\ status \in {"PAUSED", "CRASHED"} /\ ~NeverBegan
    /\ LET dl == AutoPromoted
           seeds == Redo \union {n \in Nodes \ {Start} : PendingAt(dl, n) # {}}
       IN  Enter(seeds, End \in seeds \/ (seeds = {} /\ RunStatus(End) = "COMPLETED"), dl)
    /\ UNCHANGED runVer

-----------------------------------------------------------------------------
(* Node instances *)

Alive == phase \in {"running", "draining"}

TaskIs(n, s, ph) == Alive /\ sched.task[n][s].phase = ph

SetTask(m, n, s, t) == [m EXCEPT !.task[n][s] = t]

\* The loop runs the ready instances while nobody asked for a drain.
Startable(n, s) == TaskIs(n, s, "ready") /\ phase = "running" /\ ~drain /\ Latest(n) < MaxInv

\* Node.run up to execute: begin_invocation, collect, mark_consumed.
Begin(n, s) ==
    /\ Startable(n, s)
    /\ inv' = BeginInvocation(n)
    /\ delivers' = MarkConsumed(delivers, n, Latest(n) + 1)
    /\ sched' = SetTask(sched, n, s, [phase |-> "busy", inv |-> Latest(n) + 1])
    /\ UNCHANGED <<status, runVer, phase, drain, final, starts>>

\* Mutant: delivers are visible at once (stage=False).
Emit_Visible(n, s, t) ==
    /\ TaskIs(n, s, "busy")
    /\ <<n, t>> \in Edges \union Strays
    /\ <<n, sched.task[n][s].inv, t>> \notin {Key(d) : d \in delivers}
    /\ delivers' = delivers \union
          {[src |-> n, from |-> sched.task[n][s].inv, dst |-> t, by |-> 0, st |-> "PENDING"]}
    /\ UNCHANGED <<inv, status, runVer, phase, drain, sched, final, starts>>

\* Node.deliver during execute.
Emit(n, s, t) ==
    /\ TaskIs(n, s, "busy")
    /\ <<n, t>> \in Edges \union Strays
    /\ <<n, sched.task[n][s].inv, t>> \notin {Key(d) : d \in delivers}
    /\ delivers' = delivers \union
          {[src |-> n, from |-> sched.task[n][s].inv, dst |-> t, by |-> 0, st |-> "STAGED"]}
    /\ UNCHANGED <<inv, status, runVer, phase, drain, sched, final, starts>>

OwnsInvocation(n, s) == inv[n][sched.task[n][s].inv].st = "RUNNING"

Outputs(n) == {d.dst : d \in {x \in delivers : x.src = n /\ x.st = "STAGED"}}

\* The targets that are dispatched; a node's delivers to itself only notify.
Targets(n) == Outputs(n) \ {n}

\* Targets that validate_dispatch_target refuses.
Misrouted(n) == {t \in Targets(n) : <<n, t>> \notin Edges}

\* execute returned: complete, promote and dispatch the outputs, settle the
\* inputs.
Complete(n, s) ==
    /\ TaskIs(n, s, "busy") /\ OwnsInvocation(n, s) /\ Misrouted(n) = {}
    /\ inv' = CloseInvocation(n, sched.task[n][s].inv, "COMPLETED")
    /\ delivers' = PromoteConsumed(PromoteStaged(delivers, {n}, Nodes), {n})
    /\ sched' = SetTask(Dispatch(sched, Targets(n)), n, s, [sched.task[n][s] EXCEPT !.phase = "after"])
    /\ UNCHANGED <<status, runVer, phase, drain, final, starts>>

\* A dispatch is refused after the invocation completed and its outputs were
\* promoted: the invocation stays COMPLETED, the task raises.
Misroute(n, s, ts) ==
    /\ TaskIs(n, s, "busy") /\ OwnsInvocation(n, s) /\ Misrouted(n) # {}
    /\ inv' = CloseInvocation(n, sched.task[n][s].inv, "COMPLETED")
    /\ delivers' = PromoteStaged(delivers, {n}, Nodes)
    /\ sched' = [Dispatch(sched, ts) EXCEPT !.task[n][s] = [sched.task[n][s] EXCEPT !.phase = "faulted"]]
    /\ UNCHANGED <<status, runVer, phase, drain, final, starts>>

\* after_node returned: the rest of _execute_instance.
Finish(n, s) ==
    /\ TaskIs(n, s, "after")
    /\ sched' = DrainOnReceive(Recheck(SetTask(sched, n, s, NoTask), delivers), n)
    /\ UNCHANGED <<delivers, inv, status, runVer, phase, drain, final, starts>>

\* The task raised: in execute a fault crashes the invocation and an interrupt
\* cancels it; in before_node or after_node no invocation is touched.
Raise(n, s, st, ph) ==
    LET t == sched.task[n][s]
    IN  /\ Alive /\ t.phase \in Unfinished
        /\ inv' = IF t.phase = "busy" /\ OwnsInvocation(n, s)
                  THEN CloseInvocation(n, t.inv, st) ELSE inv
        /\ sched' = [sched EXCEPT !.task[n][s].phase = ph]
        /\ UNCHANGED <<delivers, status, runVer, phase, drain, final, starts>>

Fault(n, s) == Raise(n, s, "CRASHED", "faulted")

\* cancel_invocation is strict, so an interrupt needs its own record.
Interrupt(n, s) ==
    /\ sched.task[n][s].phase = "busy" => OwnsInvocation(n, s)
    /\ Raise(n, s, "CANCELED", "interrupted")

\* complete_invocation finds its record already closed: InvocationStateError.
CompleteRejected(n, s) ==
    /\ TaskIs(n, s, "busy") /\ ~OwnsInvocation(n, s)
    /\ sched' = [sched EXCEPT !.task[n][s].phase = "faulted"]
    /\ UNCHANGED <<durable, phase, drain, final, starts>>

-----------------------------------------------------------------------------
(* The main loop *)

RaisedPhases == {"faulted", "interrupted"}
SomeTask(phs) == \E n \in Nodes, s \in Slots : sched.task[n][s].phase \in phs

\* The store holds something that the last scan did not find.
MoreToFind ==
    /\ phase = "running" /\ ~drain /\ ~SomeTask(RaisedPhases)
    /\ Recheck(sched, delivers) # sched

\* A deliver woke the loop: the store is scanned again.
Rescan ==
    /\ MoreToFind
    /\ sched' = Recheck(sched, delivers)
    /\ UNCHANGED <<durable, phase, drain, final, starts>>

\* Nothing is ready or running and the last scan found nothing.
NothingLeft ==
    /\ phase = "running" /\ ~drain
    /\ ActiveNodes(sched) = {} /\ Recheck(sched, delivers) = sched

\* The loop is over.
Return ==
    /\ NothingLeft
    /\ phase' = "ended"
    /\ final' = IF sched.reached THEN "COMPLETED" ELSE "FAILED"
    /\ UNCHANGED <<durable, drain, sched, starts>>

\* A task raised, or the control asked for a drain:
MustDrain == phase = "running" /\ (drain \/ SomeTask(RaisedPhases))

\* the rest is cancelled.
BeginDrain ==
    /\ MustDrain
    /\ phase' = "draining"
    /\ UNCHANGED <<durable, drain, sched, final, starts>>

\* Mutant: only the tasks that execute a node are cancelled.
Cancellable_BusyOnly(n, s) == phase = "draining" /\ sched.task[n][s].phase = "busy"

\* cancel_and_drain cancels every task that is not done.
Cancellable(n, s) == phase = "draining" /\ sched.task[n][s].phase \in Unfinished

\* Mutant: cancel_invocation does not test that its record is RUNNING.
CancelTask_NoCas(n, s) ==
    LET t == sched.task[n][s]
    IN  /\ Cancellable(n, s)
        /\ inv' = IF t.phase = "busy" THEN CloseInvocation(n, t.inv, "CANCELED") ELSE inv
        /\ sched' = SetTask(sched, n, s, NoTask)
        /\ UNCHANGED <<delivers, status, runVer, phase, drain, final, starts>>

\* A cancelled task ends where it is suspended.
CancelTask(n, s) ==
    LET t == sched.task[n][s]
        running == t.phase = "busy" /\ OwnsInvocation(n, s)
    IN  /\ Cancellable(n, s)
        /\ inv' = IF running THEN CloseInvocation(n, t.inv, "CANCELED") ELSE inv
        /\ sched' = IF t.phase = "busy" /\ ~running
                    THEN [sched EXCEPT !.task[n][s].phase = "faulted"]
                    ELSE SetTask(sched, n, s, NoTask)
        /\ UNCHANGED <<delivers, status, runVer, phase, drain, final, starts>>

\* Every task is over.
AllOver == phase = "draining" /\ ~SomeTask(Unfinished)

\* A fault takes precedence over an interrupt or a drain.
Drained ==
    /\ AllOver
    /\ phase' = "ended"
    /\ final' = IF SomeTask({"faulted"}) THEN "CRASHED" ELSE "PAUSED"
    /\ UNCHANGED <<durable, drain, sched, starts>>

\* Mutant: final is reset before it is written.
WriteFinal_Reset ==
    /\ phase = "ended"
    /\ phase' = "idle" /\ final' = "none" /\ status' = final'
    /\ drain' = FALSE /\ sched' = NewScheduler
    /\ UNCHANGED <<delivers, inv, runVer, starts>>

\* The orchestrator writes the final status.
WriteFinal ==
    /\ phase = "ended"
    /\ phase' = "idle" /\ status' = final /\ final' = "none"
    /\ drain' = FALSE /\ sched' = NewScheduler
    /\ UNCHANGED <<delivers, inv, runVer, starts>>

RequestDrain ==
    /\ phase = "running" /\ ~drain
    /\ drain' = TRUE
    /\ UNCHANGED <<durable, phase, sched, final, starts>>

\* deliver_to_node: refused only by the stored status.
DeliverToNode(n) ==
    LET k == Cardinality({d \in delivers : d.src = External})
    IN  /\ k < MaxExternal /\ n # Start
        /\ status \in {"RUNNING", "PAUSED", "PENDING"} /\ ~drain
        /\ delivers' = delivers \union
              {[src |-> External, from |-> k, dst |-> n, by |-> 0, st |-> "PENDING"]}
        /\ UNCHANGED <<inv, status, runVer, phase, drain, sched, final, starts>>

-----------------------------------------------------------------------------
(* Process death.  The instance is then swept to CRASHED before anybody      *)
(* starts it again (GraphLifecycle).                                         *)

Die ==
    /\ starts < MaxStarts
    /\ status' = IF status = "RUNNING" THEN "CRASHED" ELSE status
    /\ phase' = "idle" /\ drain' = FALSE /\ final' = "none"
    /\ sched' = NewScheduler
    /\ UNCHANGED <<runVer, starts>>

ProcessDies == phase # "idle" /\ Die /\ UNCHANGED <<delivers, inv>>

\* Between begin_invocation and mark_consumed.
BeginDies(n, s) ==
    /\ Startable(n, s)
    /\ inv' = BeginInvocation(n)
    /\ UNCHANGED delivers
    /\ Die

\* After complete_invocation: the outputs to dsts are promoted, the rest of
\* them and the inputs are not.
CompleteDies(n, s, dsts) ==
    /\ TaskIs(n, s, "busy") /\ OwnsInvocation(n, s)
    /\ inv' = CloseInvocation(n, sched.task[n][s].inv, "COMPLETED")
    /\ delivers' = PromoteStaged(delivers, {n}, dsts)
    /\ Die

-----------------------------------------------------------------------------

TaskStep(n, s) ==
    \/ Begin(n, s) \/ Complete(n, s) \/ Finish(n, s) \/ CompleteRejected(n, s) \/ CancelTask(n, s)
    \/ \E ts \in SUBSET (Targets(n) \ Misrouted(n)) : Misroute(n, s, ts)

LoopStep == Rescan \/ Return \/ BeginDrain \/ Drained \/ WriteFinal

Next ==
    \/ StartFresh \/ RecoverFromEntry \/ RecoverFromHistory
    \/ LoopStep \/ RequestDrain \/ ProcessDies
    \/ \E n \in Nodes : DeliverToNode(n)
    \/ \E n \in Nodes, s \in Slots :
          \/ TaskStep(n, s) \/ Fault(n, s) \/ Interrupt(n, s) \/ BeginDies(n, s)
          \/ \E t \in Nodes : Emit(n, s, t)
          \/ \E dsts \in SUBSET Outputs(n) : CompleteDies(n, s, dsts)

Spec == Init /\ [][Next]_vars

-----------------------------------------------------------------------------
(* Properties *)

\* Every variable has its type; a wakeup is only ever recorded for a row that
\* exists.
TypeOK ==
    /\ delivers \subseteq Deliver
    /\ inv \in [Nodes -> Seq([st : InvocationStatus, run : Nat])]
    /\ status \in {"PENDING", "RUNNING", "PAUSED", "COMPLETED", "FAILED", "CRASHED"}
    /\ runVer \in Nat /\ starts \in Nat
    /\ phase \in {"idle", "running", "draining", "ended"}
    /\ drain \in BOOLEAN
    /\ final \in {"none", "PAUSED", "COMPLETED", "FAILED", "CRASHED"}
    /\ sched \in Scheduler
    /\ sched.scheduled \subseteq {Key(d) : d \in delivers}

\* "The same Node object never executes concurrently" (parallel.py:484):
\* whatever wakes a node that waits for its predecessors, it has at most one
\* instance.
OneInstancePerNode ==
    \A n \in Nodes \ OnReceive : \E s \in Slots : sched.task[n][s].phase = "none"

\* An input counts as settled only if an invocation that had taken it
\* completed.  Otherwise a crash would lose it.
SettledMeansCompleted ==
    \A d \in delivers : d.st = "CONSUMED_COMPLETED" => inv[d.dst][d.by].st = "COMPLETED"

\* A node's output is visible only once the invocation that produced it, or a
\* later one of the same node, has completed.
VisibleMeansCompleted ==
    \A d \in delivers : d.st # "STAGED" /\ d.src # External =>
        \E i \in d.from..Latest(d.src) : inv[d.src][i].st = "COMPLETED"

\* No join is premature: of two instances that exist, neither can still feed
\* the other (acyclic graphs).
NoPrematureJoin ==
    phase = "running" => \A m, n \in ActiveNodes(sched) : n \notin Downstream[m]

\* A completed invocation of a node other than Start had an input, so nobody
\* ran a node for a deliver that another invocation had already taken.
CompletedHadInput ==
    \A n \in Nodes \ {Start} : \A i \in 1..Latest(n) :
        inv[n][i].st = "COMPLETED" => \E d \in delivers : d.dst = n /\ d.by = i

\* A run that ends by itself has left nothing behind: every input is settled,
\* every output promoted, every invocation begun has a completed successor,
\* however often the process died on the way.
EndedIsSettled ==
    status \in {"COMPLETED", "FAILED"} =>
        /\ \A d \in delivers : d.st = "CONSUMED_COMPLETED"
        /\ \A n \in Nodes : LatestStatus(n) \in {"none", "COMPLETED"}

\* A run completes exactly when END has run in it.
CompletedMeansEnd ==
    status \in {"COMPLETED", "FAILED"} => (status = "COMPLETED" <=> RunStatus(End) = "COMPLETED")

\* Pending-dispatch targets "WILL become active instances" (parallel.py): a
\* run does not end while one of them waits.
WaitingBecomesActive == phase = "ended" /\ final \in {"COMPLETED", "FAILED"} => sched.waiting = {}

\* A row only ever moves along STAGED, PENDING, CONSUMED_PENDING,
\* CONSUMED_COMPLETED, at most one status per step, and never vanishes: no
\* retry, recovery or re-invocation takes an input back.
NextStatus == [STAGED |-> "PENDING", PENDING |-> "CONSUMED_PENDING",
               CONSUMED_PENDING |-> "CONSUMED_COMPLETED", CONSUMED_COMPLETED |-> "none"]
LedgerMovesForward ==
    [][\A d \in delivers : \E e \in delivers' :
          /\ Key(e) = Key(d)
          /\ e.st = d.st \/ e.st = NextStatus[d.st]]_delivers

\* "No transition FROM terminal" (constants.py:150): of two tasks on one node,
\* and of a task and the recovery after it, neither rewrites a closed record.
KeepsClosed ==
    \A n \in Nodes : /\ Latest(n) <= Len(inv'[n])
                     /\ \A i \in 1..Latest(n) :
                           inv[n][i].st # "RUNNING" => inv'[n][i] = inv[n][i]
ClosedStaysClosed == [][KeepsClosed]_inv

\* An engine that was started is never stuck.  While it runs, the loop can go on or
\* a task can: one may begin, or an agent returns (a node at the bound MaxInv apart).
\* Once it drains it waits for no agent: there is a task to cancel, or all are over.
EngineNeverStuck ==
    /\ phase = "running" =>
          \/ MoreToFind \/ NothingLeft \/ MustDrain
          \/ \E n \in Nodes, s \in Slots :
                \/ Startable(n, s) \/ TaskIs(n, s, "busy") \/ TaskIs(n, s, "after")
                \/ TaskIs(n, s, "ready") /\ Latest(n) >= MaxInv
    /\ phase = "draining" => AllOver \/ \E n \in Nodes, s \in Slots : Cancellable(n, s)
=============================================================================
