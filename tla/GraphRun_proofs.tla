--------------------------- MODULE GraphRun_proofs ---------------------------
(***************************************************************************)
(* Proofs about GraphRun for any graph, triggers, stray delivers and       *)
(* bounds.                                                                 *)
(***************************************************************************)
EXTENDS GraphRun, FiniteSetTheorems, TLAPS

(* The ledger *)

\* The set of keys of some rows.
Keys(dl) == {Key(d) : d \in dl}

\* dl with the rows of rows moved to status s.
Moved(dl, rows, s) == {IF d \in rows THEN [d EXCEPT !.st = s] ELSE d : d \in dl}

LEMMA MovedType ==
    ASSUME NEW dl \in SUBSET Deliver, NEW rows,
           NEW s \in {"STAGED", "PENDING", "CONSUMED_PENDING", "CONSUMED_COMPLETED"}
    PROVE  Moved(dl, rows, s) \in SUBSET Deliver /\ Keys(Moved(dl, rows, s)) = Keys(dl)
<1> DEFINE f(d) == IF d \in rows THEN [d EXCEPT !.st = s] ELSE d
<1>1. ASSUME NEW d \in dl PROVE f(d) \in Deliver /\ Key(f(d)) = Key(d)
  BY DEF Deliver, Key
<1>2. Moved(dl, rows, s) = {f(d) : d \in dl}
  BY DEF Moved
<1> HIDE DEF f
<1>3. Keys(Moved(dl, rows, s)) = Keys(dl)
  BY <1>1, <1>2 DEF Keys
<1> QED BY <1>1, <1>2, <1>3

LEMMA StagedMoved ==
    ASSUME NEW dl, NEW srcs, NEW dsts
    PROVE  PromoteStaged(dl, srcs, dsts) =
             Moved(dl, {d \in dl : d.src \in srcs /\ d.st = "STAGED" /\ d.dst \in dsts}, "PENDING")
BY DEF PromoteStaged, Promote, Moved

LEMMA ConsumedMoved ==
    ASSUME NEW dl, NEW ns
    PROVE  PromoteConsumed(dl, ns) =
             Moved(dl, {d \in dl : d.dst \in ns /\ d.st = "CONSUMED_PENDING"}, "CONSUMED_COMPLETED")
BY DEF PromoteConsumed, Promote, Moved

LEMMA PromoteType ==
    ASSUME NEW dl \in SUBSET Deliver, NEW srcs, NEW dsts
    PROVE  /\ PromoteStaged(dl, srcs, dsts) \in SUBSET Deliver
           /\ Keys(PromoteStaged(dl, srcs, dsts)) = Keys(dl)
           /\ PromoteConsumed(dl, dsts) \in SUBSET Deliver
           /\ Keys(PromoteConsumed(dl, dsts)) = Keys(dl)
BY StagedMoved, ConsumedMoved, MovedType

LEMMA MarkType ==
    ASSUME NEW dl \in SUBSET Deliver, NEW n, NEW k \in Nat
    PROVE  MarkConsumed(dl, n, k) \in SUBSET Deliver /\ Keys(MarkConsumed(dl, n, k)) = Keys(dl)
<1> DEFINE f(d) == IF d \in Consumable(dl, n) THEN [d EXCEPT !.st = "CONSUMED_PENDING", !.by = k] ELSE d
<1>1. ASSUME NEW d \in dl PROVE f(d) \in Deliver /\ Key(f(d)) = Key(d)
  BY DEF Deliver, Key
<1>2. MarkConsumed(dl, n, k) = {f(d) : d \in dl}
  BY DEF MarkConsumed
<1> HIDE DEF f
<1>3. Keys(MarkConsumed(dl, n, k)) = Keys(dl)
  BY <1>1, <1>2 DEF Keys
<1> QED BY <1>1, <1>2, <1>3

(* The scheduler *)

LEMMA CreateType ==
    ASSUME NEW m \in Scheduler, NEW ns
    PROVE  /\ CreateInstances(m, ns) \in Scheduler
           /\ CreateInstances(m, ns).scheduled = m.scheduled
BY DEF CreateInstances, Scheduler, ReadyTask, TaskPhases, Slots, Unfinished

LEMMA FireType ==
    ASSUME NEW m \in Scheduler, NEW dl
    PROVE  /\ FireAllPreds(m, dl) \in Scheduler
           /\ FireAllPreds(m, dl).scheduled = m.scheduled
<1> DEFINE ts == Fireable(m, dl)
           m1 == [m EXCEPT !.waiting = @ \ ts]
<1>1. m1 \in Scheduler /\ m1.scheduled = m.scheduled
  BY DEF Scheduler
<1> QED BY <1>1, CreateType DEF FireAllPreds

\* The update of the wakeups in Recheck.
Wake(m, w, u, ns) ==
    [m EXCEPT !.waiting = @ \union w, !.scheduled = @ \union u, !.reached = @ \/ End \in ns]

LEMMA WakeType ==
    ASSUME NEW m \in Scheduler, NEW w \in SUBSET Nodes,
           NEW u \in SUBSET ((Nodes \union {External}) \X Nat \X Nodes), NEW ns
    PROVE  Wake(m, w, u, ns) \in Scheduler /\ Wake(m, w, u, ns).scheduled = m.scheduled \union u
BY DEF Scheduler, Wake

LEMMA RecheckType ==
    ASSUME NEW m \in Scheduler, NEW dl \in SUBSET Deliver
    PROVE  /\ Recheck(m, dl) \in Scheduler
           /\ Recheck(m, dl).scheduled \subseteq m.scheduled \union Keys(dl)
<1> DEFINE fresh == {n \in Nodes \ {Start} : Unscheduled(m, dl, n) # {}}
           fire == (fresh \intersect OnReceive) \ ActiveNodes(m)
           wake == fresh \ OnReceive
           u == UNION {Unscheduled(m, dl, n) : n \in fire \union wake}
           m1 == Wake(m, wake, u, fresh)
           m2 == CreateInstances(m1, fire)
<1>1. \A n \in Nodes : /\ Unscheduled(m, dl, n) \subseteq Keys(dl)
                       /\ Unscheduled(m, dl, n) \subseteq (Nodes \union {External}) \X Nat \X Nodes
  BY DEF Unscheduled, PendingAt, Keys, Key, Deliver
<1>2. u \subseteq Keys(dl)
  BY <1>1
<1>3. u \in SUBSET ((Nodes \union {External}) \X Nat \X Nodes)
  BY <1>1
<1>4. m1 \in Scheduler /\ m1.scheduled \subseteq m.scheduled \union Keys(dl)
  <2>1. wake \in SUBSET Nodes
    OBVIOUS
  <2> HIDE DEF wake, u, fresh
  <2> QED BY <1>2, <1>3, <2>1, WakeType
<1>5. m2 \in Scheduler /\ m2.scheduled = m1.scheduled
  BY <1>4, CreateType
<1>6. Recheck(m, dl) = FireAllPreds(m2, dl)
  BY DEF Recheck, Wake
<1> HIDE DEF m2, m1
<1> QED BY <1>4, <1>5, <1>6, FireType

LEMMA DispatchType ==
    ASSUME NEW m \in Scheduler, NEW ts \in SUBSET Nodes
    PROVE  Dispatch(m, ts) \in Scheduler /\ Dispatch(m, ts).scheduled = m.scheduled
<1> DEFINE q == [n \in Nodes |-> IF n \in ts \intersect OnReceive \intersect ActiveNodes(m)
                                THEN m.queued[n] + 1 ELSE m.queued[n]]
           m1 == [m EXCEPT !.waiting = @ \union (ts \ OnReceive), !.queued = q, !.reached = @ \/ End \in ts]
<1>1. q \in [Nodes -> Nat]
  BY DEF Scheduler
<1>2. m1 \in Scheduler /\ m1.scheduled = m.scheduled
  <2> HIDE DEF q
  <2> QED BY <1>1 DEF Scheduler
<1>3. Dispatch(m, ts) = CreateInstances(m1, (ts \intersect OnReceive) \ ActiveNodes(m))
  BY DEF Dispatch
<1> HIDE DEF m1
<1> QED BY <1>2, <1>3, CreateType

LEMMA DrainType ==
    ASSUME NEW m \in Scheduler, NEW n \in Nodes
    PROVE  DrainOnReceive(m, n) \in Scheduler /\ DrainOnReceive(m, n).scheduled = m.scheduled
<1>1. CASE m.queued[n] = 0
  BY <1>1 DEF DrainOnReceive
<1>2. CASE m.queued[n] # 0
  <2> DEFINE m1 == [m EXCEPT !.queued[n] = @ - 1]
  <2>1. m.queued[n] - 1 \in Nat
    BY <1>2 DEF Scheduler
  <2>2. m1 \in Scheduler /\ m1.scheduled = m.scheduled
    BY <2>1 DEF Scheduler
  <2> HIDE DEF m1
  <2>3. DrainOnReceive(m, n) = CreateInstances(m1, {n})
    BY <1>2 DEF DrainOnReceive, m1
  <2> QED BY <2>2, <2>3, CreateType
<1> QED BY <1>1, <1>2

LEMMA SetTaskType ==
    ASSUME NEW m \in Scheduler, NEW n \in Nodes, NEW s \in Slots,
           NEW t \in [phase : TaskPhases, inv : Nat]
    PROVE  SetTask(m, n, s, t) \in Scheduler /\ SetTask(m, n, s, t).scheduled = m.scheduled
BY DEF SetTask, Scheduler

LEMMA PhaseType ==
    ASSUME NEW m \in Scheduler, NEW n \in Nodes, NEW s \in Slots, NEW ph \in TaskPhases
    PROVE  /\ [m EXCEPT !.task[n][s].phase = ph] \in Scheduler
           /\ [m EXCEPT !.task[n][s].phase = ph].scheduled = m.scheduled
<1> DEFINE t == [m.task[n][s] EXCEPT !.phase = ph]
<1>1. t \in [phase : TaskPhases, inv : Nat]
  BY DEF Scheduler
<1>2. [m EXCEPT !.task[n][s].phase = ph] = SetTask(m, n, s, t)
  BY DEF SetTask, Scheduler
<1> HIDE DEF t
<1> QED BY <1>1, <1>2, SetTaskType

LEMMA NewType == NewScheduler \in Scheduler /\ NewScheduler.scheduled = {}
BY DEF NewScheduler, Scheduler, NoTask, TaskPhases, Unfinished

LEMMA LaunchType ==
    ASSUME NEW seeds, NEW reached \in BOOLEAN, NEW dl \in SUBSET Deliver
    PROVE  Launch(seeds, reached, dl) \in Scheduler /\ Launch(seeds, reached, dl).scheduled \subseteq Keys(dl)
<1> DEFINE ready == {n \in seeds : n = Start \/ LatestStatus(n) \in {"CRASHED", "RUNNING", "CANCELED"}}
           u == {Key(d) : d \in {x \in dl : x.dst \in ready /\ x.st = "PENDING"}}
           m == [NewScheduler EXCEPT !.reached = reached, !.scheduled = u]
           m1 == CreateInstances(m, ready)
<1>1. u \subseteq Keys(dl) /\ u \in SUBSET ((Nodes \union {External}) \X Nat \X Nodes)
  BY DEF Keys, Key, Deliver
<1>2. m \in Scheduler /\ m.scheduled \subseteq Keys(dl)
  <2> HIDE DEF u
  <2>1. CASE reached = TRUE
    BY <1>1, <2>1, NewType DEF Scheduler
  <2>2. CASE reached = FALSE
    BY <1>1, <2>2, NewType DEF Scheduler
  <2> QED BY <2>1, <2>2
<1>3. m1 \in Scheduler /\ m1.scheduled \subseteq Keys(dl)
  <2> HIDE DEF m
  <2> QED BY <1>2, CreateType
<1>4. Launch(seeds, reached, dl) = Recheck(m1, dl)
  BY DEF Launch
<1> HIDE DEF m1
<1> QED BY <1>3, <1>4, RecheckType

(* Invocations *)

Record == [st : InvocationStatus, run : Nat]

LEMMA BeginType ==
    ASSUME inv \in [Nodes -> Seq(Record)], runVer \in Nat, NEW n \in Nodes
    PROVE  BeginInvocation(n) \in [Nodes -> Seq(Record)]
<1> DEFINE q == inv[n]
           f == [i \in DOMAIN q |-> IF i = Len(q) /\ q[i].st = "RUNNING"
                                   THEN [q[i] EXCEPT !.st = "CRASHED"] ELSE q[i]]
           r == [st |-> "RUNNING", run |-> runVer]
<1>1. q \in Seq(Record) /\ r \in Record
  BY DEF Record, InvocationStatus
<1>2. ASSUME NEW i \in DOMAIN q PROVE f[i] \in Record
  <2>1. q[i] \in Record
    BY <1>1
  <2> HIDE DEF q
  <2> QED BY <2>1 DEF Record, InvocationStatus
<1>3. f \in Seq(Record)
  BY <1>1, <1>2
<1>4. Append(f, r) \in Seq(Record)
  BY <1>1, <1>3
<1>5. BeginInvocation(n) = [inv EXCEPT ![n] = Append(f, r)]
  BY DEF BeginInvocation
<1> HIDE DEF f, r
<1> QED BY <1>4, <1>5

LEMMA CloseType ==
    ASSUME inv \in [Nodes -> Seq(Record)], NEW n \in Nodes, NEW k \in Nat, NEW s \in InvocationStatus
    PROVE  CloseInvocation(n, k, s) \in [Nodes -> Seq(Record)]
<1> DEFINE q == [inv[n] EXCEPT ![k].st = s]
<1>1. inv[n] \in Seq(Record)
  OBVIOUS
<1>2. q \in Seq(Record)
  <2> DEFINE w == inv[n]
             x == [w[k] EXCEPT !.st = s]
  <2>1. CASE k \in DOMAIN w
    <3>1. w[k] \in Record
      BY <1>1, <2>1
    <3> HIDE DEF w
    <3>2. x \in Record
      BY <3>1 DEF Record
    <3>3. q = [w EXCEPT ![k] = x]
      BY DEF w
    <3> HIDE DEF x, q
    <3>4. w \in Seq(Record)
      BY <1>1 DEF w
    <3> QED BY <2>1, <3>2, <3>3, <3>4
  <2>2. CASE k \notin DOMAIN w
    <3>1. q = w
      BY <1>1, <2>2
    <3> QED BY <1>1, <3>1
  <2> QED BY <2>1, <2>2
<1>3. CloseInvocation(n, k, s) = [inv EXCEPT ![n] = q]
  BY DEF CloseInvocation
<1> HIDE DEF q
<1> QED BY <1>2, <1>3

(* What a step does to the ledger *)

LEMMA ImageFinite ==
    ASSUME NEW S, IsFiniteSet(S), NEW f
    PROVE  IsFiniteSet({f[x] : x \in S})
<1> DEFINE T == {f[x] : x \in S}
           g == [x \in S |-> f[x]]
<1>1. g \in Surjection(S, T)
  BY DEF Surjection
<1> QED BY <1>1, FS_Surjection

LEMMA MovedFinite ==
    ASSUME NEW dl, IsFiniteSet(dl), NEW rows, NEW s
    PROVE  IsFiniteSet(Moved(dl, rows, s))
<1> DEFINE f == [d \in dl |-> IF d \in rows THEN [d EXCEPT !.st = s] ELSE d]
<1>1. Moved(dl, rows, s) = {f[d] : d \in dl}
  BY DEF Moved
<1> HIDE DEF f
<1> QED BY <1>1, ImageFinite

LEMMA PromoteFinite ==
    ASSUME NEW dl, IsFiniteSet(dl), NEW srcs, NEW dsts
    PROVE  IsFiniteSet(PromoteStaged(dl, srcs, dsts)) /\ IsFiniteSet(PromoteConsumed(dl, dsts))
BY StagedMoved, ConsumedMoved, MovedFinite

LEMMA MarkFinite ==
    ASSUME NEW dl, IsFiniteSet(dl), NEW n, NEW k
    PROVE  IsFiniteSet(MarkConsumed(dl, n, k))
<1> DEFINE f == [d \in dl |->
              IF d \in Consumable(dl, n) THEN [d EXCEPT !.st = "CONSUMED_PENDING", !.by = k] ELSE d]
<1>1. MarkConsumed(dl, n, k) = {f[d] : d \in dl}
  BY DEF MarkConsumed
<1> HIDE DEF f
<1> QED BY <1>1, ImageFinite

\* The only ways a step changes the ledger.
LedgerStep ==
    \/ delivers' = delivers
    \/ \E e : delivers' = delivers \union {e}
    \/ \E n \in Nodes : delivers' = MarkConsumed(delivers, n, Latest(n) + 1)
    \/ \E srcs, dsts : delivers' = PromoteStaged(delivers, srcs, dsts)
    \/ \E srcs, dsts, ns : delivers' = PromoteConsumed(PromoteStaged(delivers, srcs, dsts), ns)

LEMMA NextLedgerStep ==
    ASSUME Next
    PROVE  LedgerStep
<1>1. CASE StartFresh \/ RecoverFromEntry
  BY <1>1 DEF StartFresh, RecoverFromEntry, Enter, LedgerStep
<1>2. CASE RecoverFromHistory
  <2>1. delivers' = AutoPromoted
    BY <1>2 DEF RecoverFromHistory, Enter
  <2> QED BY <2>1 DEF AutoPromoted, LedgerStep
<1>3. CASE LoopStep \/ RequestDrain \/ ProcessDies
  BY <1>3 DEF LoopStep, Rescan, Return, BeginDrain, Drained, WriteFinal, RequestDrain, ProcessDies,
              durable, LedgerStep, MoreToFind, NothingLeft, MustDrain, AllOver, Unfinished
<1>4. ASSUME NEW n \in Nodes, DeliverToNode(n) PROVE LedgerStep
  BY <1>4 DEF DeliverToNode, LedgerStep
<1>5. ASSUME NEW n \in Nodes, NEW s \in Slots, TaskStep(n, s) PROVE LedgerStep
  <2>1. CASE Begin(n, s)
    BY <2>1 DEF Begin, LedgerStep, Startable
  <2>2. CASE Complete(n, s)
    BY <2>2 DEF Complete, LedgerStep
  <2>3. CASE Finish(n, s) \/ CompleteRejected(n, s) \/ CancelTask(n, s)
    BY <2>3 DEF Finish, CompleteRejected, CancelTask, durable, LedgerStep, Cancellable, Unfinished
  <2>4. ASSUME NEW ts \in SUBSET (Targets(n) \ Misrouted(n)), Misroute(n, s, ts) PROVE LedgerStep
    BY <2>4 DEF Misroute, LedgerStep
  <2> QED BY <1>5, <2>1, <2>2, <2>3, <2>4 DEF TaskStep
<1>6. ASSUME NEW n \in Nodes, NEW s \in Slots, Fault(n, s) \/ Interrupt(n, s) \/ BeginDies(n, s)
      PROVE  LedgerStep
  BY <1>6 DEF Fault, Interrupt, Raise, BeginDies, LedgerStep, Startable, Unfinished
<1>7. ASSUME NEW n \in Nodes, NEW s \in Slots, NEW t \in Nodes, Emit(n, s, t) PROVE LedgerStep
  BY <1>7 DEF Emit, LedgerStep
<1>8. ASSUME NEW n \in Nodes, NEW s \in Slots, NEW dsts \in SUBSET Outputs(n), CompleteDies(n, s, dsts)
      PROVE  LedgerStep
  BY <1>8 DEF CompleteDies, LedgerStep
<1> QED BY <1>1, <1>2, <1>3, <1>4, <1>5, <1>6, <1>7, <1>8 DEF Next

LEMMA FiniteStep ==
    ASSUME IsFiniteSet(delivers), LedgerStep
    PROVE  IsFiniteSet(delivers')
<1>1. ASSUME NEW e, delivers' = delivers \union {e} PROVE IsFiniteSet(delivers')
  BY <1>1, FS_AddElement
<1>2. ASSUME NEW n \in Nodes, delivers' = MarkConsumed(delivers, n, Latest(n) + 1)
      PROVE  IsFiniteSet(delivers')
  BY <1>2, MarkFinite
<1>3. ASSUME NEW srcs, NEW dsts, delivers' = PromoteStaged(delivers, srcs, dsts)
      PROVE  IsFiniteSet(delivers')
  BY <1>3, PromoteFinite
<1>4. ASSUME NEW srcs, NEW dsts, NEW ns,
             delivers' = PromoteConsumed(PromoteStaged(delivers, srcs, dsts), ns)
      PROVE  IsFiniteSet(delivers')
  BY <1>4, PromoteFinite
<1> QED BY <1>1, <1>2, <1>3, <1>4 DEF LedgerStep

(* Type correctness *)

\* Strengthens TypeOK: an engine that ended has a status to write.
IInv == TypeOK /\ (phase = "ended" => final # "none")

\* The type invariant in the terms of the lemmas.
LEMMA TypeParts ==
    ASSUME TypeOK
    PROVE  /\ delivers \in SUBSET Deliver
           /\ inv \in [Nodes -> Seq(Record)]
           /\ sched \in Scheduler /\ sched.scheduled \subseteq Keys(delivers)
           /\ runVer \in Nat
           /\ \A n \in Nodes : Latest(n) \in Nat
<1>1. /\ delivers \in SUBSET Deliver /\ inv \in [Nodes -> Seq(Record)] /\ runVer \in Nat
      /\ sched \in Scheduler /\ sched.scheduled \subseteq Keys(delivers)
  BY DEF TypeOK, Keys, Record
<1>2. ASSUME NEW n \in Nodes PROVE Latest(n) \in Nat
  <2>1. inv[n] \in Seq(Record)
    BY <1>1
  <2> QED BY <2>1 DEF Latest
<1> QED BY <1>1, <1>2

\* What a step that leaves the engine's phase alone has to show.
LEMMA StepType ==
    ASSUME IInv, UNCHANGED <<status, runVer, phase, drain, final, starts>>,
           delivers' \in SUBSET Deliver,
           inv' \in [Nodes -> Seq(Record)],
           sched' \in Scheduler, sched'.scheduled \subseteq Keys(delivers')
    PROVE  IInv'
BY DEF IInv, TypeOK, Keys, Record

LEMMA AutoPromotedType ==
    ASSUME delivers \in SUBSET Deliver
    PROVE  AutoPromoted \in SUBSET Deliver /\ Keys(AutoPromoted) = Keys(delivers)
<1> DEFINE dl == PromoteStaged(delivers, CompletedNodes, Nodes)
           ns == {n \in CompletedNodes \ {Start} : \E d \in delivers :
                     d.dst = n /\ d.st = "CONSUMED_PENDING" /\ d.by = Latest(n)}
<1>1. dl \in SUBSET Deliver /\ Keys(dl) = Keys(delivers)
  BY PromoteType
<1>2. AutoPromoted = PromoteConsumed(dl, ns)
  BY DEF AutoPromoted
<1> HIDE DEF dl, ns
<1> QED BY <1>1, <1>2, PromoteType

LEMMA EnterType ==
    ASSUME IInv, NEW seeds, NEW reached \in BOOLEAN, NEW dl \in SUBSET Deliver,
           Enter(seeds, reached, dl), runVer' \in Nat
    PROVE  IInv'
<1>1. sched' \in Scheduler /\ sched'.scheduled \subseteq Keys(dl)
  BY LaunchType DEF Enter
<1>2. inv' = inv /\ final' = final /\ delivers' = dl /\ starts' = starts + 1
      /\ status' = "RUNNING" /\ phase' = "running" /\ drain' = FALSE
  BY DEF Enter
<1>3. starts' \in Nat
  BY <1>2 DEF IInv, TypeOK
<1>4. delivers' \in SUBSET Deliver /\ sched'.scheduled \subseteq Keys(delivers')
  BY <1>1, <1>2
<1>5. inv' \in [Nodes -> Seq([st : InvocationStatus, run : Nat])]
  BY <1>2 DEF IInv, TypeOK
<1>6. final' \in {"none", "PAUSED", "COMPLETED", "FAILED", "CRASHED"}
  BY <1>2 DEF IInv, TypeOK
<1> QED BY <1>1, <1>2, <1>3, <1>4, <1>5, <1>6 DEF IInv, TypeOK, Keys

LEMMA DieType ==
    ASSUME IInv, Die, delivers' \in SUBSET Deliver, inv' \in [Nodes -> Seq(Record)]
    PROVE  IInv'
<1>1. sched' \in Scheduler /\ sched'.scheduled = {}
  BY NewType DEF Die
<1>2. status' \in {status, "CRASHED"} /\ phase' = "idle" /\ drain' = FALSE /\ final' = "none"
      /\ runVer' = runVer /\ starts' = starts
  BY DEF Die
<1> QED BY <1>1, <1>2 DEF IInv, TypeOK, Record

LEMMA DestinationsType ==
    ASSUME delivers \in SUBSET Deliver, NEW n
    PROVE  Targets(n) \subseteq Nodes
BY DEF Targets, Outputs, Deliver

LEMMA TaskStepType ==
    ASSUME IInv, NEW n \in Nodes, NEW s \in Slots, TaskStep(n, s)
    PROVE  IInv'
<1> /\ delivers \in SUBSET Deliver /\ inv \in [Nodes -> Seq(Record)]
    /\ sched \in Scheduler /\ sched.scheduled \subseteq Keys(delivers)
    /\ runVer \in Nat /\ Latest(n) \in Nat
  BY TypeParts DEF IInv
<1> DEFINE t == sched.task[n][s]
<1>1. t \in [phase : TaskPhases, inv : Nat]
  BY DEF Scheduler
<1>2. CASE Begin(n, s)
  <2> DEFINE b == [phase |-> "busy", inv |-> Latest(n) + 1]
  <2>1. b \in [phase : TaskPhases, inv : Nat]
    BY DEF TaskPhases, Unfinished
  <2>2. sched' = SetTask(sched, n, s, b)
    BY <1>2 DEF Begin, Startable
  <2> HIDE DEF b
  <2>3. sched' \in Scheduler /\ sched'.scheduled = sched.scheduled
    BY <2>1, <2>2, SetTaskType
  <2>4. delivers' \in SUBSET Deliver /\ Keys(delivers') = Keys(delivers)
    BY <1>2, MarkType DEF Begin, Startable
  <2>5. inv' \in [Nodes -> Seq(Record)]
    BY <1>2, BeginType DEF Begin, Startable
  <2> QED BY <1>2, <2>3, <2>4, <2>5, StepType DEF Begin, Startable
<1>3. CASE Complete(n, s)
  <2> DEFINE a == [t EXCEPT !.phase = "after"]
             m == Dispatch(sched, Targets(n))
             dl == PromoteStaged(delivers, {n}, Nodes)
  <2>1. a \in [phase : TaskPhases, inv : Nat]
    BY <1>1 DEF TaskPhases, Unfinished
  <2>2. m \in Scheduler /\ m.scheduled = sched.scheduled
    BY DispatchType, DestinationsType
  <2>3. dl \in SUBSET Deliver /\ Keys(dl) = Keys(delivers)
    BY PromoteType
  <2>4. /\ sched' = SetTask(m, n, s, a)
        /\ delivers' = PromoteConsumed(dl, {n})
        /\ inv' = CloseInvocation(n, t.inv, "COMPLETED")
    BY <1>3 DEF Complete
  <2>5. inv' \in [Nodes -> Seq(Record)]
    BY <1>1, <2>4, CloseType DEF InvocationStatus
  <2> HIDE DEF a, m, dl
  <2>6. sched' \in Scheduler /\ sched'.scheduled = sched.scheduled
    BY <2>1, <2>2, <2>4, SetTaskType
  <2>7. delivers' \in SUBSET Deliver /\ Keys(delivers') = Keys(delivers)
    BY <2>3, <2>4, PromoteType
  <2> QED BY <1>3, <2>5, <2>6, <2>7, StepType DEF Complete
<1>4. CASE Finish(n, s)
  <2> DEFINE m1 == SetTask(sched, n, s, NoTask)
             m2 == Recheck(m1, delivers)
  <2>1. NoTask \in [phase : TaskPhases, inv : Nat]
    BY DEF NoTask, TaskPhases, Unfinished
  <2>2. m1 \in Scheduler /\ m1.scheduled = sched.scheduled
    BY <2>1, SetTaskType
  <2>3. sched' = DrainOnReceive(m2, n) /\ delivers' = delivers /\ inv' = inv
    BY <1>4 DEF Finish
  <2> HIDE DEF m1
  <2>4. m2 \in Scheduler /\ m2.scheduled \subseteq Keys(delivers)
    BY <2>2, RecheckType
  <2> HIDE DEF m2
  <2>5. sched' \in Scheduler /\ sched'.scheduled \subseteq Keys(delivers)
    BY <2>3, <2>4, DrainType
  <2> QED BY <1>4, <2>3, <2>5, StepType DEF Finish
<1>5. CASE CompleteRejected(n, s)
  <2>1. sched' \in Scheduler /\ sched'.scheduled = sched.scheduled
    <3>1. "faulted" \in TaskPhases
      BY DEF TaskPhases
    <3> QED BY <1>5, <3>1, PhaseType DEF CompleteRejected
  <2> QED BY <1>5, <2>1, StepType DEF CompleteRejected, durable
<1>6. CASE CancelTask(n, s)
  <2> DEFINE m1 == [sched EXCEPT !.task[n][s].phase = "faulted"]
             m2 == SetTask(sched, n, s, NoTask)
  <2>1. m1 \in Scheduler /\ m1.scheduled = sched.scheduled
    <3>1. "faulted" \in TaskPhases
      BY DEF TaskPhases
    <3> QED BY <3>1, PhaseType
  <2>2. NoTask \in [phase : TaskPhases, inv : Nat]
    BY DEF NoTask, TaskPhases, Unfinished
  <2>3. m2 \in Scheduler /\ m2.scheduled = sched.scheduled
    BY <2>2, SetTaskType
  <2>4. sched' = m1 \/ sched' = m2
    BY <1>6 DEF CancelTask
  <2>5. inv' \in [Nodes -> Seq(Record)]
    <3>1. inv' = inv \/ inv' = CloseInvocation(n, t.inv, "CANCELED")
      BY <1>6 DEF CancelTask, Cancellable, Unfinished
    <3>2. t.inv \in Nat /\ "CANCELED" \in InvocationStatus
      BY <1>1 DEF InvocationStatus
    <3> HIDE DEF t
    <3> QED BY <3>1, <3>2, CloseType
  <2> HIDE DEF m1, m2
  <2> QED BY <1>6, <2>1, <2>3, <2>4, <2>5, StepType DEF CancelTask, Cancellable, Unfinished
<1>7. ASSUME NEW ts \in SUBSET (Targets(n) \ Misrouted(n)), Misroute(n, s, ts)
      PROVE  IInv'
  <2> DEFINE a == [t EXCEPT !.phase = "faulted"]
             m == Dispatch(sched, ts)
  <2>1. a \in [phase : TaskPhases, inv : Nat]
    BY <1>1 DEF TaskPhases, Unfinished
  <2>2. m \in Scheduler /\ m.scheduled = sched.scheduled
    BY DispatchType, DestinationsType
  <2>3. /\ sched' = [m EXCEPT !.task[n][s] = a]
        /\ delivers' = PromoteStaged(delivers, {n}, Nodes)
        /\ inv' = CloseInvocation(n, t.inv, "COMPLETED")
    BY <1>7 DEF Misroute
  <2>4. inv' \in [Nodes -> Seq(Record)]
    BY <1>1, <2>3, CloseType DEF InvocationStatus
  <2>5. delivers' \in SUBSET Deliver /\ Keys(delivers') = Keys(delivers)
    BY <2>3, PromoteType
  <2> HIDE DEF a, m
  <2>6. sched' \in Scheduler /\ sched'.scheduled = sched.scheduled
    BY <2>1, <2>2, <2>3, SetTaskType DEF SetTask
  <2> QED BY <1>7, <2>4, <2>5, <2>6, StepType DEF Misroute
<1> QED BY <1>2, <1>3, <1>4, <1>5, <1>6, <1>7 DEF TaskStep

LEMMA RaiseType ==
    ASSUME IInv, NEW n \in Nodes, NEW s \in Slots, NEW st \in InvocationStatus, NEW ph \in TaskPhases,
           Raise(n, s, st, ph)
    PROVE  IInv'
<1> DEFINE t == sched.task[n][s]
<1> /\ delivers \in SUBSET Deliver /\ inv \in [Nodes -> Seq(Record)]
    /\ sched \in Scheduler /\ sched.scheduled \subseteq Keys(delivers)
  BY TypeParts DEF IInv
<1>1. t.inv \in Nat
  BY DEF Scheduler
<1>2. inv' = inv \/ inv' = CloseInvocation(n, t.inv, st)
  BY DEF Raise, Unfinished
<1>3. sched' = [sched EXCEPT !.task[n][s].phase = ph]
  BY DEF Raise, Unfinished
<1>4. UNCHANGED <<delivers, status, runVer, phase, drain, final, starts>>
  BY DEF Raise, Unfinished
<1> HIDE DEF t
<1>5. inv' \in [Nodes -> Seq(Record)]
  BY <1>1, <1>2, CloseType
<1>6. sched' \in Scheduler /\ sched'.scheduled = sched.scheduled
  BY <1>3, PhaseType
<1> QED BY <1>4, <1>5, <1>6, StepType

LEMMA NextType ==
    ASSUME IInv, IsFiniteSet(delivers), Next
    PROVE  IInv'
<1> /\ delivers \in SUBSET Deliver /\ inv \in [Nodes -> Seq(Record)]
    /\ sched \in Scheduler /\ sched.scheduled \subseteq Keys(delivers)
    /\ runVer \in Nat /\ \A n \in Nodes : Latest(n) \in Nat
  BY TypeParts DEF IInv
<1>1. CASE StartFresh
  <2>1. Enter({Start}, FALSE, delivers) /\ runVer' \in Nat
    <3>1. runVer' = runVer + 1 /\ Enter({Start}, FALSE, delivers)
      BY <1>1 DEF StartFresh
    <3>2. runVer' \in Nat
      BY <3>1
    <3> QED BY <3>1, <3>2
  <2> QED BY <2>1, EnterType
<1>2. CASE RecoverFromEntry
  <2>1. Enter({Start}, FALSE, delivers) /\ runVer' \in Nat
    BY <1>2 DEF RecoverFromEntry
  <2> QED BY <2>1, EnterType
<1>3. CASE RecoverFromHistory
  <2> DEFINE seeds == Redo \union {n \in Nodes \ {Start} : PendingAt(AutoPromoted, n) # {}}
             reached == End \in seeds \/ (seeds = {} /\ RunStatus(End) = "COMPLETED")
  <2>1. Enter(seeds, reached, AutoPromoted) /\ runVer' \in Nat
    BY <1>3 DEF RecoverFromHistory
  <2>2. reached \in BOOLEAN
    OBVIOUS
  <2> HIDE DEF seeds, reached
  <2> QED BY <2>1, <2>2, AutoPromotedType, EnterType
<1>4. CASE Rescan
  <2>1. sched' \in Scheduler /\ sched'.scheduled \subseteq Keys(delivers)
    BY <1>4, RecheckType DEF Rescan, MoreToFind
  <2> QED BY <1>4, <2>1, StepType DEF Rescan, durable, MoreToFind
<1>5. CASE Return \/ Drained
  BY <1>5 DEF Return, Drained, durable, IInv, TypeOK, NothingLeft, AllOver, Unfinished
<1>6. CASE BeginDrain \/ RequestDrain
  BY <1>6 DEF BeginDrain, RequestDrain, durable, IInv, TypeOK, MustDrain
<1>7. CASE WriteFinal
  <2>1. sched' \in Scheduler /\ sched'.scheduled = {}
    BY <1>7, NewType DEF WriteFinal
  <2> QED BY <1>7, <2>1 DEF WriteFinal, IInv, TypeOK
<1>8. CASE ProcessDies
  BY <1>8, DieType DEF ProcessDies
<1>9. ASSUME NEW n \in Nodes, DeliverToNode(n) PROVE IInv'
  <2> DEFINE k == Cardinality({d \in delivers : d.src = External})
             e == [src |-> External, from |-> k, dst |-> n, by |-> 0, st |-> "PENDING"]
  <2>1. /\ delivers' = delivers \union {e}
        /\ UNCHANGED <<inv, status, runVer, phase, drain, sched, final, starts>>
    BY <1>9 DEF DeliverToNode
  <2>2. k \in Nat
    <3>1. IsFiniteSet({d \in delivers : d.src = External})
      BY FS_Subset
    <3> QED BY <3>1, FS_CardinalityType
  <2> HIDE DEF k
  <2>3. e \in Deliver
    BY <2>2 DEF Deliver
  <2> HIDE DEF e
  <2> QED BY <2>1, <2>3, StepType DEF Keys
<1>10. ASSUME NEW n \in Nodes, NEW s \in Slots, TaskStep(n, s) PROVE IInv'
  BY <1>10, TaskStepType
<1>11. ASSUME NEW n \in Nodes, NEW s \in Slots, Fault(n, s) \/ Interrupt(n, s) PROVE IInv'
  BY <1>11, RaiseType DEF Fault, Interrupt, InvocationStatus, TaskPhases, Unfinished
<1>12. ASSUME NEW n \in Nodes, NEW s \in Slots, BeginDies(n, s) PROVE IInv'
  BY <1>12, BeginType, DieType DEF BeginDies, Startable
<1>13. ASSUME NEW n \in Nodes, NEW s \in Slots, NEW t \in Nodes, Emit(n, s, t) PROVE IInv'
  <2> DEFINE e == [src |-> n, from |-> sched.task[n][s].inv, dst |-> t, by |-> 0, st |-> "STAGED"]
  <2>1. /\ delivers' = delivers \union {e}
        /\ UNCHANGED <<inv, status, runVer, phase, drain, sched, final, starts>>
    BY <1>13 DEF Emit
  <2>2. e \in Deliver
    BY DEF Deliver, Scheduler
  <2> HIDE DEF e
  <2> QED BY <2>1, <2>2, StepType DEF Keys
<1>14. ASSUME NEW n \in Nodes, NEW s \in Slots, NEW dsts \in SUBSET Outputs(n), CompleteDies(n, s, dsts)
       PROVE  IInv'
  <2>1. sched.task[n][s].inv \in Nat /\ "COMPLETED" \in InvocationStatus
    BY DEF Scheduler, InvocationStatus
  <2>2. inv' \in [Nodes -> Seq(Record)]
    BY <1>14, <2>1, CloseType DEF CompleteDies
  <2>3. delivers' \in SUBSET Deliver
    BY <1>14, PromoteType DEF CompleteDies
  <2> QED BY <1>14, <2>2, <2>3, DieType DEF CompleteDies
<1> QED
  BY <1>1, <1>2, <1>3, <1>4, <1>5, <1>6, <1>7, <1>8, <1>9, <1>10, <1>11, <1>12, <1>13, <1>14
     DEF Next, LoopStep

LEMMA InitType == Init => IInv
<1> SUFFICES ASSUME Init PROVE IInv
  OBVIOUS
<1>1. \A n \in Nodes : inv[n] \in Seq([st : InvocationStatus, run : Nat])
  BY DEF Init
<1>2. inv \in [Nodes -> Seq([st : InvocationStatus, run : Nat])]
  BY <1>1 DEF Init
<1>3. sched \in Scheduler /\ sched.scheduled = {} /\ delivers = {}
  BY NewType DEF Init
<1> QED BY <1>2, <1>3 DEF Init, IInv, TypeOK

LEMMA StutterType ==
    ASSUME IInv, UNCHANGED vars
    PROVE  IInv'
BY DEF vars, IInv, TypeOK

\* DeliverToNode numbers its rows by counting them, so there have to be
\* finitely many.
FInv == IInv /\ IsFiniteSet(delivers)

LEMMA Invariant == Spec => []FInv
<1>1. Init => FInv
  BY InitType, FS_EmptySet DEF Init, FInv
<1>2. FInv /\ [Next]_vars => FInv'
  <2>1. ASSUME IInv, IsFiniteSet(delivers), Next PROVE IInv' /\ IsFiniteSet(delivers')
    BY <2>1, NextType, NextLedgerStep, FiniteStep
  <2>2. ASSUME IInv, IsFiniteSet(delivers), UNCHANGED vars PROVE IInv' /\ IsFiniteSet(delivers')
    BY <2>2, StutterType DEF vars
  <2> QED BY <2>1, <2>2 DEF FInv
<1> QED BY <1>1, <1>2, PTL DEF Spec

\* Every variable keeps its type, whatever the graph, the triggers and the
\* faults: among others, the orchestrator always finds a status to write, and
\* a wakeup is never recorded for a row that does not exist.
THEOREM TypeCorrect == Spec => []TypeOK
<1>1. FInv => TypeOK
  BY DEF FInv, IInv
<1> QED BY Invariant, <1>1, PTL
(* The ledger moves forward *)

\* One step of one row.
Forward(d, e) == Key(e) = Key(d) /\ (e.st = d.st \/ e.st = NextStatus[d.st])

LEMMA StagedRow ==
    ASSUME NEW dl \in SUBSET Deliver, NEW srcs, NEW dsts, NEW d \in dl
    PROVE  \E e \in PromoteStaged(dl, srcs, dsts) :
              Key(e) = Key(d) /\ (e.st = d.st \/ (d.st = "STAGED" /\ e.st = "PENDING"))
<1> DEFINE rows == {x \in dl : x.src \in srcs /\ x.st = "STAGED" /\ x.dst \in dsts}
           e == IF d \in rows THEN [d EXCEPT !.st = "PENDING"] ELSE d
<1>1. e \in PromoteStaged(dl, srcs, dsts)
  BY StagedMoved DEF Moved
<1>2. Key(e) = Key(d) /\ (e.st = d.st \/ (d.st = "STAGED" /\ e.st = "PENDING"))
  BY DEF Key, Deliver
<1> QED BY <1>1, <1>2

LEMMA ConsumedRow ==
    ASSUME NEW dl \in SUBSET Deliver, NEW ns, NEW d \in dl
    PROVE  \E e \in PromoteConsumed(dl, ns) :
              Key(e) = Key(d) /\ (e.st = d.st \/ (d.st = "CONSUMED_PENDING" /\ e.st = "CONSUMED_COMPLETED"))
<1> DEFINE rows == {x \in dl : x.dst \in ns /\ x.st = "CONSUMED_PENDING"}
           e == IF d \in rows THEN [d EXCEPT !.st = "CONSUMED_COMPLETED"] ELSE d
<1>1. e \in PromoteConsumed(dl, ns)
  BY ConsumedMoved DEF Moved
<1>2. Key(e) = Key(d) /\ (e.st = d.st \/ (d.st = "CONSUMED_PENDING" /\ e.st = "CONSUMED_COMPLETED"))
  BY DEF Key, Deliver
<1> QED BY <1>1, <1>2

LEMMA MarkRow ==
    ASSUME NEW dl \in SUBSET Deliver, NEW n, NEW k \in Nat, NEW d \in dl
    PROVE  \E e \in MarkConsumed(dl, n, k) :
              Key(e) = Key(d) /\ (e.st = d.st \/ (d.st = "PENDING" /\ e.st = "CONSUMED_PENDING"))
<1> DEFINE e == IF d \in Consumable(dl, n) THEN [d EXCEPT !.st = "CONSUMED_PENDING", !.by = k] ELSE d
<1>1. e \in MarkConsumed(dl, n, k)
  BY DEF MarkConsumed
<1>2. Key(e) = Key(d) /\ (e.st = d.st \/ (d.st = "PENDING" /\ e.st = "CONSUMED_PENDING"))
  BY DEF Consumable, Key, Deliver
<1> QED BY <1>1, <1>2

LEMMA ForwardStep ==
    ASSUME delivers \in SUBSET Deliver, \A n \in Nodes : Latest(n) \in Nat, LedgerStep, NEW d \in delivers
    PROVE  \E e \in delivers' : Forward(d, e)
<1>1. CASE delivers' = delivers
  BY <1>1 DEF Forward
<1>2. ASSUME NEW x, delivers' = delivers \union {x} PROVE \E e \in delivers' : Forward(d, e)
  BY <1>2 DEF Forward
<1>3. ASSUME NEW n \in Nodes, delivers' = MarkConsumed(delivers, n, Latest(n) + 1)
      PROVE  \E e \in delivers' : Forward(d, e)
  <2>1. Latest(n) + 1 \in Nat
    OBVIOUS
  <2>2. PICK e \in delivers' :
           Key(e) = Key(d) /\ (e.st = d.st \/ (d.st = "PENDING" /\ e.st = "CONSUMED_PENDING"))
    BY <1>3, <2>1, MarkRow
  <2> QED BY <2>2 DEF Forward, NextStatus
<1>4. ASSUME NEW srcs, NEW dsts, delivers' = PromoteStaged(delivers, srcs, dsts)
      PROVE  \E e \in delivers' : Forward(d, e)
  <2>1. PICK e \in delivers' : Key(e) = Key(d) /\ (e.st = d.st \/ (d.st = "STAGED" /\ e.st = "PENDING"))
    BY <1>4, StagedRow
  <2> QED BY <2>1 DEF Forward, NextStatus
<1>5. ASSUME NEW srcs, NEW dsts, NEW ns,
             delivers' = PromoteConsumed(PromoteStaged(delivers, srcs, dsts), ns)
      PROVE  \E e \in delivers' : Forward(d, e)
  <2> DEFINE dl == PromoteStaged(delivers, srcs, dsts)
  <2>1. PICK c \in dl : Key(c) = Key(d) /\ (c.st = d.st \/ (d.st = "STAGED" /\ c.st = "PENDING"))
    BY StagedRow
  <2>2. dl \in SUBSET Deliver
    BY PromoteType
  <2>3. PICK e \in PromoteConsumed(dl, ns) :
           Key(e) = Key(c) /\ (e.st = c.st \/ (c.st = "CONSUMED_PENDING" /\ e.st = "CONSUMED_COMPLETED"))
    <3> HIDE DEF dl
    <3> QED BY <2>1, <2>2, ConsumedRow
  <2> QED BY <1>5, <2>1, <2>3 DEF Forward, NextStatus
<1> QED BY <1>1, <1>2, <1>3, <1>4, <1>5 DEF LedgerStep

\* No step of any node, recovery, external deliver or process death takes an
\* input back, skips a status or loses a row.
THEOREM MovesForward == Spec => LedgerMovesForward
<1>1. FInv /\ [Next]_vars =>
        [\A d \in delivers : \E e \in delivers' :
            /\ Key(e) = Key(d)
            /\ e.st = d.st \/ e.st = NextStatus[d.st]]_delivers
  <2>1. ASSUME IInv, Next, NEW d \in delivers PROVE \E e \in delivers' : Forward(d, e)
    BY <2>1, TypeParts, NextLedgerStep, ForwardStep DEF IInv
  <2> QED BY <2>1 DEF FInv, Forward, vars
<1> QED BY Invariant, <1>1, PTL DEF Spec, LedgerMovesForward

(* Closed invocations stay closed *)

\* The only ways a step changes the invocations.
InvocationStep ==
    \/ inv' = inv
    \/ \E n \in Nodes : inv' = BeginInvocation(n)
    \/ \E n \in Nodes, k \in Nat, st \in InvocationStatus :
          inv[n][k].st = "RUNNING" /\ inv' = CloseInvocation(n, k, st)

LEMMA NextInvocationStep ==
    ASSUME IInv, Next
    PROVE  InvocationStep
<1> \A n \in Nodes, s \in Slots : sched.task[n][s].inv \in Nat
  BY TypeParts DEF IInv, Scheduler
<1> {"COMPLETED", "CRASHED", "CANCELED"} \subseteq InvocationStatus
  BY DEF InvocationStatus
<1>1. CASE StartFresh \/ RecoverFromEntry \/ RecoverFromHistory
  BY <1>1 DEF StartFresh, RecoverFromEntry, RecoverFromHistory, Enter, InvocationStep
<1>2. CASE LoopStep \/ RequestDrain \/ ProcessDies
  BY <1>2 DEF LoopStep, Rescan, Return, BeginDrain, Drained, WriteFinal, RequestDrain, ProcessDies,
              durable, InvocationStep, MoreToFind, NothingLeft, MustDrain, AllOver, Unfinished
<1>3. ASSUME NEW n \in Nodes, DeliverToNode(n) PROVE InvocationStep
  BY <1>3 DEF DeliverToNode, InvocationStep
<1>4. ASSUME NEW n \in Nodes, NEW s \in Slots, TaskStep(n, s) PROVE InvocationStep
  <2>1. CASE Begin(n, s)
    BY <2>1 DEF Begin, InvocationStep, Startable
  <2>2. CASE Complete(n, s)
    BY <2>2 DEF Complete, OwnsInvocation, InvocationStep
  <2>3. CASE Finish(n, s) \/ CompleteRejected(n, s)
    BY <2>3 DEF Finish, CompleteRejected, durable, InvocationStep
  <2>4. CASE CancelTask(n, s)
    BY <2>4 DEF CancelTask, OwnsInvocation, InvocationStep, Cancellable, Unfinished
  <2>5. ASSUME NEW ts \in SUBSET (Targets(n) \ Misrouted(n)), Misroute(n, s, ts) PROVE InvocationStep
    BY <2>5 DEF Misroute, OwnsInvocation, InvocationStep
  <2> QED BY <1>4, <2>1, <2>2, <2>3, <2>4, <2>5 DEF TaskStep
<1>5. ASSUME NEW n \in Nodes, NEW s \in Slots, NEW st \in InvocationStatus, NEW ph, Raise(n, s, st, ph)
      PROVE  InvocationStep
  BY <1>5 DEF Raise, OwnsInvocation, InvocationStep, Unfinished
<1>6. ASSUME NEW n \in Nodes, NEW s \in Slots, Fault(n, s) \/ Interrupt(n, s) PROVE InvocationStep
  BY <1>5, <1>6 DEF Fault, Interrupt
<1>7. ASSUME NEW n \in Nodes, NEW s \in Slots, BeginDies(n, s) PROVE InvocationStep
  BY <1>7 DEF BeginDies, InvocationStep, Startable
<1>8. ASSUME NEW n \in Nodes, NEW s \in Slots, NEW t \in Nodes, Emit(n, s, t) PROVE InvocationStep
  BY <1>8 DEF Emit, InvocationStep
<1>9. ASSUME NEW n \in Nodes, NEW s \in Slots, NEW dsts \in SUBSET Outputs(n), CompleteDies(n, s, dsts)
      PROVE  InvocationStep
  BY <1>9 DEF CompleteDies, OwnsInvocation, InvocationStep
<1> QED BY <1>1, <1>2, <1>3, <1>4, <1>6, <1>7, <1>8, <1>9 DEF Next

\* ClosedStaysClosed for one node's records.
Kept(q, r) == Len(q) <= Len(r) /\ \A i \in 1..Len(q) : q[i].st # "RUNNING" => r[i] = q[i]

LEMMA KeptStep ==
    ASSUME inv \in [Nodes -> Seq(Record)], InvocationStep, NEW n \in Nodes
    PROVE  Kept(inv[n], inv'[n])
<1> DEFINE q == inv[n]
<1>1. q \in Seq(Record) /\ Kept(q, q)
  BY DEF Kept
<1>2. CASE inv' = inv
  BY <1>1, <1>2
<1>3. ASSUME NEW m \in Nodes, inv' = BeginInvocation(m) PROVE Kept(inv[n], inv'[n])
  <2>1. CASE m = n
    <3> DEFINE f == [i \in DOMAIN q |-> IF i = Len(q) /\ q[i].st = "RUNNING"
                                       THEN [q[i] EXCEPT !.st = "CRASHED"] ELSE q[i]]
    <3>1. inv'[n] = Append(f, [st |-> "RUNNING", run |-> runVer])
      BY <1>3, <2>1 DEF BeginInvocation
    <3>2. Len(f) = Len(q) /\ DOMAIN f = 1..Len(q) /\ Len(q) \in Nat
      BY <1>1
    <3>3. \A i \in 1..Len(q) : q[i].st # "RUNNING" => f[i] = q[i]
      BY <1>1
    <3> HIDE DEF f, q
    <3>4. Len(inv'[n]) = Len(q) + 1 /\ \A i \in 1..Len(q) : inv'[n][i] = f[i]
      BY <3>1, <3>2
    <3> QED BY <3>2, <3>3, <3>4 DEF Kept, q
  <2>2. CASE m # n
    <3>1. inv'[n] = q
      BY <1>3, <2>2 DEF BeginInvocation
    <3> QED BY <1>1, <3>1
  <2> QED BY <2>1, <2>2
<1>4. ASSUME NEW m \in Nodes, NEW k \in Nat, NEW st \in InvocationStatus,
             inv[m][k].st = "RUNNING", inv' = CloseInvocation(m, k, st)
      PROVE  Kept(inv[n], inv'[n])
  <2>1. CASE m = n
    <3>1. inv'[n] = [q EXCEPT ![k].st = st]
      BY <1>4, <2>1 DEF CloseInvocation
    <3>2. Len(inv'[n]) = Len(q) /\ \A i \in 1..Len(q) : i # k => inv'[n][i] = q[i]
      BY <1>1, <3>1
    <3>3. Len(q) \in Nat
      BY <1>1
    <3> QED BY <1>4, <2>1, <3>2, <3>3 DEF Kept
  <2>2. CASE m # n
    <3>1. inv'[n] = q
      BY <1>4, <2>2 DEF CloseInvocation
    <3> QED BY <1>1, <3>1
  <2> QED BY <2>1, <2>2
<1> QED BY <1>2, <1>3, <1>4 DEF InvocationStep

\* Once an invocation is completed, crashed or cancelled, no other task of the
\* node, no drain and no later execution changes its record.
THEOREM NeverReopened == Spec => ClosedStaysClosed
<1>1. FInv /\ [Next]_vars => [KeepsClosed]_inv
  <2>1. ASSUME IInv, Next, NEW n \in Nodes PROVE Kept(inv[n], inv'[n])
    BY <2>1, TypeParts, NextInvocationStep, KeptStep DEF IInv
  <2> QED BY <2>1 DEF FInv, KeepsClosed, Kept, Latest, vars
<1> QED BY Invariant, <1>1, PTL DEF Spec, ClosedStaysClosed
-----------------------------------------------------------------------------
(* What a step does to tasks, records and rows *)

LEMMA CreateTask ==
    ASSUME NEW m, NEW ns, NEW n \in Nodes, NEW s \in Slots, m \in Scheduler
    PROVE  CreateInstances(m, ns).task[n][s] \in {m.task[n][s], ReadyTask}
BY DEF CreateInstances, Scheduler, Slots

LEMMA FireTask ==
    ASSUME NEW m \in Scheduler, NEW dl, NEW n \in Nodes, NEW s \in Slots
    PROVE  FireAllPreds(m, dl).task[n][s] \in {m.task[n][s], ReadyTask}
<1> DEFINE ts == Fireable(m, dl)
           m1 == [m EXCEPT !.waiting = @ \ ts]
<1>1. m1 \in Scheduler /\ m1.task = m.task
  BY DEF Scheduler
<1> QED BY <1>1, CreateTask DEF FireAllPreds

LEMMA RecheckTask ==
    ASSUME NEW m \in Scheduler, NEW dl \in SUBSET Deliver, NEW n \in Nodes, NEW s \in Slots
    PROVE  Recheck(m, dl).task[n][s] \in {m.task[n][s], ReadyTask}
<1> DEFINE fresh == {x \in Nodes \ {Start} : Unscheduled(m, dl, x) # {}}
           fire == (fresh \intersect OnReceive) \ ActiveNodes(m)
           wake == fresh \ OnReceive
           u == UNION {Unscheduled(m, dl, x) : x \in fire \union wake}
           m1 == Wake(m, wake, u, fresh)
           m2 == CreateInstances(m1, fire)
<1>1. \A x \in Nodes : Unscheduled(m, dl, x) \subseteq (Nodes \union {External}) \X Nat \X Nodes
  BY DEF Unscheduled, PendingAt, Key, Deliver
<1>2. u \in SUBSET ((Nodes \union {External}) \X Nat \X Nodes) /\ wake \in SUBSET Nodes
  BY <1>1
<1>3. m1 \in Scheduler /\ m1.task = m.task
  <2> HIDE DEF wake, u, fresh
  <2> QED BY <1>2, WakeType DEF Wake, Scheduler
<1>4. m2 \in Scheduler /\ m2.task[n][s] \in {m.task[n][s], ReadyTask}
  <2> HIDE DEF m1, fire
  <2> QED BY <1>3, CreateType, CreateTask
<1>5. Recheck(m, dl) = FireAllPreds(m2, dl)
  BY DEF Recheck, Wake
<1> HIDE DEF m2, m1
<1> QED BY <1>4, <1>5, FireTask

LEMMA DispatchTask ==
    ASSUME NEW m \in Scheduler, NEW ts \in SUBSET Nodes, NEW n \in Nodes, NEW s \in Slots
    PROVE  Dispatch(m, ts).task[n][s] \in {m.task[n][s], ReadyTask}
<1> DEFINE q == [x \in Nodes |-> IF x \in ts \intersect OnReceive \intersect ActiveNodes(m)
                                THEN m.queued[x] + 1 ELSE m.queued[x]]
           m1 == [m EXCEPT !.waiting = @ \union (ts \ OnReceive), !.queued = q, !.reached = @ \/ End \in ts]
<1>1. q \in [Nodes -> Nat]
  BY DEF Scheduler
<1>2. m1 \in Scheduler /\ m1.task = m.task
  <2> HIDE DEF q
  <2> QED BY <1>1 DEF Scheduler
<1>3. Dispatch(m, ts) = CreateInstances(m1, (ts \intersect OnReceive) \ ActiveNodes(m))
  BY DEF Dispatch
<1> HIDE DEF m1
<1> QED BY <1>2, <1>3, CreateTask

LEMMA DrainTask ==
    ASSUME NEW m \in Scheduler, NEW x \in Nodes, NEW n \in Nodes, NEW s \in Slots
    PROVE  DrainOnReceive(m, x).task[n][s] \in {m.task[n][s], ReadyTask}
<1>1. CASE m.queued[x] = 0
  BY <1>1 DEF DrainOnReceive
<1>2. CASE m.queued[x] # 0
  <2> DEFINE m1 == [m EXCEPT !.queued[x] = @ - 1]
  <2>1. m.queued[x] - 1 \in Nat
    BY <1>2 DEF Scheduler
  <2>2. m1 \in Scheduler /\ m1.task = m.task
    BY <2>1 DEF Scheduler
  <2> HIDE DEF m1
  <2>3. DrainOnReceive(m, x) = CreateInstances(m1, {x})
    BY <1>2 DEF DrainOnReceive, m1
  <2> QED BY <2>2, <2>3, CreateTask
<1> QED BY <1>1, <1>2

LEMMA LaunchTask ==
    ASSUME NEW seeds, NEW reached \in BOOLEAN, NEW dl \in SUBSET Deliver, NEW n \in Nodes, NEW s \in Slots
    PROVE  Launch(seeds, reached, dl).task[n][s] \in {NoTask, ReadyTask}
<1> DEFINE ready == {x \in seeds : x = Start \/ LatestStatus(x) \in {"CRASHED", "RUNNING", "CANCELED"}}
           u == {Key(d) : d \in {x \in dl : x.dst \in ready /\ x.st = "PENDING"}}
           m == [NewScheduler EXCEPT !.reached = reached, !.scheduled = u]
           m1 == CreateInstances(m, ready)
<1>1. u \in SUBSET ((Nodes \union {External}) \X Nat \X Nodes)
  BY DEF Key, Deliver
<1>2. m \in Scheduler /\ m.task = NewScheduler.task
  <2> HIDE DEF u
  <2> QED BY <1>1 DEF NewScheduler, Scheduler, NoTask, TaskPhases, Unfinished
<1>3. m1 \in Scheduler /\ m1.task[n][s] \in {NoTask, ReadyTask}
  <2>1. NewScheduler.task[n][s] = NoTask
    BY DEF NewScheduler
  <2> HIDE DEF m, ready
  <2> QED BY <1>2, <2>1, CreateType, CreateTask
<1>4. Launch(seeds, reached, dl) = Recheck(m1, dl)
  BY DEF Launch
<1> HIDE DEF m1
<1> QED BY <1>3, <1>4, RecheckTask

\* What SetTask leaves of the other tasks.
LEMMA SetTaskTask ==
    ASSUME NEW m \in Scheduler, NEW x \in Nodes, NEW y \in Slots, NEW t
    PROVE  /\ SetTask(m, x, y, t).task[x][y] = t
           /\ \A n \in Nodes, s \in Slots :
                 n # x \/ s # y => SetTask(m, x, y, t).task[n][s] = m.task[n][s]
BY DEF SetTask, Scheduler

\* The busy tasks of the scheduler after a step are busy tasks from before it.
BusyKept == \A n \in Nodes, s \in Slots :
    sched'.task[n][s].phase = "busy" => sched'.task[n][s] = sched.task[n][s]

\* The records after begin_invocation.
LEMMA BeginRecords ==
    ASSUME inv \in [Nodes -> Seq(Record)], runVer \in Nat, NEW n \in Nodes, inv' = BeginInvocation(n)
    PROVE  /\ inv' \in [Nodes -> Seq(Record)]
           /\ \A m \in Nodes : m # n => inv'[m] = inv[m]
           /\ Latest(n)' = Latest(n) + 1
           /\ inv'[n][Latest(n) + 1] = [st |-> "RUNNING", run |-> runVer]
           /\ \A i \in 1..Latest(n) :
                 /\ inv'[n][i].run = inv[n][i].run
                 /\ inv'[n][i].st = IF i = Latest(n) /\ inv[n][i].st = "RUNNING" THEN "CRASHED"
                                    ELSE inv[n][i].st
<1> DEFINE q == inv[n]
           f == [i \in DOMAIN q |-> IF i = Len(q) /\ q[i].st = "RUNNING"
                                   THEN [q[i] EXCEPT !.st = "CRASHED"] ELSE q[i]]
           r == [st |-> "RUNNING", run |-> runVer]
<1>1. q \in Seq(Record)
  OBVIOUS
<1>2. inv' = [inv EXCEPT ![n] = Append(f, r)]
  BY DEF BeginInvocation
<1>3. Len(f) = Len(q) /\ DOMAIN f = 1..Len(q) /\ Len(q) \in Nat
  BY <1>1
<1>4. \A i \in 1..Len(q) : /\ f[i].run = q[i].run
                           /\ f[i].st = IF i = Len(q) /\ q[i].st = "RUNNING" THEN "CRASHED" ELSE q[i].st
  <2> SUFFICES ASSUME NEW i \in 1..Len(q)
               PROVE  /\ f[i].run = q[i].run
                      /\ f[i].st = IF i = Len(q) /\ q[i].st = "RUNNING" THEN "CRASHED" ELSE q[i].st
    OBVIOUS
  <2>1. q[i] \in Record
    BY <1>1
  <2>2. f[i] = IF i = Len(q) /\ q[i].st = "RUNNING" THEN [q[i] EXCEPT !.st = "CRASHED"] ELSE q[i]
    BY <1>1
  <2> HIDE DEF q, f
  <2> QED BY <2>1, <2>2 DEF Record
<1> HIDE DEF f
<1>5. inv'[n] = Append(f, r)
  BY <1>2
<1>6. Len(inv'[n]) = Len(q) + 1 /\ inv'[n][Len(q) + 1] = r /\ \A i \in 1..Len(q) : inv'[n][i] = f[i]
  <2> HIDE DEF q, r
  <2> QED BY <1>3, <1>5
<1>7. inv' \in [Nodes -> Seq(Record)]
  BY BeginType
<1> QED BY <1>2, <1>4, <1>6, <1>7 DEF Latest

\* The records after complete, crash or cancel_invocation.
LEMMA CloseRecords ==
    ASSUME inv \in [Nodes -> Seq(Record)], NEW n \in Nodes, NEW k \in 1..Latest(n),
           NEW s \in InvocationStatus, inv' = CloseInvocation(n, k, s)
    PROVE  /\ inv' \in [Nodes -> Seq(Record)]
           /\ \A m \in Nodes : m # n => inv'[m] = inv[m]
           /\ \A m \in Nodes : Latest(m)' = Latest(m)
           /\ inv'[n][k].st = s /\ inv'[n][k].run = inv[n][k].run
           /\ \A i \in 1..Latest(n) : i # k => inv'[n][i] = inv[n][i]
<1> DEFINE q == inv[n]
<1>1. q \in Seq(Record) /\ k \in 1..Len(q) /\ Len(q) \in Nat
  BY DEF Latest
<1>2. q[k] \in Record
  <2> HIDE DEF q
  <2> QED BY <1>1
<1>3. inv' = [inv EXCEPT ![n] = [q EXCEPT ![k].st = s]]
  BY DEF CloseInvocation
<1>4. inv'[n] = [q EXCEPT ![k] = [q[k] EXCEPT !.st = s]]
  BY <1>3
<1>5. \A m \in Nodes : m # n => inv'[m] = inv[m]
  BY <1>3
<1>6. inv' \in [Nodes -> Seq(Record)]
  BY CloseType
<1>7. /\ Len(inv'[n]) = Len(q) /\ inv'[n][k].st = s /\ inv'[n][k].run = q[k].run
      /\ \A i \in 1..Len(q) : i # k => inv'[n][i] = q[i]
  <2> HIDE DEF q
  <2> QED BY <1>1, <1>2, <1>4 DEF Record
<1> QED BY <1>5, <1>6, <1>7 DEF Latest

\* Where a row after a promotion or a consumption comes from.
Same(d, e) == e.src = d.src /\ e.from = d.from /\ e.dst = d.dst

LEMMA StagedOrigin ==
    ASSUME NEW dl \in SUBSET Deliver, NEW srcs, NEW dsts, NEW e \in PromoteStaged(dl, srcs, dsts)
    PROVE  \E d \in dl :
              /\ Same(d, e) /\ e.by = d.by
              /\ e.st = IF d.src \in srcs /\ d.st = "STAGED" /\ d.dst \in dsts THEN "PENDING" ELSE d.st
<1>1. PICK d \in dl : e = IF d.src \in srcs /\ d.st = "STAGED" /\ d.dst \in dsts
                         THEN [d EXCEPT !.st = "PENDING"] ELSE d
  BY DEF PromoteStaged, Promote
<1> QED BY <1>1 DEF Same, Deliver

LEMMA ConsumedOrigin ==
    ASSUME NEW dl \in SUBSET Deliver, NEW ns, NEW e \in PromoteConsumed(dl, ns)
    PROVE  \E d \in dl :
              /\ Same(d, e) /\ e.by = d.by
              /\ e.st = IF d.dst \in ns /\ d.st = "CONSUMED_PENDING" THEN "CONSUMED_COMPLETED" ELSE d.st
<1>1. PICK d \in dl : e = IF d.dst \in ns /\ d.st = "CONSUMED_PENDING"
                         THEN [d EXCEPT !.st = "CONSUMED_COMPLETED"] ELSE d
  BY DEF PromoteConsumed, Promote
<1> QED BY <1>1 DEF Same, Deliver

LEMMA MarkOrigin ==
    ASSUME NEW dl \in SUBSET Deliver, NEW n, NEW k \in Nat, NEW e \in MarkConsumed(dl, n, k)
    PROVE  \E d \in dl :
              /\ Same(d, e)
              /\ \/ d.dst = n /\ d.st \in {"PENDING", "CONSUMED_PENDING"}
                    /\ e.by = k /\ e.st = "CONSUMED_PENDING"
                 \/ ~(d.dst = n /\ d.st \in {"PENDING", "CONSUMED_PENDING"}) /\ e = d
<1>1. PICK d \in dl : e = IF d \in Consumable(dl, n)
                         THEN [d EXCEPT !.st = "CONSUMED_PENDING", !.by = k] ELSE d
  BY DEF MarkConsumed
<1>2. d \in Consumable(dl, n) <=> d.dst = n /\ d.st \in {"PENDING", "CONSUMED_PENDING"}
  BY DEF Consumable
<1> QED BY <1>1, <1>2 DEF Same, Deliver

\* The kinds of step that the rows and records tell apart.
Idles == delivers' = delivers /\ inv' = inv /\ BusyKept
Arrives == /\ inv' = inv /\ BusyKept
           /\ \E e \in Deliver : /\ delivers' = delivers \union {e}
                                 /\ e.src = External /\ e.st = "PENDING"
Emits(n, s) ==
    /\ inv' = inv /\ BusyKept /\ sched.task[n][s].phase = "busy"
    /\ \E e \in Deliver : /\ delivers' = delivers \union {e}
                          /\ e.src = n /\ e.from = sched.task[n][s].inv /\ e.st = "STAGED"
Begins(n, s) ==
    /\ inv' = BeginInvocation(n)
    /\ delivers' = MarkConsumed(delivers, n, Latest(n) + 1)
    /\ sched'.task[n][s].inv = Latest(n) + 1
    /\ \A m \in Nodes, u \in Slots : m # n \/ u # s => sched'.task[m][u] = sched.task[m][u]
HalfBegins(n) ==
    /\ inv' = BeginInvocation(n) /\ delivers' = delivers
    /\ \A m \in Nodes, u \in Slots : sched'.task[m][u].phase # "busy"
Completes(n, s) ==
    /\ BusyKept /\ sched.task[n][s].phase = "busy" /\ OwnsInvocation(n, s)
    /\ inv' = CloseInvocation(n, sched.task[n][s].inv, "COMPLETED")
    /\ \E dsts : \/ delivers' = PromoteStaged(delivers, {n}, dsts)
                 \/ delivers' = PromoteConsumed(PromoteStaged(delivers, {n}, dsts), {n})
Closes(n, s) ==
    /\ BusyKept /\ sched.task[n][s].phase = "busy" /\ OwnsInvocation(n, s)
    /\ delivers' = delivers
    /\ \E st \in {"CRASHED", "CANCELED"} : inv' = CloseInvocation(n, sched.task[n][s].inv, st)
Recovers == delivers' = AutoPromoted /\ inv' = inv /\ BusyKept

RowStep ==
    \/ Idles \/ Arrives \/ Recovers
    \/ \E n \in Nodes, s \in Slots :
          Emits(n, s) \/ Begins(n, s) \/ HalfBegins(n) \/ Completes(n, s) \/ Closes(n, s)

LEMMA EnterBusy ==
    ASSUME NEW seeds, NEW reached \in BOOLEAN, NEW dl \in SUBSET Deliver, Enter(seeds, reached, dl)
    PROVE  BusyKept
<1>1. \A n \in Nodes, s \in Slots : sched'.task[n][s] \in {NoTask, ReadyTask}
  BY LaunchTask DEF Enter
<1> QED BY <1>1 DEF BusyKept, NoTask, ReadyTask

LEMMA NewBusy ==
    ASSUME sched' = NewScheduler
    PROVE  BusyKept /\ \A n \in Nodes, s \in Slots : sched'.task[n][s].phase # "busy"
BY DEF BusyKept, NewScheduler, NoTask

\* A new phase other than busy for one task, in a scheduler that only gained
\* ready tasks.
LEMMA SetTaskBusy ==
    ASSUME NEW m \in Scheduler, NEW n \in Nodes, NEW s \in Slots, NEW t, t.phase # "busy",
           sched' = SetTask(m, n, s, t),
           \A x \in Nodes, y \in Slots : m.task[x][y] \in {sched.task[x][y], ReadyTask}
    PROVE  BusyKept
<1>1. ReadyTask.phase # "busy"
  BY DEF ReadyTask
<1> QED BY <1>1, SetTaskTask DEF BusyKept

LEMMA PhaseBusy ==
    ASSUME sched \in Scheduler, NEW n \in Nodes, NEW s \in Slots, NEW ph \in TaskPhases, ph # "busy",
           sched' = [sched EXCEPT !.task[n][s].phase = ph]
    PROVE  BusyKept
<1> DEFINE t == [sched.task[n][s] EXCEPT !.phase = ph]
<1>1. t.phase # "busy"
  BY DEF Scheduler
<1>2. sched' = SetTask(sched, n, s, t)
  BY DEF SetTask, Scheduler
<1> HIDE DEF t
<1> QED BY <1>1, <1>2, SetTaskBusy

LEMMA TaskStepRows ==
    ASSUME IInv, NEW n \in Nodes, NEW s \in Slots, TaskStep(n, s)
    PROVE  RowStep
<1> /\ delivers \in SUBSET Deliver /\ inv \in [Nodes -> Seq(Record)] /\ sched \in Scheduler
  BY TypeParts DEF IInv
<1> DEFINE t == sched.task[n][s]
<1>1. CASE Begin(n, s)
  <2>1. /\ inv' = BeginInvocation(n)
        /\ delivers' = MarkConsumed(delivers, n, Latest(n) + 1)
        /\ sched' = SetTask(sched, n, s, [phase |-> "busy", inv |-> Latest(n) + 1])
    BY <1>1 DEF Begin, Startable
  <2>2. Begins(n, s)
    BY <2>1, SetTaskTask DEF Begins
  <2> QED BY <2>2 DEF RowStep
<1>2. CASE Complete(n, s)
  <2> DEFINE m == Dispatch(sched, Targets(n))
  <2>1. m \in Scheduler /\ \A x \in Nodes, y \in Slots : m.task[x][y] \in {sched.task[x][y], ReadyTask}
    BY DispatchType, DispatchTask, DestinationsType
  <2>2. sched' = SetTask(m, n, s, [t EXCEPT !.phase = "after"])
    BY <1>2 DEF Complete
  <2>3. [t EXCEPT !.phase = "after"].phase = "after"
    BY DEF Scheduler
  <2>4. BusyKept
    <3> DEFINE a == [t EXCEPT !.phase = "after"]
    <3> HIDE DEF m, a
    <3> QED BY <2>1, <2>2, <2>3, SetTaskBusy DEF a
  <2>5. Completes(n, s)
    BY <1>2, <2>4 DEF Completes, Complete, TaskIs
  <2> QED BY <2>5 DEF RowStep
<1>3. CASE Finish(n, s)
  <2> DEFINE m1 == SetTask(sched, n, s, NoTask)
             m2 == Recheck(m1, delivers)
  <2>1. m1 \in Scheduler
    BY SetTaskType DEF NoTask, TaskPhases, Unfinished
  <2>2. sched' = DrainOnReceive(m2, n) /\ delivers' = delivers /\ inv' = inv
    BY <1>3 DEF Finish
  <2>3. \A x \in Nodes, y \in Slots : m1.task[x][y] \in {sched.task[x][y], NoTask}
    BY SetTaskTask
  <2>4. m2 \in Scheduler /\ \A x \in Nodes, y \in Slots : m2.task[x][y] \in {m1.task[x][y], ReadyTask}
    <3> HIDE DEF m1
    <3> QED BY <2>1, RecheckType, RecheckTask
  <2>5. \A x \in Nodes, y \in Slots : sched'.task[x][y] \in {m2.task[x][y], ReadyTask}
    <3> HIDE DEF m2
    <3> QED BY <2>2, <2>4, DrainTask
  <2>6. BusyKept
    <3>1. NoTask.phase # "busy" /\ ReadyTask.phase # "busy"
      BY DEF NoTask, ReadyTask
    <3> HIDE DEF m1, m2
    <3> QED BY <2>3, <2>4, <2>5, <3>1 DEF BusyKept
  <2> QED BY <2>2, <2>6 DEF RowStep, Idles
<1>4. CASE CompleteRejected(n, s)
  <2>1. BusyKept
    BY <1>4, PhaseBusy DEF CompleteRejected, TaskPhases, Unfinished
  <2> QED BY <1>4, <2>1 DEF CompleteRejected, durable, RowStep, Idles
<1>5. CASE CancelTask(n, s)
  <2>1. sched' = [sched EXCEPT !.task[n][s].phase = "faulted"] \/ sched' = SetTask(sched, n, s, NoTask)
    BY <1>5 DEF CancelTask, Cancellable, Unfinished
  <2>2. BusyKept
    <3>1. NoTask.phase # "busy"
      BY DEF NoTask
    <3> QED BY <2>1, <3>1, PhaseBusy, SetTaskBusy DEF TaskPhases, Unfinished
  <2>3. \/ inv' = inv
        \/ /\ t.phase = "busy" /\ OwnsInvocation(n, s)
           /\ inv' = CloseInvocation(n, t.inv, "CANCELED")
    BY <1>5 DEF CancelTask, Cancellable, Unfinished
  <2>4. delivers' = delivers
    BY <1>5 DEF CancelTask, Cancellable, Unfinished
  <2>5. CASE inv' = inv
    BY <2>2, <2>4, <2>5 DEF RowStep, Idles
  <2>6. CASE /\ t.phase = "busy" /\ OwnsInvocation(n, s)
             /\ inv' = CloseInvocation(n, t.inv, "CANCELED")
    <3>1. Closes(n, s)
      BY <2>2, <2>4, <2>6 DEF Closes
    <3> QED BY <3>1 DEF RowStep
  <2> QED BY <2>3, <2>5, <2>6
<1>6. ASSUME NEW ts \in SUBSET (Targets(n) \ Misrouted(n)), Misroute(n, s, ts) PROVE RowStep
  <2> DEFINE m == Dispatch(sched, ts)
             a == [t EXCEPT !.phase = "faulted"]
  <2>1. m \in Scheduler /\ \A x \in Nodes, y \in Slots : m.task[x][y] \in {sched.task[x][y], ReadyTask}
    BY DispatchType, DispatchTask, DestinationsType
  <2>2. sched' = SetTask(m, n, s, a)
    BY <1>6 DEF Misroute, SetTask
  <2>3. a.phase # "busy"
    BY DEF Scheduler
  <2>4. BusyKept
    <3> HIDE DEF m, a
    <3> QED BY <2>1, <2>2, <2>3, SetTaskBusy
  <2>5. Completes(n, s)
    BY <1>6, <2>4 DEF Completes, Misroute, TaskIs
  <2> QED BY <2>5 DEF RowStep
<1> QED BY <1>1, <1>2, <1>3, <1>4, <1>5, <1>6 DEF TaskStep

LEMMA NextRowStep ==
    ASSUME IInv, IsFiniteSet(delivers), Next
    PROVE  RowStep
<1> /\ delivers \in SUBSET Deliver /\ inv \in [Nodes -> Seq(Record)] /\ sched \in Scheduler
  BY TypeParts DEF IInv
<1>1. CASE StartFresh \/ RecoverFromEntry
  <2>1. Enter({Start}, FALSE, delivers)
    BY <1>1 DEF StartFresh, RecoverFromEntry
  <2>2. BusyKept /\ delivers' = delivers /\ inv' = inv
    BY <2>1, EnterBusy DEF Enter
  <2> QED BY <2>2 DEF RowStep, Idles
<1>2. CASE RecoverFromHistory
  <2> DEFINE seeds == Redo \union {n \in Nodes \ {Start} : PendingAt(AutoPromoted, n) # {}}
             reached == End \in seeds \/ (seeds = {} /\ RunStatus(End) = "COMPLETED")
  <2>1. Enter(seeds, reached, AutoPromoted) /\ reached \in BOOLEAN
    BY <1>2 DEF RecoverFromHistory
  <2>2. BusyKept /\ delivers' = AutoPromoted /\ inv' = inv
    <3> HIDE DEF seeds, reached
    <3> QED BY <2>1, AutoPromotedType, EnterBusy DEF Enter
  <2> QED BY <2>2 DEF RowStep, Recovers
<1>3. CASE Rescan
  <2>1. \A n \in Nodes, s \in Slots : sched'.task[n][s] \in {sched.task[n][s], ReadyTask}
    BY <1>3, RecheckTask DEF Rescan, MoreToFind
  <2>2. BusyKept
    BY <2>1 DEF BusyKept, ReadyTask
  <2> QED BY <1>3, <2>2 DEF Rescan, durable, RowStep, Idles, MoreToFind
<1>4. CASE Return \/ BeginDrain \/ Drained \/ RequestDrain
  BY <1>4 DEF Return, BeginDrain, Drained, RequestDrain, durable, RowStep, Idles, BusyKept,
      NothingLeft, MustDrain, AllOver, Unfinished
<1>5. CASE WriteFinal \/ ProcessDies
  BY <1>5, NewBusy DEF WriteFinal, ProcessDies, Die, RowStep, Idles
<1>6. ASSUME NEW n \in Nodes, DeliverToNode(n) PROVE RowStep
  <2> DEFINE k == Cardinality({d \in delivers : d.src = External})
             e == [src |-> External, from |-> k, dst |-> n, by |-> 0, st |-> "PENDING"]
  <2>1. delivers' = delivers \union {e} /\ inv' = inv /\ sched' = sched
    BY <1>6 DEF DeliverToNode
  <2>2. k \in Nat
    <3>1. IsFiniteSet({d \in delivers : d.src = External})
      BY FS_Subset
    <3> QED BY <3>1, FS_CardinalityType
  <2> HIDE DEF k
  <2>3. e \in Deliver /\ e.src = External /\ e.st = "PENDING"
    BY <2>2 DEF Deliver
  <2> HIDE DEF e
  <2>4. Arrives
    BY <2>1, <2>3 DEF Arrives, BusyKept
  <2> QED BY <2>4 DEF RowStep
<1>7. ASSUME NEW n \in Nodes, NEW s \in Slots, NEW st \in {"CRASHED", "CANCELED"},
             NEW ph \in {"faulted", "interrupted"}, Raise(n, s, st, ph)
      PROVE  RowStep
  <2>1. BusyKept
    BY <1>7, PhaseBusy DEF Raise, TaskPhases, Unfinished
  <2>2. \/ inv' = inv
        \/ /\ sched.task[n][s].phase = "busy" /\ OwnsInvocation(n, s)
           /\ inv' = CloseInvocation(n, sched.task[n][s].inv, st)
    BY <1>7 DEF Raise, Unfinished
  <2>3. delivers' = delivers
    BY <1>7 DEF Raise, Unfinished
  <2>4. CASE inv' = inv
    BY <2>1, <2>3, <2>4 DEF RowStep, Idles
  <2>5. CASE /\ sched.task[n][s].phase = "busy" /\ OwnsInvocation(n, s)
             /\ inv' = CloseInvocation(n, sched.task[n][s].inv, st)
    <3>1. Closes(n, s)
      BY <2>1, <2>3, <2>5 DEF Closes
    <3> QED BY <3>1 DEF RowStep
  <2> QED BY <2>2, <2>4, <2>5
<1>8. ASSUME NEW n \in Nodes, NEW s \in Slots, TaskStep(n, s) PROVE RowStep
  BY <1>8, TaskStepRows
<1>9. ASSUME NEW n \in Nodes, NEW s \in Slots, Fault(n, s) \/ Interrupt(n, s) PROVE RowStep
  BY <1>7, <1>9 DEF Fault, Interrupt
<1>10. ASSUME NEW n \in Nodes, NEW s \in Slots, BeginDies(n, s) PROVE RowStep
  <2>1. HalfBegins(n)
    BY <1>10, NewBusy DEF BeginDies, Die, HalfBegins, Startable
  <2> QED BY <2>1 DEF RowStep
<1>11. ASSUME NEW n \in Nodes, NEW s \in Slots, NEW u \in Nodes, Emit(n, s, u) PROVE RowStep
  <2> DEFINE e == [src |-> n, from |-> sched.task[n][s].inv, dst |-> u, by |-> 0, st |-> "STAGED"]
  <2>1. delivers' = delivers \union {e} /\ inv' = inv /\ sched' = sched /\ sched.task[n][s].phase = "busy"
    BY <1>11 DEF Emit, TaskIs
  <2>2. e \in Deliver /\ e.src = n /\ e.from = sched.task[n][s].inv /\ e.st = "STAGED"
    BY DEF Deliver, Scheduler
  <2> HIDE DEF e
  <2>3. Emits(n, s)
    BY <2>1, <2>2 DEF Emits, BusyKept
  <2> QED BY <2>3 DEF RowStep
<1>12. ASSUME NEW n \in Nodes, NEW s \in Slots, NEW dsts \in SUBSET Outputs(n), CompleteDies(n, s, dsts)
       PROVE  RowStep
  <2>1. Completes(n, s)
    BY <1>12, NewBusy DEF CompleteDies, Die, Completes, TaskIs
  <2> QED BY <2>1 DEF RowStep
<1> QED
  BY <1>1, <1>2, <1>3, <1>4, <1>5, <1>6, <1>8, <1>9, <1>10, <1>11, <1>12 DEF Next, LoopStep

-----------------------------------------------------------------------------
(* Rows and the records they point to *)

\* Only the latest record of a node may be open.
OnlyLatestRuns ==
    \A n \in Nodes : \A i \in 1..Latest(n) : inv[n][i].st = "RUNNING" => i = Latest(n)

\* Consumed rows point to a record of their target; those of one target that
\* are not settled point to the same one.
Taken(d) == d.st \in {"CONSUMED_PENDING", "CONSUMED_COMPLETED"}
TakenByRecord == \A d \in delivers : Taken(d) => d.by \in 1..Latest(d.dst)
TakenTogether ==
    \A d, e \in delivers :
        d.st = "CONSUMED_PENDING" /\ e.st = "CONSUMED_PENDING" /\ d.dst = e.dst => d.by = e.by

\* A busy task has a record; if that is the latest one of its node, whatever
\* is consumed and not settled was consumed by it.
BusyHasRecord ==
    \A n \in Nodes, s \in Slots : sched.task[n][s].phase = "busy" =>
        /\ sched.task[n][s].inv \in 1..Latest(n)
        /\ sched.task[n][s].inv = Latest(n) =>
              \A d \in delivers : d.dst = n /\ d.st = "CONSUMED_PENDING" => d.by = Latest(n)

\* An emitted row comes from a record of its source.
SentByRecord == \A d \in delivers : d.src # External => d.from \in 1..Latest(d.src)

RowInv ==
    /\ OnlyLatestRuns /\ TakenByRecord /\ TakenTogether /\ BusyHasRecord /\ SentByRecord
    /\ SettledMeansCompleted /\ VisibleMeansCompleted

\* A row keeps its meaning when the records only grow and close.
RecordsGrow ==
    \A n \in Nodes : /\ Latest(n) <= Latest(n)'
                     /\ \A i \in 1..Latest(n) :
                           inv[n][i].st = "COMPLETED" => inv'[n][i].st = "COMPLETED"

\* Shorthand for what the type invariant gives about rows and records.
Typed ==
    /\ delivers \in SUBSET Deliver /\ inv \in [Nodes -> Seq(Record)] /\ sched \in Scheduler
    /\ runVer \in Nat /\ \A n \in Nodes : Latest(n) \in Nat

LEMMA GrowRows ==
    ASSUME Typed, RowInv, RecordsGrow, \A n \in Nodes : Latest(n)' \in Nat, NEW d \in delivers
    PROVE  /\ Taken(d) => d.by \in 1..Latest(d.dst)'
           /\ d.src # External => d.from \in 1..Latest(d.src)'
           /\ d.st = "CONSUMED_COMPLETED" => inv'[d.dst][d.by].st = "COMPLETED"
           /\ d.st # "STAGED" /\ d.src # External =>
                 \E i \in d.from..Latest(d.src)' : inv'[d.src][i].st = "COMPLETED"
<1>1. d \in Deliver /\ d.dst \in Nodes /\ (d.src # External => d.src \in Nodes) /\ d.from \in Nat
  BY DEF Typed, Deliver
<1>2. Taken(d) => d.by \in 1..Latest(d.dst)
  BY DEF RowInv, TakenByRecord
<1>3. d.src # External => d.from \in 1..Latest(d.src)
  BY DEF RowInv, SentByRecord
<1>4. d.st = "CONSUMED_COMPLETED" => inv[d.dst][d.by].st = "COMPLETED"
  BY DEF RowInv, SettledMeansCompleted
<1>5. d.st # "STAGED" /\ d.src # External =>
         \E i \in d.from..Latest(d.src) : inv[d.src][i].st = "COMPLETED"
  BY DEF RowInv, VisibleMeansCompleted
<1>6. Taken(d) => d.by \in 1..Latest(d.dst)'
  BY <1>1, <1>2 DEF RecordsGrow, Typed
<1>7. d.src # External => d.from \in 1..Latest(d.src)'
  BY <1>1, <1>3 DEF RecordsGrow, Typed
<1>8. d.st = "CONSUMED_COMPLETED" => inv'[d.dst][d.by].st = "COMPLETED"
  BY <1>1, <1>2, <1>4 DEF RecordsGrow, Taken
<1>9. ASSUME d.st # "STAGED", d.src # External
      PROVE  \E i \in d.from..Latest(d.src)' : inv'[d.src][i].st = "COMPLETED"
  <2>1. PICK i \in d.from..Latest(d.src) : inv[d.src][i].st = "COMPLETED"
    BY <1>5, <1>9
  <2>2. i \in 1..Latest(d.src)
    BY <1>1, <1>3, <1>9, <2>1 DEF Typed
  <2>3. i \in d.from..Latest(d.src)' /\ inv'[d.src][i].st = "COMPLETED"
    BY <1>1, <1>9, <2>1, <2>2 DEF RecordsGrow, Typed
  <2> QED BY <2>3
<1> QED BY <1>6, <1>7, <1>8, <1>9

\* The rows alone changed, and no record.
LEMMA SameRecordsGrow ==
    ASSUME Typed, inv' = inv
    PROVE  RecordsGrow /\ \A n \in Nodes : Latest(n)' = Latest(n) /\ Latest(n)' \in Nat
BY DEF RecordsGrow, Latest, Typed

LEMMA IdleRows ==
    ASSUME Typed, RowInv, Idles
    PROVE  RowInv'
<1>1. BusyHasRecord'
  BY DEF Idles, BusyKept, RowInv, BusyHasRecord, Latest
<1> QED
  BY <1>1 DEF Idles, RowInv, OnlyLatestRuns, TakenByRecord, TakenTogether, SentByRecord,
              SettledMeansCompleted, VisibleMeansCompleted, Latest

\* One row more, from outside or from a busy task.
LEMMA AddedRow ==
    ASSUME Typed, RowInv, inv' = inv, BusyKept, NEW e \in Deliver, delivers' = delivers \union {e},
           \/ e.st = "PENDING" /\ e.src = External
           \/ e.st = "STAGED" /\ e.from \in 1..Latest(e.src)
    PROVE  RowInv'
<1>1. ~Taken(e)
  BY DEF Taken
<1>2. /\ OnlyLatestRuns' /\ TakenByRecord' /\ TakenTogether'
  BY <1>1 DEF RowInv, OnlyLatestRuns, TakenByRecord, TakenTogether, Taken, Latest
<1>3. BusyHasRecord'
  BY <1>1 DEF RowInv, BusyHasRecord, BusyKept, Taken, Latest
<1>4. SentByRecord' /\ SettledMeansCompleted' /\ VisibleMeansCompleted'
  BY DEF RowInv, SentByRecord, SettledMeansCompleted, VisibleMeansCompleted, Latest
<1> QED BY <1>2, <1>3, <1>4 DEF RowInv

LEMMA ArriveRows ==
    ASSUME Typed, RowInv, Arrives
    PROVE  RowInv'
<1>1. PICK e \in Deliver : delivers' = delivers \union {e} /\ e.src = External /\ e.st = "PENDING"
  BY DEF Arrives
<1>2. inv' = inv /\ BusyKept
  BY DEF Arrives
<1> QED BY <1>1, <1>2, AddedRow

LEMMA EmitRows ==
    ASSUME Typed, RowInv, NEW n \in Nodes, NEW s \in Slots, Emits(n, s)
    PROVE  RowInv'
<1>1. sched.task[n][s].inv \in 1..Latest(n)
  BY DEF Emits, RowInv, BusyHasRecord
<1> QED BY <1>1, AddedRow DEF Emits

\* begin_invocation lets the records grow.
LEMMA BeginGrows ==
    ASSUME Typed, RowInv, NEW n \in Nodes, inv' = BeginInvocation(n)
    PROVE  /\ RecordsGrow /\ \A m \in Nodes : Latest(m)' \in Nat
           /\ \A m \in Nodes : m # n => Latest(m)' = Latest(m)
           /\ Latest(n)' = Latest(n) + 1
           /\ OnlyLatestRuns'
<1>1. /\ \A m \in Nodes : m # n => inv'[m] = inv[m]
      /\ Latest(n)' = Latest(n) + 1
      /\ \A i \in 1..Latest(n) :
            inv'[n][i].st = IF i = Latest(n) /\ inv[n][i].st = "RUNNING" THEN "CRASHED"
                            ELSE inv[n][i].st
  BY BeginRecords DEF Typed
<1>2. \A m \in Nodes : m # n => Latest(m)' = Latest(m)
  BY <1>1 DEF Latest
<1>3. \A m \in Nodes : Latest(m)' \in Nat /\ Latest(m) \in Nat
  BY <1>1, <1>2 DEF Typed
<1>4. RecordsGrow
  BY <1>1, <1>2, <1>3 DEF RecordsGrow
<1>5. ASSUME NEW m \in Nodes, NEW i \in 1..Latest(m)', inv'[m][i].st = "RUNNING" PROVE i = Latest(m)'
  <2>1. CASE m = n
    BY <1>1, <1>3, <1>5, <2>1 DEF RowInv, OnlyLatestRuns
  <2>2. CASE m # n
    BY <1>1, <1>2, <1>5, <2>2 DEF RowInv, OnlyLatestRuns
  <2> QED BY <2>1, <2>2
<1> QED BY <1>1, <1>2, <1>3, <1>4, <1>5 DEF OnlyLatestRuns

LEMMA HalfBeginRows ==
    ASSUME Typed, RowInv, NEW n \in Nodes, HalfBegins(n)
    PROVE  RowInv'
<1>1. RecordsGrow /\ (\A m \in Nodes : Latest(m)' \in Nat) /\ OnlyLatestRuns'
  BY BeginGrows DEF HalfBegins
<1>2. \A d \in delivers :
           /\ Taken(d) => d.by \in 1..Latest(d.dst)'
           /\ d.src # External => d.from \in 1..Latest(d.src)'
           /\ d.st = "CONSUMED_COMPLETED" => inv'[d.dst][d.by].st = "COMPLETED"
           /\ d.st # "STAGED" /\ d.src # External =>
                 \E i \in d.from..Latest(d.src)' : inv'[d.src][i].st = "COMPLETED"
  BY <1>1, GrowRows
<1>3. delivers' = delivers /\ BusyHasRecord'
  BY DEF HalfBegins, BusyHasRecord
<1>4. TakenByRecord' /\ SentByRecord' /\ SettledMeansCompleted'
  BY <1>2, <1>3 DEF TakenByRecord, SentByRecord, SettledMeansCompleted, Taken
<1>5. VisibleMeansCompleted'
  BY <1>2, <1>3 DEF VisibleMeansCompleted
<1>6. TakenTogether'
  BY <1>3 DEF RowInv, TakenTogether
<1> QED BY <1>1, <1>3, <1>4, <1>5, <1>6 DEF RowInv

LEMMA BeginRows ==
    ASSUME Typed, RowInv, NEW n \in Nodes, NEW s \in Slots, Begins(n, s)
    PROVE  RowInv'
<1> DEFINE k == Latest(n) + 1
<1>1. /\ RecordsGrow /\ (\A m \in Nodes : Latest(m)' \in Nat) /\ OnlyLatestRuns'
      /\ (\A m \in Nodes : m # n => Latest(m)' = Latest(m)) /\ Latest(n)' = k
  BY BeginGrows DEF Begins
<1>2. \A d \in delivers :
           /\ Taken(d) => d.by \in 1..Latest(d.dst)'
           /\ d.src # External => d.from \in 1..Latest(d.src)'
           /\ d.st = "CONSUMED_COMPLETED" => inv'[d.dst][d.by].st = "COMPLETED"
           /\ d.st # "STAGED" /\ d.src # External =>
                 \E i \in d.from..Latest(d.src)' : inv'[d.src][i].st = "COMPLETED"
  BY <1>1, GrowRows
<1>3. k \in Nat /\ k \in 1..Latest(n)' /\ delivers \in SUBSET Deliver
  BY <1>1 DEF Typed
<1>4. \A e \in delivers' : \E d \in delivers :
         /\ Same(d, e)
         /\ \/ d.dst = n /\ d.st \in {"PENDING", "CONSUMED_PENDING"}
               /\ e.by = k /\ e.st = "CONSUMED_PENDING"
            \/ ~(d.dst = n /\ d.st \in {"PENDING", "CONSUMED_PENDING"}) /\ e = d
  BY <1>3, MarkOrigin DEF Begins
<1> HIDE DEF k
<1>5. \A e \in delivers' : e.dst = n /\ e.st = "CONSUMED_PENDING" => e.by = k
  BY <1>4 DEF Same
<1>6. TakenByRecord'
  BY <1>2, <1>3, <1>4 DEF TakenByRecord, Taken, Same
<1>7. SentByRecord'
  BY <1>2, <1>4 DEF SentByRecord, Same
<1>8. SettledMeansCompleted'
  BY <1>2, <1>4 DEF SettledMeansCompleted, Same
<1>9. ASSUME NEW e \in delivers', e.st # "STAGED", e.src # External
      PROVE  \E i \in e.from..Latest(e.src)' : inv'[e.src][i].st = "COMPLETED"
  <2>1. PICK d \in delivers : Same(d, e) /\ d.st # "STAGED"
    BY <1>4, <1>9
  <2> QED BY <1>2, <1>9, <2>1 DEF Same
<1>10. VisibleMeansCompleted'
  BY <1>9 DEF VisibleMeansCompleted
<1>11. TakenTogether'
  <2>1. \A e \in delivers' : e.dst # n => e \in delivers
    BY <1>4 DEF Same
  <2> QED BY <1>5, <2>1 DEF RowInv, TakenTogether
<1>12. ASSUME NEW m \in Nodes, NEW u \in Slots, sched'.task[m][u].phase = "busy"
       PROVE  /\ sched'.task[m][u].inv \in 1..Latest(m)'
              /\ sched'.task[m][u].inv = Latest(m)' =>
                    \A d \in delivers' : d.dst = m /\ d.st = "CONSUMED_PENDING" => d.by = Latest(m)'
  <2>1. CASE m = n /\ u = s
    BY <1>1, <1>3, <1>5, <2>1 DEF Begins, k
  <2>2. CASE m = n /\ u # s
    <3>1. sched'.task[m][u].inv \in 1..Latest(m)
      BY <1>12, <2>2 DEF Begins, RowInv, BusyHasRecord
    <3> QED BY <1>1, <1>3, <1>5, <2>2, <3>1 DEF k, Typed
  <2>3. CASE m # n
    <3>1. /\ sched'.task[m][u].inv \in 1..Latest(m)
          /\ sched'.task[m][u].inv = Latest(m) =>
                \A d \in delivers : d.dst = m /\ d.st = "CONSUMED_PENDING" => d.by = Latest(m)
      BY <1>12, <2>3 DEF Begins, RowInv, BusyHasRecord
    <3>2. \A e \in delivers' : e.dst = m => e \in delivers
      BY <1>4, <2>3 DEF Same
    <3> QED BY <1>1, <2>3, <3>1, <3>2
  <2> QED BY <2>1, <2>2, <2>3
<1>13. BusyHasRecord'
  BY <1>12 DEF BusyHasRecord
<1> QED BY <1>1, <1>6, <1>7, <1>8, <1>10, <1>11, <1>13 DEF RowInv

\* The record of a task that owns its invocation is the latest of its node.
LEMMA OwnedIsLatest ==
    ASSUME Typed, RowInv, NEW n \in Nodes, NEW s \in Slots,
           sched.task[n][s].phase = "busy", OwnsInvocation(n, s)
    PROVE  /\ sched.task[n][s].inv = Latest(n) /\ Latest(n) \in 1..Latest(n)
           /\ \A d \in delivers : d.dst = n /\ d.st = "CONSUMED_PENDING" => d.by = Latest(n)
<1>1. sched.task[n][s].inv \in 1..Latest(n)
  BY DEF RowInv, BusyHasRecord
<1>2. sched.task[n][s].inv = Latest(n)
  BY <1>1 DEF RowInv, OnlyLatestRuns, OwnsInvocation
<1> QED BY <1>1, <1>2 DEF RowInv, BusyHasRecord

\* So does closing a record that is open.
LEMMA CloseGrows ==
    ASSUME Typed, RowInv, NEW n \in Nodes, NEW k \in 1..Latest(n), NEW st \in InvocationStatus,
           inv[n][k].st = "RUNNING", st # "RUNNING", inv' = CloseInvocation(n, k, st)
    PROVE  /\ RecordsGrow /\ OnlyLatestRuns'
           /\ \A m \in Nodes : Latest(m)' = Latest(m) /\ Latest(m)' \in Nat
           /\ inv'[n][k].st = st
<1>1. /\ \A m \in Nodes : m # n => inv'[m] = inv[m]
      /\ \A m \in Nodes : Latest(m)' = Latest(m)
      /\ inv'[n][k].st = st
      /\ \A i \in 1..Latest(n) : i # k => inv'[n][i] = inv[n][i]
  BY CloseRecords DEF Typed
<1>2. RecordsGrow
  BY <1>1 DEF RecordsGrow, Typed
<1>3. OnlyLatestRuns'
  BY <1>1 DEF RowInv, OnlyLatestRuns
<1> QED BY <1>1, <1>2, <1>3 DEF Typed

LEMMA CloseRows ==
    ASSUME Typed, RowInv, NEW n \in Nodes, NEW s \in Slots, Closes(n, s)
    PROVE  RowInv'
<1> DEFINE k == sched.task[n][s].inv
<1>1. k = Latest(n) /\ k \in 1..Latest(n) /\ inv[n][k].st = "RUNNING"
  BY OwnedIsLatest DEF Closes, OwnsInvocation
<1>2. PICK st \in {"CRASHED", "CANCELED"} : inv' = CloseInvocation(n, k, st)
  BY DEF Closes
<1>3. st \in InvocationStatus /\ st # "RUNNING"
  BY DEF InvocationStatus
<1> HIDE DEF k
<1>4. /\ RecordsGrow /\ OnlyLatestRuns' /\ \A m \in Nodes : Latest(m)' = Latest(m) /\ Latest(m)' \in Nat
  BY <1>1, <1>2, <1>3, CloseGrows
<1>5. \A d \in delivers :
           /\ Taken(d) => d.by \in 1..Latest(d.dst)'
           /\ d.src # External => d.from \in 1..Latest(d.src)'
           /\ d.st = "CONSUMED_COMPLETED" => inv'[d.dst][d.by].st = "COMPLETED"
           /\ d.st # "STAGED" /\ d.src # External =>
                 \E i \in d.from..Latest(d.src)' : inv'[d.src][i].st = "COMPLETED"
  BY <1>4, GrowRows
<1>6. delivers' = delivers /\ BusyKept
  BY DEF Closes
<1>7. TakenByRecord' /\ SentByRecord' /\ SettledMeansCompleted'
  BY <1>5, <1>6 DEF TakenByRecord, SentByRecord, SettledMeansCompleted, Taken
<1>8. VisibleMeansCompleted'
  BY <1>5, <1>6 DEF VisibleMeansCompleted
<1>9. TakenTogether'
  BY <1>6 DEF RowInv, TakenTogether
<1>10. BusyHasRecord'
  BY <1>4, <1>6 DEF RowInv, BusyHasRecord, BusyKept
<1> QED BY <1>4, <1>7, <1>8, <1>9, <1>10 DEF RowInv

\* Promoting the inputs of no node changes nothing.
LEMMA ConsumedOfNone ==
    ASSUME NEW dl
    PROVE  PromoteConsumed(dl, {}) = dl
BY DEF PromoteConsumed, Promote

\* Where a row after both promotions comes from.
LEMMA PromotedOrigin ==
    ASSUME NEW dl \in SUBSET Deliver, NEW srcs, NEW dsts, NEW ns,
           NEW e \in PromoteConsumed(PromoteStaged(dl, srcs, dsts), ns)
    PROVE  \E d \in dl :
              /\ Same(d, e) /\ e.by = d.by
              /\ \/ d.src \in srcs /\ d.st = "STAGED" /\ e.st = "PENDING"
                 \/ d.dst \in ns /\ d.st = "CONSUMED_PENDING" /\ e.st = "CONSUMED_COMPLETED"
                 \/ /\ e.st = d.st /\ ~(d.dst \in ns /\ d.st = "CONSUMED_PENDING")
                    /\ ~(d.src \in srcs /\ d.st = "STAGED" /\ d.dst \in dsts)
<1> DEFINE mid == PromoteStaged(dl, srcs, dsts)
<1>1. mid \in SUBSET Deliver /\ e \in PromoteConsumed(mid, ns)
  BY PromoteType
<1>2. PICK c \in mid :
         /\ Same(c, e) /\ e.by = c.by
         /\ e.st = IF c.dst \in ns /\ c.st = "CONSUMED_PENDING" THEN "CONSUMED_COMPLETED" ELSE c.st
  <2> HIDE DEF mid
  <2> QED BY <1>1, ConsumedOrigin
<1>3. PICK d \in dl :
         /\ Same(d, c) /\ c.by = d.by
         /\ c.st = IF d.src \in srcs /\ d.st = "STAGED" /\ d.dst \in dsts THEN "PENDING" ELSE d.st
  BY StagedOrigin
<1> QED BY <1>2, <1>3 DEF Same

\* Promotion of the staged rows of sources whose latest record is completed,
\* and of the inputs that a completed record took.
LEMMA PromotedRows ==
    ASSUME Typed, RowInv, RecordsGrow, OnlyLatestRuns', BusyKept,
           \A m \in Nodes : Latest(m)' = Latest(m) /\ Latest(m)' \in Nat,
           NEW srcs, \A m \in srcs \intersect Nodes :
                        Latest(m) = 0 \/ inv'[m][Latest(m)].st = "COMPLETED",
           NEW dsts, NEW ns,
           \A d \in delivers : d.dst \in ns /\ d.st = "CONSUMED_PENDING" =>
                                  inv'[d.dst][d.by].st = "COMPLETED",
           delivers' = PromoteConsumed(PromoteStaged(delivers, srcs, dsts), ns)
    PROVE  RowInv'
<1>1. \A d \in delivers :
           /\ Taken(d) => d.by \in 1..Latest(d.dst)'
           /\ d.src # External => d.from \in 1..Latest(d.src)'
           /\ d.st = "CONSUMED_COMPLETED" => inv'[d.dst][d.by].st = "COMPLETED"
           /\ d.st # "STAGED" /\ d.src # External =>
                 \E i \in d.from..Latest(d.src)' : inv'[d.src][i].st = "COMPLETED"
  BY GrowRows
<1>2. \A e \in delivers' : \E d \in delivers :
         /\ Same(d, e) /\ e.by = d.by
         /\ \/ d.src \in srcs /\ d.st = "STAGED" /\ e.st = "PENDING"
            \/ d.dst \in ns /\ d.st = "CONSUMED_PENDING" /\ e.st = "CONSUMED_COMPLETED"
            \/ e.st = d.st
  BY PromotedOrigin DEF Typed
<1>3. \A e \in delivers' : \E d \in delivers :
         Same(d, e) /\ e.by = d.by /\ (Taken(e) => Taken(d))
            /\ (e.st = "CONSUMED_PENDING" => d.st = "CONSUMED_PENDING")
  BY <1>2 DEF Taken
<1>4. TakenByRecord' /\ SettledMeansCompleted'
  <2>1. TakenByRecord'
    BY <1>1, <1>3 DEF TakenByRecord, Taken, Same
  <2>2. ASSUME NEW e \in delivers', e.st = "CONSUMED_COMPLETED"
        PROVE  inv'[e.dst][e.by].st = "COMPLETED"
    <3>1. PICK d \in delivers :
         /\ Same(d, e) /\ e.by = d.by
         /\ \/ d.dst \in ns /\ d.st = "CONSUMED_PENDING"
            \/ d.st = "CONSUMED_COMPLETED"
      BY <1>2, <2>2
    <3> QED BY <1>1, <3>1 DEF Same
  <2> QED BY <2>1, <2>2 DEF SettledMeansCompleted
<1>5. TakenTogether'
  BY <1>3 DEF RowInv, TakenTogether, Same
<1>6. SentByRecord'
  BY <1>1, <1>2 DEF SentByRecord, Same
<1>7. BusyHasRecord'
  BY <1>3 DEF RowInv, BusyHasRecord, BusyKept, Same
<1>8. ASSUME NEW e \in delivers', e.st # "STAGED", e.src # External
      PROVE  \E i \in e.from..Latest(e.src)' : inv'[e.src][i].st = "COMPLETED"
  <2>1. PICK d \in delivers : Same(d, e) /\ (d.st # "STAGED" \/ d.src \in srcs)
    BY <1>2, <1>8
  <2>2. CASE d.st # "STAGED"
    BY <1>1, <1>8, <2>1, <2>2 DEF Same
  <2>3. CASE d.src \in srcs
    <3>1. e.src \in srcs \intersect Nodes /\ d.from = e.from /\ d.src = e.src
      BY <1>8, <2>1, <2>3 DEF Same, Typed, Deliver
    <3>2. e.from \in 1..Latest(e.src)' /\ Latest(e.src)' = Latest(e.src) /\ Latest(e.src) \in Nat
      BY <1>1, <1>8, <3>1
    <3>3. inv'[e.src][Latest(e.src)].st = "COMPLETED" /\ Latest(e.src) \in e.from..Latest(e.src)'
      BY <3>1, <3>2
    <3> QED BY <3>3
  <2> QED BY <2>1, <2>2, <2>3
<1>9. VisibleMeansCompleted'
  BY <1>8 DEF VisibleMeansCompleted
<1> QED BY <1>4, <1>5, <1>6, <1>7, <1>9 DEF RowInv

LEMMA CompleteRows ==
    ASSUME Typed, RowInv, NEW n \in Nodes, NEW s \in Slots, Completes(n, s)
    PROVE  RowInv'
<1> DEFINE k == sched.task[n][s].inv
<1>1. /\ k = Latest(n) /\ k \in 1..Latest(n) /\ inv[n][k].st = "RUNNING"
      /\ \A d \in delivers : d.dst = n /\ d.st = "CONSUMED_PENDING" => d.by = k
  BY OwnedIsLatest DEF Completes, OwnsInvocation
<1>2. inv' = CloseInvocation(n, k, "COMPLETED") /\ BusyKept
  BY DEF Completes
<1>3. "COMPLETED" \in InvocationStatus
  BY DEF InvocationStatus
<1>4. PICK dsts : \/ delivers' = PromoteStaged(delivers, {n}, dsts)
                  \/ delivers' = PromoteConsumed(PromoteStaged(delivers, {n}, dsts), {n})
  BY DEF Completes
<1> HIDE DEF k
<1>5. /\ RecordsGrow /\ OnlyLatestRuns'
      /\ \A m \in Nodes : Latest(m)' = Latest(m) /\ Latest(m)' \in Nat
      /\ inv'[n][k].st = "COMPLETED"
  BY <1>1, <1>2, <1>3, CloseGrows
<1>6. \A m \in {n} \intersect Nodes : Latest(m) = 0 \/ inv'[m][Latest(m)].st = "COMPLETED"
  BY <1>1, <1>5
<1>7. PICK ns \in {{}, {n}} : delivers' = PromoteConsumed(PromoteStaged(delivers, {n}, dsts), ns)
  BY <1>4, ConsumedOfNone
<1>8. \A d \in delivers : d.dst \in ns /\ d.st = "CONSUMED_PENDING" =>
                                  inv'[d.dst][d.by].st = "COMPLETED"
  BY <1>1, <1>5, <1>7
<1> QED BY <1>2, <1>5, <1>6, <1>7, <1>8, PromotedRows

LEMMA RecoverRows ==
    ASSUME Typed, RowInv, Recovers
    PROVE  RowInv'
<1> DEFINE ns == {n \in CompletedNodes \ {Start} : \E d \in delivers :
                     d.dst = n /\ d.st = "CONSUMED_PENDING" /\ d.by = Latest(n)}
<1>1. inv' = inv /\ BusyKept /\ delivers' = PromoteConsumed(PromoteStaged(delivers, CompletedNodes, Nodes), ns)
  BY DEF Recovers, AutoPromoted
<1>2. \A m \in CompletedNodes : m \in Nodes /\ inv[m][Latest(m)].st = "COMPLETED"
  BY DEF CompletedNodes, RunStatus, LatestStatus
<1>3. \A d \in delivers : d.dst \in ns /\ d.st = "CONSUMED_PENDING" => inv'[d.dst][d.by].st = "COMPLETED"
  <2> SUFFICES ASSUME NEW d \in delivers, d.dst \in ns, d.st = "CONSUMED_PENDING"
               PROVE  inv'[d.dst][d.by].st = "COMPLETED"
    OBVIOUS
  <2>1. PICK e \in delivers : e.dst = d.dst /\ e.st = "CONSUMED_PENDING" /\ e.by = Latest(d.dst)
    OBVIOUS
  <2>2. d.by = Latest(d.dst)
    BY <2>1 DEF RowInv, TakenTogether
  <2> QED BY <1>1, <1>2, <2>2
<1> HIDE DEF ns
<1>4. RecordsGrow /\ (\A m \in Nodes : Latest(m)' = Latest(m) /\ Latest(m)' \in Nat) /\ OnlyLatestRuns'
  BY <1>1, SameRecordsGrow DEF RowInv, OnlyLatestRuns
<1>5. \A m \in CompletedNodes \intersect Nodes : Latest(m) = 0 \/ inv'[m][Latest(m)].st = "COMPLETED"
  BY <1>1, <1>2
<1> QED BY <1>1, <1>3, <1>4, <1>5, PromotedRows

LEMMA RowsKept ==
    ASSUME IInv, IsFiniteSet(delivers), RowInv, Next
    PROVE  RowInv'
<1>1. Typed
  BY TypeParts DEF IInv, Typed
<1>2. RowStep
  BY NextRowStep
<1> QED
  BY <1>1, <1>2, IdleRows, ArriveRows, RecoverRows, EmitRows, BeginRows, HalfBeginRows, CompleteRows, CloseRows
     DEF RowStep

LEMMA RowInvariant == Spec => [](FInv /\ RowInv)
<1>1. Init => RowInv
  <2> SUFFICES ASSUME Init PROVE RowInv
    OBVIOUS
  <2>1. delivers = {} /\ \A n \in Nodes : Latest(n) = 0
    BY DEF Init, Latest
  <2>2. \A n \in Nodes, s \in Slots : sched.task[n][s].phase # "busy"
    BY DEF Init, NewScheduler, NoTask
  <2> QED
    BY <2>1, <2>2 DEF RowInv, OnlyLatestRuns, TakenByRecord, TakenTogether, BusyHasRecord,
        SentByRecord,
                      SettledMeansCompleted, VisibleMeansCompleted
<1>2. FInv /\ RowInv /\ [Next]_vars => RowInv'
  <2>1. ASSUME FInv, RowInv, UNCHANGED vars PROVE RowInv'
    <3>1. Typed
      BY <2>1, TypeParts DEF FInv, IInv, Typed
    <3>2. Idles
      BY <2>1 DEF vars, Idles, BusyKept
    <3> QED BY <2>1, <3>1, <3>2, IdleRows
  <2> QED BY <2>1, RowsKept DEF FInv
<1> QED BY Invariant, <1>1, <1>2, PTL DEF Spec

\* For any graph, triggers, stray and external delivers, runs and process
\* deaths: an input is settled only by a completed invocation that had taken
\* it, so no crash loses it (Node.run, recovery bootstrap).
THEOREM SettledByCompletion == Spec => []SettledMeansCompleted
<1>1. RowInv => SettledMeansCompleted
  BY DEF RowInv
<1> QED BY RowInvariant, <1>1, PTL

\* With the same generality: nobody sees an output before an invocation of its
\* node, the one that produced it or a later one, completed.
THEOREM VisibleAfterCompletion == Spec => []VisibleMeansCompleted
<1>1. RowInv => VisibleMeansCompleted
  BY DEF RowInv
<1> QED BY RowInvariant, <1>1, PTL

-----------------------------------------------------------------------------
(* One instance per node *)

\* Removed instances are all alike, and only a node with trigger ON_RECEIVE
\* queues wakeups or has a second instance.
Slotted(m) ==
    /\ \A n \in Nodes, s \in Slots : m.task[n][s].phase = "none" => m.task[n][s] = NoTask
    /\ \A n \in Nodes \ OnReceive : m.task[n][2].phase = "none" /\ m.queued[n] = 0

LEMMA CreateSlots ==
    ASSUME NEW m \in Scheduler, Slotted(m), NEW ns,
           \A n \in Nodes \ OnReceive : n \in ns => n \notin ActiveNodes(m)
    PROVE  Slotted(CreateInstances(m, ns))
<1> DEFINE r == CreateInstances(m, ns)
<1>1. r.queued = m.queued
  BY DEF CreateInstances, Scheduler
<1>2. \A n \in Nodes : r.task[n] = IF n \in ns
         THEN [m.task[n] EXCEPT ![IF m.task[n][1] = NoTask THEN 1 ELSE 2] = ReadyTask] ELSE m.task[n]
  BY DEF CreateInstances, Scheduler
<1>3. \A n \in Nodes, s \in Slots : r.task[n][s] \in {m.task[n][s], ReadyTask}
  BY CreateTask
<1>4. ASSUME NEW n \in Nodes \ OnReceive PROVE r.task[n][2].phase = "none"
  <2>1. CASE n \in ns
    <3>1. m.task[n][1].phase = "none"
      BY <1>4, <2>1 DEF ActiveNodes, Slots
    <3>2. m.task[n][1] = NoTask
      BY <3>1 DEF Slotted, Slots
    <3>3. r.task[n] = [m.task[n] EXCEPT ![1] = ReadyTask]
      BY <1>2, <2>1, <3>2
    <3>4. m.task[n] \in [Slots -> [phase : TaskPhases, inv : Nat]]
      BY DEF Scheduler
    <3>5. r.task[n][2] = m.task[n][2]
      BY <3>3, <3>4 DEF Slots
    <3> QED BY <3>5 DEF Slotted
  <2>2. CASE n \notin ns
    BY <1>2, <2>2 DEF Slotted
  <2> QED BY <2>1, <2>2
<1>5. ReadyTask.phase # "none"
  BY DEF ReadyTask
<1> HIDE DEF r
<1>6. Slotted(r)
  BY <1>1, <1>3, <1>4, <1>5 DEF Slotted
<1> QED BY <1>6 DEF r

LEMMA FireSlots ==
    ASSUME NEW m \in Scheduler, Slotted(m), NEW dl
    PROVE  Slotted(FireAllPreds(m, dl))
<1> DEFINE ts == Fireable(m, dl)
           m1 == [m EXCEPT !.waiting = @ \ ts]
<1>1. m1 \in Scheduler /\ m1.task = m.task /\ m1.queued = m.queued
  BY DEF Scheduler
<1>2. FireAllPreds(m, dl) = CreateInstances(m1, ts)
  BY DEF FireAllPreds
<1>3. ts \intersect ActiveNodes(m) = {}
  BY DEF Fireable
<1> HIDE DEF m1, ts
<1>4. ActiveNodes(m1) = ActiveNodes(m) /\ Slotted(m1)
  BY <1>1 DEF ActiveNodes, Slotted
<1> QED BY <1>1, <1>2, <1>3, <1>4, CreateSlots

LEMMA RecheckSlots ==
    ASSUME NEW m \in Scheduler, Slotted(m), NEW dl \in SUBSET Deliver
    PROVE  Slotted(Recheck(m, dl))
<1> DEFINE fresh == {n \in Nodes \ {Start} : Unscheduled(m, dl, n) # {}}
           fire == (fresh \intersect OnReceive) \ ActiveNodes(m)
           wake == fresh \ OnReceive
           u == UNION {Unscheduled(m, dl, n) : n \in fire \union wake}
           m1 == Wake(m, wake, u, fresh)
           m2 == CreateInstances(m1, fire)
<1>1. \A n \in Nodes : Unscheduled(m, dl, n) \subseteq (Nodes \union {External}) \X Nat \X Nodes
  BY DEF Unscheduled, PendingAt, Key, Deliver
<1>2. u \in SUBSET ((Nodes \union {External}) \X Nat \X Nodes) /\ wake \in SUBSET Nodes
  BY <1>1
<1>3. m1 \in Scheduler /\ m1.task = m.task /\ m1.queued = m.queued
  <2> HIDE DEF wake, u, fresh
  <2> QED BY <1>2, WakeType DEF Wake, Scheduler
<1>4. fire \subseteq OnReceive
  OBVIOUS
<1>5. m2 \in Scheduler /\ Slotted(m2)
  <2> HIDE DEF m1, fire
  <2>1. Slotted(m1)
    BY <1>3 DEF Slotted
  <2> QED BY <1>3, <1>4, <2>1, CreateType, CreateSlots
<1>6. Recheck(m, dl) = FireAllPreds(m2, dl)
  BY DEF Recheck, Wake
<1> HIDE DEF m2
<1> QED BY <1>5, <1>6, FireSlots

LEMMA DispatchSlots ==
    ASSUME NEW m \in Scheduler, Slotted(m), NEW ts \in SUBSET Nodes
    PROVE  Slotted(Dispatch(m, ts))
<1> DEFINE q == [n \in Nodes |-> IF n \in ts \intersect OnReceive \intersect ActiveNodes(m)
                                THEN m.queued[n] + 1 ELSE m.queued[n]]
           m1 == [m EXCEPT !.waiting = @ \union (ts \ OnReceive), !.queued = q, !.reached = @ \/ End \in ts]
           ns == (ts \intersect OnReceive) \ ActiveNodes(m)
<1>1. q \in [Nodes -> Nat] /\ \A n \in Nodes \ OnReceive : q[n] = m.queued[n]
  BY DEF Scheduler
<1>2. m1 \in Scheduler /\ m1.task = m.task /\ m1.queued = q
  <2> HIDE DEF q
  <2> QED BY <1>1 DEF Scheduler
<1>3. Dispatch(m, ts) = CreateInstances(m1, ns) /\ ns \subseteq OnReceive
  BY DEF Dispatch
<1> HIDE DEF m1, q, ns
<1>4. Slotted(m1)
  BY <1>1, <1>2 DEF Slotted
<1> QED BY <1>2, <1>3, <1>4, CreateSlots

LEMMA DrainSlots ==
    ASSUME NEW m \in Scheduler, Slotted(m), NEW n \in Nodes
    PROVE  Slotted(DrainOnReceive(m, n))
<1>1. CASE m.queued[n] = 0
  BY <1>1 DEF DrainOnReceive
<1>2. CASE m.queued[n] # 0
  <2> DEFINE m1 == [m EXCEPT !.queued[n] = @ - 1]
  <2>1. n \in OnReceive /\ m.queued[n] - 1 \in Nat
    BY <1>2 DEF Slotted, Scheduler
  <2>2. /\ m1 \in Scheduler /\ m1.task = m.task
        /\ \A x \in Nodes : x # n => m1.queued[x] = m.queued[x]
    BY <2>1 DEF Scheduler
  <2> HIDE DEF m1
  <2>3. DrainOnReceive(m, n) = CreateInstances(m1, {n})
    BY <1>2 DEF DrainOnReceive, m1
  <2>4. Slotted(m1)
    BY <2>1, <2>2 DEF Slotted
  <2> QED BY <2>1, <2>2, <2>3, <2>4, CreateSlots
<1> QED BY <1>1, <1>2

LEMMA NewSlots == Slotted(NewScheduler) /\ ActiveNodes(NewScheduler) = {}
BY DEF NewScheduler, Slotted, NoTask, ActiveNodes, Slots

LEMMA LaunchSlots ==
    ASSUME NEW seeds, NEW reached \in BOOLEAN, NEW dl \in SUBSET Deliver
    PROVE  Slotted(Launch(seeds, reached, dl))
<1> DEFINE ready == {n \in seeds : n = Start \/ LatestStatus(n) \in {"CRASHED", "RUNNING", "CANCELED"}}
           u == {Key(d) : d \in {x \in dl : x.dst \in ready /\ x.st = "PENDING"}}
           m == [NewScheduler EXCEPT !.reached = reached, !.scheduled = u]
           m1 == CreateInstances(m, ready)
<1>1. u \in SUBSET ((Nodes \union {External}) \X Nat \X Nodes)
  BY DEF Key, Deliver
<1>2. m \in Scheduler /\ m.task = NewScheduler.task /\ m.queued = NewScheduler.queued
  <2> HIDE DEF u
  <2> QED BY <1>1 DEF NewScheduler, Scheduler, NoTask, TaskPhases, Unfinished
<1>3. Slotted(m) /\ ActiveNodes(m) = {}
  <2> HIDE DEF m
  <2> QED BY <1>2, NewSlots DEF Slotted, ActiveNodes
<1>4. m1 \in Scheduler /\ Slotted(m1)
  <2> HIDE DEF m, ready
  <2> QED BY <1>2, <1>3, CreateType, CreateSlots
<1>5. Launch(seeds, reached, dl) = Recheck(m1, dl)
  BY DEF Launch
<1> HIDE DEF m1
<1> QED BY <1>4, <1>5, RecheckSlots

\* The task of an instance that exists takes a new value.
LEMMA SetTaskSlots ==
    ASSUME NEW m \in Scheduler, Slotted(m), NEW n \in Nodes, NEW s \in Slots, m.task[n][s].phase # "none",
           NEW t \in [phase : TaskPhases, inv : Nat], t.phase = "none" => t = NoTask
    PROVE  Slotted(SetTask(m, n, s, t))
<1>1. n \in OnReceive \/ s = 1
  BY DEF Slotted, Slots
<1>2. SetTask(m, n, s, t).queued = m.queued
  BY DEF SetTask, Scheduler
<1> DEFINE r == SetTask(m, n, s, t)
<1>3. \A x \in Nodes, y \in Slots : r.task[x][y] = IF x = n /\ y = s THEN t ELSE m.task[x][y]
  BY SetTaskTask
<1>4. \A x \in Nodes, y \in Slots : r.task[x][y].phase = "none" => r.task[x][y] = NoTask
  <2> HIDE DEF r
  <2> QED BY <1>3 DEF Slotted
<1>5. \A x \in Nodes \ OnReceive : r.task[x][2].phase = "none"
  <2>1. 2 \in Slots
    BY DEF Slots
  <2> HIDE DEF r
  <2> QED BY <1>1, <1>3, <2>1 DEF Slotted
<1> QED BY <1>2, <1>4, <1>5 DEF Slotted

LEMMA PhaseSlots ==
    ASSUME NEW m \in Scheduler, Slotted(m), NEW n \in Nodes, NEW s \in Slots, m.task[n][s].phase # "none",
           NEW ph \in TaskPhases \ {"none"}
    PROVE  Slotted([m EXCEPT !.task[n][s].phase = ph])
<1> DEFINE t == [m.task[n][s] EXCEPT !.phase = ph]
<1>1. t \in [phase : TaskPhases, inv : Nat] /\ t.phase # "none"
  <2>1. m.task \in [Nodes -> [Slots -> [phase : TaskPhases, inv : Nat]]]
    BY DEF Scheduler
  <2>2. m.task[n][s] \in [phase : TaskPhases, inv : Nat]
    BY <2>1
  <2> QED BY <2>2
<1>2. [m EXCEPT !.task[n][s].phase = ph] = SetTask(m, n, s, t)
  BY DEF SetTask, Scheduler
<1> HIDE DEF t
<1> QED BY <1>1, <1>2, SetTaskSlots

LEMMA TaskStepSlots ==
    ASSUME IInv, Slotted(sched), NEW n \in Nodes, NEW s \in Slots, TaskStep(n, s)
    PROVE  Slotted(sched')
<1> /\ delivers \in SUBSET Deliver /\ sched \in Scheduler /\ Latest(n) \in Nat
  BY TypeParts DEF IInv
<1> DEFINE t == sched.task[n][s]
<1>0. t \in [phase : TaskPhases, inv : Nat] /\ NoTask \in [phase : TaskPhases, inv : Nat]
  BY DEF Scheduler, NoTask, TaskPhases, Unfinished
<1>1. CASE Begin(n, s)
  <2> DEFINE b == [phase |-> "busy", inv |-> Latest(n) + 1]
  <2>1. b \in [phase : TaskPhases, inv : Nat] /\ b.phase # "none"
    BY DEF TaskPhases, Unfinished
  <2>2. sched' = SetTask(sched, n, s, b) /\ t.phase # "none"
    BY <1>1 DEF Begin, TaskIs, Startable
  <2> HIDE DEF b
  <2> QED BY <2>1, <2>2, SetTaskSlots
<1>2. CASE Complete(n, s)
  <2> DEFINE m == Dispatch(sched, Targets(n))
             a == [t EXCEPT !.phase = "after"]
  <2>1. m \in Scheduler /\ Slotted(m) /\ m.task[n][s] \in {t, ReadyTask}
    BY DispatchType, DispatchSlots, DispatchTask, DestinationsType
  <2>2. sched' = SetTask(m, n, s, a) /\ t.phase = "busy"
    BY <1>2 DEF Complete, TaskIs
  <2>3. a \in [phase : TaskPhases, inv : Nat] /\ a.phase # "none"
    BY <1>0 DEF TaskPhases, Unfinished
  <2>4. m.task[n][s].phase # "none"
    <3> HIDE DEF m
    <3> QED BY <2>1, <2>2 DEF ReadyTask
  <2> HIDE DEF m, a
  <2> QED BY <2>1, <2>2, <2>3, <2>4, SetTaskSlots
<1>3. CASE Finish(n, s)
  <2> DEFINE m1 == SetTask(sched, n, s, NoTask)
             m2 == Recheck(m1, delivers)
  <2>1. sched' = DrainOnReceive(m2, n) /\ t.phase # "none"
    BY <1>3 DEF Finish, TaskIs
  <2>2. m1 \in Scheduler /\ Slotted(m1)
    BY <1>0, <2>1, SetTaskType, SetTaskSlots
  <2>3. m2 \in Scheduler /\ Slotted(m2)
    <3> HIDE DEF m1
    <3> QED BY <2>2, RecheckType, RecheckSlots
  <2> HIDE DEF m2
  <2> QED BY <2>1, <2>3, DrainSlots
<1>4. CASE CompleteRejected(n, s)
  BY <1>4, PhaseSlots DEF CompleteRejected, TaskIs, TaskPhases, Unfinished
<1>5. CASE CancelTask(n, s)
  <2>1. t.phase # "none"
    BY <1>5 DEF CancelTask, Cancellable, Unfinished
  <2>2. sched' = [sched EXCEPT !.task[n][s].phase = "faulted"] \/ sched' = SetTask(sched, n, s, NoTask)
    BY <1>5 DEF CancelTask, Cancellable, Unfinished
  <2>3. "faulted" \in TaskPhases \ {"none"}
    BY DEF TaskPhases, Unfinished
  <2>4. CASE sched' = [sched EXCEPT !.task[n][s].phase = "faulted"]
    BY <2>1, <2>3, <2>4, PhaseSlots
  <2>5. CASE sched' = SetTask(sched, n, s, NoTask)
    BY <1>0, <2>1, <2>5, SetTaskSlots
  <2> QED BY <2>2, <2>4, <2>5
<1>6. ASSUME NEW ts \in SUBSET (Targets(n) \ Misrouted(n)), Misroute(n, s, ts) PROVE Slotted(sched')
  <2> DEFINE m == Dispatch(sched, ts)
             a == [t EXCEPT !.phase = "faulted"]
  <2>1. m \in Scheduler /\ Slotted(m) /\ m.task[n][s] \in {t, ReadyTask}
    BY DispatchType, DispatchSlots, DispatchTask, DestinationsType
  <2>2. sched' = SetTask(m, n, s, a) /\ t.phase = "busy"
    BY <1>6 DEF Misroute, SetTask, TaskIs
  <2>3. a \in [phase : TaskPhases, inv : Nat] /\ a.phase # "none"
    BY <1>0 DEF TaskPhases, Unfinished
  <2>4. m.task[n][s].phase # "none"
    <3> HIDE DEF m
    <3> QED BY <2>1, <2>2 DEF ReadyTask
  <2> HIDE DEF m, a
  <2> QED BY <2>1, <2>2, <2>3, <2>4, SetTaskSlots
<1> QED BY <1>1, <1>2, <1>3, <1>4, <1>5, <1>6 DEF TaskStep

LEMMA EnterSlots ==
    ASSUME NEW seeds, NEW reached \in BOOLEAN, NEW dl \in SUBSET Deliver, Enter(seeds, reached, dl)
    PROVE  Slotted(sched')
BY LaunchSlots DEF Enter

LEMMA SlotsKept ==
    ASSUME IInv, Slotted(sched), Next
    PROVE  Slotted(sched')
<1> /\ delivers \in SUBSET Deliver /\ sched \in Scheduler
  BY TypeParts DEF IInv
<1>1. CASE StartFresh \/ RecoverFromEntry
  <2>1. Enter({Start}, FALSE, delivers)
    BY <1>1 DEF StartFresh, RecoverFromEntry
  <2> QED BY <2>1, EnterSlots
<1>2. CASE RecoverFromHistory
  <2> DEFINE seeds == Redo \union {n \in Nodes \ {Start} : PendingAt(AutoPromoted, n) # {}}
             reached == End \in seeds \/ (seeds = {} /\ RunStatus(End) = "COMPLETED")
  <2>1. Enter(seeds, reached, AutoPromoted) /\ reached \in BOOLEAN
    BY <1>2 DEF RecoverFromHistory
  <2> HIDE DEF seeds, reached
  <2> QED BY <2>1, AutoPromotedType, EnterSlots
<1>3. CASE Rescan
  BY <1>3, RecheckSlots DEF Rescan, MoreToFind
<1>4. CASE Return \/ BeginDrain \/ Drained \/ RequestDrain
  BY <1>4 DEF Return, BeginDrain, Drained, RequestDrain, durable, NothingLeft, MustDrain,
      AllOver, Unfinished
<1>5. CASE WriteFinal \/ ProcessDies
  BY <1>5, NewSlots DEF WriteFinal, ProcessDies, Die
<1>6. ASSUME NEW n \in Nodes, DeliverToNode(n) PROVE Slotted(sched')
  BY <1>6 DEF DeliverToNode
<1>7. ASSUME NEW n \in Nodes, NEW s \in Slots, TaskStep(n, s) PROVE Slotted(sched')
  BY <1>7, TaskStepSlots
<1>8. ASSUME NEW n \in Nodes, NEW s \in Slots, NEW st, NEW ph \in {"faulted", "interrupted"},
             Raise(n, s, st, ph)
      PROVE  Slotted(sched')
  BY <1>8, PhaseSlots DEF Raise, TaskPhases, Unfinished
<1>9. ASSUME NEW n \in Nodes, NEW s \in Slots, Fault(n, s) \/ Interrupt(n, s) PROVE Slotted(sched')
  BY <1>8, <1>9 DEF Fault, Interrupt
<1>10. ASSUME NEW n \in Nodes, NEW s \in Slots, BeginDies(n, s) PROVE Slotted(sched')
  BY <1>10, NewSlots DEF BeginDies, Die, Startable
<1>11. ASSUME NEW n \in Nodes, NEW s \in Slots, NEW u \in Nodes, Emit(n, s, u) PROVE Slotted(sched')
  BY <1>11 DEF Emit
<1>12. ASSUME NEW n \in Nodes, NEW s \in Slots, NEW dsts \in SUBSET Outputs(n), CompleteDies(n, s, dsts)
       PROVE  Slotted(sched')
  BY <1>12, NewSlots DEF CompleteDies, Die
<1> QED
  BY <1>1, <1>2, <1>3, <1>4, <1>5, <1>6, <1>7, <1>9, <1>10, <1>11, <1>12 DEF Next, LoopStep

LEMMA SlotInvariant == Spec => [](FInv /\ Slotted(sched))
<1>1. Init => Slotted(sched)
  BY NewSlots DEF Init
<1>2. FInv /\ Slotted(sched) /\ [Next]_vars => Slotted(sched)'
  <2>1. ASSUME FInv, Slotted(sched), UNCHANGED vars PROVE Slotted(sched')
    BY <2>1 DEF vars
  <2>2. ASSUME FInv, Slotted(sched), Next PROVE Slotted(sched')
    BY <2>2, SlotsKept DEF FInv
  <2> QED BY <2>1, <2>2 DEF Slotted
<1> QED BY Invariant, <1>1, <1>2, PTL DEF Spec

\* For any graph, loops and fan-ins included: whatever wakes a node that waits
\* for its predecessors (a dispatch, a rescan, a recovery), the scheduler
\* never makes a second instance beside one that exists.
THEOREM NeverTwoInstances == Spec => []OneInstancePerNode
<1>1. Slotted(sched) => OneInstancePerNode
  BY DEF Slotted, OneInstancePerNode, Slots
<1> QED BY SlotInvariant, <1>1, PTL

-----------------------------------------------------------------------------
(* The engine ends *)

\* An engine that runs finds work, ends, is told to drain, has a task that may begin
\* or waits for an agent; one that drains waits for nobody.
THEOREM EngineGoesOn == Spec => []EngineNeverStuck
<1>1. ASSUME IInv, phase = "running"
      PROVE  \/ MoreToFind \/ NothingLeft \/ MustDrain
             \/ \E n \in Nodes, s \in Slots :
                   \/ Startable(n, s) \/ TaskIs(n, s, "busy") \/ TaskIs(n, s, "after")
                   \/ TaskIs(n, s, "ready") /\ Latest(n) >= MaxInv
  <2>1. Alive /\ sched \in Scheduler
    BY <1>1 DEF Alive, IInv, TypeOK
  <2>2. CASE drain \/ SomeTask(RaisedPhases)
    BY <1>1, <2>2 DEF MustDrain
  <2>3. CASE ~drain /\ SomeTask(Unfinished)
    <3>1. PICK n \in Nodes, s \in Slots : sched.task[n][s].phase \in Unfinished
      BY <2>3 DEF SomeTask
    <3>2. CASE sched.task[n][s].phase \in {"busy", "after"}
      BY <2>1, <3>2 DEF TaskIs
    <3>3. CASE sched.task[n][s].phase = "ready"
      <4>1. TaskIs(n, s, "ready")
        BY <2>1, <3>3 DEF TaskIs
      <4>2. Latest(n) < MaxInv \/ Latest(n) >= MaxInv
        BY <1>1, TypeParts, RunBoundAssumption DEF IInv
      <4> QED BY <1>1, <2>3, <4>1, <4>2 DEF Startable
    <3> QED BY <3>1, <3>2, <3>3 DEF Unfinished
  <2>4. CASE ~drain /\ ~SomeTask(Unfinished) /\ ~SomeTask(RaisedPhases)
    <3>1. \A n \in Nodes, s \in Slots : sched.task[n][s].phase = "none"
      <4>1. \A n \in Nodes, s \in Slots : sched.task[n][s].phase \in TaskPhases
        BY <2>1 DEF Scheduler
      <4> QED BY <2>4, <4>1 DEF SomeTask, RaisedPhases, TaskPhases
    <3>2. ActiveNodes(sched) = {}
      BY <3>1 DEF ActiveNodes
    <3> QED BY <1>1, <2>4, <3>2 DEF MoreToFind, NothingLeft
  <2> QED BY <2>2, <2>3, <2>4
<1>2. ASSUME phase = "draining"
      PROVE  AllOver \/ \E n \in Nodes, s \in Slots : Cancellable(n, s)
  BY <1>2 DEF AllOver, Cancellable, SomeTask
<1>3. FInv => EngineNeverStuck
  BY <1>1, <1>2 DEF FInv, EngineNeverStuck
<1> QED BY <1>3, Invariant, PTL

\* The tasks of scheduler m in a phase.
TasksIn(m, ph) == {x \in Nodes \X Slots : m.task[x[1]][x[2]].phase = ph}

\* From m to r fewer tasks execute a node; or as many, and fewer await after_node; or
\* as many of both, and fewer are ready.
Converges(m, r) ==
    /\ TasksIn(r, "busy") \subseteq TasksIn(m, "busy")
    /\ TasksIn(r, "busy") = TasksIn(m, "busy") => TasksIn(r, "after") \subseteq TasksIn(m, "after")
    /\ TasksIn(r, "busy") = TasksIn(m, "busy") /\ TasksIn(r, "after") = TasksIn(m, "after") =>
          TasksIn(r, "ready") \subseteq TasksIn(m, "ready") /\ TasksIn(r, "ready") # TasksIn(m, "ready")

\* Cancelling and draining comes to an end, although a task that finishes meanwhile
\* may still wake others: whatever changes the tasks brings the end nearer.
DrainConverges ==
    [][phase = "draining" /\ phase' = "draining" /\ sched' # sched => Converges(sched, sched')]_vars

\* From m to r a node leaves execute or after_node and may make others ready.
Leaves(m, r, n, s) ==
    /\ \A x \in Nodes, y \in Slots : x # n \/ y # s => r.task[x][y] \in {m.task[x][y], ReadyTask}
    /\ \/ m.task[n][s].phase = "busy" /\ r.task[n][s].phase # "busy"
       \/ m.task[n][s].phase = "after" /\ r.task[n][s].phase \notin {"busy", "after"}

LEMMA LeavesConverges ==
    ASSUME NEW m, NEW r, NEW n \in Nodes, NEW s \in Slots, Leaves(m, r, n, s)
    PROVE  Converges(m, r)
<1>1. ReadyTask.phase = "ready"
  BY DEF ReadyTask
<1>2. ASSUME NEW x \in Nodes \X Slots PROVE x[1] \in Nodes /\ x[2] \in Slots /\ x = <<x[1], x[2]>>
  BY <1>2
<1>3. ASSUME NEW x \in Nodes \X Slots, x # <<n, s>>
      PROVE  r.task[x[1]][x[2]] \in {m.task[x[1]][x[2]], ReadyTask}
  BY <1>2, <1>3 DEF Leaves
<1>4. <<n, s>> \in Nodes \X Slots /\ <<n, s>>[1] = n /\ <<n, s>>[2] = s
  OBVIOUS
<1>5. CASE m.task[n][s].phase = "busy" /\ r.task[n][s].phase # "busy"
  <2>1. TasksIn(r, "busy") \subseteq TasksIn(m, "busy")
    BY <1>1, <1>3, <1>4, <1>5 DEF TasksIn
  <2>2. <<n, s>> \in TasksIn(m, "busy") /\ <<n, s>> \notin TasksIn(r, "busy")
    BY <1>4, <1>5 DEF TasksIn
  <2> QED BY <2>1, <2>2 DEF Converges
<1>6. CASE m.task[n][s].phase = "after" /\ r.task[n][s].phase \notin {"busy", "after"}
  <2>1. TasksIn(r, "busy") \subseteq TasksIn(m, "busy") /\ TasksIn(r, "after") \subseteq TasksIn(m, "after")
    BY <1>1, <1>3, <1>4, <1>6 DEF TasksIn
  <2>2. <<n, s>> \in TasksIn(m, "after") /\ <<n, s>> \notin TasksIn(r, "after")
    BY <1>4, <1>6 DEF TasksIn
  <2> QED BY <2>1, <2>2 DEF Converges
<1> QED BY <1>5, <1>6 DEF Leaves

\* A node that leaves execute, in a scheduler that only gained ready tasks.
LEMMA DispatchConverges ==
    ASSUME sched \in Scheduler, NEW m \in Scheduler, NEW n \in Nodes, NEW s \in Slots, NEW t,
           \A x \in Nodes, y \in Slots : m.task[x][y] \in {sched.task[x][y], ReadyTask},
           sched.task[n][s].phase = "busy", t.phase # "busy"
    PROVE  Converges(sched, SetTask(m, n, s, t))
<1> DEFINE r == SetTask(m, n, s, t)
<1>1. /\ r.task[n][s] = t
      /\ \A x \in Nodes, y \in Slots : x # n \/ y # s => r.task[x][y] = m.task[x][y]
  BY SetTaskTask
<1> HIDE DEF r
<1>2. r.task[n][s].phase # "busy"
  BY <1>1
<1>3. \A x \in Nodes, y \in Slots : x # n \/ y # s => r.task[x][y] \in {sched.task[x][y], ReadyTask}
  BY <1>1
<1>4. Leaves(sched, r, n, s)
  BY <1>2, <1>3 DEF Leaves
<1>5. Converges(sched, r)
  BY <1>4, LeavesConverges
<1> QED BY <1>5 DEF r

\* A task that is over without waking anybody.
LEMMA SetTaskConverges ==
    ASSUME NEW m \in Scheduler, NEW n \in Nodes, NEW s \in Slots, NEW t,
           m.task[n][s].phase \in Unfinished, t.phase \notin Unfinished
    PROVE  Converges(m, SetTask(m, n, s, t))
<1> DEFINE r == SetTask(m, n, s, t)
<1>1. /\ r.task[n][s] = t
      /\ \A x \in Nodes, y \in Slots : x # n \/ y # s => r.task[x][y] = m.task[x][y]
  BY SetTaskTask
<1> HIDE DEF r
<1>2. r.task[n][s].phase \notin Unfinished
  BY <1>1
<1>3. ASSUME NEW x \in Nodes \X Slots, x # <<n, s>>
      PROVE  r.task[x[1]][x[2]] = m.task[x[1]][x[2]]
  <2>1. x[1] \in Nodes /\ x[2] \in Slots /\ x = <<x[1], x[2]>>
    BY <1>3
  <2> QED BY <1>1, <1>3, <2>1
<1>4. <<n, s>> \in Nodes \X Slots /\ <<n, s>>[1] = n /\ <<n, s>>[2] = s
  OBVIOUS
<1>5. ASSUME NEW ph \in Unfinished
      PROVE  TasksIn(r, ph) = TasksIn(m, ph) \ {<<n, s>>}
  BY <1>2, <1>3, <1>4, <1>5 DEF TasksIn
<1>6. PICK ph \in Unfinished : <<n, s>> \in TasksIn(m, ph)
  BY <1>4 DEF TasksIn
<1>7. Converges(m, r)
  BY <1>5, <1>6 DEF Converges, Unfinished
<1> QED BY <1>7 DEF r

\* What a step of a task does in a drain.
LEMMA TaskStepConverges ==
    ASSUME IInv, phase = "draining", NEW n \in Nodes, NEW s \in Slots, TaskStep(n, s)
    PROVE  Converges(sched, sched')
<1> /\ delivers \in SUBSET Deliver /\ sched \in Scheduler
  BY TypeParts DEF IInv
<1> DEFINE t == sched.task[n][s]
<1>0. t \in [phase : TaskPhases, inv : Nat] /\ NoTask \in [phase : TaskPhases, inv : Nat]
  BY DEF Scheduler, NoTask, TaskPhases
<1>1. CASE Begin(n, s)
  BY <1>1 DEF Begin, Startable
<1>2. CASE Complete(n, s)
  <2> DEFINE m == Dispatch(sched, Targets(n))
             a == [t EXCEPT !.phase = "after"]
  <2>1. m \in Scheduler /\ \A x \in Nodes, y \in Slots : m.task[x][y] \in {sched.task[x][y], ReadyTask}
    BY DispatchType, DispatchTask, DestinationsType
  <2>2. sched' = SetTask(m, n, s, a) /\ t.phase = "busy"
    BY <1>2 DEF Complete, TaskIs
  <2>3. a.phase # "busy"
    BY <1>0
  <2> HIDE DEF m, a
  <2> QED BY <2>1, <2>2, <2>3, DispatchConverges
<1>3. CASE Finish(n, s)
  <2> DEFINE m1 == SetTask(sched, n, s, NoTask)
             m2 == Recheck(m1, delivers)
  <2>1. m1 \in Scheduler
    BY <1>0, SetTaskType
  <2>2. sched' = DrainOnReceive(m2, n) /\ t.phase = "after"
    BY <1>3 DEF Finish, TaskIs
  <2>3. /\ m1.task[n][s] = NoTask
        /\ \A x \in Nodes, y \in Slots : x # n \/ y # s => m1.task[x][y] = sched.task[x][y]
    BY SetTaskTask
  <2>4. m2 \in Scheduler /\ \A x \in Nodes, y \in Slots : m2.task[x][y] \in {m1.task[x][y], ReadyTask}
    <3> HIDE DEF m1
    <3> QED BY <2>1, RecheckType, RecheckTask
  <2>5. \A x \in Nodes, y \in Slots : sched'.task[x][y] \in {m2.task[x][y], ReadyTask}
    <3> HIDE DEF m2
    <3> QED BY <2>2, <2>4, DrainTask
  <2> HIDE DEF m1, m2
  <2>6. /\ sched'.task[n][s] \in {NoTask, ReadyTask}
        /\ \A x \in Nodes, y \in Slots :
              x # n \/ y # s => sched'.task[x][y] \in {sched.task[x][y], ReadyTask}
    BY <2>3, <2>4, <2>5
  <2>7. sched'.task[n][s].phase \notin {"busy", "after"}
    BY <2>6 DEF NoTask, ReadyTask
  <2>8. Leaves(sched, sched', n, s)
    BY <2>2, <2>6, <2>7 DEF Leaves
  <2> QED BY <2>8, LeavesConverges
<1>4. CASE CompleteRejected(n, s)
  <2> DEFINE a == [t EXCEPT !.phase = "faulted"]
  <2>1. t.phase = "busy" /\ sched' = SetTask(sched, n, s, a)
    BY <1>4 DEF CompleteRejected, TaskIs, SetTask
  <2>2. a.phase \notin Unfinished /\ t.phase \in Unfinished
    BY <1>0, <2>1 DEF Unfinished
  <2> HIDE DEF a
  <2> QED BY <2>1, <2>2, SetTaskConverges
<1>5. CASE CancelTask(n, s)
  <2> DEFINE a == [t EXCEPT !.phase = "faulted"]
  <2>1. t.phase \in Unfinished
    BY <1>5 DEF CancelTask, Cancellable
  <2>2. sched' = SetTask(sched, n, s, a) \/ sched' = SetTask(sched, n, s, NoTask)
    BY <1>5 DEF CancelTask, SetTask
  <2>3. a.phase \notin Unfinished /\ NoTask.phase \notin Unfinished
    BY <1>0 DEF Unfinished, NoTask
  <2> HIDE DEF a
  <2> QED BY <2>1, <2>2, <2>3, SetTaskConverges
<1>6. ASSUME NEW ts \in SUBSET (Targets(n) \ Misrouted(n)), Misroute(n, s, ts)
      PROVE  Converges(sched, sched')
  <2> DEFINE m == Dispatch(sched, ts)
             a == [t EXCEPT !.phase = "faulted"]
  <2>1. m \in Scheduler /\ \A x \in Nodes, y \in Slots : m.task[x][y] \in {sched.task[x][y], ReadyTask}
    BY DispatchType, DispatchTask, DestinationsType
  <2>2. sched' = SetTask(m, n, s, a) /\ t.phase = "busy"
    BY <1>6 DEF Misroute, SetTask, TaskIs
  <2>3. a.phase # "busy"
    BY <1>0
  <2> HIDE DEF m, a
  <2> QED BY <2>1, <2>2, <2>3, DispatchConverges
<1> QED BY <1>1, <1>2, <1>3, <1>4, <1>5, <1>6 DEF TaskStep

\* A task that raises in a drain is over.
LEMMA RaiseConverges ==
    ASSUME IInv, NEW n \in Nodes, NEW s \in Slots, Fault(n, s) \/ Interrupt(n, s)
    PROVE  Converges(sched, sched')
<1> DEFINE t == sched.task[n][s]
<1>1. PICK ph \in {"faulted", "interrupted"} :
          t.phase \in Unfinished /\ sched' = SetTask(sched, n, s, [t EXCEPT !.phase = ph])
  BY DEF Fault, Interrupt, Raise, SetTask
<1>2. sched \in Scheduler /\ t \in [phase : TaskPhases, inv : Nat]
  BY TypeParts DEF IInv, Scheduler
<1>3. [t EXCEPT !.phase = ph].phase \notin Unfinished
  BY <1>1, <1>2 DEF Unfinished
<1> DEFINE a == [t EXCEPT !.phase = ph]
<1> HIDE DEF a
<1>4. sched' = SetTask(sched, n, s, a) /\ a.phase \notin Unfinished
  BY <1>1, <1>3 DEF a
<1> QED BY <1>1, <1>2, <1>4, SetTaskConverges

\* For any graph, whatever the agents, the control and the delivers do meanwhile: the
\* tasks busy, then those that await after_node, then those ready become fewer with
\* every change of a task.  With EngineGoesOn, a drain of finitely many tasks ends.
THEOREM DrainEnds == Spec => DrainConverges
<1>1. ASSUME IInv, Next, phase = "draining", phase' = "draining", sched' # sched
      PROVE  Converges(sched, sched')
  <2>1. CASE StartFresh \/ RecoverFromEntry \/ RecoverFromHistory
    BY <1>1, <2>1 DEF StartFresh, RecoverFromEntry, RecoverFromHistory, Enter
  <2>2. CASE LoopStep
    BY <1>1, <2>2 DEF LoopStep, Rescan, Return, BeginDrain, Drained, WriteFinal, MoreToFind,
        NothingLeft, MustDrain
  <2>3. CASE RequestDrain \/ ProcessDies
    BY <1>1, <2>3 DEF RequestDrain, ProcessDies, Die
  <2>4. ASSUME NEW n \in Nodes, DeliverToNode(n) PROVE FALSE
    BY <1>1, <2>4 DEF DeliverToNode
  <2>5. ASSUME NEW n \in Nodes, NEW s \in Slots, TaskStep(n, s) PROVE Converges(sched, sched')
    BY <1>1, <2>5, TaskStepConverges
  <2>6. ASSUME NEW n \in Nodes, NEW s \in Slots, Fault(n, s) \/ Interrupt(n, s)
        PROVE  Converges(sched, sched')
    BY <1>1, <2>6, RaiseConverges
  <2>7. ASSUME NEW n \in Nodes, NEW s \in Slots,
               \/ BeginDies(n, s) \/ \E u \in Nodes : Emit(n, s, u)
               \/ \E dsts \in SUBSET Outputs(n) : CompleteDies(n, s, dsts)
        PROVE  FALSE
    BY <1>1, <2>7 DEF BeginDies, Emit, CompleteDies, Die
  <2> QED BY <1>1, <2>1, <2>2, <2>3, <2>4, <2>5, <2>6, <2>7 DEF Next
<1>2. FInv /\ [Next]_vars =>
        [phase = "draining" /\ phase' = "draining" /\ sched' # sched => Converges(sched, sched')]_vars
  BY <1>1 DEF FInv, vars
<1> QED BY <1>2, Invariant, PTL DEF Spec, DrainConverges

-----------------------------------------------------------------------------
(* The status of the instance *)

\* The promise of InstanceLifecycle about this one instance.
Lifecycle == INSTANCE InstanceLifecycle WITH Instances <- {"graph"}, st <- [g \in {"graph"} |-> status]

\* The engine owns a status that the table lets move: it is RUNNING until the final
\* status is written.
Owns == phase # "idle" => status = "RUNNING"

\* One instance takes a step that the table has.
LEMMA TableStep ==
    ASSUME status' \in Lifecycle!Successors[status]
    PROVE  Lifecycle!Next
<1> DEFINE f == [g \in {"graph"} |-> status]
           h == [g \in {"graph"} |-> status']
<1>1. h = [f EXCEPT !["graph"] = status'] /\ f["graph"] = status
  OBVIOUS
<1>2. Lifecycle!Move("graph")
  BY <1>1 DEF Lifecycle!Move
<1> QED BY <1>2 DEF Lifecycle!Next

\* A step starts an engine, keeps the status, ends an engine or is a death.
LEMMA StatusStep ==
    ASSUME IInv, Owns, Next
    PROVE  /\ Owns'
           /\ \/ status' = status
              \/ status \in {"PENDING", "PAUSED", "COMPLETED", "FAILED", "CRASHED"} /\ status' = "RUNNING"
              \/ status = "RUNNING" /\ status' \in {"PAUSED", "COMPLETED", "FAILED", "CRASHED"}
<1> DEFINE Moves ==
             \/ status' = status
             \/ status \in {"PENDING", "PAUSED", "COMPLETED", "FAILED", "CRASHED"} /\ status' = "RUNNING"
             \/ status = "RUNNING" /\ status' \in {"PAUSED", "COMPLETED", "FAILED", "CRASHED"}
<1>1. CASE StartFresh \/ RecoverFromEntry \/ RecoverFromHistory
  BY <1>1 DEF StartFresh, RecoverFromEntry, RecoverFromHistory, Enter, Owns
<1>2. CASE Rescan \/ Return \/ BeginDrain \/ Drained \/ RequestDrain
  BY <1>2 DEF Rescan, Return, BeginDrain, Drained, RequestDrain, durable, Owns, MoreToFind,
      NothingLeft, MustDrain, AllOver
<1>3. CASE WriteFinal
  BY <1>3 DEF WriteFinal, Owns, IInv, TypeOK
<1>4. ASSUME Die PROVE Owns' /\ Moves
  BY <1>4 DEF Die, Owns
<1>5. CASE ProcessDies
  BY <1>4, <1>5 DEF ProcessDies
<1>6. ASSUME NEW n \in Nodes, DeliverToNode(n) PROVE Owns' /\ Moves
  BY <1>6 DEF DeliverToNode, Owns
<1>7. ASSUME NEW n \in Nodes, NEW s \in Slots, TaskStep(n, s) PROVE Owns' /\ Moves
  BY <1>7 DEF TaskStep, Begin, Complete, Finish, CompleteRejected, CancelTask, Misroute, durable, Owns
<1>8. ASSUME NEW n \in Nodes, NEW s \in Slots, Fault(n, s) \/ Interrupt(n, s) PROVE Owns' /\ Moves
  BY <1>8 DEF Fault, Interrupt, Raise, Owns
<1>9. ASSUME NEW n \in Nodes, NEW s \in Slots,
             BeginDies(n, s) \/ \E dsts \in SUBSET Outputs(n) : CompleteDies(n, s, dsts)
      PROVE  Owns' /\ Moves
  BY <1>4, <1>9 DEF BeginDies, CompleteDies
<1>10. ASSUME NEW n \in Nodes, NEW s \in Slots, NEW u \in Nodes, Emit(n, s, u) PROVE Owns' /\ Moves
  BY <1>10 DEF Emit, Owns
<1> QED BY <1>1, <1>2, <1>3, <1>5, <1>6, <1>7, <1>8, <1>9, <1>10 DEF Next, LoopStep

\* Whatever the graph, the faults and the deaths: the status that one instance shows
\* while it is started, ended, drained, recovered and swept moves along the table that
\* GraphLifecycle implements, so that the two models agree on it.
THEOREM RunFollowsTable == Spec => [][Lifecycle!Next]_status
<1>1. Init => Owns
  BY DEF Init, Owns
<1>2. FInv /\ Owns /\ [Next]_vars => Owns'
  BY StatusStep DEF FInv, vars, Owns
<1>3. FInv /\ Owns /\ [Next]_vars => [Lifecycle!Next]_status
  <2> SUFFICES ASSUME FInv, Owns, Next, status' # status PROVE Lifecycle!Next
    BY DEF vars
  <2>1. \/ status \in {"PENDING", "PAUSED", "COMPLETED", "FAILED", "CRASHED"} /\ status' = "RUNNING"
        \/ status = "RUNNING" /\ status' \in {"PAUSED", "COMPLETED", "FAILED", "CRASHED"}
    BY StatusStep DEF FInv
  <2>2. status' \in Lifecycle!Successors[status]
    BY <2>1 DEF Lifecycle!Successors, Lifecycle!Settled
  <2> QED BY <2>2, TableStep
<1> QED BY <1>1, <1>2, <1>3, Invariant, PTL DEF Spec

==============================================================================
