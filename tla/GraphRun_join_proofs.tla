------------------------ MODULE GraphRun_join_proofs ------------------------
(***************************************************************************)
(* Proofs about the admission of joins in GraphRun, for graphs without     *)
(* loops.                                                                  *)
(***************************************************************************)
EXTENDS GraphRun_proofs

\* No node reaches itself.
Acyclic == \A n \in Nodes : n \notin Downstream[n]

(* Paths *)

LEMMA DownEdge ==
    ASSUME NEW m \in Nodes, NEW n \in Nodes, <<m, n>> \in Edges
    PROVE  n \in Downstream[m]
<1>1. Downstream[m] = {t \in Nodes : \A S \in SUBSET Nodes :
        (\A e \in Edges : e[1] = m \/ e[1] \in S => e[2] \in S) => t \in S}
  BY DEF Downstream
<1>2. ASSUME NEW S \in SUBSET Nodes, \A e \in Edges : e[1] = m \/ e[1] \in S => e[2] \in S
      PROVE  n \in S
  BY <1>2
<1> QED BY <1>1, <1>2

LEMMA DownTrans ==
    ASSUME NEW a \in Nodes, NEW b \in Nodes, b \in Downstream[a], NEW c \in Downstream[b]
    PROVE  c \in Downstream[a]
<1>1. \A x \in Nodes : Downstream[x] = {t \in Nodes : \A S \in SUBSET Nodes :
        (\A e \in Edges : e[1] = x \/ e[1] \in S => e[2] \in S) => t \in S}
  BY DEF Downstream
<1>2. c \in Nodes
  BY <1>1
<1>3. ASSUME NEW S \in SUBSET Nodes, \A e \in Edges : e[1] = a \/ e[1] \in S => e[2] \in S
      PROVE  c \in S
  <2>1. b \in S
    BY <1>1, <1>3
  <2>2. \A e \in Edges : e[1] = b \/ e[1] \in S => e[2] \in S
    BY <1>3, <2>1
  <2> QED BY <1>1, <2>2
<1> QED BY <1>1, <1>2, <1>3

\* Of finitely many nodes without a loop among them, one is reached by none.
LEMMA Foremost ==
    ASSUME Acyclic, NEW W \in SUBSET Nodes, IsFiniteSet(W), W # {}
    PROVE  \E t \in W : \A n \in W : t \notin Downstream[n]
<1> DEFINE above(t) == {n \in W : t \in Downstream[n]}
           F == {above(t) : t \in W}
           R == StrictSubsetOrdering(W)
<1>1. IsWellFoundedOn(R, FiniteSubsetsOf(W))
  BY FS_StrictSubsetOrderingWellFounded
<1>2. F \subseteq FiniteSubsetsOf(W) /\ F # {}
  <2>1. \A t \in W : above(t) \in SUBSET W
    OBVIOUS
  <2>2. \A S \in SUBSET W : IsFiniteSet(S)
    BY FS_Subset
  <2>3. F # {}
    OBVIOUS
  <2> HIDE DEF above
  <2> QED BY <2>1, <2>2, <2>3 DEF FiniteSubsetsOf
<1> HIDE DEF R
<1>3. PICK x \in F : \A y \in F : <<y, x>> \notin R
  <2> HIDE DEF F
  <2> QED BY <1>1, <1>2, WFMin
<1>4. PICK t \in W : x = above(t)
  BY <1>3
<1>5. ASSUME NEW n \in W, t \in Downstream[n] PROVE FALSE
  <2>1. above(n) \subseteq above(t)
    BY <1>5, DownTrans
  <2>2. n \in above(t) /\ n \notin above(n)
    BY <1>5 DEF Acyclic
  <2>3. above(n) \in F /\ above(n) \in SUBSET W /\ above(t) \in SUBSET W
    OBVIOUS
  <2>4. <<above(n), above(t)>> \in R
    <3> HIDE DEF above
    <3> QED BY <2>1, <2>2, <2>3 DEF R, StrictSubsetOrdering
  <2> QED BY <1>3, <1>4, <2>3, <2>4
<1> QED BY <1>5

-----------------------------------------------------------------------------
(* What the scheduler's operations do *)

LEMMA CreateEffect ==
    ASSUME NEW m \in Scheduler, NEW ns \in SUBSET Nodes
    PROVE  /\ CreateInstances(m, ns).waiting = m.waiting
           /\ CreateInstances(m, ns).scheduled = m.scheduled
           /\ CreateInstances(m, ns).reached = m.reached
           /\ CreateInstances(m, ns).queued = m.queued
           /\ ActiveNodes(CreateInstances(m, ns)) = ActiveNodes(m) \union ns
           /\ \A n \in Nodes : \E s \in Slots :
                 n \in ns => CreateInstances(m, ns).task[n][s] = ReadyTask
           /\ \A n \in Nodes \ ns, s \in Slots : CreateInstances(m, ns).task[n][s] = m.task[n][s]
<1> DEFINE r == CreateInstances(m, ns)
<1>1. /\ r.waiting = m.waiting /\ r.scheduled = m.scheduled /\ r.reached = m.reached
      /\ r.queued = m.queued
  BY DEF CreateInstances, Scheduler
<1>2. \A n \in Nodes : r.task[n] = IF n \in ns
         THEN [m.task[n] EXCEPT ![IF m.task[n][1] = NoTask THEN 1 ELSE 2] = ReadyTask] ELSE m.task[n]
  BY DEF CreateInstances, Scheduler
<1>3. \A n \in Nodes : m.task[n] \in [Slots -> [phase : TaskPhases, inv : Nat]]
  BY DEF Scheduler
<1>4. \A n \in Nodes \ ns, s \in Slots : r.task[n][s] = m.task[n][s]
  BY <1>2
<1>5. ASSUME NEW n \in ns PROVE \E s \in Slots : r.task[n][s] = ReadyTask
  <2> DEFINE s == IF m.task[n][1] = NoTask THEN 1 ELSE 2
  <2>1. s \in Slots
    BY DEF Slots
  <2>2. r.task[n] = [m.task[n] EXCEPT ![s] = ReadyTask]
    BY <1>2
  <2> HIDE DEF s, r
  <2> QED BY <1>3, <2>1, <2>2
<1> HIDE DEF r
<1>6. ActiveNodes(r) = ActiveNodes(m) \union ns
  <2>1. ReadyTask.phase # "none"
    BY DEF ReadyTask
  <2> QED BY <1>4, <1>5, <2>1 DEF ActiveNodes
<1> QED BY <1>1, <1>4, <1>5, <1>6 DEF r, Slots

\* The nodes with delivers no wakeup was recorded for, and what a rescan
\* makes of them.
Fresh(m, dl) == {n \in Nodes \ {Start} : Unscheduled(m, dl, n) # {}}
FiresNow(m, dl) == (Fresh(m, dl) \intersect OnReceive) \ ActiveNodes(m)
WaitsNow(m, dl) == m.waiting \union (Fresh(m, dl) \ OnReceive)
BusyNow(m, dl) == ActiveNodes(m) \union FiresNow(m, dl)
SourcesOf(m, dl, t) == BusyNow(m, dl) \union (WaitsNow(m, dl) \ {t})
                       \union {n \in Nodes \ {Start, t} : PendingAt(dl, n) # {}}
Ripe(m, dl) == {t \in WaitsNow(m, dl) \ BusyNow(m, dl) :
                   \A n \in SourcesOf(m, dl, t) : t \notin Downstream[n]}

LEMMA FireEffect ==
    ASSUME NEW m \in Scheduler, NEW dl
    PROVE  /\ Fireable(m, dl) \in SUBSET Nodes
           /\ FireAllPreds(m, dl).waiting = m.waiting \ Fireable(m, dl)
           /\ FireAllPreds(m, dl).scheduled = m.scheduled
           /\ FireAllPreds(m, dl).reached = m.reached
           /\ FireAllPreds(m, dl).queued = m.queued
           /\ ActiveNodes(FireAllPreds(m, dl)) = ActiveNodes(m) \union Fireable(m, dl)
           /\ \A n \in Nodes : \E s \in Slots :
                 n \in Fireable(m, dl) => FireAllPreds(m, dl).task[n][s] = ReadyTask
           /\ \A n \in Nodes \ Fireable(m, dl), s \in Slots :
                 FireAllPreds(m, dl).task[n][s] = m.task[n][s]
<1> DEFINE ts == Fireable(m, dl)
           m1 == [m EXCEPT !.waiting = @ \ ts]
<1>1. /\ m1 \in Scheduler /\ m1.task = m.task /\ m1.queued = m.queued
      /\ m1.scheduled = m.scheduled /\ m1.reached = m.reached /\ m1.waiting = m.waiting \ ts
  BY DEF Scheduler
<1>2. ts \in SUBSET Nodes
  BY DEF Fireable, Scheduler
<1>3. FireAllPreds(m, dl) = CreateInstances(m1, ts)
  BY DEF FireAllPreds
<1> HIDE DEF m1, ts
<1>4. ActiveNodes(m1) = ActiveNodes(m)
  BY <1>1 DEF ActiveNodes
<1>5. /\ FireAllPreds(m, dl).waiting = m.waiting \ ts
      /\ FireAllPreds(m, dl).scheduled = m.scheduled
      /\ FireAllPreds(m, dl).reached = m.reached
      /\ FireAllPreds(m, dl).queued = m.queued
      /\ ActiveNodes(FireAllPreds(m, dl)) = ActiveNodes(m) \union ts
      /\ \A n \in Nodes : \E s \in Slots : n \in ts => FireAllPreds(m, dl).task[n][s] = ReadyTask
      /\ \A n \in Nodes \ ts, s \in Slots : FireAllPreds(m, dl).task[n][s] = m.task[n][s]
  BY <1>1, <1>2, <1>3, <1>4, CreateEffect
<1> QED BY <1>2, <1>5 DEF ts

LEMMA RecheckEffect ==
    ASSUME NEW m \in Scheduler, NEW dl \in SUBSET Deliver
    PROVE  /\ Recheck(m, dl).waiting = WaitsNow(m, dl) \ Ripe(m, dl)
           /\ Recheck(m, dl).scheduled = m.scheduled \union
                 UNION {Unscheduled(m, dl, n) : n \in FiresNow(m, dl) \union (Fresh(m, dl) \ OnReceive)}
           /\ Recheck(m, dl).reached = (m.reached \/ End \in Fresh(m, dl))
           /\ Recheck(m, dl).queued = m.queued
           /\ ActiveNodes(Recheck(m, dl)) = BusyNow(m, dl) \union Ripe(m, dl)
           /\ \A n \in FiresNow(m, dl) \union Ripe(m, dl) :
                 \E s \in Slots : Recheck(m, dl).task[n][s] = ReadyTask
           /\ \A n \in Nodes \ (FiresNow(m, dl) \union Ripe(m, dl)), s \in Slots :
                 Recheck(m, dl).task[n][s] = m.task[n][s]
<1> DEFINE fresh == Fresh(m, dl)
           fire == FiresNow(m, dl)
           wake == fresh \ OnReceive
           u == UNION {Unscheduled(m, dl, n) : n \in fire \union wake}
           m1 == Wake(m, wake, u, fresh)
           m2 == CreateInstances(m1, fire)
           r == Recheck(m, dl)
<1>1. \A n \in Nodes : Unscheduled(m, dl, n) \subseteq (Nodes \union {External}) \X Nat \X Nodes
  BY DEF Unscheduled, PendingAt, Key, Deliver
<1>2. fresh \in SUBSET Nodes /\ fire \in SUBSET Nodes /\ wake \in SUBSET Nodes
  BY DEF Fresh, FiresNow
<1>3. u \in SUBSET ((Nodes \union {External}) \X Nat \X Nodes)
  <2> HIDE DEF fire, wake
  <2> QED BY <1>1, <1>2
<1>4. /\ m1 \in Scheduler /\ m1.task = m.task /\ m1.queued = m.queued
      /\ m1.waiting = m.waiting \union wake /\ m1.scheduled = m.scheduled \union u
      /\ m1.reached = (m.reached \/ End \in fresh)
  <2> HIDE DEF wake, u, fresh
  <2> QED BY <1>2, <1>3, WakeType DEF Wake, Scheduler
<1>5. ActiveNodes(m1) = ActiveNodes(m)
  <2> HIDE DEF m1
  <2> QED BY <1>4 DEF ActiveNodes
<1>6. /\ m2 \in Scheduler /\ m2.queued = m.queued
      /\ m2.waiting = WaitsNow(m, dl) /\ m2.scheduled = m.scheduled \union u
      /\ m2.reached = (m.reached \/ End \in fresh)
      /\ ActiveNodes(m2) = BusyNow(m, dl)
      /\ \A n \in Nodes : \E s \in Slots : n \in fire => m2.task[n][s] = ReadyTask
      /\ \A n \in Nodes \ fire, s \in Slots : m2.task[n][s] = m.task[n][s]
  <2>1. WaitsNow(m, dl) = m.waiting \union wake /\ BusyNow(m, dl) = ActiveNodes(m) \union fire
    BY DEF WaitsNow, BusyNow
  <2> HIDE DEF m1, fire, u, wake, fresh
  <2> QED BY <1>2, <1>4, <1>5, <2>1, CreateType, CreateEffect
<1>7. r = FireAllPreds(m2, dl)
  BY DEF Recheck, Wake, Fresh, FiresNow
<1>8. Fireable(m2, dl) = Ripe(m, dl)
  <2> HIDE DEF m2
  <2> QED BY <1>6 DEF Fireable, CanReachActive, Ripe, SourcesOf
<1> HIDE DEF m2, r
<1>9. /\ r.waiting = m2.waiting \ Ripe(m, dl) /\ r.scheduled = m2.scheduled /\ r.reached = m2.reached
      /\ r.queued = m2.queued /\ ActiveNodes(r) = ActiveNodes(m2) \union Ripe(m, dl)
      /\ \A n \in Nodes : \E s \in Slots : n \in Ripe(m, dl) => r.task[n][s] = ReadyTask
      /\ \A n \in Nodes \ Ripe(m, dl), s \in Slots : r.task[n][s] = m2.task[n][s]
  BY <1>6, <1>7, <1>8, FireEffect
<1>10. Ripe(m, dl) \subseteq Nodes
  BY DEF Ripe, WaitsNow, Fresh, Scheduler
<1>11. \A n \in FiresNow(m, dl) \union Ripe(m, dl) : \E s \in Slots : r.task[n][s] = ReadyTask
  BY <1>2, <1>6, <1>9, <1>10
<1>12. \A n \in Nodes \ (FiresNow(m, dl) \union Ripe(m, dl)), s \in Slots : r.task[n][s] = m.task[n][s]
  BY <1>6, <1>9
<1> QED BY <1>6, <1>9, <1>11, <1>12 DEF r

LEMMA DispatchEffect ==
    ASSUME NEW m \in Scheduler, NEW ts \in SUBSET Nodes
    PROVE  /\ Dispatch(m, ts).waiting = m.waiting \union (ts \ OnReceive)
           /\ Dispatch(m, ts).scheduled = m.scheduled
           /\ Dispatch(m, ts).reached = (m.reached \/ End \in ts)
           /\ \A x \in Nodes \ ts, y \in Slots : Dispatch(m, ts).task[x][y] = m.task[x][y]
           /\ OnReceive = {} => Dispatch(m, ts).task = m.task
<1> DEFINE q == [n \in Nodes |-> IF n \in ts \intersect OnReceive \intersect ActiveNodes(m)
                                THEN m.queued[n] + 1 ELSE m.queued[n]]
           m1 == [m EXCEPT !.waiting = @ \union (ts \ OnReceive), !.queued = q, !.reached = @ \/ End \in ts]
           ns == (ts \intersect OnReceive) \ ActiveNodes(m)
<1>1. q \in [Nodes -> Nat]
  BY DEF Scheduler
<1>2. /\ m1 \in Scheduler /\ m1.task = m.task /\ m1.waiting = m.waiting \union (ts \ OnReceive)
      /\ m1.scheduled = m.scheduled /\ m1.reached = (m.reached \/ End \in ts)
  <2> HIDE DEF q
  <2> QED BY <1>1 DEF Scheduler
<1>3. Dispatch(m, ts) = CreateInstances(m1, ns) /\ ns \in SUBSET Nodes /\ ns \subseteq ts
  BY DEF Dispatch
<1>4. OnReceive = {} => ns = {}
  OBVIOUS
<1> HIDE DEF m1, ns
<1>5. ns = {} => CreateInstances(m1, ns).task = m1.task
  BY <1>2 DEF CreateInstances, Scheduler
<1> QED BY <1>2, <1>3, <1>4, <1>5, CreateEffect

LEMMA DrainEffect ==
    ASSUME NEW m \in Scheduler, NEW n \in Nodes
    PROVE  /\ DrainOnReceive(m, n).waiting = m.waiting
           /\ DrainOnReceive(m, n).scheduled = m.scheduled
           /\ m.queued[n] = 0 => DrainOnReceive(m, n) = m
<1>1. CASE m.queued[n] = 0
  BY <1>1 DEF DrainOnReceive
<1>2. CASE m.queued[n] # 0
  <2> DEFINE m1 == [m EXCEPT !.queued[n] = @ - 1]
  <2>1. m.queued[n] - 1 \in Nat
    BY <1>2 DEF Scheduler
  <2>2. m1 \in Scheduler /\ m1.waiting = m.waiting /\ m1.scheduled = m.scheduled
    BY <2>1 DEF Scheduler
  <2>3. DrainOnReceive(m, n) = CreateInstances(m1, {n})
    BY <1>2 DEF DrainOnReceive
  <2> HIDE DEF m1
  <2> QED BY <1>2, <2>2, <2>3, CreateEffect
<1> QED BY <1>1, <1>2

LEMMA SetTaskEffect ==
    ASSUME NEW m \in Scheduler, NEW n \in Nodes, NEW s \in Slots, NEW t
    PROVE  /\ SetTask(m, n, s, t).waiting = m.waiting
           /\ SetTask(m, n, s, t).scheduled = m.scheduled
           /\ SetTask(m, n, s, t).reached = m.reached
           /\ SetTask(m, n, s, t).queued = m.queued
BY DEF SetTask, Scheduler

-----------------------------------------------------------------------------
(* Keys of rows *)

\* External is not the name of a node.
ExternalIsNoNode == External \notin Nodes

FromOutside(dl) == {d \in dl : d.src = External}

\* A row is known by its key, and the external ones are numbered below their
\* number.
Numbered(dl) ==
    /\ \A d, e \in dl : Key(d) = Key(e) => d = e
    /\ \A d \in FromOutside(dl) : d.from < Cardinality(FromOutside(dl))

\* An update of rows that keeps their keys.
LEMMA RewriteNumbered ==
    ASSUME NEW dl, IsFiniteSet(dl), Numbered(dl), NEW f, \A d \in dl : Key(f[d]) = Key(d)
    PROVE  Numbered({f[d] : d \in dl})
<1> DEFINE dm == {f[d] : d \in dl}
           S == FromOutside(dl)
           T == FromOutside(dm)
           g == [d \in S |-> f[d]]
<1>1. \A d \in dl : f[d].src = d.src /\ f[d].from = d.from
  BY DEF Key
<1>2. \A d, e \in dm : Key(d) = Key(e) => d = e
  BY DEF Numbered
<1>3. g \in Bijection(S, T)
  <2>1. g \in [S -> T]
    BY <1>1 DEF FromOutside
  <2>2. \A a, b \in S : g[a] = g[b] => a = b
    BY DEF Numbered, FromOutside
  <2>3. \A t \in T : \E a \in S : g[a] = t
    BY <1>1 DEF FromOutside
  <2> HIDE DEF g, S, T
  <2> QED BY <2>1, <2>2, <2>3 DEF Bijection, Injection, Surjection, IsInjective
<1>4. IsFiniteSet(S)
  BY FS_Subset DEF FromOutside
<1>5. Cardinality(T) = Cardinality(S)
  BY <1>3, <1>4, FS_Bijection DEF ExistsBijection
<1>6. \A d \in T : \E c \in S : c.from = d.from
  BY <1>1 DEF FromOutside
<1>7. \A d \in S : d.from < Cardinality(S)
  BY DEF Numbered
<1>8. \A d \in T : d.from < Cardinality(T)
  BY <1>5, <1>6, <1>7
<1> QED BY <1>2, <1>8 DEF Numbered

LEMMA PromoteNumbered ==
    ASSUME NEW dl \in SUBSET Deliver, IsFiniteSet(dl), Numbered(dl), NEW srcs, NEW dsts, NEW ns
    PROVE  Numbered(PromoteStaged(dl, srcs, dsts)) /\ Numbered(PromoteConsumed(dl, ns))
<1>1. ASSUME NEW rows, NEW s PROVE Numbered(Moved(dl, rows, s))
  <2> DEFINE f == [d \in dl |-> IF d \in rows THEN [d EXCEPT !.st = s] ELSE d]
  <2>1. Moved(dl, rows, s) = {f[d] : d \in dl}
    BY DEF Moved
  <2>2. \A d \in dl : Key(f[d]) = Key(d)
    BY DEF Key, Deliver
  <2> HIDE DEF f
  <2> QED BY <2>1, <2>2, RewriteNumbered
<1> QED BY <1>1, StagedMoved, ConsumedMoved

LEMMA MarkNumbered ==
    ASSUME NEW dl \in SUBSET Deliver, IsFiniteSet(dl), Numbered(dl), NEW n, NEW k
    PROVE  Numbered(MarkConsumed(dl, n, k))
<1> DEFINE f == [d \in dl |->
              IF d \in Consumable(dl, n) THEN [d EXCEPT !.st = "CONSUMED_PENDING", !.by = k] ELSE d]
<1>1. MarkConsumed(dl, n, k) = {f[d] : d \in dl}
  BY DEF MarkConsumed
<1>2. \A d \in dl : Key(f[d]) = Key(d)
  BY DEF Key, Deliver
<1> HIDE DEF f
<1> QED BY <1>1, <1>2, RewriteNumbered

LEMMA EmitNumbered ==
    ASSUME Numbered(delivers), NEW e, e.src # External, Key(e) \notin Keys(delivers)
    PROVE  Numbered(delivers \union {e})
<1>1. FromOutside(delivers \union {e}) = FromOutside(delivers)
  BY DEF FromOutside
<1> QED BY <1>1 DEF Numbered, Keys

LEMMA ArriveNumbered ==
    ASSUME delivers \in SUBSET Deliver, IsFiniteSet(delivers), Numbered(delivers), NEW e, e.src = External,
           e.from = Cardinality(FromOutside(delivers))
    PROVE  Numbered(delivers \union {e}) /\ Key(e) \notin Keys(delivers)
<1> DEFINE S == FromOutside(delivers)
<1>1. IsFiniteSet(S)
  BY FS_Subset DEF FromOutside
<1>2. Cardinality(S) \in Nat
  BY <1>1, FS_CardinalityType
<1>3. \A d \in S : d.from < Cardinality(S) /\ d.from \in Nat
  BY DEF Numbered, FromOutside, Deliver
<1>4. Key(e) \notin Keys(delivers)
  <2>1. ASSUME NEW d \in delivers, Key(d) = Key(e) PROVE FALSE
    <3>1. d.src = e.src /\ d.from = e.from
      BY <2>1 DEF Key
    <3>2. d \in S
      BY <3>1 DEF FromOutside
    <3> HIDE DEF S
    <3>3. d.from < Cardinality(S) /\ d.from = Cardinality(S)
      BY <1>3, <3>1, <3>2 DEF S
    <3> QED BY <1>2, <3>3
  <2> QED BY <2>1 DEF Keys
<1>5. FromOutside(delivers \union {e}) = S \union {e} /\ e \notin S
  BY <1>4 DEF FromOutside, Keys
<1>6. Cardinality(S \union {e}) = Cardinality(S) + 1
  BY <1>1, <1>5, FS_AddElement
<1>7. \A d \in S \union {e} : d.from < Cardinality(S) + 1
  <2> HIDE DEF S
  <2> QED BY <1>2, <1>3 DEF S
<1>8. \A c, d \in delivers \union {e} : Key(c) = Key(d) => c = d
  BY <1>4 DEF Numbered, Keys
<1> QED BY <1>4, <1>5, <1>6, <1>7, <1>8 DEF Numbered

-----------------------------------------------------------------------------
(* A wakeup that is recorded is not lost *)

\* The nodes that will still look at the delivers that wait for them, and
\* those whose task raised: the run then is not about to return.
Keen(m) == m.waiting \union
    {n \in Nodes : \E s \in Slots : m.task[n][s].phase \in {"ready", "faulted", "interrupted"}}

\* A wakeup is recorded for visible rows only,
Visible(m, dl) == \A d \in dl : Key(d) \in m.scheduled => d.st # "STAGED"
\* and while nobody has taken such a row, its node will look at it.
Claimed(m, dl) == \A d \in dl : d.st = "PENDING" /\ Key(d) \in m.scheduled => d.dst \in Keen(m)

\* The operations of the scheduler.
LEMMA CreateKeen ==
    ASSUME NEW m \in Scheduler, NEW ns
    PROVE  Keen(m) \subseteq Keen(CreateInstances(m, ns))
<1> DEFINE r == CreateInstances(m, ns)
<1>1. r.waiting = m.waiting
  BY DEF CreateInstances, Scheduler
<1>2. \A n \in Nodes, s \in Slots : r.task[n][s] \in {m.task[n][s], ReadyTask}
  BY CreateTask
<1>3. ReadyTask.phase = "ready"
  BY DEF ReadyTask
<1> HIDE DEF r
<1> QED BY <1>1, <1>2, <1>3 DEF Keen, r

LEMMA DispatchKeen ==
    ASSUME NEW m \in Scheduler, NEW ts \in SUBSET Nodes
    PROVE  Keen(m) \subseteq Keen(Dispatch(m, ts))
<1> DEFINE r == Dispatch(m, ts)
<1>1. m.waiting \subseteq r.waiting
  BY DispatchEffect
<1>2. \A n \in Nodes, s \in Slots : r.task[n][s] \in {m.task[n][s], ReadyTask}
  BY DispatchTask
<1>3. ReadyTask.phase = "ready"
  BY DEF ReadyTask
<1> HIDE DEF r
<1> QED BY <1>1, <1>2, <1>3 DEF Keen, r

LEMMA DrainKeen ==
    ASSUME NEW m \in Scheduler, NEW x \in Nodes
    PROVE  Keen(m) \subseteq Keen(DrainOnReceive(m, x))
<1> DEFINE r == DrainOnReceive(m, x)
<1>1. m.waiting = r.waiting
  BY DrainEffect
<1>2. \A n \in Nodes, s \in Slots : r.task[n][s] \in {m.task[n][s], ReadyTask}
  BY DrainTask
<1>3. ReadyTask.phase = "ready"
  BY DEF ReadyTask
<1> HIDE DEF r
<1> QED BY <1>1, <1>2, <1>3 DEF Keen, r

LEMMA RecheckKeen ==
    ASSUME NEW m \in Scheduler, NEW dl \in SUBSET Deliver, Numbered(dl), Visible(m, dl)
    PROVE  Visible(Recheck(m, dl), dl) /\ (Claimed(m, dl) => Claimed(Recheck(m, dl), dl))
<1> DEFINE r == Recheck(m, dl)
           seen == FiresNow(m, dl) \union (Fresh(m, dl) \ OnReceive)
<1>1. ReadyTask.phase = "ready"
  BY DEF ReadyTask
<1>2. r.scheduled = m.scheduled \union UNION {Unscheduled(m, dl, n) : n \in seen}
  BY RecheckEffect
<1>3. \A n \in FiresNow(m, dl) \union Ripe(m, dl) : \E s \in Slots : r.task[n][s] = ReadyTask
  BY RecheckEffect
<1>4. \A n \in Nodes, s \in Slots : r.task[n][s] \in {m.task[n][s], ReadyTask}
  BY RecheckTask
<1>5. r.waiting = WaitsNow(m, dl) \ Ripe(m, dl)
  BY RecheckEffect
<1>6. Ripe(m, dl) \subseteq Nodes /\ FiresNow(m, dl) \subseteq Nodes /\ seen \subseteq Nodes
  BY DEF Ripe, WaitsNow, FiresNow, Fresh, Scheduler
<1>7. Keen(m) \union seen \subseteq Keen(r)
  <2>1. WaitsNow(m, dl) = m.waiting \union (Fresh(m, dl) \ OnReceive)
    BY DEF WaitsNow
  <2> HIDE DEF r
  <2>2. FiresNow(m, dl) \union Ripe(m, dl) \subseteq Keen(r)
    BY <1>1, <1>3, <1>6 DEF Keen
  <2>3. m.waiting \union (Fresh(m, dl) \ OnReceive) \subseteq Keen(r)
    BY <1>5, <2>1, <2>2 DEF Keen
  <2>4. Keen(m) \subseteq Keen(r)
    BY <1>1, <1>4, <2>3 DEF Keen
  <2> QED BY <2>2, <2>3, <2>4
<1>8. ASSUME NEW d \in dl, Key(d) \in r.scheduled, Key(d) \notin m.scheduled
      PROVE  d.st = "PENDING" /\ d.dst \in seen
  <2>1. PICK n \in seen : Key(d) \in Unscheduled(m, dl, n)
    BY <1>2, <1>8
  <2>2. PICK e \in dl : e.dst = n /\ e.st = "PENDING" /\ Key(e) = Key(d)
    BY <2>1 DEF Unscheduled, PendingAt
  <2>3. e = d
    BY <2>2 DEF Numbered
  <2> QED BY <2>1, <2>2, <2>3
<1> HIDE DEF r, seen
<1>9. Visible(r, dl)
  BY <1>8 DEF Visible
<1>10. Claimed(m, dl) => Claimed(r, dl)
  BY <1>7, <1>8 DEF Claimed
<1> QED BY <1>9, <1>10 DEF r

LEMMA LaunchKeen ==
    ASSUME NEW seeds \in SUBSET Nodes, NEW reached \in BOOLEAN, NEW dl \in SUBSET Deliver, Numbered(dl)
    PROVE  Visible(Launch(seeds, reached, dl), dl) /\ Claimed(Launch(seeds, reached, dl), dl)
<1> DEFINE ready == {n \in seeds : n = Start \/ LatestStatus(n) \in {"CRASHED", "RUNNING", "CANCELED"}}
           u == {Key(d) : d \in {x \in dl : x.dst \in ready /\ x.st = "PENDING"}}
           m == [NewScheduler EXCEPT !.reached = reached, !.scheduled = u]
           m1 == CreateInstances(m, ready)
<1>1. u \in SUBSET ((Nodes \union {External}) \X Nat \X Nodes)
  BY DEF Key, Deliver
<1>2. m \in Scheduler /\ m.scheduled = u
  <2> HIDE DEF u
  <2> QED BY <1>1 DEF NewScheduler, Scheduler, NoTask, TaskPhases, Unfinished
<1>3. ready \in SUBSET Nodes
  OBVIOUS
<1>4. ASSUME NEW d \in dl, Key(d) \in u PROVE d.st = "PENDING" /\ d.dst \in ready
  <2>1. PICK e \in dl : e.dst \in ready /\ e.st = "PENDING" /\ Key(e) = Key(d)
    BY <1>4
  <2>2. e = d
    BY <2>1 DEF Numbered
  <2> QED BY <2>1, <2>2
<1> HIDE DEF m, ready, u
<1>5. /\ m1 \in Scheduler /\ m1.scheduled = u
      /\ \A n \in Nodes : \E s \in Slots : n \in ready => m1.task[n][s] = ReadyTask
  BY <1>2, <1>3, CreateType, CreateEffect
<1>6. Launch(seeds, reached, dl) = Recheck(m1, dl)
  BY DEF Launch, m, u, ready
<1> HIDE DEF m1
<1>7. ready \subseteq Keen(m1)
  BY <1>3, <1>5 DEF Keen, ReadyTask
<1>8. Visible(m1, dl) /\ Claimed(m1, dl)
  BY <1>4, <1>5, <1>7 DEF Visible, Claimed
<1> QED BY <1>5, <1>6, <1>8, RecheckKeen

\* A task that neither waits to begin nor raised takes a new value, or one
\* that does raises.
LEMMA SetTaskKeen ==
    ASSUME NEW m \in Scheduler, NEW n \in Nodes, NEW s \in Slots, NEW t
    PROVE  /\ Keen(m) \ {n} \subseteq Keen(SetTask(m, n, s, t))
           /\ m.task[n][s].phase \in {"busy", "after"} \/ t.phase \in {"faulted", "interrupted"} =>
                 Keen(m) \subseteq Keen(SetTask(m, n, s, t))
<1> DEFINE r == SetTask(m, n, s, t)
<1>1. r.waiting = m.waiting
  BY SetTaskEffect
<1>2. r.task[n][s] = t /\ \A x \in Nodes, y \in Slots : x # n \/ y # s => r.task[x][y] = m.task[x][y]
  BY SetTaskTask
<1> HIDE DEF r
<1>3. Keen(m) \ {n} \subseteq Keen(r)
  BY <1>1, <1>2 DEF Keen
<1>4. CASE m.task[n][s].phase \in {"busy", "after"} \/ t.phase \in {"faulted", "interrupted"}
  <2>1. ASSUME NEW y \in Slots, m.task[n][y].phase \in {"ready", "faulted", "interrupted"} PROVE n \in Keen(r)
    BY <1>2, <1>4, <2>1 DEF Keen
  <2>2. Keen(m) \subseteq Keen(r)
    BY <1>1, <1>3, <2>1 DEF Keen
  <2> QED BY <1>3, <2>2 DEF r
<1> QED BY <1>3, <1>4 DEF r

\* Where the rows after a step come from: an old row that was at most as far,
\* or nowhere.
Descends(dm, dl) ==
    \A e \in dm :
        \/ Key(e) \notin Keys(dl)
        \/ \E d \in dl : /\ Key(d) = Key(e)
                         /\ e.st = "STAGED" => d.st = "STAGED"
                         /\ e.st = "PENDING" => d.st \in {"STAGED", "PENDING"}

LEMMA PromoteDescends ==
    ASSUME NEW dl \in SUBSET Deliver, NEW srcs, NEW dsts, NEW ns
    PROVE  Descends(PromoteConsumed(PromoteStaged(dl, srcs, dsts), ns), dl)
<1> SUFFICES ASSUME NEW e \in PromoteConsumed(PromoteStaged(dl, srcs, dsts), ns)
             PROVE  \E d \in dl : /\ Key(d) = Key(e)
                                  /\ e.st = "STAGED" => d.st = "STAGED"
                                  /\ e.st = "PENDING" => d.st \in {"STAGED", "PENDING"}
  BY DEF Descends
<1>1. PICK d \in dl :
         /\ Same(d, e) /\ e.by = d.by
         /\ \/ d.src \in srcs /\ d.st = "STAGED" /\ e.st = "PENDING"
            \/ d.dst \in ns /\ d.st = "CONSUMED_PENDING" /\ e.st = "CONSUMED_COMPLETED"
            \/ /\ e.st = d.st /\ ~(d.dst \in ns /\ d.st = "CONSUMED_PENDING")
               /\ ~(d.src \in srcs /\ d.st = "STAGED" /\ d.dst \in dsts)
  BY PromotedOrigin
<1> QED BY <1>1 DEF Same, Key

LEMMA MarkDescends ==
    ASSUME NEW dl \in SUBSET Deliver, NEW n, NEW k \in Nat
    PROVE  Descends(MarkConsumed(dl, n, k), dl)
<1> SUFFICES ASSUME NEW e \in MarkConsumed(dl, n, k)
             PROVE  \E d \in dl : /\ Key(d) = Key(e)
                                  /\ e.st = "STAGED" => d.st = "STAGED"
                                  /\ e.st = "PENDING" => d.st \in {"STAGED", "PENDING"}
  BY DEF Descends
<1>1. PICK d \in dl : Same(d, e) /\ (e.st = "CONSUMED_PENDING" \/ e = d)
  BY MarkOrigin
<1> QED BY <1>1 DEF Same, Key

LEMMA KeenStep ==
    ASSUME Typed, sched.scheduled \subseteq Keys(delivers), Visible(sched, delivers),
           Descends(delivers', delivers), sched'.scheduled = sched.scheduled,
           NEW X, \A e \in delivers' : e.st = "PENDING" => e.dst \notin X,
           Keen(sched) \ X \subseteq Keen(sched')
    PROVE  Visible(sched', delivers') /\ (Claimed(sched, delivers) => Claimed(sched', delivers'))
<1>1. ASSUME NEW e \in delivers', Key(e) \in sched.scheduled
      PROVE  \E d \in delivers : /\ Key(d) = Key(e) /\ d.dst = e.dst /\ d.st # "STAGED"
                                 /\ e.st # "STAGED" /\ (e.st = "PENDING" => d.st = "PENDING")
  <2>1. PICK d \in delivers : /\ Key(d) = Key(e)
                              /\ e.st = "STAGED" => d.st = "STAGED"
                              /\ e.st = "PENDING" => d.st \in {"STAGED", "PENDING"}
    BY <1>1 DEF Descends
  <2>2. d.st # "STAGED"
    BY <1>1, <2>1 DEF Visible
  <2> QED BY <2>1, <2>2 DEF Key
<1> QED BY <1>1 DEF Visible, Claimed

LEMMA GrowStep ==
    ASSUME Typed, sched.scheduled \subseteq Keys(delivers), Visible(sched, delivers),
           Descends(delivers', delivers), sched'.scheduled = sched.scheduled,
           Keen(sched) \subseteq Keen(sched')
    PROVE  Visible(sched', delivers') /\ (Claimed(sched, delivers) => Claimed(sched', delivers'))
<1> DEFINE X == {}
<1>1. (\A e \in delivers' : e.st = "PENDING" => e.dst \notin X) /\ Keen(sched) \ X \subseteq Keen(sched')
  OBVIOUS
<1> HIDE DEF X
<1> QED BY <1>1, KeenStep

WaitInv ==
    /\ Numbered(delivers) /\ Visible(sched, delivers)
    /\ phase = "running" => Claimed(sched, delivers)
    /\ WaitingBecomesActive

\* Nobody is left and the last scan found nothing: then nobody waits.
LEMMA ReturnWaits ==
    ASSUME Acyclic, IsFiniteSet(Nodes), NEW m \in Scheduler, NEW dl \in SUBSET Deliver, Claimed(m, dl),
           ActiveNodes(m) = {}, Recheck(m, dl) = m
    PROVE  m.waiting = {} /\ \A d \in dl : d.st = "PENDING" => d.dst = Start
<1>1. /\ m.waiting = WaitsNow(m, dl) \ Ripe(m, dl)
      /\ m.scheduled = m.scheduled \union
            UNION {Unscheduled(m, dl, n) : n \in FiresNow(m, dl) \union (Fresh(m, dl) \ OnReceive)}
      /\ BusyNow(m, dl) \union Ripe(m, dl) = {}
  BY RecheckEffect
<1>2. FiresNow(m, dl) = {} /\ Ripe(m, dl) = {} /\ BusyNow(m, dl) = {}
  BY <1>1 DEF BusyNow
<1>3. Fresh(m, dl) \intersect OnReceive = {}
  BY <1>2 DEF FiresNow
<1>4. ASSUME NEW n \in Fresh(m, dl) PROVE FALSE
  <2>1. Unscheduled(m, dl, n) \subseteq m.scheduled
    BY <1>1, <1>3, <1>4
  <2>2. Unscheduled(m, dl, n) = {}
    BY <2>1 DEF Unscheduled
  <2> QED BY <1>4, <2>2 DEF Fresh
<1>5. ASSUME NEW n \in Nodes \ {Start}, PendingAt(dl, n) # {} PROVE n \in m.waiting
  <2>1. PICK d \in dl : d.dst = n /\ d.st = "PENDING"
    BY <1>5 DEF PendingAt
  <2>2. Key(d) \in m.scheduled
    BY <1>4, <1>5, <2>1 DEF Fresh, Unscheduled, PendingAt
  <2>3. n \in Keen(m)
    BY <2>1, <2>2 DEF Claimed
  <2> QED BY <2>3 DEF Keen, ActiveNodes
<1>6. ASSUME m.waiting # {} PROVE FALSE
  <2>1. m.waiting \in SUBSET Nodes
    BY DEF Scheduler
  <2>2. PICK t \in m.waiting : \A n \in m.waiting : t \notin Downstream[n]
    BY <1>6, <2>1, Foremost, FS_Subset
  <2>3. t \in WaitsNow(m, dl) \ BusyNow(m, dl) /\ WaitsNow(m, dl) = m.waiting
    BY <1>1, <1>2
  <2>4. \A n \in SourcesOf(m, dl, t) : n \in m.waiting
    BY <1>2, <1>5, <2>3 DEF SourcesOf
  <2>5. t \in Ripe(m, dl)
    BY <2>2, <2>3, <2>4 DEF Ripe
  <2> QED BY <1>2, <2>5
<1>7. \A d \in dl : d.st = "PENDING" => d.dst = Start
  BY <1>5, <1>6 DEF PendingAt, Deliver
<1> QED BY <1>6, <1>7

LEMMA TaskStepWaits ==
    ASSUME FInv, Typed, WaitInv, NEW n \in Nodes, NEW s \in Slots, TaskStep(n, s)
    PROVE  WaitInv'
<1> /\ delivers \in SUBSET Deliver /\ sched \in Scheduler /\ Latest(n) \in Nat
    /\ sched.scheduled \subseteq Keys(delivers) /\ IsFiniteSet(delivers)
  BY TypeParts DEF FInv, IInv, Typed
<1> /\ Numbered(delivers) /\ Visible(sched, delivers)
    /\ phase = "running" => Claimed(sched, delivers)
  BY DEF WaitInv
<1> DEFINE t == sched.task[n][s]
<1>0. ASSUME phase' = phase, phase \in {"running", "draining"}, Numbered(delivers)', Visible(sched', delivers'),
             phase = "running" => Claimed(sched', delivers')
      PROVE  WaitInv'
  BY <1>0 DEF WaitInv, WaitingBecomesActive
<1>1. CASE Begin(n, s)
  <2> DEFINE b == [phase |-> "busy", inv |-> Latest(n) + 1]
  <2>1. /\ sched' = SetTask(sched, n, s, b)
        /\ delivers' = MarkConsumed(delivers, n, Latest(n) + 1)
        /\ phase' = phase /\ phase = "running"
    BY <1>1 DEF Begin, Startable
  <2> HIDE DEF b
  <2>2. sched'.scheduled = sched.scheduled /\ Keen(sched) \ {n} \subseteq Keen(sched')
    BY <2>1, SetTaskEffect, SetTaskKeen
  <2>3. \A e \in delivers' : e.st = "PENDING" => e.dst \notin {n}
    <3>1. ASSUME NEW e \in delivers', e.st = "PENDING" PROVE e.dst # n
      <4>1. PICK d \in delivers :
              /\ Same(d, e)
              /\ \/ d.dst = n /\ d.st \in {"PENDING", "CONSUMED_PENDING"}
                    /\ e.by = Latest(n) + 1 /\ e.st = "CONSUMED_PENDING"
                 \/ ~(d.dst = n /\ d.st \in {"PENDING", "CONSUMED_PENDING"}) /\ e = d
        BY <2>1, MarkOrigin
      <4> QED BY <3>1, <4>1
    <3> QED BY <3>1
  <2>4. Descends(delivers', delivers) /\ Numbered(delivers)'
    BY <2>1, MarkDescends, MarkNumbered
  <2>5. Visible(sched', delivers') /\ Claimed(sched', delivers')
    BY <2>1, <2>2, <2>3, <2>4, KeenStep
  <2> QED BY <1>0, <2>1, <2>4, <2>5
<1>2. CASE Complete(n, s)
  <2> DEFINE m == Dispatch(sched, Targets(n))
             a == [t EXCEPT !.phase = "after"]
  <2>1. m \in Scheduler /\ m.scheduled = sched.scheduled /\ m.task[n][s] \in {t, ReadyTask}
        /\ Keen(sched) \subseteq Keen(m)
    BY DispatchType, DispatchTask, DispatchKeen, DestinationsType
  <2>2. /\ sched' = SetTask(m, n, s, a) /\ t.phase = "busy"
        /\ delivers' = PromoteConsumed(PromoteStaged(delivers, {n}, Nodes), {n})
        /\ phase' = phase /\ phase \in {"running", "draining"}
    BY <1>2 DEF Complete, TaskIs, Alive
  <2>3. m.task[n][s] = t
    BY DispatchEffect, DestinationsType DEF Targets
  <2> HIDE DEF m, a
  <2>4. sched'.scheduled = sched.scheduled /\ Keen(sched) \subseteq Keen(sched')
    BY <2>1, <2>2, <2>3, SetTaskEffect, SetTaskKeen
  <2>5. Descends(delivers', delivers) /\ Numbered(delivers)'
    BY <2>2, PromoteDescends, PromoteNumbered, PromoteType, PromoteFinite
  <2>6. Visible(sched', delivers') /\ (Claimed(sched, delivers) => Claimed(sched', delivers'))
    BY <2>4, <2>5, GrowStep
  <2> QED BY <1>0, <2>2, <2>5, <2>6
<1>3. CASE Finish(n, s)
  <2> DEFINE m1 == SetTask(sched, n, s, NoTask)
             m2 == Recheck(m1, delivers)
  <2>1. /\ sched' = DrainOnReceive(m2, n) /\ delivers' = delivers /\ t.phase = "after"
        /\ phase' = phase /\ phase \in {"running", "draining"}
    BY <1>3 DEF Finish, TaskIs, Alive
  <2>2. m1 \in Scheduler /\ m1.scheduled = sched.scheduled /\ Keen(sched) \subseteq Keen(m1)
    BY <2>1, SetTaskType, SetTaskEffect, SetTaskKeen DEF NoTask, TaskPhases, Unfinished
  <2>3. Visible(m1, delivers) /\ (Claimed(sched, delivers) => Claimed(m1, delivers))
    <3> HIDE DEF m1
    <3> QED BY <2>2 DEF Visible, Claimed
  <2>4. /\ m2 \in Scheduler
        /\ Visible(m2, delivers) /\ (Claimed(sched, delivers) => Claimed(m2, delivers))
    <3> HIDE DEF m1
    <3> QED BY <2>2, <2>3, RecheckType, RecheckKeen
  <2>5. sched'.scheduled = m2.scheduled /\ Keen(m2) \subseteq Keen(sched')
    <3> HIDE DEF m2
    <3> QED BY <2>1, <2>4, DrainEffect, DrainKeen
  <2>6. Visible(sched', delivers') /\ (Claimed(sched, delivers) => Claimed(sched', delivers'))
    <3> HIDE DEF m2
    <3> QED BY <2>1, <2>4, <2>5 DEF Visible, Claimed
  <2> QED BY <1>0, <2>1, <2>6
<1>4. CASE CompleteRejected(n, s)
  <2> DEFINE a == [t EXCEPT !.phase = "faulted"]
  <2>1. /\ sched' = SetTask(sched, n, s, a) /\ delivers' = delivers
        /\ phase' = phase /\ phase \in {"running", "draining"}
    BY <1>4 DEF CompleteRejected, durable, TaskIs, Alive, SetTask, Scheduler
  <2>2. a.phase = "faulted"
    BY DEF Scheduler
  <2> HIDE DEF a
  <2>3. sched'.scheduled = sched.scheduled /\ Keen(sched) \subseteq Keen(sched')
    BY <2>1, <2>2, SetTaskEffect, SetTaskKeen
  <2>4. Visible(sched', delivers') /\ (Claimed(sched, delivers) => Claimed(sched', delivers'))
    BY <2>1, <2>3 DEF Visible, Claimed
  <2> QED BY <1>0, <2>1, <2>4
<1>5. CASE CancelTask(n, s)
  <2>1. /\ delivers' = delivers /\ phase' = phase /\ phase = "draining"
        /\ \/ sched' = [sched EXCEPT !.task[n][s].phase = "faulted"]
           \/ sched' = SetTask(sched, n, s, NoTask)
    BY <1>5 DEF CancelTask, Cancellable, Unfinished
  <2>2. sched'.scheduled = sched.scheduled
    <3> DEFINE a == [t EXCEPT !.phase = "faulted"]
    <3>1. [sched EXCEPT !.task[n][s].phase = "faulted"] = SetTask(sched, n, s, a)
      BY DEF SetTask, Scheduler
    <3> HIDE DEF a
    <3> QED BY <2>1, <3>1, SetTaskEffect
  <2>3. Visible(sched', delivers')
    BY <2>1, <2>2 DEF Visible
  <2> QED BY <1>0, <2>1, <2>3
<1>6. ASSUME NEW ts \in SUBSET (Targets(n) \ Misrouted(n)), Misroute(n, s, ts) PROVE WaitInv'
  <2> DEFINE m == Dispatch(sched, ts)
             a == [t EXCEPT !.phase = "faulted"]
  <2>1. m \in Scheduler /\ m.scheduled = sched.scheduled /\ Keen(sched) \subseteq Keen(m)
    BY DispatchType, DispatchKeen, DestinationsType
  <2>2. /\ sched' = SetTask(m, n, s, a)
        /\ delivers' = PromoteStaged(delivers, {n}, Nodes)
        /\ phase' = phase /\ phase \in {"running", "draining"}
    BY <1>6 DEF Misroute, TaskIs, Alive, SetTask
  <2>3. a.phase = "faulted"
    BY DEF Scheduler
  <2> HIDE DEF m, a
  <2>4. sched'.scheduled = sched.scheduled /\ Keen(sched) \subseteq Keen(sched')
    BY <2>1, <2>2, <2>3, SetTaskEffect, SetTaskKeen
  <2>5. Descends(delivers', delivers) /\ Numbered(delivers)'
    <3>1. delivers' = PromoteConsumed(PromoteStaged(delivers, {n}, Nodes), {})
      BY <2>2, ConsumedOfNone
    <3>2. Numbered(PromoteStaged(delivers, {n}, Nodes))
      BY PromoteNumbered
    <3> QED BY <2>2, <3>1, <3>2, PromoteDescends
  <2>6. Visible(sched', delivers') /\ (Claimed(sched, delivers) => Claimed(sched', delivers'))
    BY <2>4, <2>5, GrowStep
  <2> QED BY <1>0, <2>2, <2>5, <2>6
<1> QED BY <1>1, <1>2, <1>3, <1>4, <1>5, <1>6 DEF TaskStep

LEMMA AutoPromotedNumbered ==
    ASSUME delivers \in SUBSET Deliver, IsFiniteSet(delivers), Numbered(delivers)
    PROVE  Numbered(AutoPromoted)
<1> DEFINE dl == PromoteStaged(delivers, CompletedNodes, Nodes)
           ns == {n \in CompletedNodes \ {Start} : \E d \in delivers :
                     d.dst = n /\ d.st = "CONSUMED_PENDING" /\ d.by = Latest(n)}
<1>1. dl \in SUBSET Deliver /\ IsFiniteSet(dl) /\ Numbered(dl)
  BY PromoteType, PromoteFinite, PromoteNumbered
<1>2. AutoPromoted = PromoteConsumed(dl, ns)
  BY DEF AutoPromoted
<1> HIDE DEF dl, ns
<1> QED BY <1>1, <1>2, PromoteNumbered

LEMMA EnterWaits ==
    ASSUME NEW seeds \in SUBSET Nodes, NEW reached \in BOOLEAN, NEW dl \in SUBSET Deliver, Numbered(dl),
           Enter(seeds, reached, dl)
    PROVE  WaitInv'
<1>1. delivers' = dl /\ sched' = Launch(seeds, reached, dl) /\ phase' = "running"
  BY DEF Enter
<1>2. Visible(sched', delivers') /\ Claimed(sched', delivers')
  BY <1>1, LaunchKeen
<1> QED BY <1>1, <1>2 DEF WaitInv, WaitingBecomesActive

LEMMA EndWaits ==
    ASSUME Numbered(delivers)', sched' = NewScheduler, phase' = "idle"
    PROVE  WaitInv'
<1>1. sched'.scheduled = {}
  BY DEF NewScheduler
<1> QED BY <1>1 DEF WaitInv, WaitingBecomesActive, Visible

LEMMA WaitsKept ==
    ASSUME Acyclic, IsFiniteSet(Nodes), ExternalIsNoNode, FInv, WaitInv, Next
    PROVE  WaitInv'
<1>0. Typed
  BY TypeParts DEF FInv, IInv, Typed
<1> /\ delivers \in SUBSET Deliver /\ sched \in Scheduler /\ IsFiniteSet(delivers)
    /\ sched.scheduled \subseteq Keys(delivers)
  BY TypeParts DEF FInv, IInv
<1> /\ Numbered(delivers) /\ Visible(sched, delivers)
    /\ phase = "running" => Claimed(sched, delivers)
  BY DEF WaitInv
<1>1. CASE StartFresh \/ RecoverFromEntry
  <2>1. Enter({Start}, FALSE, delivers) /\ {Start} \in SUBSET Nodes
    BY <1>1, GraphAssumption DEF StartFresh, RecoverFromEntry
  <2> QED BY <2>1, EnterWaits
<1>2. CASE RecoverFromHistory
  <2> DEFINE seeds == Redo \union {n \in Nodes \ {Start} : PendingAt(AutoPromoted, n) # {}}
             reached == End \in seeds \/ (seeds = {} /\ RunStatus(End) = "COMPLETED")
  <2>1. Enter(seeds, reached, AutoPromoted) /\ reached \in BOOLEAN /\ seeds \in SUBSET Nodes
    BY <1>2 DEF RecoverFromHistory, Redo
  <2> HIDE DEF seeds, reached
  <2> QED BY <2>1, AutoPromotedType, AutoPromotedNumbered, EnterWaits
<1>3. CASE Rescan
  <2>1. sched' = Recheck(sched, delivers) /\ delivers' = delivers /\ phase = "running" /\ phase' = phase
    BY <1>3 DEF Rescan, durable, MoreToFind
  <2>2. Visible(sched', delivers') /\ Claimed(sched', delivers')
    BY <2>1, RecheckKeen
  <2> QED BY <2>1, <2>2 DEF WaitInv, WaitingBecomesActive
<1>4. CASE Return
  <2>1. /\ sched' = sched /\ delivers' = delivers /\ phase = "running" /\ phase' = "ended"
        /\ ActiveNodes(sched) = {} /\ Recheck(sched, delivers) = sched
    BY <1>4 DEF Return, durable, NothingLeft
  <2>2. sched.waiting = {}
    BY <2>1, ReturnWaits
  <2> QED BY <2>1, <2>2 DEF WaitInv, WaitingBecomesActive
<1>5. CASE BeginDrain \/ Drained \/ RequestDrain
  <2>1. sched' = sched /\ delivers' = delivers /\ (phase' = "running" => phase = "running")
    BY <1>5 DEF BeginDrain, Drained, RequestDrain, durable, MustDrain, AllOver, Unfinished
  <2>2. WaitingBecomesActive'
    <3>1. CASE BeginDrain \/ RequestDrain
      BY <3>1 DEF BeginDrain, RequestDrain, WaitingBecomesActive, MustDrain
    <3>2. CASE Drained
      BY <3>2 DEF Drained, WaitingBecomesActive, AllOver, Unfinished
    <3> QED BY <1>5, <3>1, <3>2
  <2> QED BY <2>1, <2>2 DEF WaitInv
<1>6. CASE WriteFinal \/ ProcessDies
  <2>1. sched' = NewScheduler /\ delivers' = delivers /\ phase' = "idle"
    BY <1>6 DEF WriteFinal, ProcessDies, Die
  <2> QED BY <2>1, EndWaits
<1>7. ASSUME NEW n \in Nodes, DeliverToNode(n) PROVE WaitInv'
  <2> DEFINE e == [src |-> External, from |-> Cardinality(FromOutside(delivers)), dst |-> n,
                   by |-> 0, st |-> "PENDING"]
  <2>1. /\ delivers' = delivers \union {e}
        /\ sched' = sched /\ phase' = phase /\ final' = final
    BY <1>7 DEF DeliverToNode, FromOutside
  <2>2. e.src = External /\ e.from = Cardinality(FromOutside(delivers))
    OBVIOUS
  <2> HIDE DEF e
  <2>3. Numbered(delivers)' /\ Key(e) \notin Keys(delivers)
    BY <2>1, <2>2, ArriveNumbered
  <2>4. Descends(delivers', delivers)
    BY <2>1, <2>3 DEF Descends
  <2>5. Visible(sched', delivers') /\ (Claimed(sched, delivers) => Claimed(sched', delivers'))
    BY <1>0, <2>1, <2>4, GrowStep
  <2> QED BY <2>1, <2>3, <2>5 DEF WaitInv, WaitingBecomesActive
<1>8. ASSUME NEW n \in Nodes, NEW s \in Slots, TaskStep(n, s) PROVE WaitInv'
  BY <1>0, <1>8, TaskStepWaits
<1>9. ASSUME NEW n \in Nodes, NEW s \in Slots, NEW st, NEW ph \in {"faulted", "interrupted"},
             Raise(n, s, st, ph)
      PROVE  WaitInv'
  <2> DEFINE a == [sched.task[n][s] EXCEPT !.phase = ph]
  <2>1. /\ sched' = SetTask(sched, n, s, a) /\ delivers' = delivers
        /\ phase' = phase /\ phase \in {"running", "draining"}
    BY <1>9 DEF Raise, Alive, SetTask, Scheduler, Unfinished
  <2>2. a.phase = ph
    BY DEF Scheduler
  <2> HIDE DEF a
  <2>3. sched'.scheduled = sched.scheduled /\ Keen(sched) \subseteq Keen(sched')
    BY <2>1, <2>2, SetTaskEffect, SetTaskKeen
  <2>4. Visible(sched', delivers') /\ (Claimed(sched, delivers) => Claimed(sched', delivers'))
    BY <2>1, <2>3 DEF Visible, Claimed
  <2> QED BY <2>1, <2>4 DEF WaitInv, WaitingBecomesActive
<1>10. ASSUME NEW n \in Nodes, NEW s \in Slots, Fault(n, s) \/ Interrupt(n, s) PROVE WaitInv'
  BY <1>9, <1>10 DEF Fault, Interrupt
<1>11. ASSUME NEW n \in Nodes, NEW s \in Slots, BeginDies(n, s) PROVE WaitInv'
  BY <1>11, EndWaits DEF BeginDies, Die, Startable
<1>12. ASSUME NEW n \in Nodes, NEW s \in Slots, NEW u \in Nodes, Emit(n, s, u) PROVE WaitInv'
  <2> DEFINE e == [src |-> n, from |-> sched.task[n][s].inv, dst |-> u, by |-> 0, st |-> "STAGED"]
  <2>1. /\ delivers' = delivers \union {e} /\ Key(e) \notin Keys(delivers)
        /\ sched' = sched /\ phase' = phase /\ final' = final
    BY <1>12 DEF Emit, Key, Keys
  <2>2. e.src # External
    BY DEF ExternalIsNoNode
  <2> HIDE DEF e
  <2>3. Numbered(delivers)'
    BY <2>1, <2>2, EmitNumbered
  <2>4. Descends(delivers', delivers)
    BY <2>1 DEF Descends
  <2>5. Visible(sched', delivers') /\ (Claimed(sched, delivers) => Claimed(sched', delivers'))
    BY <1>0, <2>1, <2>4, GrowStep
  <2> QED BY <2>1, <2>3, <2>5 DEF WaitInv, WaitingBecomesActive
<1>13. ASSUME NEW n \in Nodes, NEW s \in Slots, NEW dsts \in SUBSET Outputs(n), CompleteDies(n, s, dsts)
       PROVE  WaitInv'
  BY <1>13, EndWaits, PromoteNumbered DEF CompleteDies, Die
<1> QED
  BY <1>1, <1>2, <1>3, <1>4, <1>5, <1>6, <1>7, <1>8, <1>10, <1>11, <1>12, <1>13 DEF Next, LoopStep

LEMMA WaitInvariant ==
    ASSUME Acyclic, IsFiniteSet(Nodes), ExternalIsNoNode
    PROVE  Spec => [](FInv /\ WaitInv)
<1>1. Init => WaitInv
  <2> SUFFICES ASSUME Init PROVE WaitInv
    OBVIOUS
  <2>1. delivers = {} /\ phase = "idle"
    BY DEF Init
  <2> QED BY <2>1 DEF WaitInv, Numbered, FromOutside, Visible, WaitingBecomesActive
<1>2. FInv /\ WaitInv /\ [Next]_vars => WaitInv'
  <2>1. ASSUME WaitInv, UNCHANGED vars PROVE WaitInv'
    BY <2>1 DEF vars, WaitInv, WaitingBecomesActive
  <2> QED BY <2>1, WaitsKept
<1> QED BY Invariant, <1>1, <1>2, PTL DEF Spec

\* For any graph without loops, whatever the triggers, stray and external
\* delivers, runs and process deaths: an engine that ends by itself leaves no
\* target in _pending_dispatches ("WILL become active instances", parallel.py).
\* Of the targets that wait, the foremost is blocked by nobody that waits, and
\* every other source of the gate is gone or about to run.
THEOREM WaitersRun ==
    ASSUME Acyclic, IsFiniteSet(Nodes), ExternalIsNoNode
    PROVE  Spec => []WaitingBecomesActive
<1>1. WaitInv => WaitingBecomesActive
  BY DEF WaitInv
<1> QED BY WaitInvariant, <1>1, PTL

-----------------------------------------------------------------------------
(* One run along declared edges *)

\* The graphs and inputs of the remaining theorems: no loops, delivers along
\* declared edges only, every join waits for its predecessors, nothing comes
\* from outside, and no second logical run starts from the first one's rows.
Plain ==
    /\ Acyclic /\ IsFiniteSet(Nodes) /\ ExternalIsNoNode
    /\ Strays = {} /\ OnReceive = {}
    /\ MaxExternal = 0 /\ MaxRuns <= 1

\* Nodes whose latest invocation is over, and nodes whose latest one is to be
\* done again if the process dies now.
Done == {n \in Nodes : LatestStatus(n) = "COMPLETED"}
Undone == {n \in Nodes : LatestStatus(n) \notin {"none", "COMPLETED"}}

\* The nodes for which there is a deliver that is visible, or will be once
\* the run is recovered.
Feeds(d) == d.st = "PENDING" \/ (d.st = "STAGED" /\ d.src \in Done)
Fed == {d.dst : d \in {x \in delivers : Feeds(x)}}

\* All records belong to the one run.
OneRun == \A n \in Nodes : \A i \in 1..Latest(n) : inv[n][i].run = runVer
AlongEdges == \A d \in delivers : <<d.src, d.dst>> \in Edges
\* No node to be done again waits for another one, nor for a node that is fed.
Apart == \A a \in Undone \union Fed, b \in Undone : b \notin Downstream[a]
\* A taken row that is not settled is going to be taken again, or settled.
TakenIsLatest ==
    \A d \in delivers : d.st = "CONSUMED_PENDING" =>
        /\ d.dst \in Undone \/ (d.dst \in Done /\ d.by = Latest(d.dst))
        /\ inv[d.dst][d.by].st = "COMPLETED" => d.by = Latest(d.dst)
\* Who is to be done again still has an input.
UndoneHasInput == \A n \in Undone \ {Start} : Consumable(delivers, n) # {}
\* CompletedHadInput, with a row that is really taken.
DoneHadInput ==
    \A n \in Nodes \ {Start} : \A i \in 1..Latest(n) :
        inv[n][i].st = "COMPLETED" => \E d \in delivers : Taken(d) /\ d.dst = n /\ d.by = i

Ledger ==
    /\ OneRun /\ AlongEdges /\ Apart /\ TakenIsLatest /\ UndoneHasInput /\ DoneHadInput

LEMMA StatusOf ==
    ASSUME Typed, NEW n \in Nodes
    PROVE  /\ LatestStatus(n) = IF Latest(n) = 0 THEN "none" ELSE inv[n][Latest(n)].st
           /\ LatestStatus(n) = "none" <=> Latest(n) = 0
           /\ n \in Done <=> Latest(n) # 0 /\ inv[n][Latest(n)].st = "COMPLETED"
           /\ n \in Undone <=> Latest(n) # 0 /\ inv[n][Latest(n)].st # "COMPLETED"
           /\ Latest(n) # 0 => Latest(n) \in 1..Latest(n) /\ inv[n][Latest(n)].st \in InvocationStatus
<1>1. inv[n] \in Seq(Record) /\ Latest(n) \in Nat
  BY DEF Typed
<1>2. inv[n] = <<>> <=> Latest(n) = 0
  BY <1>1 DEF Latest
<1>3. Latest(n) # 0 => Latest(n) \in 1..Latest(n) /\ inv[n][Latest(n)] \in Record
  BY <1>1 DEF Latest
<1>4. Latest(n) # 0 => inv[n][Latest(n)].st \in InvocationStatus
  BY <1>3 DEF Record
<1>5. "none" \notin InvocationStatus
  BY DEF InvocationStatus
<1> QED BY <1>2, <1>3, <1>4, <1>5 DEF LatestStatus, Done, Undone

\* In one run the records that recovery looks at are the latest ones.
LEMMA RunStatusIs ==
    ASSUME Typed, OneRun
    PROVE  /\ \A n \in Nodes : RunStatus(n) = LatestStatus(n)
           /\ Redo = Undone /\ CompletedNodes = Done
<1>1. ASSUME NEW n \in Nodes PROVE RunStatus(n) = LatestStatus(n)
  <2>1. CASE Latest(n) = 0
    BY <2>1, StatusOf DEF RunStatus, LatestStatus
  <2>2. CASE Latest(n) # 0
    BY <2>2, StatusOf DEF RunStatus, OneRun, LatestStatus
  <2> QED BY <2>1, <2>2
<1> QED BY <1>1 DEF Redo, Undone, CompletedNodes, Done

\* What begin_invocation and its ends do to the two sets.
LEMMA BeginStatus ==
    ASSUME Typed, Typed', NEW n \in Nodes, inv' = BeginInvocation(n)
    PROVE  /\ Undone' = Undone \union {n} /\ Done' = Done \ {n}
           /\ \A x \in Nodes : x # n => inv'[x] = inv[x] /\ Latest(x)' = Latest(x)
           /\ Latest(n)' = Latest(n) + 1 /\ inv'[n][Latest(n) + 1].st = "RUNNING"
           /\ \A i \in 1..Latest(n) : inv'[n][i].st = "COMPLETED" => inv[n][i].st = "COMPLETED"
           /\ OneRun => \A x \in Nodes : \A i \in 1..Latest(x)' : inv'[x][i].run = runVer
<1>1. /\ \A x \in Nodes : x # n => inv'[x] = inv[x]
      /\ Latest(n)' = Latest(n) + 1
      /\ inv'[n][Latest(n) + 1] = [st |-> "RUNNING", run |-> runVer]
      /\ \A i \in 1..Latest(n) :
            /\ inv'[n][i].run = inv[n][i].run
            /\ inv'[n][i].st = IF i = Latest(n) /\ inv[n][i].st = "RUNNING" THEN "CRASHED"
                               ELSE inv[n][i].st
  BY BeginRecords DEF Typed
<1>2. \A x \in Nodes : x # n => Latest(x)' = Latest(x) /\ LatestStatus(x)' = LatestStatus(x)
  BY <1>1 DEF Latest, LatestStatus
<1>3. inv'[n][Latest(n) + 1].st = "RUNNING" /\ inv'[n][Latest(n) + 1].run = runVer
  BY <1>1
<1>4. LatestStatus(n)' = "RUNNING"
  <2>1. Latest(n) \in Nat /\ Latest(n)' # 0
    BY <1>1 DEF Typed
  <2>2. LatestStatus(n)' = inv'[n][Latest(n)'].st
    <3>1. inv'[n] # <<>>
      BY <2>1 DEF Latest
    <3> QED BY <3>1 DEF LatestStatus
  <2> QED BY <1>1, <1>3, <2>2
<1>5. Undone' = Undone \union {n} /\ Done' = Done \ {n}
  BY <1>2, <1>4 DEF Undone, Done
<1>6. \A i \in 1..Latest(n) : inv'[n][i].st = "COMPLETED" => inv[n][i].st = "COMPLETED"
  BY <1>1
<1>7. ASSUME OneRun, NEW x \in Nodes, NEW i \in 1..Latest(x)' PROVE inv'[x][i].run = runVer
  <2>1. CASE x = n
    <3>1. Latest(n) \in Nat
      BY DEF Typed
    <3> QED BY <1>1, <1>3, <1>7, <2>1, <3>1 DEF OneRun
  <2>2. CASE x # n
    BY <1>1, <1>2, <1>7, <2>2 DEF OneRun
  <2> QED BY <2>1, <2>2
<1> QED BY <1>1, <1>2, <1>3, <1>5, <1>6, <1>7

LEMMA CloseStatus ==
    ASSUME Typed, NEW n \in Nodes, Latest(n) # 0, inv[n][Latest(n)].st = "RUNNING",
           NEW s \in {"COMPLETED", "CRASHED", "CANCELED"}, inv' = CloseInvocation(n, Latest(n), s)
    PROVE  /\ n \in Undone
           /\ s = "COMPLETED" => Undone' = Undone \ {n} /\ Done' = Done \union {n}
           /\ s # "COMPLETED" => Undone' = Undone /\ Done' = Done
           /\ \A x \in Nodes : x # n => inv'[x] = inv[x]
           /\ \A x \in Nodes : Latest(x)' = Latest(x)
           /\ inv'[n][Latest(n)].st = s
           /\ \A i \in 1..Latest(n) : i # Latest(n) => inv'[n][i] = inv[n][i]
           /\ OneRun => \A x \in Nodes : \A i \in 1..Latest(x)' : inv'[x][i].run = runVer
<1> DEFINE k == Latest(n)
<1>1. k \in 1..Latest(n) /\ s \in InvocationStatus
  BY StatusOf DEF InvocationStatus
<1>2. /\ \A m \in Nodes : m # n => inv'[m] = inv[m]
      /\ \A m \in Nodes : Latest(m)' = Latest(m)
      /\ inv'[n][k].st = s /\ inv'[n][k].run = inv[n][k].run
      /\ \A i \in 1..Latest(n) : i # k => inv'[n][i] = inv[n][i]
  <2> HIDE DEF k
  <2> QED BY <1>1, CloseRecords DEF Typed, k
<1>3. \A x \in Nodes : x # n => LatestStatus(x)' = LatestStatus(x)
  BY <1>2 DEF LatestStatus
<1>4. LatestStatus(n)' = s
  <2>1. Latest(n)' # 0
    BY <1>2
  <2>2. inv'[n] # <<>>
    BY <2>1 DEF Latest
  <2> QED BY <1>2, <2>2 DEF LatestStatus
<1>5. n \in Undone /\ n \notin Done
  BY StatusOf
<1>6. s = "COMPLETED" => Undone' = Undone \ {n} /\ Done' = Done \union {n}
  BY <1>3, <1>4 DEF Undone, Done
<1>7. s # "COMPLETED" => Undone' = Undone /\ Done' = Done
  BY <1>3, <1>4, <1>5 DEF Undone, Done
<1>8. ASSUME OneRun, NEW x \in Nodes, NEW i \in 1..Latest(x)' PROVE inv'[x][i].run = runVer
  BY <1>2, <1>8 DEF OneRun
<1> QED BY <1>2, <1>5, <1>6, <1>7, <1>8

LEMMA SameStatus ==
    ASSUME inv' = inv
    PROVE  /\ Undone' = Undone /\ Done' = Done /\ \A x \in Nodes : Latest(x)' = Latest(x)
           /\ runVer' = runVer => OneRun' = OneRun
BY DEF Undone, Done, LatestStatus, Latest, OneRun

\* What becomes of a row when outputs are promoted and inputs settled.
LEMMA PromotedImage ==
    ASSUME NEW dl \in SUBSET Deliver, NEW srcs, NEW dsts, NEW ns, NEW d \in dl
    PROVE  \E e \in PromoteConsumed(PromoteStaged(dl, srcs, dsts), ns) :
              /\ Same(d, e) /\ e.by = d.by
              /\ d.st = "CONSUMED_PENDING" /\ d.dst \notin ns => e.st = "CONSUMED_PENDING"
              /\ d.st = "PENDING" => e.st = "PENDING"
              /\ d.st = "STAGED" /\ d.src \in srcs /\ d.dst \in dsts => e.st = "PENDING"
              /\ Taken(d) => Taken(e)
<1> DEFINE c == IF d.src \in srcs /\ d.st = "STAGED" /\ d.dst \in dsts THEN [d EXCEPT !.st = "PENDING"] ELSE d
           e == IF c.dst \in ns /\ c.st = "CONSUMED_PENDING" THEN [c EXCEPT !.st = "CONSUMED_COMPLETED"] ELSE c
           mid == PromoteStaged(dl, srcs, dsts)
<1>1. c \in mid
  BY DEF PromoteStaged, Promote
<1>2. e \in PromoteConsumed(mid, ns)
  <2> HIDE DEF mid, c
  <2> QED BY <1>1 DEF PromoteConsumed, Promote
<1>3. /\ c \in Deliver /\ Same(d, c) /\ c.by = d.by
      /\ c.st = IF d.src \in srcs /\ d.st = "STAGED" /\ d.dst \in dsts THEN "PENDING" ELSE d.st
  BY DEF Deliver, Same
<1> HIDE DEF c
<1>4. /\ Same(c, e) /\ e.by = c.by
      /\ e.st = IF c.dst \in ns /\ c.st = "CONSUMED_PENDING" THEN "CONSUMED_COMPLETED" ELSE c.st
  BY <1>3 DEF Deliver, Same
<1> HIDE DEF e
<1>5. Same(d, e) /\ e.by = d.by
  BY <1>3, <1>4 DEF Same
<1> QED BY <1>2, <1>3, <1>4, <1>5 DEF Taken, Same

\* A row more, from a node that runs.
LEMMA EmitLedger ==
    ASSUME Typed, Ledger, inv' = inv, runVer' = runVer, NEW e, e.src \in Undone, <<e.src, e.dst>> \in Edges,
           e.st = "STAGED", delivers' = delivers \union {e}
    PROVE  Ledger'
<1>1. Undone' = Undone /\ Done' = Done /\ (\A x \in Nodes : Latest(x)' = Latest(x)) /\ OneRun'
  BY SameStatus DEF Ledger
<1>2. e.src \notin Done
  BY DEF Done, Undone
<1>3. Fed' \subseteq Fed
  BY <1>1, <1>2 DEF Fed, Feeds
<1>4. AlongEdges' /\ Apart' /\ UndoneHasInput'
  BY <1>1, <1>3 DEF Ledger, AlongEdges, Apart, UndoneHasInput, Consumable
<1>5. TakenIsLatest'
  BY <1>1 DEF Ledger, TakenIsLatest, Latest
<1>6. DoneHadInput'
  BY <1>1 DEF Ledger, DoneHadInput
<1> QED BY <1>1, <1>4, <1>5, <1>6 DEF Ledger

\* Nothing else to be done again, and nothing fed, reaches n or is reached by
\* it, and n has its input: n may begin.
MayBegin(n) ==
    /\ \A a \in Undone \union Fed : n \notin Downstream[a]
    /\ \A b \in Undone : b \notin Downstream[n]
    /\ n # Start => Consumable(delivers, n) # {}
    /\ \A d \in delivers : d.dst = n /\ d.st = "CONSUMED_PENDING" => n \in Undone

LEMMA HalfBeginLedger ==
    ASSUME Acyclic, Typed, Typed', TakenByRecord, Ledger, runVer' = runVer, NEW n \in Nodes, MayBegin(n),
           inv' = BeginInvocation(n), delivers' = delivers
    PROVE  Ledger'
<1>1. /\ Undone' = Undone \union {n} /\ Done' = Done \ {n}
      /\ \A x \in Nodes : x # n => inv'[x] = inv[x] /\ Latest(x)' = Latest(x)
      /\ Latest(n)' = Latest(n) + 1 /\ inv'[n][Latest(n) + 1].st = "RUNNING"
      /\ \A i \in 1..Latest(n) : inv'[n][i].st = "COMPLETED" => inv[n][i].st = "COMPLETED"
      /\ OneRun'
  BY BeginStatus DEF Ledger, OneRun
<1>2. Fed' \subseteq Fed
  BY <1>1 DEF Fed, Feeds
<1>3. AlongEdges' /\ UndoneHasInput'
  BY <1>1 DEF Ledger, AlongEdges, UndoneHasInput, MayBegin
<1>4. Apart'
  BY <1>1, <1>2 DEF Ledger, Apart, MayBegin, Acyclic
<1>5. ASSUME NEW d \in delivers, d.st = "CONSUMED_PENDING"
      PROVE  /\ d.dst \in Undone' \/ (d.dst \in Done' /\ d.by = Latest(d.dst)')
             /\ inv'[d.dst][d.by].st = "COMPLETED" => d.by = Latest(d.dst)'
  <2>1. d.dst \in Nodes /\ d.by \in 1..Latest(d.dst)
    BY <1>5 DEF Typed, Deliver, TakenByRecord, Taken
  <2>2. CASE d.dst = n
    <3>1. n \in Undone
      BY <1>5, <2>2 DEF MayBegin
    <3>2. inv[n][d.by].st # "COMPLETED"
      BY <1>5, <2>1, <2>2, <3>1, StatusOf DEF Ledger, TakenIsLatest
    <3> QED BY <1>1, <2>1, <2>2, <3>2
  <2>3. CASE d.dst # n
    BY <1>1, <1>5, <2>1, <2>3 DEF Ledger, TakenIsLatest
  <2> QED BY <2>2, <2>3
<1>6. TakenIsLatest'
  BY <1>5 DEF TakenIsLatest
<1>7. ASSUME NEW x \in Nodes \ {Start}, NEW i \in 1..Latest(x)', inv'[x][i].st = "COMPLETED"
      PROVE  \E d \in delivers : Taken(d) /\ d.dst = x /\ d.by = i
  <2>1. i \in 1..Latest(x) /\ inv[x][i].st = "COMPLETED"
    <3>1. Latest(x) \in Nat
      BY DEF Typed
    <3>2. CASE x = n
      BY <1>1, <1>7, <3>1, <3>2
    <3>3. CASE x # n
      BY <1>1, <1>7, <3>3
    <3> QED BY <3>2, <3>3
  <2> QED BY <2>1 DEF Ledger, DoneHadInput
<1>8. DoneHadInput'
  BY <1>7 DEF DoneHadInput
<1> QED BY <1>1, <1>3, <1>4, <1>6, <1>8 DEF Ledger

LEMMA BeginLedger ==
    ASSUME Acyclic, Typed, Typed', TakenByRecord, Ledger, runVer' = runVer, NEW n \in Nodes, MayBegin(n),
           inv' = BeginInvocation(n), delivers' = MarkConsumed(delivers, n, Latest(n) + 1)
    PROVE  Ledger'
<1>1. /\ Undone' = Undone \union {n} /\ Done' = Done \ {n}
      /\ \A x \in Nodes : x # n => inv'[x] = inv[x] /\ Latest(x)' = Latest(x)
      /\ Latest(n)' = Latest(n) + 1 /\ inv'[n][Latest(n) + 1].st = "RUNNING"
      /\ \A i \in 1..Latest(n) : inv'[n][i].st = "COMPLETED" => inv[n][i].st = "COMPLETED"
      /\ OneRun'
  BY BeginStatus DEF Ledger, OneRun
<1>2. Latest(n) + 1 \in Nat /\ Latest(n) \in Nat
  BY DEF Typed
<1>3. ASSUME NEW e \in delivers'
      PROVE  \/ e.dst = n /\ e.by = Latest(n) + 1 /\ e.st = "CONSUMED_PENDING"
                /\ \E d \in delivers : Same(d, e)
             \/ /\ e \in delivers
                /\ ~(e.dst = n /\ e.st \in {"PENDING", "CONSUMED_PENDING"})
  <2>1. PICK d \in delivers :
              /\ Same(d, e)
              /\ \/ d.dst = n /\ d.st \in {"PENDING", "CONSUMED_PENDING"}
                    /\ e.by = Latest(n) + 1 /\ e.st = "CONSUMED_PENDING"
                 \/ ~(d.dst = n /\ d.st \in {"PENDING", "CONSUMED_PENDING"}) /\ e = d
    BY <1>2, <1>3, MarkOrigin DEF Typed
  <2> QED BY <2>1 DEF Same
<1>4. \A d \in delivers : ~(d.dst = n /\ d.st \in {"PENDING", "CONSUMED_PENDING"}) => d \in delivers'
  BY DEF MarkConsumed, Consumable
<1>5. ASSUME NEW d \in Consumable(delivers, n)
      PROVE  \E e \in delivers' : e.dst = n /\ e.st = "CONSUMED_PENDING"
  <2> DEFINE e == [d EXCEPT !.st = "CONSUMED_PENDING", !.by = Latest(n) + 1]
  <2>1. e \in delivers'
    BY <1>5 DEF MarkConsumed, Consumable
  <2>2. e.dst = n /\ e.st = "CONSUMED_PENDING"
    BY <1>5 DEF Consumable, Typed, Deliver
  <2> QED BY <2>1, <2>2
<1>6. Fed' \subseteq Fed
  BY <1>1, <1>3 DEF Fed, Feeds
<1>7. AlongEdges'
  BY <1>3 DEF Ledger, AlongEdges, Same
<1>8. Apart'
  BY <1>1, <1>6 DEF Ledger, Apart, MayBegin, Acyclic
<1>9. UndoneHasInput'
  <2>1. ASSUME NEW x \in Undone' \ {Start} PROVE Consumable(delivers', x) # {}
    <3>1. CASE x = n
      BY <1>5, <2>1, <3>1 DEF MayBegin, Consumable
    <3>2. CASE x # n
      BY <1>1, <1>4, <2>1, <3>2 DEF Ledger, UndoneHasInput, Consumable
    <3> QED BY <3>1, <3>2
  <2> QED BY <2>1 DEF UndoneHasInput
<1>10. ASSUME NEW e \in delivers', e.st = "CONSUMED_PENDING"
       PROVE  /\ e.dst \in Undone' \/ (e.dst \in Done' /\ e.by = Latest(e.dst)')
              /\ inv'[e.dst][e.by].st = "COMPLETED" => e.by = Latest(e.dst)'
  <2>1. CASE e.dst = n
    BY <1>1, <1>3, <1>10, <2>1
  <2>2. CASE e.dst # n
    <3>1. e \in delivers /\ e.dst \in Nodes
      BY <1>3, <2>2 DEF Typed, Deliver
    <3> QED BY <1>1, <1>10, <2>2, <3>1 DEF Ledger, TakenIsLatest
  <2> QED BY <2>1, <2>2
<1>11. TakenIsLatest'
  BY <1>10 DEF TakenIsLatest
<1>12. ASSUME NEW x \in Nodes \ {Start}, NEW i \in 1..Latest(x)', inv'[x][i].st = "COMPLETED"
       PROVE  \E d \in delivers' : Taken(d) /\ d.dst = x /\ d.by = i
  <2>1. i \in 1..Latest(x) /\ inv[x][i].st = "COMPLETED"
    <3>1. CASE x = n
      BY <1>1, <1>2, <1>12, <3>1
    <3>2. CASE x # n
      BY <1>1, <1>12, <3>2
    <3> QED BY <3>1, <3>2
  <2>2. PICK d \in delivers : Taken(d) /\ d.dst = x /\ d.by = i
    BY <2>1 DEF Ledger, DoneHadInput
  <2>3. ~(d.dst = n /\ d.st \in {"PENDING", "CONSUMED_PENDING"})
    <3>1. ASSUME d.dst = n, d.st = "CONSUMED_PENDING" PROVE FALSE
      <4>1. n \in Undone
        BY <3>1 DEF MayBegin
      <4>2. i = Latest(n)
        BY <2>1, <2>2, <3>1 DEF Ledger, TakenIsLatest
      <4> QED BY <2>1, <2>2, <3>1, <4>1, <4>2, StatusOf
    <3> QED BY <2>2, <3>1 DEF Taken
  <2> QED BY <1>4, <2>2, <2>3
<1>13. DoneHadInput'
  BY <1>12 DEF DoneHadInput
<1> QED BY <1>1, <1>7, <1>8, <1>9, <1>11, <1>13 DEF Ledger

LEMMA CloseLedger ==
    ASSUME Typed, TakenByRecord, Ledger, runVer' = runVer, NEW n \in Nodes,
           Latest(n) # 0, inv[n][Latest(n)].st = "RUNNING",
           NEW s \in {"CRASHED", "CANCELED"}, inv' = CloseInvocation(n, Latest(n), s), delivers' = delivers
    PROVE  Ledger'
<1>1. /\ Undone' = Undone /\ Done' = Done
      /\ \A x \in Nodes : x # n => inv'[x] = inv[x]
      /\ \A x \in Nodes : Latest(x)' = Latest(x)
      /\ inv'[n][Latest(n)].st = s
      /\ \A i \in 1..Latest(n) : i # Latest(n) => inv'[n][i] = inv[n][i]
      /\ OneRun'
  BY CloseStatus DEF Ledger, OneRun
<1>2. Fed' = Fed
  BY <1>1 DEF Fed, Feeds
<1>3. AlongEdges' /\ Apart' /\ UndoneHasInput'
  BY <1>1, <1>2 DEF Ledger, AlongEdges, Apart, UndoneHasInput
<1>4. \A x \in Nodes : \A i \in 1..Latest(x) : inv'[x][i].st = "COMPLETED" => inv[x][i].st = "COMPLETED"
  BY <1>1
<1>5. \A d \in delivers : d.st = "CONSUMED_PENDING" => d.dst \in Nodes /\ d.by \in 1..Latest(d.dst)
  BY DEF Typed, Deliver, TakenByRecord, Taken
<1>6. TakenIsLatest'
  BY <1>1, <1>4, <1>5 DEF Ledger, TakenIsLatest
<1>7. DoneHadInput'
  BY <1>1, <1>4 DEF Ledger, DoneHadInput
<1> QED BY <1>1, <1>3, <1>6, <1>7 DEF Ledger

\* What a completed invocation makes visible goes along its edges.
LEMMA CompleteFed ==
    ASSUME Typed, Ledger, NEW n \in Nodes, Latest(n) # 0, inv[n][Latest(n)].st = "RUNNING",
           inv' = CloseInvocation(n, Latest(n), "COMPLETED"),
           NEW dsts, NEW ns \in SUBSET {n},
           delivers' = PromoteConsumed(PromoteStaged(delivers, {n}, dsts), ns)
    PROVE  \A a \in Fed' : a \in Fed \/ <<n, a>> \in Edges
<1>1. Done' = Done \union {n}
  BY CloseStatus
<1>2. \A e \in delivers' : \E d \in delivers :
         /\ Same(d, e) /\ e.by = d.by
         /\ \/ d.src = n /\ d.st = "STAGED" /\ e.st = "PENDING"
            \/ d.dst \in ns /\ d.st = "CONSUMED_PENDING" /\ e.st = "CONSUMED_COMPLETED"
            \/ e.st = d.st
  BY PromotedOrigin DEF Typed
<1>3. ASSUME NEW a \in Fed' PROVE a \in Fed \/ <<n, a>> \in Edges
  <2>1. PICK e \in delivers' : e.dst = a /\ (e.st = "PENDING" \/ (e.st = "STAGED" /\ e.src \in Done'))
    BY <1>3 DEF Fed, Feeds
  <2>2. PICK d \in delivers : /\ Same(d, e)
                              /\ \/ d.src = n /\ d.st = "STAGED" /\ e.st = "PENDING"
                                 \/ e.st = d.st
    BY <1>2, <2>1
  <2>3. CASE d.src = n
    BY <2>1, <2>2, <2>3 DEF Ledger, AlongEdges, Same
  <2>4. CASE d.src # n
    <3>1. Feeds(d)
      BY <1>1, <2>1, <2>2, <2>4 DEF Feeds, Same
    <3> QED BY <2>1, <2>2, <3>1 DEF Fed, Same
  <2> QED BY <2>3, <2>4
<1> QED BY <1>3

LEMMA CompleteLedger ==
    ASSUME Typed, TakenByRecord, Ledger, runVer' = runVer, NEW n \in Nodes,
           Latest(n) # 0, inv[n][Latest(n)].st = "RUNNING",
           \A d \in delivers : d.dst = n /\ d.st = "CONSUMED_PENDING" => d.by = Latest(n),
           n # Start => \E d \in delivers : d.dst = n /\ d.st = "CONSUMED_PENDING",
           inv' = CloseInvocation(n, Latest(n), "COMPLETED"),
           NEW dsts, NEW ns \in SUBSET {n},
           delivers' = PromoteConsumed(PromoteStaged(delivers, {n}, dsts), ns)
    PROVE  Ledger'
<1>1. /\ Undone' = Undone \ {n} /\ Done' = Done \union {n} /\ n \in Undone
      /\ \A x \in Nodes : x # n => inv'[x] = inv[x]
      /\ \A x \in Nodes : Latest(x)' = Latest(x)
      /\ inv'[n][Latest(n)].st = "COMPLETED"
      /\ \A i \in 1..Latest(n) : i # Latest(n) => inv'[n][i] = inv[n][i]
      /\ OneRun'
  BY CloseStatus DEF Ledger, OneRun
<1>2. \A e \in delivers' : \E d \in delivers :
         /\ Same(d, e) /\ e.by = d.by
         /\ \/ d.src = n /\ d.st = "STAGED" /\ e.st = "PENDING"
            \/ d.dst \in ns /\ d.st = "CONSUMED_PENDING" /\ e.st = "CONSUMED_COMPLETED"
            \/ e.st = d.st
  BY PromotedOrigin DEF Typed
<1>3. \A d \in delivers : \E e \in delivers' :
         /\ Same(d, e) /\ e.by = d.by
         /\ d.st = "CONSUMED_PENDING" /\ d.dst \notin ns => e.st = "CONSUMED_PENDING"
         /\ d.st = "PENDING" => e.st = "PENDING"
         /\ Taken(d) => Taken(e)
  <2> SUFFICES ASSUME NEW d \in delivers
               PROVE  \E e \in delivers' :
                        /\ Same(d, e) /\ e.by = d.by
                        /\ d.st = "CONSUMED_PENDING" /\ d.dst \notin ns => e.st = "CONSUMED_PENDING"
                        /\ d.st = "PENDING" => e.st = "PENDING"
                        /\ Taken(d) => Taken(e)
    OBVIOUS
  <2> DEFINE srcs == {n}
  <2>1. delivers' = PromoteConsumed(PromoteStaged(delivers, srcs, dsts), ns)
    OBVIOUS
  <2> HIDE DEF srcs
  <2> QED BY <2>1, PromotedImage DEF Typed
<1>4. \A a \in Fed' : a \in Fed \/ <<n, a>> \in Edges
  BY CompleteFed
<1>5. Apart'
  <2>1. ASSUME NEW a \in Undone' \union Fed', NEW b \in Undone', b \in Downstream[a] PROVE FALSE
    <3>1. CASE a \in Undone \union Fed
      BY <1>1, <2>1, <3>1 DEF Ledger, Apart
    <3>2. CASE <<n, a>> \in Edges
      <4>1. a \in Nodes /\ a \in Downstream[n]
        BY <3>2, GraphAssumption, DownEdge
      <4>2. b \in Downstream[n]
        BY <2>1, <4>1, DownTrans
      <4> QED BY <1>1, <2>1, <4>2 DEF Ledger, Apart
    <3> QED BY <1>1, <1>4, <2>1, <3>1, <3>2
  <2> QED BY <2>1 DEF Apart
<1>6. AlongEdges'
  BY <1>2 DEF Ledger, AlongEdges, Same
<1>7. UndoneHasInput'
  <2>1. ASSUME NEW x \in Undone' \ {Start} PROVE Consumable(delivers', x) # {}
    <3>1. x \in Undone \ {Start} /\ x \notin ns
      BY <1>1, <2>1
    <3>2. PICK d \in delivers : d.dst = x /\ d.st \in {"PENDING", "CONSUMED_PENDING"}
      BY <3>1 DEF Ledger, UndoneHasInput, Consumable
    <3> QED BY <1>3, <3>1, <3>2 DEF Consumable, Same
  <2> QED BY <2>1 DEF UndoneHasInput
<1>8. ASSUME NEW e \in delivers', e.st = "CONSUMED_PENDING"
      PROVE  /\ e.dst \in Undone' \/ (e.dst \in Done' /\ e.by = Latest(e.dst)')
             /\ inv'[e.dst][e.by].st = "COMPLETED" => e.by = Latest(e.dst)'
  <2>1. PICK d \in delivers : Same(d, e) /\ e.by = d.by /\ d.st = "CONSUMED_PENDING"
    BY <1>2, <1>8
  <2>2. d.dst \in Nodes /\ d.by \in 1..Latest(d.dst) /\ e.dst = d.dst
    BY <2>1 DEF Typed, Deliver, TakenByRecord, Taken, Same
  <2>3. CASE d.dst = n
    BY <1>1, <2>1, <2>2, <2>3
  <2>4. CASE d.dst # n
    BY <1>1, <2>1, <2>2, <2>4 DEF Ledger, TakenIsLatest
  <2> QED BY <2>3, <2>4
<1>9. TakenIsLatest'
  BY <1>8 DEF TakenIsLatest
<1>10. ASSUME NEW x \in Nodes \ {Start}, NEW i \in 1..Latest(x)', inv'[x][i].st = "COMPLETED"
       PROVE  \E d \in delivers' : Taken(d) /\ d.dst = x /\ d.by = i
  <2>1. PICK d \in delivers : Taken(d) /\ d.dst = x /\ d.by = i
    <3>1. CASE x = n /\ i = Latest(n)
      BY <1>10, <3>1 DEF Taken
    <3>2. CASE ~(x = n /\ i = Latest(n))
      <4>1. i \in 1..Latest(x) /\ inv[x][i].st = "COMPLETED"
        BY <1>1, <1>10, <3>2
      <4> QED BY <4>1 DEF Ledger, DoneHadInput
    <3> QED BY <3>1, <3>2
  <2> QED BY <1>3, <2>1 DEF Same
<1>11. DoneHadInput'
  BY <1>10 DEF DoneHadInput
<1> QED BY <1>1, <1>5, <1>6, <1>7, <1>9, <1>11 DEF Ledger

\* No output of a completed invocation is invisible, no input of one unsettled.
AllPromoted == \A d \in delivers : d.st = "STAGED" => d.src \notin Done
AllSettled == \A d \in delivers : d.st = "CONSUMED_PENDING" => d.dst \in Undone

LEMMA RecoverLedger ==
    ASSUME Typed, Ledger, inv' = inv, runVer' = runVer, delivers' = AutoPromoted
    PROVE  Ledger' /\ AllPromoted' /\ AllSettled' /\ Fed' \subseteq Fed
<1> DEFINE ns == {n \in Done \ {Start} : \E d \in delivers :
                     d.dst = n /\ d.st = "CONSUMED_PENDING" /\ d.by = Latest(n)}
<1>1. Undone' = Undone /\ Done' = Done /\ (\A x \in Nodes : Latest(x)' = Latest(x)) /\ OneRun'
  BY SameStatus DEF Ledger
<1>2. delivers' = PromoteConsumed(PromoteStaged(delivers, Done, Nodes), ns)
  BY RunStatusIs DEF Ledger, AutoPromoted
<1>3. ns \subseteq Done /\ Done \intersect Undone = {}
  BY DEF Done, Undone
<1>4. \A d \in delivers : /\ d.dst \in Nodes \ {Start}
                          /\ d.dst \in Done /\ d.st = "CONSUMED_PENDING" => d.dst \in ns
  BY <1>3, GraphAssumption DEF Ledger, AlongEdges, TakenIsLatest
<1> HIDE DEF ns
<1>5. \A e \in delivers' : \E d \in delivers :
         /\ Same(d, e) /\ e.by = d.by
         /\ \/ d.src \in Done /\ d.st = "STAGED" /\ e.st = "PENDING"
            \/ d.dst \in ns /\ d.st = "CONSUMED_PENDING" /\ e.st = "CONSUMED_COMPLETED"
            \/ /\ e.st = d.st /\ ~(d.dst \in ns /\ d.st = "CONSUMED_PENDING")
               /\ ~(d.src \in Done /\ d.st = "STAGED" /\ d.dst \in Nodes)
  BY <1>2, PromotedOrigin DEF Typed
<1>6. \A d \in delivers : \E e \in delivers' :
         /\ Same(d, e) /\ e.by = d.by
         /\ d.st = "CONSUMED_PENDING" /\ d.dst \notin ns => e.st = "CONSUMED_PENDING"
         /\ d.st = "PENDING" => e.st = "PENDING"
         /\ Taken(d) => Taken(e)
  BY <1>2, PromotedImage DEF Typed
<1>7. Fed' \subseteq Fed
  <2>1. ASSUME NEW e \in delivers', Feeds(e)' PROVE \E d \in delivers : d.dst = e.dst /\ Feeds(d)
    BY <1>1, <1>5, <2>1 DEF Feeds, Same
  <2> QED BY <2>1 DEF Fed
<1>8. AlongEdges' /\ Apart'
  BY <1>1, <1>5, <1>7 DEF Ledger, AlongEdges, Apart, Same
<1>9. UndoneHasInput'
  <2>1. ASSUME NEW x \in Undone' \ {Start} PROVE Consumable(delivers', x) # {}
    <3>1. x \in Undone \ {Start} /\ x \notin ns
      BY <1>1, <1>3, <2>1
    <3>2. PICK d \in delivers : d.dst = x /\ d.st \in {"PENDING", "CONSUMED_PENDING"}
      BY <3>1 DEF Ledger, UndoneHasInput, Consumable
    <3> QED BY <1>6, <3>1, <3>2 DEF Consumable, Same
  <2> QED BY <2>1 DEF UndoneHasInput
<1>10. TakenIsLatest'
  <2>1. ASSUME NEW e \in delivers', e.st = "CONSUMED_PENDING"
        PROVE  /\ e.dst \in Undone' \/ (e.dst \in Done' /\ e.by = Latest(e.dst)')
               /\ inv'[e.dst][e.by].st = "COMPLETED" => e.by = Latest(e.dst)'
    <3>1. PICK d \in delivers : Same(d, e) /\ e.by = d.by /\ d.st = "CONSUMED_PENDING"
      BY <1>5, <2>1
    <3>2. d.dst \in Nodes /\ e.dst = d.dst
      BY <1>4, <3>1 DEF Same
    <3> QED BY <1>1, <3>1, <3>2 DEF Ledger, TakenIsLatest
  <2> QED BY <2>1 DEF TakenIsLatest
<1>11. DoneHadInput'
  <2>1. ASSUME NEW x \in Nodes \ {Start}, NEW i \in 1..Latest(x)', inv'[x][i].st = "COMPLETED"
        PROVE  \E d \in delivers' : Taken(d) /\ d.dst = x /\ d.by = i
    <3>1. PICK d \in delivers : Taken(d) /\ d.dst = x /\ d.by = i
      BY <1>1, <2>1 DEF Ledger, DoneHadInput
    <3> QED BY <1>6, <3>1 DEF Same
  <2> QED BY <2>1 DEF DoneHadInput
<1>12. AllPromoted'
  BY <1>1, <1>4, <1>5 DEF AllPromoted, Same, Typed, Deliver
<1>13. AllSettled'
  <2>1. ASSUME NEW e \in delivers', e.st = "CONSUMED_PENDING" PROVE e.dst \in Undone'
    <3>1. PICK d \in delivers : Same(d, e) /\ d.st = "CONSUMED_PENDING" /\ d.dst \notin ns
      BY <1>5, <2>1
    <3> QED BY <1>1, <1>4, <3>1 DEF Ledger, TakenIsLatest, Same
  <2> QED BY <2>1 DEF AllSettled
<1> QED BY <1>1, <1>7, <1>8, <1>9, <1>10, <1>11, <1>12, <1>13 DEF Ledger

-----------------------------------------------------------------------------
(* The gate *)

PendingNodes(dl) == {n \in Nodes : PendingAt(dl, n) # {}}

\* Nobody who is fed or has an instance leads to one who has an instance; who
\* has one does not wait and has taken note of all its delivers; who waits has
\* one to wait for; who is about to begin has something to take.
Gated(m, dl) ==
    /\ \A a \in ActiveNodes(m) \union PendingNodes(dl), b \in ActiveNodes(m) : b \notin Downstream[a]
    /\ ActiveNodes(m) \intersect m.waiting = {}
    /\ \A n \in ActiveNodes(m) : Unscheduled(m, dl, n) = {}
    /\ m.waiting \subseteq PendingNodes(dl)
    /\ \A n \in Nodes \ {Start}, s \in Slots : m.task[n][s].phase = "ready" => Consumable(dl, n) # {}

\* Under ON_ALL_PREDS alone a rescan only adds targets that are fed.
LEMMA RecheckWaiters ==
    ASSUME OnReceive = {}, NEW m \in Scheduler, NEW dl \in SUBSET Deliver, \A d \in dl : d.dst # Start
    PROVE  /\ Fresh(m, dl) \subseteq PendingNodes(dl) /\ Start \notin PendingNodes(dl)
           /\ Recheck(m, dl).waiting = (m.waiting \union Fresh(m, dl)) \ Ripe(m, dl)
           /\ Recheck(m, dl).reached = (m.reached \/ End \in Fresh(m, dl))
           /\ ActiveNodes(Recheck(m, dl)) = ActiveNodes(m) \union Ripe(m, dl)
           /\ Ripe(m, dl) \subseteq (m.waiting \union Fresh(m, dl)) \ ActiveNodes(m)
           /\ \A n \in Fresh(m, dl) : Unscheduled(m, dl, n) \subseteq Recheck(m, dl).scheduled
           /\ m.scheduled \subseteq Recheck(m, dl).scheduled
           /\ \A n \in Nodes \ Ripe(m, dl), s \in Slots : Recheck(m, dl).task[n][s] = m.task[n][s]
<1>1. FiresNow(m, dl) = {} /\ BusyNow(m, dl) = ActiveNodes(m)
  BY DEF FiresNow, BusyNow
<1>2. WaitsNow(m, dl) = m.waiting \union Fresh(m, dl)
  BY DEF WaitsNow
<1>3. Ripe(m, dl) \subseteq (m.waiting \union Fresh(m, dl)) \ ActiveNodes(m)
  BY <1>1, <1>2 DEF Ripe
<1>4. Fresh(m, dl) \subseteq PendingNodes(dl) /\ Start \notin PendingNodes(dl)
  BY DEF Fresh, Unscheduled, PendingNodes, PendingAt
<1>5. \A n \in Fresh(m, dl) : Unscheduled(m, dl, n) \subseteq
         m.scheduled \union UNION {Unscheduled(m, dl, x) : x \in FiresNow(m, dl) \union (Fresh(m, dl) \ OnReceive)}
  OBVIOUS
<1> QED BY <1>1, <1>2, <1>3, <1>4, <1>5, RecheckEffect

LEMMA RecheckGated ==
    ASSUME Acyclic, OnReceive = {}, NEW m \in Scheduler, NEW dl \in SUBSET Deliver,
           \A d \in dl : d.dst # Start, Gated(m, dl)
    PROVE  Gated(Recheck(m, dl), dl)
<1> DEFINE r == Recheck(m, dl)
           fresh == Fresh(m, dl)
           ripe == Ripe(m, dl)
<1>1. /\ fresh \subseteq PendingNodes(dl) /\ Start \notin PendingNodes(dl)
      /\ r.waiting = (m.waiting \union fresh) \ ripe
      /\ ActiveNodes(r) = ActiveNodes(m) \union ripe
      /\ ripe \subseteq (m.waiting \union fresh) \ ActiveNodes(m)
      /\ \A n \in fresh : Unscheduled(m, dl, n) \subseteq r.scheduled
      /\ m.scheduled \subseteq r.scheduled
      /\ \A n \in Nodes \ ripe, s \in Slots : r.task[n][s] = m.task[n][s]
  BY RecheckWaiters
<1>2. \A n \in Nodes \ {Start} : n \notin fresh => Unscheduled(m, dl, n) = {}
  BY DEF Fresh
<1>3. \A t \in ripe : \A n \in ActiveNodes(m) \union ((m.waiting \union fresh) \ {t})
                               \union (PendingNodes(dl) \ {Start, t}) : t \notin Downstream[n]
  <2>1. BusyNow(m, dl) = ActiveNodes(m) /\ WaitsNow(m, dl) = m.waiting \union fresh
    BY DEF BusyNow, FiresNow, WaitsNow
  <2>2. \A t \in ripe : SourcesOf(m, dl, t) = ActiveNodes(m) \union ((m.waiting \union fresh) \ {t})
                               \union (PendingNodes(dl) \ {Start, t})
    BY <2>1 DEF SourcesOf, PendingNodes
  <2> QED BY <2>2 DEF Ripe
<1>4. \A n \in Nodes : Unscheduled(r, dl, n) = {Key(d) : d \in PendingAt(dl, n)} \ r.scheduled
  BY DEF Unscheduled
<1>5. \A n \in Nodes : Unscheduled(m, dl, n) = {Key(d) : d \in PendingAt(dl, n)} \ m.scheduled
  BY DEF Unscheduled
<1>6. /\ \A a \in ActiveNodes(m) \union PendingNodes(dl), b \in ActiveNodes(m) : b \notin Downstream[a]
      /\ ActiveNodes(m) \intersect m.waiting = {}
      /\ \A n \in ActiveNodes(m) : Unscheduled(m, dl, n) = {}
      /\ m.waiting \subseteq PendingNodes(dl)
      /\ \A n \in Nodes \ {Start}, s \in Slots : m.task[n][s].phase = "ready" => Consumable(dl, n) # {}
  BY DEF Gated
<1>7. fresh \intersect ActiveNodes(m) = {}
  BY <1>6 DEF Fresh
<1>8. PendingNodes(dl) \subseteq Nodes /\ ActiveNodes(m) \subseteq Nodes
  BY DEF PendingNodes, ActiveNodes
<1> HIDE DEF r, fresh, ripe
<1>9. ASSUME NEW a \in ActiveNodes(r) \union PendingNodes(dl), NEW b \in ActiveNodes(r)
      PROVE  b \notin Downstream[a]
  <2>1. a \in ActiveNodes(m) \union PendingNodes(dl)
    BY <1>1, <1>6, <1>9
  <2>2. CASE b \in ActiveNodes(m)
    BY <1>6, <2>1, <2>2
  <2>3. CASE b \in ripe
    <3>1. CASE a = b
      BY <1>8, <2>1, <3>1 DEF Acyclic
    <3>2. CASE a # b
      BY <1>1, <1>3, <2>1, <2>3, <3>2
    <3> QED BY <3>1, <3>2
  <2> QED BY <1>1, <1>9, <2>2, <2>3
<1>10. ActiveNodes(r) \intersect r.waiting = {}
  BY <1>1, <1>6, <1>7
<1>11. ASSUME NEW n \in ActiveNodes(r) PROVE Unscheduled(r, dl, n) = {}
  <2>1. n \in Nodes
    BY <1>1, <1>6, <1>8, <1>11
  <2>2. Unscheduled(m, dl, n) \subseteq r.scheduled
    BY <1>1, <1>2, <1>6, <1>11, <2>1
  <2> QED BY <1>1, <1>4, <1>5, <2>1, <2>2
<1>12. r.waiting \subseteq PendingNodes(dl)
  BY <1>1, <1>6
<1>13. ASSUME NEW n \in Nodes \ {Start}, NEW s \in Slots, r.task[n][s].phase = "ready"
       PROVE  Consumable(dl, n) # {}
  <2>1. CASE n \in ripe
    <3>1. n \in PendingNodes(dl)
      BY <1>1, <1>6, <2>1
    <3> QED BY <3>1 DEF PendingNodes, PendingAt, Consumable
  <2>2. CASE n \notin ripe
    BY <1>1, <1>6, <1>13, <2>2
  <2> QED BY <2>1, <2>2
<1>14. Gated(r, dl)
  BY <1>9, <1>10, <1>11, <1>12, <1>13 DEF Gated
<1> QED BY <1>14 DEF r

\* The seeds that are made instances at once.
ReadySeeds(seeds) == {n \in seeds : n = Start \/ LatestStatus(n) \in {"CRASHED", "RUNNING", "CANCELED"}}

LEMMA LaunchGated ==
    ASSUME Acyclic, OnReceive = {}, NEW seeds \in SUBSET Nodes, NEW reached \in BOOLEAN,
           NEW dl \in SUBSET Deliver, \A d \in dl : d.dst # Start,
           \A a \in ReadySeeds(seeds) \union PendingNodes(dl), b \in ReadySeeds(seeds) : b \notin Downstream[a],
           \A n \in ReadySeeds(seeds) \ {Start} : Consumable(dl, n) # {}
    PROVE  /\ Gated(Launch(seeds, reached, dl), dl)
           /\ ReadySeeds(seeds) \subseteq ActiveNodes(Launch(seeds, reached, dl))
           /\ ActiveNodes(Launch(seeds, reached, dl)) \subseteq ReadySeeds(seeds) \union PendingNodes(dl)
           /\ Launch(seeds, reached, dl).reached \in {reached, reached \/ PendingAt(dl, End) # {}}
           /\ Launch(seeds, reached, dl).waiting \subseteq PendingNodes(dl)
           /\ \A n \in Nodes, s \in Slots : Launch(seeds, reached, dl).task[n][s] \in {NoTask, ReadyTask}
<1> DEFINE ready == ReadySeeds(seeds)
           u == {Key(d) : d \in {x \in dl : x.dst \in ready /\ x.st = "PENDING"}}
           m == [NewScheduler EXCEPT !.reached = reached, !.scheduled = u]
           m1 == CreateInstances(m, ready)
           r == Launch(seeds, reached, dl)
<1>1. u \in SUBSET ((Nodes \union {External}) \X Nat \X Nodes)
  BY DEF Key, Deliver
<1>2. /\ m \in Scheduler /\ m.scheduled = u /\ m.waiting = {} /\ m.task = NewScheduler.task
      /\ m.reached = reached
  <2> HIDE DEF u
  <2> QED BY <1>1 DEF NewScheduler, Scheduler, NoTask, TaskPhases, Unfinished
<1>3. ready \in SUBSET Nodes
  BY DEF ReadySeeds
<1>4. ActiveNodes(m) = {}
  <2> HIDE DEF m
  <2> QED BY <1>2, NewSlots DEF ActiveNodes
<1>5. r = Recheck(m1, dl)
  BY DEF Launch, ReadySeeds
<1>6. \A n \in ready : {Key(d) : d \in PendingAt(dl, n)} \subseteq u
  BY DEF PendingAt
<1> HIDE DEF m, u, ready, r
<1>7. /\ m1 \in Scheduler /\ m1.scheduled = u /\ m1.waiting = {} /\ ActiveNodes(m1) = ready
      /\ m1.reached = reached
  <2>1. m1 \in Scheduler
    BY <1>2, CreateType
  <2>2. m1.scheduled = m.scheduled /\ m1.waiting = m.waiting /\ m1.reached = m.reached
    BY <1>2, <1>3, CreateEffect
  <2>3. ActiveNodes(m1) = ActiveNodes(m) \union ready
    BY <1>2, <1>3, CreateEffect
  <2> QED BY <1>2, <1>4, <2>1, <2>2, <2>3
<1> HIDE DEF m1
<1>8. \A n \in ActiveNodes(m1) : Unscheduled(m1, dl, n) = {}
  BY <1>6, <1>7 DEF Unscheduled
<1>9. ASSUME NEW n \in Nodes \ {Start}, NEW s \in Slots, m1.task[n][s].phase = "ready"
      PROVE  Consumable(dl, n) # {}
  <2>1. n \in ActiveNodes(m1)
    BY <1>9 DEF ActiveNodes
  <2> QED BY <1>7, <1>9, <2>1 DEF ready
<1>10. Gated(m1, dl)
  BY <1>7, <1>8, <1>9 DEF Gated, ready
<1>11. /\ Gated(r, dl) /\ ActiveNodes(r) = ActiveNodes(m1) \union Ripe(m1, dl)
       /\ Fresh(m1, dl) \subseteq PendingNodes(dl)
       /\ Ripe(m1, dl) \subseteq Fresh(m1, dl)
       /\ r.waiting \subseteq PendingNodes(dl)
       /\ r.reached = (reached \/ End \in Fresh(m1, dl))
  <2>1. Gated(r, dl)
    BY <1>5, <1>7, <1>10, RecheckGated
  <2> QED BY <1>5, <1>7, <2>1, RecheckWaiters
<1>12. r.reached \in {reached, reached \/ PendingAt(dl, End) # {}}
  <2>1. End \in Fresh(m1, dl) => PendingAt(dl, End) # {}
    BY <1>11 DEF PendingNodes
  <2> QED BY <1>11, <2>1
<1>13. \A n \in Nodes, s \in Slots : r.task[n][s] \in {NoTask, ReadyTask}
  BY LaunchTask DEF r
<1> QED BY <1>7, <1>11, <1>12, <1>13 DEF r, ready
-----------------------------------------------------------------------------
(* The invariant of one run *)

\* A busy task runs the latest invocation of its node, and a task that awaits
\* after_node has completed it.
TaskOK(n, s) ==
    /\ sched.task[n][s].phase = "busy" =>
          /\ sched.task[n][s].inv = Latest(n) /\ Latest(n) # 0 /\ inv[n][Latest(n)].st = "RUNNING"
          /\ n # Start => \E d \in delivers : d.dst = n /\ d.st = "CONSUMED_PENDING"
    /\ sched.task[n][s].phase = "after" => n \in Done
TaskInv == \A n \in Nodes, s \in Slots : TaskOK(n, s)

\* The running engine holds an instance of every node to be done again.
EngineInv == phase = "running" => Gated(sched, delivers) /\ Undone \subseteq ActiveNodes(sched)

\* Recovery leaves nothing of a completed invocation behind, nor does the engine.
Steady == phase # "idle" => status = "RUNNING" /\ AllPromoted /\ AllSettled

Unstarted == runVer = 0 => phase = "idle" /\ status = "PENDING" /\ Latest(Start) = 0
Unbegun ==
    Latest(Start) = 0 =>
        /\ delivers = {} /\ \A n \in Nodes : Latest(n) = 0
        /\ ActiveNodes(sched) \subseteq {Start} /\ sched.waiting = {}

Settled == (\A d \in delivers : d.st = "CONSUMED_COMPLETED") /\ Undone = {}
Ending == (phase = "ended" /\ final \in {"COMPLETED", "FAILED"}) \/ status \in {"COMPLETED", "FAILED"}
EndSettled == Ending => Settled

JoinInv ==
    /\ Ledger /\ TaskInv /\ EngineInv /\ Steady /\ Unstarted /\ Unbegun /\ EndSettled

\* What the earlier invariants contribute.
Based == /\ FInv /\ Typed /\ RowInv /\ Slotted(sched) /\ WaitInv
         /\ sched.scheduled \subseteq Keys(delivers)

LEMMA PlainFacts ==
    ASSUME Plain, Typed, Slotted(sched), AlongEdges
    PROVE  /\ \A d \in delivers : d.src \in Nodes \ {End} /\ d.dst \in Nodes \ {Start} /\ d.src # External
           /\ \A n \in Nodes : <<End, n>> \notin Edges
           /\ \A n \in Nodes, s \in Slots : sched.task[n][s].phase # "none" =>
                 n \in ActiveNodes(sched) /\ \A y \in Slots \ {s} : sched.task[n][y] = NoTask
           /\ \A n \in Nodes : /\ Misrouted(n) = {} /\ Targets(n) \subseteq Nodes
                               /\ Outputs(n) = Targets(n)
                               /\ \A t \in Targets(n) : <<n, t>> \in Edges /\ t \in Downstream[n]
<1>1. \A d \in delivers : <<d.src, d.dst>> \in Edges /\ d.dst \in Nodes
  BY DEF AlongEdges, Typed, Deliver
<1>2. \A d \in delivers : d.src \in Nodes \ {End} /\ d.dst \in Nodes \ {Start} /\ d.src # External
  <2>1. \A d \in delivers : d.src \in Nodes \ {End} /\ d.dst \in Nodes \ {Start}
    BY <1>1, GraphAssumption
  <2> QED BY <2>1 DEF Plain, ExternalIsNoNode
<1>3. \A n \in Nodes : <<End, n>> \notin Edges
  BY GraphAssumption
<1>4. ASSUME NEW n \in Nodes, NEW s \in Slots, sched.task[n][s].phase # "none"
      PROVE  n \in ActiveNodes(sched) /\ \A y \in Slots \ {s} : sched.task[n][y] = NoTask
  <2>1. s = 1 /\ sched.task[n][2].phase = "none"
    BY <1>4 DEF Plain, Slotted, Slots
  <2>2. \A y \in Slots \ {s} : sched.task[n][y] = NoTask
    BY <2>1 DEF Slotted, Slots
  <2> QED BY <1>4, <2>2 DEF ActiveNodes
<1>5. ASSUME NEW n \in Nodes
      PROVE  /\ Misrouted(n) = {} /\ Targets(n) \subseteq Nodes
             /\ Outputs(n) = Targets(n)
             /\ \A t \in Targets(n) : <<n, t>> \in Edges /\ t \in Downstream[n]
  <2>1. \A t \in Outputs(n) : t \in Nodes /\ <<n, t>> \in Edges
    BY <1>1 DEF Outputs
  <2>2. \A t \in Outputs(n) : t \in Downstream[n]
    BY <1>5, <2>1, DownEdge
  <2>3. n \notin Outputs(n)
    BY <1>5, <2>2 DEF Plain, Acyclic
  <2> QED BY <2>1, <2>2, <2>3 DEF Targets, Misrouted
<1> QED BY <1>2, <1>3, <1>4, <1>5

LEMMA MarkRows ==
    ASSUME NEW dl \in SUBSET Deliver, NEW n, NEW k \in Nat
    PROVE  /\ \A e \in MarkConsumed(dl, n, k) :
                 \/ e.dst = n /\ e.st = "CONSUMED_PENDING"
                 \/ e \in dl /\ ~(e.dst = n /\ e.st \in {"PENDING", "CONSUMED_PENDING"})
           /\ \A d \in dl : ~(d.dst = n /\ d.st \in {"PENDING", "CONSUMED_PENDING"}) =>
                 d \in MarkConsumed(dl, n, k)
           /\ Consumable(dl, n) # {} =>
                 \E e \in MarkConsumed(dl, n, k) : e.dst = n /\ e.st = "CONSUMED_PENDING"
<1>1. ASSUME NEW e \in MarkConsumed(dl, n, k)
      PROVE  \/ e.dst = n /\ e.st = "CONSUMED_PENDING"
             \/ e \in dl /\ ~(e.dst = n /\ e.st \in {"PENDING", "CONSUMED_PENDING"})
  <2>1. PICK d \in dl :
              /\ Same(d, e)
              /\ \/ d.dst = n /\ d.st \in {"PENDING", "CONSUMED_PENDING"}
                    /\ e.by = k /\ e.st = "CONSUMED_PENDING"
                 \/ ~(d.dst = n /\ d.st \in {"PENDING", "CONSUMED_PENDING"}) /\ e = d
    BY MarkOrigin
  <2> QED BY <2>1 DEF Same
<1>2. \A d \in dl : ~(d.dst = n /\ d.st \in {"PENDING", "CONSUMED_PENDING"}) => d \in MarkConsumed(dl, n, k)
  BY DEF MarkConsumed, Consumable
<1>3. ASSUME NEW d \in Consumable(dl, n)
      PROVE  \E e \in MarkConsumed(dl, n, k) : e.dst = n /\ e.st = "CONSUMED_PENDING"
  <2> DEFINE e == [d EXCEPT !.st = "CONSUMED_PENDING", !.by = k]
  <2>1. e \in MarkConsumed(dl, n, k)
    BY <1>3 DEF MarkConsumed, Consumable
  <2>2. e.dst = n /\ e.st = "CONSUMED_PENDING"
    BY <1>3 DEF Consumable, Deliver
  <2> QED BY <2>1, <2>2
<1> QED BY <1>1, <1>2, <1>3

LEMMA SetTaskActive ==
    ASSUME NEW m \in Scheduler, NEW n \in Nodes, NEW s \in Slots, NEW t,
           \A y \in Slots \ {s} : m.task[n][y] = NoTask
    PROVE  ActiveNodes(SetTask(m, n, s, t)) =
              IF t.phase = "none" THEN ActiveNodes(m) \ {n} ELSE ActiveNodes(m) \union {n}
<1> DEFINE r == SetTask(m, n, s, t)
<1>1. r.task[n][s] = t /\ \A x \in Nodes, y \in Slots : x # n \/ y # s => r.task[x][y] = m.task[x][y]
  BY SetTaskTask
<1>2. \A y \in Slots \ {s} : r.task[n][y].phase = "none"
  BY <1>1 DEF NoTask
<1> HIDE DEF r
<1>3. n \in ActiveNodes(r) <=> t.phase # "none"
  BY <1>1, <1>2 DEF ActiveNodes
<1>4. \A x \in Nodes : x # n => (x \in ActiveNodes(r) <=> x \in ActiveNodes(m))
  BY <1>1 DEF ActiveNodes
<1>5. ActiveNodes(r) \subseteq Nodes /\ ActiveNodes(m) \subseteq Nodes
  BY DEF ActiveNodes
<1> QED BY <1>3, <1>4, <1>5 DEF r

\* The tasks outside X go on, end or are new, and keep their records and inputs.
LEMMA TaskInvKept ==
    ASSUME TaskInv, NEW X,
           \A x \in Nodes \ X, y \in Slots : sched'.task[x][y].phase \in {"busy", "after"} =>
              sched'.task[x][y] = sched.task[x][y],
           \A x \in Nodes \ X : inv'[x] = inv[x],
           \A x \in Nodes \ X : (\E d \in delivers : d.dst = x /\ d.st = "CONSUMED_PENDING") =>
              \E d \in delivers' : d.dst = x /\ d.st = "CONSUMED_PENDING",
           \A x \in X, y \in Slots : x \in Nodes => TaskOK(x, y)'
    PROVE  TaskInv'
<1>1. \A x \in Nodes \ X : Latest(x)' = Latest(x) /\ (x \in Done => x \in Done')
  BY DEF Latest, LatestStatus, Done
<1>2. ASSUME NEW x \in Nodes \ X, NEW y \in Slots PROVE TaskOK(x, y)'
  <2>1. TaskOK(x, y)
    BY DEF TaskInv
  <2>2. CASE sched'.task[x][y].phase = "busy"
    <3>1. sched'.task[x][y] = sched.task[x][y] /\ sched.task[x][y].phase = "busy"
      BY <2>2
    <3> QED BY <1>1, <2>1, <2>2, <3>1 DEF TaskOK
  <2>3. CASE sched'.task[x][y].phase = "after"
    <3>1. sched'.task[x][y] = sched.task[x][y] /\ sched.task[x][y].phase = "after"
      BY <2>3
    <3> QED BY <1>1, <2>1, <2>3, <3>1 DEF TaskOK
  <2> QED BY <2>2, <2>3 DEF TaskOK
<1> QED BY <1>2 DEF TaskInv

\* In the running engine whoever is ready may begin.
LEMMA ReadyMayBegin ==
    ASSUME Plain, Based, JoinInv, phase = "running", NEW n \in Nodes, NEW s \in Slots,
           sched.task[n][s].phase = "ready"
    PROVE  /\ MayBegin(n) /\ n \in ActiveNodes(sched)
           /\ Fed = PendingNodes(delivers)
<1>1. n \in ActiveNodes(sched)
  BY DEF ActiveNodes
<1>2. /\ Gated(sched, delivers) /\ Undone \subseteq ActiveNodes(sched)
      /\ AllPromoted /\ AllSettled
  BY DEF JoinInv, EngineInv, Steady
<1>3. Fed = PendingNodes(delivers)
  <2>1. \A d \in delivers : Feeds(d) <=> d.st = "PENDING"
    BY <1>2 DEF Feeds, AllPromoted
  <2>2. \A d \in delivers : d.dst \in Nodes
    BY DEF Based, Typed, Deliver
  <2> QED BY <2>1, <2>2 DEF Fed, PendingNodes, PendingAt
<1>4. MayBegin(n)
  BY <1>1, <1>2, <1>3 DEF MayBegin, Gated, AllSettled
<1> QED BY <1>1, <1>3, <1>4

\* While nothing began nobody but Start has an instance, and it is not busy.
LEMMA StartBegan ==
    ASSUME Typed, JoinInv, NEW n \in Nodes, NEW s \in Slots, sched.task[n][s].phase \in {"busy", "after"}
    PROVE  Latest(Start) # 0
<1>1. ASSUME Latest(Start) = 0 PROVE FALSE
  <2>1. n \in ActiveNodes(sched) /\ n = Start
    BY <1>1 DEF JoinInv, Unbegun, ActiveNodes
  <2>2. TaskOK(n, s)
    BY DEF JoinInv, TaskInv
  <2>3. sched.task[n][s].phase = "after"
    BY <1>1, <2>1, <2>2 DEF TaskOK
  <2>4. n \in Done
    BY <2>2, <2>3 DEF TaskOK
  <2> QED BY <1>1, <2>1, <2>4, StatusOf
<1> QED BY <1>1
-----------------------------------------------------------------------------
(* The steps of a run *)

\* Steps of a live engine.
LEMMA AliveJoin ==
    ASSUME JoinInv, phase \in {"running", "draining"},
           UNCHANGED <<status, runVer, phase, final>>, Unbegun',
           Ledger', TaskInv', EngineInv', AllPromoted', AllSettled'
    PROVE  JoinInv'
<1>1. status = "RUNNING" /\ runVer # 0
  BY DEF JoinInv, Steady, Unstarted
<1>2. Steady' /\ Unstarted' /\ EndSettled'
  BY <1>1 DEF Steady, Unstarted, EndSettled, Ending, JoinInv
<1> QED BY <1>2 DEF JoinInv

LEMMA BeginEffect ==
    ASSUME Plain, Based, Typed', JoinInv, NEW n \in Nodes, NEW s \in Slots, Begin(n, s)
    PROVE  /\ phase = "running" /\ UNCHANGED <<status, runVer, phase, drain, final, starts>>
           /\ MayBegin(n) /\ n \in ActiveNodes(sched) /\ Fed = PendingNodes(delivers)
           /\ Ledger'
           /\ Undone' = Undone \union {n} /\ Done' = Done \ {n}
           /\ \A x \in Nodes : x # n => inv'[x] = inv[x] /\ Latest(x)' = Latest(x)
           /\ Latest(n)' = Latest(n) + 1 /\ inv'[n][Latest(n) + 1].st = "RUNNING"
           /\ \A e \in delivers' :
                 \/ e.dst = n /\ e.st = "CONSUMED_PENDING"
                 \/ e \in delivers /\ ~(e.dst = n /\ e.st \in {"PENDING", "CONSUMED_PENDING"})
           /\ \A d \in delivers : ~(d.dst = n /\ d.st \in {"PENDING", "CONSUMED_PENDING"}) => d \in delivers'
           /\ Consumable(delivers, n) # {} => \E e \in delivers' : e.dst = n /\ e.st = "CONSUMED_PENDING"
           /\ \A y \in Slots \ {s} : sched.task[n][y] = NoTask
           /\ sched'.task[n][s] = [phase |-> "busy", inv |-> Latest(n) + 1]
           /\ \A x \in Nodes, y \in Slots : x # n \/ y # s => sched'.task[x][y] = sched.task[x][y]
           /\ sched'.waiting = sched.waiting /\ sched'.scheduled = sched.scheduled
           /\ sched'.reached = sched.reached
           /\ ActiveNodes(sched') = ActiveNodes(sched)
           /\ PendingNodes(delivers') = PendingNodes(delivers) \ {n}
<1> DEFINE k == Latest(n) + 1
           b == [phase |-> "busy", inv |-> k]
<1>1. /\ sched.task[n][s].phase = "ready" /\ phase = "running"
      /\ inv' = BeginInvocation(n) /\ delivers' = MarkConsumed(delivers, n, k)
      /\ sched' = SetTask(sched, n, s, b)
      /\ UNCHANGED <<status, runVer, phase, drain, final, starts>>
  BY DEF Begin, TaskIs, Startable
<1>2. MayBegin(n) /\ n \in ActiveNodes(sched) /\ Fed = PendingNodes(delivers)
  BY <1>1, ReadyMayBegin
<1>3. Typed /\ TakenByRecord /\ Acyclic /\ Ledger /\ AlongEdges /\ k \in Nat
  BY DEF Based, RowInv, JoinInv, Plain, Ledger, Typed
<1>4. Ledger'
  BY <1>1, <1>2, <1>3, BeginLedger
<1>5. /\ Undone' = Undone \union {n} /\ Done' = Done \ {n}
      /\ \A x \in Nodes : x # n => inv'[x] = inv[x] /\ Latest(x)' = Latest(x)
      /\ Latest(n)' = k /\ inv'[n][k].st = "RUNNING"
  BY <1>1, <1>3, BeginStatus
<1>6. /\ \A e \in delivers' :
            \/ e.dst = n /\ e.st = "CONSUMED_PENDING"
            \/ e \in delivers /\ ~(e.dst = n /\ e.st \in {"PENDING", "CONSUMED_PENDING"})
      /\ \A d \in delivers : ~(d.dst = n /\ d.st \in {"PENDING", "CONSUMED_PENDING"}) => d \in delivers'
      /\ Consumable(delivers, n) # {} => \E e \in delivers' : e.dst = n /\ e.st = "CONSUMED_PENDING"
  <2> HIDE DEF k
  <2> QED BY <1>1, <1>3, MarkRows DEF Typed
<1>7. /\ \A y \in Slots \ {s} : sched.task[n][y] = NoTask
      /\ Slotted(sched) /\ sched \in Scheduler
  BY <1>1, <1>3, PlainFacts DEF Based, Typed
<1>8. /\ sched'.task[n][s] = b
      /\ \A x \in Nodes, y \in Slots : x # n \/ y # s => sched'.task[x][y] = sched.task[x][y]
      /\ sched'.waiting = sched.waiting /\ sched'.scheduled = sched.scheduled
      /\ sched'.reached = sched.reached
  <2> HIDE DEF b
  <2> QED BY <1>1, <1>7, SetTaskTask, SetTaskEffect
<1>9. ActiveNodes(sched') = ActiveNodes(sched)
  <2>1. b.phase # "none"
    OBVIOUS
  <2>2. n \in ActiveNodes(sched) /\ sched' = SetTask(sched, n, s, b)
    BY <1>1, <1>2
  <2> HIDE DEF b
  <2>3. ActiveNodes(SetTask(sched, n, s, b)) = ActiveNodes(sched) \union {n}
    BY <1>7, <2>1, SetTaskActive
  <2> QED BY <2>2, <2>3
<1>10. PendingNodes(delivers') = PendingNodes(delivers) \ {n}
  BY <1>6 DEF PendingNodes, PendingAt
<1> QED BY <1>1, <1>2, <1>4, <1>5, <1>6, <1>7, <1>8, <1>9, <1>10

LEMMA BeginJoin ==
    ASSUME Plain, Based, Typed', JoinInv, NEW n \in Nodes, NEW s \in Slots, Begin(n, s)
    PROVE  JoinInv'
<1> DEFINE k == Latest(n) + 1
           b == [phase |-> "busy", inv |-> k]
<1>1. phase = "running" /\ UNCHANGED <<status, runVer, phase, drain, final, starts>>
  BY BeginEffect
<1>2. MayBegin(n) /\ n \in ActiveNodes(sched) /\ Fed = PendingNodes(delivers)
  BY BeginEffect
<1>3. Typed /\ k \in Nat
  BY DEF Based, Typed
<1>4. Ledger'
  BY BeginEffect
<1>5. /\ Undone' = Undone \union {n} /\ Done' = Done \ {n}
      /\ \A x \in Nodes : x # n => inv'[x] = inv[x] /\ Latest(x)' = Latest(x)
      /\ Latest(n)' = k /\ inv'[n][k].st = "RUNNING"
  BY BeginEffect
<1>6. /\ \A e \in delivers' :
            \/ e.dst = n /\ e.st = "CONSUMED_PENDING"
            \/ e \in delivers /\ ~(e.dst = n /\ e.st \in {"PENDING", "CONSUMED_PENDING"})
      /\ \A d \in delivers : ~(d.dst = n /\ d.st \in {"PENDING", "CONSUMED_PENDING"}) => d \in delivers'
      /\ Consumable(delivers, n) # {} => \E e \in delivers' : e.dst = n /\ e.st = "CONSUMED_PENDING"
  BY BeginEffect
<1>7. \A y \in Slots \ {s} : sched.task[n][y] = NoTask
  <2>1. Slotted(sched) /\ AlongEdges /\ sched.task[n][s].phase = "ready"
    BY DEF Based, JoinInv, Ledger, Begin, TaskIs, Startable
  <2> QED BY <1>3, <2>1, PlainFacts
<1>8. /\ sched'.task[n][s] = b
      /\ \A x \in Nodes, y \in Slots : x # n \/ y # s => sched'.task[x][y] = sched.task[x][y]
      /\ sched'.waiting = sched.waiting /\ sched'.scheduled = sched.scheduled
  BY BeginEffect
<1>9. /\ ActiveNodes(sched') = ActiveNodes(sched)
      /\ PendingNodes(delivers') = PendingNodes(delivers) \ {n}
  BY BeginEffect
<1>10. TaskInv'
  <2>1. ASSUME NEW y \in Slots PROVE TaskOK(n, y)'
    <3>1. CASE y = s
      <4>1. n # Start => \E d \in delivers' : d.dst = n /\ d.st = "CONSUMED_PENDING"
        BY <1>2, <1>6 DEF MayBegin
      <4>2. sched'.task[n][y].phase = "busy" /\ sched'.task[n][y].inv = k
        BY <1>8, <3>1
      <4>3. k # 0
        BY <1>3 DEF Typed
      <4> QED BY <1>5, <4>1, <4>2, <4>3 DEF TaskOK
    <3>2. CASE y # s
      BY <1>7, <1>8, <3>2 DEF TaskOK, NoTask
    <3> QED BY <3>1, <3>2
  <2> DEFINE X == {n}
  <2>2. \A x \in Nodes \ X, y \in Slots : sched'.task[x][y] = sched.task[x][y]
    BY <1>8
  <2>3. \A x \in Nodes \ X : inv'[x] = inv[x]
    BY <1>5
  <2>4. \A x \in Nodes \ X : (\E d \in delivers : d.dst = x /\ d.st = "CONSUMED_PENDING") =>
              \E d \in delivers' : d.dst = x /\ d.st = "CONSUMED_PENDING"
    BY <1>6
  <2>5. \A x \in X, y \in Slots : x \in Nodes => TaskOK(x, y)'
    BY <2>1
  <2>6. TaskInv
    BY DEF JoinInv
  <2> HIDE DEF X
  <2> QED BY <2>2, <2>3, <2>4, <2>5, <2>6, TaskInvKept
<1>11. Gated(sched, delivers) /\ Undone \subseteq ActiveNodes(sched) /\ AllPromoted /\ AllSettled
  BY <1>1 DEF JoinInv, EngineInv, Steady
<1>12. AllPromoted' /\ AllSettled'
  BY <1>5, <1>6, <1>11 DEF AllPromoted, AllSettled
<1>13. Gated(sched', delivers')
  <2>2. \A x \in Nodes : Unscheduled(sched', delivers', x) \subseteq Unscheduled(sched, delivers, x)
    BY <1>6, <1>8 DEF Unscheduled, PendingAt
  <2>3. \A x \in Nodes \ {n} : Consumable(delivers, x) # {} => Consumable(delivers', x) # {}
    BY <1>6 DEF Consumable
  <2>4. \A y \in Slots : sched'.task[n][y].phase # "ready"
    BY <1>7, <1>8 DEF NoTask
  <2>5. n \notin sched.waiting
    BY <1>2, <1>11 DEF Gated
  <2>6. ActiveNodes(sched) \subseteq Nodes
    BY DEF ActiveNodes
  <2>7. \A x \in Nodes \ {Start}, y \in Slots : sched'.task[x][y].phase = "ready" => Consumable(delivers', x) # {}
    BY <1>8, <1>11, <2>3, <2>4 DEF Gated
  <2> QED BY <1>8, <1>9, <1>11, <2>2, <2>5, <2>6, <2>7 DEF Gated
<1>14. EngineInv'
  BY <1>2, <1>5, <1>9, <1>11, <1>13 DEF EngineInv
<1>15. Latest(Start)' # 0
  <2>1. CASE n = Start
    BY <1>3, <1>5, <2>1 DEF Typed
  <2>2. CASE n # Start
    <3>1. Latest(Start) # 0
      BY <1>2, <2>2 DEF JoinInv, Unbegun
    <3> QED BY <1>5, <2>2, <3>1, GraphAssumption
  <2> QED BY <2>1, <2>2
<1> QED BY <1>1, <1>4, <1>10, <1>12, <1>14, <1>15, AliveJoin DEF Unbegun

LEMMA CompleteEffect ==
    ASSUME Plain, Based, Typed', JoinInv, NEW n \in Nodes, NEW s \in Slots, Complete(n, s)
    PROVE  /\ phase \in {"running", "draining"} /\ UNCHANGED <<status, runVer, phase, drain, final, starts>>
           /\ Ledger' /\ n \in Undone
           /\ Undone' = Undone \ {n} /\ Done' = Done \union {n}
           /\ \A x \in Nodes : x # n => inv'[x] = inv[x]
           /\ \A x \in Nodes : Latest(x)' = Latest(x)
           /\ \A e \in delivers' : \E d \in delivers :
                 /\ Same(d, e) /\ e.by = d.by
                 /\ \/ d.src = n /\ d.st = "STAGED" /\ e.st = "PENDING"
                    \/ d.dst = n /\ d.st = "CONSUMED_PENDING" /\ e.st = "CONSUMED_COMPLETED"
                    \/ /\ e.st = d.st /\ ~(d.dst = n /\ d.st = "CONSUMED_PENDING")
                       /\ ~(d.src = n /\ d.st = "STAGED" /\ d.dst \in Nodes)
           /\ \A d \in delivers : \E e \in delivers' :
                 /\ Same(d, e) /\ e.by = d.by
                 /\ d.st = "CONSUMED_PENDING" /\ d.dst # n => e.st = "CONSUMED_PENDING"
                 /\ d.st = "PENDING" => e.st = "PENDING"
                 /\ d.st = "STAGED" /\ d.src = n => e.st = "PENDING"
           /\ \A y \in Slots \ {s} : sched.task[n][y] = NoTask
           /\ n \in ActiveNodes(sched)
           /\ Targets(n) \subseteq Nodes /\ Outputs(n) = Targets(n)
           /\ \A x \in Targets(n) : <<n, x>> \in Edges /\ x \in Downstream[n]
           /\ sched'.task[n][s].phase = "after"
           /\ \A x \in Nodes, y \in Slots : x # n \/ y # s => sched'.task[x][y] = sched.task[x][y]
           /\ sched'.waiting = sched.waiting \union Targets(n) /\ sched'.scheduled = sched.scheduled
           /\ sched'.reached = (sched.reached \/ End \in Targets(n))
           /\ ActiveNodes(sched') = ActiveNodes(sched)
           /\ PendingNodes(delivers') = PendingNodes(delivers) \union Targets(n)
           /\ Latest(Start)' # 0
           /\ \A x \in Fed' : x \in Fed \/ <<n, x>> \in Edges
<1> DEFINE t == sched.task[n][s]
           a == [t EXCEPT !.phase = "after"]
           m == Dispatch(sched, Targets(n))
           k == Latest(n)
<1>1. /\ t.phase = "busy" /\ phase \in {"running", "draining"}
      /\ inv' = CloseInvocation(n, t.inv, "COMPLETED")
      /\ delivers' = PromoteConsumed(PromoteStaged(delivers, {n}, Nodes), {n})
      /\ sched' = SetTask(m, n, s, a)
      /\ UNCHANGED <<status, runVer, phase, drain, final, starts>>
  BY DEF Complete, TaskIs, Alive
<1>2. /\ Typed /\ TakenByRecord /\ Acyclic /\ Ledger /\ AlongEdges /\ OnReceive = {}
      /\ Slotted(sched) /\ sched \in Scheduler /\ TaskOK(n, s) /\ TaskInv /\ BusyHasRecord
  BY DEF Based, RowInv, JoinInv, Plain, Ledger, Typed, TaskInv
<1>3. /\ t.inv = k /\ k # 0 /\ inv[n][k].st = "RUNNING"
      /\ n # Start => \E d \in delivers : d.dst = n /\ d.st = "CONSUMED_PENDING"
      /\ \A d \in delivers : d.dst = n /\ d.st = "CONSUMED_PENDING" => d.by = k
  BY <1>1, <1>2 DEF TaskOK, BusyHasRecord
<1>4. Ledger' /\ \A x \in Fed' : x \in Fed \/ <<n, x>> \in Edges
  <2> DEFINE dsts == Nodes
             ns == {n}
  <2>1. ns \in SUBSET {n} /\ delivers' = PromoteConsumed(PromoteStaged(delivers, {n}, dsts), ns)
    BY <1>1
  <2> HIDE DEF dsts, ns
  <2>2. Ledger'
    BY <1>1, <1>2, <1>3, <2>1, CompleteLedger
  <2>3. \A x \in Fed' : x \in Fed \/ <<n, x>> \in Edges
    BY <1>1, <1>2, <1>3, <2>1, CompleteFed
  <2> QED BY <2>2, <2>3
<1>5. /\ Undone' = Undone \ {n} /\ Done' = Done \union {n} /\ n \in Undone
      /\ \A x \in Nodes : x # n => inv'[x] = inv[x]
      /\ \A x \in Nodes : Latest(x)' = Latest(x)
  BY <1>1, <1>2, <1>3, CloseStatus
<1>6. \A e \in delivers' : \E d \in delivers :
         /\ Same(d, e) /\ e.by = d.by
         /\ \/ d.src = n /\ d.st = "STAGED" /\ e.st = "PENDING"
            \/ d.dst = n /\ d.st = "CONSUMED_PENDING" /\ e.st = "CONSUMED_COMPLETED"
            \/ /\ e.st = d.st /\ ~(d.dst = n /\ d.st = "CONSUMED_PENDING")
               /\ ~(d.src = n /\ d.st = "STAGED" /\ d.dst \in Nodes)
  <2> DEFINE dsts == Nodes
             ns == {n}
  <2>1. delivers' = PromoteConsumed(PromoteStaged(delivers, ns, dsts), ns)
    BY <1>1
  <2>2. \A x : x \in ns <=> x = n
    OBVIOUS
  <2> HIDE DEF dsts, ns
  <2>3. ASSUME NEW e \in delivers'
        PROVE  \E d \in delivers :
         /\ Same(d, e) /\ e.by = d.by
         /\ \/ d.src \in ns /\ d.st = "STAGED" /\ e.st = "PENDING"
            \/ d.dst \in ns /\ d.st = "CONSUMED_PENDING" /\ e.st = "CONSUMED_COMPLETED"
            \/ /\ e.st = d.st /\ ~(d.dst \in ns /\ d.st = "CONSUMED_PENDING")
               /\ ~(d.src \in ns /\ d.st = "STAGED" /\ d.dst \in dsts)
    <3>1. e \in PromoteConsumed(PromoteStaged(delivers, ns, dsts), ns) /\ delivers \in SUBSET Deliver
      BY <1>2, <2>1, <2>3 DEF Typed
    <3> QED BY <3>1, PromotedOrigin
  <2> QED BY <2>2, <2>3 DEF dsts
<1>7. \A d \in delivers : \E e \in delivers' :
         /\ Same(d, e) /\ e.by = d.by
         /\ d.st = "CONSUMED_PENDING" /\ d.dst # n => e.st = "CONSUMED_PENDING"
         /\ d.st = "PENDING" => e.st = "PENDING"
         /\ d.st = "STAGED" /\ d.src = n => e.st = "PENDING"
  <2> DEFINE dsts == Nodes
             ns == {n}
  <2>1. delivers' = PromoteConsumed(PromoteStaged(delivers, ns, dsts), ns)
    BY <1>1
  <2>2. \A x : x \in ns <=> x = n
    OBVIOUS
  <2>3. \A d \in delivers : d.dst \in dsts
    BY <1>2 DEF Typed, Deliver
  <2> HIDE DEF dsts, ns
  <2>4. ASSUME NEW d \in delivers
        PROVE  \E e \in delivers' :
                  /\ Same(d, e) /\ e.by = d.by
                  /\ d.st = "CONSUMED_PENDING" /\ d.dst \notin ns => e.st = "CONSUMED_PENDING"
                  /\ d.st = "PENDING" => e.st = "PENDING"
                  /\ d.st = "STAGED" /\ d.src \in ns /\ d.dst \in dsts => e.st = "PENDING"
    BY <1>2, <2>1, PromotedImage DEF Typed
  <2> QED BY <2>2, <2>3, <2>4
<1>8. /\ \A y \in Slots \ {s} : sched.task[n][y] = NoTask
      /\ n \in ActiveNodes(sched)
      /\ Targets(n) \subseteq Nodes /\ Outputs(n) = Targets(n)
      /\ \A x \in Targets(n) : <<n, x>> \in Edges /\ x \in Downstream[n]
  BY <1>1, <1>2, PlainFacts
<1>9. /\ m \in Scheduler /\ m.task = sched.task /\ m.scheduled = sched.scheduled
      /\ m.waiting = sched.waiting \union Targets(n)
      /\ m.reached = (sched.reached \/ End \in Targets(n))
  BY <1>2, <1>8, DispatchType, DispatchEffect
<1> HIDE DEF m
<1>10. /\ sched'.task[n][s] = a
       /\ \A x \in Nodes, y \in Slots : x # n \/ y # s => sched'.task[x][y] = sched.task[x][y]
       /\ sched'.waiting = sched.waiting \union Targets(n) /\ sched'.scheduled = sched.scheduled
       /\ sched'.reached = (sched.reached \/ End \in Targets(n))
  <2> HIDE DEF a
  <2> QED BY <1>1, <1>9, SetTaskTask, SetTaskEffect
<1>11. a.phase = "after"
  BY <1>2 DEF Scheduler
<1>12. ActiveNodes(sched') = ActiveNodes(sched)
  <2>1. ActiveNodes(m) = ActiveNodes(sched) /\ \A y \in Slots \ {s} : m.task[n][y] = NoTask
    BY <1>8, <1>9 DEF ActiveNodes
  <2> HIDE DEF a
  <2>2. ActiveNodes(SetTask(m, n, s, a)) = ActiveNodes(m) \union {n}
    BY <1>9, <1>11, <2>1, SetTaskActive
  <2> QED BY <1>1, <1>8, <2>1, <2>2
<1>13. PendingNodes(delivers') = PendingNodes(delivers) \union Targets(n)
  <2>1. ASSUME NEW x \in PendingNodes(delivers'), x \notin PendingNodes(delivers) PROVE x \in Targets(n)
    <3>1. PICK e \in delivers' : e.dst = x /\ e.st = "PENDING"
      BY <2>1 DEF PendingNodes, PendingAt
    <3>2. PICK d \in delivers : /\ Same(d, e)
                                /\ (d.src = n /\ d.st = "STAGED") \/ d.st = "PENDING"
      BY <1>6, <3>1
    <3>3. d.st # "PENDING"
      BY <2>1, <3>1, <3>2 DEF PendingNodes, PendingAt, Same
    <3>4. x \in Outputs(n)
      BY <3>1, <3>2, <3>3 DEF Outputs, Same
    <3> QED BY <1>8, <3>4
  <2>2. PendingNodes(delivers) \subseteq PendingNodes(delivers')
    BY <1>7 DEF PendingNodes, PendingAt, Same
  <2>3. ASSUME NEW x \in Targets(n) PROVE x \in PendingNodes(delivers')
    <3>1. PICK d \in delivers : d.dst = x /\ d.src = n /\ d.st = "STAGED"
      BY <1>8, <2>3 DEF Outputs
    <3>2. PICK e \in delivers' : Same(d, e) /\ e.st = "PENDING"
      BY <1>7, <3>1
    <3> QED BY <1>8, <2>3, <3>1, <3>2 DEF PendingNodes, PendingAt, Same
  <2> QED BY <2>1, <2>2, <2>3
<1>14. Latest(Start)' # 0
  BY <1>1, <1>2, <1>5, StartBegan, GraphAssumption
<1> QED BY <1>1, <1>4, <1>5, <1>6, <1>7, <1>8, <1>10, <1>11, <1>12, <1>13, <1>14

LEMMA CompleteJoin ==
    ASSUME Plain, Based, Typed', JoinInv, NEW n \in Nodes, NEW s \in Slots, Complete(n, s)
    PROVE  JoinInv'
<1>1. /\ phase \in {"running", "draining"}
      /\ UNCHANGED <<status, runVer, phase, drain, final, starts>>
  BY CompleteEffect
<1>2. Typed /\ TaskInv
  BY DEF Based, JoinInv
<1>4. Ledger'
  BY CompleteEffect
<1>5. /\ Undone' = Undone \ {n} /\ Done' = Done \union {n}
      /\ \A x \in Nodes : x # n => inv'[x] = inv[x]
      /\ \A x \in Nodes : Latest(x)' = Latest(x)
  BY CompleteEffect
<1>6. \A e \in delivers' : \E d \in delivers :
         /\ Same(d, e) /\ e.by = d.by
         /\ \/ d.src = n /\ d.st = "STAGED" /\ e.st = "PENDING"
            \/ d.dst = n /\ d.st = "CONSUMED_PENDING" /\ e.st = "CONSUMED_COMPLETED"
            \/ /\ e.st = d.st /\ ~(d.dst = n /\ d.st = "CONSUMED_PENDING")
               /\ ~(d.src = n /\ d.st = "STAGED" /\ d.dst \in Nodes)
  BY CompleteEffect
<1>7. \A d \in delivers : \E e \in delivers' :
         /\ Same(d, e) /\ e.by = d.by
         /\ d.st = "CONSUMED_PENDING" /\ d.dst # n => e.st = "CONSUMED_PENDING"
         /\ d.st = "PENDING" => e.st = "PENDING"
         /\ d.st = "STAGED" /\ d.src = n => e.st = "PENDING"
  BY CompleteEffect
<1>8. /\ \A y \in Slots \ {s} : sched.task[n][y] = NoTask
      /\ n \in ActiveNodes(sched)
      /\ Targets(n) \subseteq Nodes /\ Outputs(n) = Targets(n)
      /\ \A x \in Targets(n) : <<n, x>> \in Edges /\ x \in Downstream[n]
  BY CompleteEffect
<1>10. /\ \A x \in Nodes, y \in Slots : x # n \/ y # s => sched'.task[x][y] = sched.task[x][y]
       /\ sched'.waiting = sched.waiting \union Targets(n) /\ sched'.scheduled = sched.scheduled
  BY CompleteEffect
<1>11. sched'.task[n][s].phase = "after"
  BY CompleteEffect
<1>12. /\ ActiveNodes(sched') = ActiveNodes(sched)
       /\ PendingNodes(delivers') = PendingNodes(delivers) \union Targets(n)
  BY CompleteEffect
<1>13. TaskInv'
  <2>1. ASSUME NEW y \in Slots PROVE TaskOK(n, y)'
    <3>1. CASE y = s
      BY <1>5, <1>10, <1>11, <3>1 DEF TaskOK
    <3>2. CASE y # s
      BY <1>8, <1>10, <3>2 DEF TaskOK, NoTask
    <3> QED BY <3>1, <3>2
  <2> DEFINE X == {n}
  <2>2. \A x \in Nodes \ X, y \in Slots : sched'.task[x][y] = sched.task[x][y]
    BY <1>10
  <2>3. \A x \in Nodes \ X : inv'[x] = inv[x]
    BY <1>5
  <2>4. \A x \in Nodes \ X : (\E d \in delivers : d.dst = x /\ d.st = "CONSUMED_PENDING") =>
              \E d \in delivers' : d.dst = x /\ d.st = "CONSUMED_PENDING"
    BY <1>7 DEF Same
  <2>5. \A x \in X, y \in Slots : x \in Nodes => TaskOK(x, y)'
    BY <2>1
  <2> HIDE DEF X
  <2> QED BY <1>2, <2>2, <2>3, <2>4, <2>5, TaskInvKept
<1>14. AllPromoted /\ AllSettled
  BY <1>1 DEF JoinInv, Steady
<1>15. AllPromoted' /\ AllSettled'
  <2>1. \A d \in delivers : d.dst \in Nodes
    BY <1>2 DEF Typed, Deliver
  <2>2. AllPromoted'
    BY <1>5, <1>6, <1>14, <2>1 DEF AllPromoted, Same
  <2>3. AllSettled'
    BY <1>5, <1>6, <1>14 DEF AllSettled, Same
  <2> QED BY <2>2, <2>3
<1>16. ASSUME phase = "running" PROVE Gated(sched', delivers') /\ Undone' \subseteq ActiveNodes(sched')
  <2>1. Gated(sched, delivers) /\ Undone \subseteq ActiveNodes(sched)
    BY <1>16 DEF JoinInv, EngineInv
  <2>3. \A x \in Targets(n) : x \notin ActiveNodes(sched)
    BY <1>8, <2>1 DEF Gated
  <2>4. \A x \in Targets(n), b \in ActiveNodes(sched) : b \notin Downstream[x]
    BY <1>8, <2>1, DownTrans DEF Gated
  <2>5. ASSUME NEW x \in ActiveNodes(sched) PROVE Unscheduled(sched', delivers', x) = {}
    <3>1. Unscheduled(sched, delivers, x) = {} /\ x \notin Targets(n)
      BY <2>1, <2>3, <2>5 DEF Gated
    <3>2. ASSUME NEW e \in PendingAt(delivers', x) PROVE Key(e) \in sched.scheduled
      <4>1. PICK d \in delivers : /\ Same(d, e)
                                  /\ (d.src = n /\ d.st = "STAGED") \/ d.st = "PENDING"
        BY <1>6, <3>2 DEF PendingAt
      <4>2. d.dst = x /\ Key(d) = Key(e)
        BY <3>2, <4>1 DEF PendingAt, Same, Key
      <4>3. d.st = "PENDING"
        BY <1>8, <3>1, <4>1, <4>2 DEF Outputs
      <4> QED BY <3>1, <4>2, <4>3 DEF Unscheduled, PendingAt
    <3> QED BY <1>10, <3>2 DEF Unscheduled
  <2>6. ASSUME NEW x \in Nodes \ {Start}, NEW y \in Slots, sched'.task[x][y].phase = "ready"
        PROVE  Consumable(delivers', x) # {}
    <3>1. ASSUME x = n PROVE FALSE
      <4>1. CASE y = s
        BY <1>10, <1>11, <2>6, <3>1, <4>1
      <4>2. CASE y # s
        <5>1. sched'.task[n][y] = NoTask
          BY <1>8, <1>10, <4>2
        <5> QED BY <2>6, <3>1, <5>1 DEF NoTask
      <4> QED BY <4>1, <4>2
    <3>2. sched.task[x][y].phase = "ready"
      BY <1>10, <2>6, <3>1
    <3>3. PICK d \in delivers : d.dst = x /\ d.st \in {"PENDING", "CONSUMED_PENDING"}
      BY <2>1, <3>2 DEF Gated, Consumable
    <3> QED BY <1>7, <3>1, <3>3 DEF Consumable, Same
  <2>7. Gated(sched', delivers')
    BY <1>10, <1>12, <2>1, <2>3, <2>4, <2>5, <2>6 DEF Gated
  <2> QED BY <1>5, <1>12, <2>1, <2>7
<1>17. EngineInv'
  BY <1>1, <1>16 DEF EngineInv
<1>18. Latest(Start)' # 0
  BY CompleteEffect
<1> QED BY <1>1, <1>4, <1>13, <1>15, <1>17, <1>18, AliveJoin DEF Unbegun
LEMMA GatedShrinks ==
    ASSUME NEW m, NEW r, NEW dl, Gated(m, dl), ActiveNodes(r) \subseteq ActiveNodes(m),
           r.waiting = m.waiting, r.scheduled = m.scheduled,
           \A n \in Nodes, s \in Slots : r.task[n][s].phase = "ready" => m.task[n][s].phase = "ready"
    PROVE  Gated(r, dl)
<1>1. \A n : Unscheduled(r, dl, n) = Unscheduled(m, dl, n)
  BY DEF Unscheduled
<1> QED BY <1>1 DEF Gated

LEMMA SameLedger ==
    ASSUME Typed, Ledger, inv' = inv, delivers' = delivers, runVer' = runVer
    PROVE  Ledger'
<1>1. Undone' = Undone /\ Done' = Done /\ (\A x \in Nodes : Latest(x)' = Latest(x)) /\ OneRun'
  BY SameStatus DEF Ledger
<1>2. Fed' = Fed
  BY <1>1 DEF Fed, Feeds
<1>3. AlongEdges' /\ Apart' /\ UndoneHasInput'
  BY <1>1, <1>2 DEF Ledger, AlongEdges, Apart, UndoneHasInput
<1>4. \A d \in delivers : d.dst \in Nodes
  BY DEF Typed, Deliver
<1>5. TakenIsLatest'
  BY <1>1, <1>4 DEF Ledger, TakenIsLatest
<1>6. DoneHadInput'
  BY <1>1 DEF Ledger, DoneHadInput
<1> QED BY <1>1, <1>3, <1>5, <1>6 DEF Ledger

LEMMA EmitJoin ==
    ASSUME Plain, Based, Typed', JoinInv, NEW n \in Nodes, NEW s \in Slots, NEW u \in Nodes, Emit(n, s, u)
    PROVE  JoinInv'
<1> DEFINE e == [src |-> n, from |-> sched.task[n][s].inv, dst |-> u, by |-> 0, st |-> "STAGED"]
<1>1. /\ sched.task[n][s].phase = "busy" /\ phase \in {"running", "draining"}
      /\ delivers' = delivers \union {e} /\ <<n, u>> \in Edges
      /\ UNCHANGED <<inv, status, runVer, phase, drain, sched, final, starts>>
  BY DEF Emit, TaskIs, Alive, Plain
<1>2. e.src = n /\ e.dst = u /\ e.st = "STAGED"
  OBVIOUS
<1> HIDE DEF e
<1>3. Typed /\ Ledger /\ TaskInv /\ TaskOK(n, s)
  BY DEF Based, JoinInv, TaskInv
<1>4. n \in Undone /\ n \notin Done
  BY <1>1, <1>3, StatusOf DEF TaskOK
<1>5. Ledger'
  BY <1>1, <1>2, <1>3, <1>4, EmitLedger
<1>6. Undone' = Undone /\ Done' = Done /\ \A x \in Nodes : Latest(x)' = Latest(x)
  BY <1>1, SameStatus
<1>7. TaskInv'
  <2> DEFINE X == {}
  <2>1. /\ \A x \in Nodes \ X, y \in Slots : sched'.task[x][y] = sched.task[x][y]
        /\ \A x \in Nodes \ X : inv'[x] = inv[x]
        /\ \A x \in X, y \in Slots : x \in Nodes => TaskOK(x, y)'
    BY <1>1
  <2>2. \A x \in Nodes \ X : (\E d \in delivers : d.dst = x /\ d.st = "CONSUMED_PENDING") =>
              \E d \in delivers' : d.dst = x /\ d.st = "CONSUMED_PENDING"
    BY <1>1
  <2> HIDE DEF X
  <2> QED BY <1>3, <2>1, <2>2, TaskInvKept
<1>8. AllPromoted' /\ AllSettled'
  BY <1>1, <1>2, <1>4, <1>6 DEF JoinInv, Steady, AllPromoted, AllSettled
<1>9. EngineInv'
  <2>1. ASSUME phase = "running" PROVE Gated(sched, delivers') /\ Undone' \subseteq ActiveNodes(sched)
    <3>1. Gated(sched, delivers) /\ Undone \subseteq ActiveNodes(sched)
      BY <2>1 DEF JoinInv, EngineInv
    <3>2. \A x : PendingAt(delivers', x) = PendingAt(delivers, x)
      BY <1>1, <1>2 DEF PendingAt
    <3>3. /\ PendingNodes(delivers') = PendingNodes(delivers)
          /\ \A x : Unscheduled(sched, delivers', x) = Unscheduled(sched, delivers, x)
      BY <3>2 DEF PendingNodes, Unscheduled
    <3>4. \A x : Consumable(delivers, x) # {} => Consumable(delivers', x) # {}
      BY <1>1 DEF Consumable
    <3>5. Gated(sched, delivers')
      BY <3>1, <3>3, <3>4 DEF Gated
    <3> QED BY <1>6, <3>1, <3>5
  <2> QED BY <1>1, <2>1 DEF EngineInv
<1>10. Latest(Start)' # 0
  BY <1>1, <1>3, <1>6, StartBegan, GraphAssumption
<1> QED BY <1>1, <1>5, <1>7, <1>8, <1>9, <1>10, AliveJoin DEF Unbegun

\* A task raises or is cancelled: its invocation is closed, its slot becomes b.
EndsTask(n, s, st, b) ==
    /\ sched.task[n][s].phase \in {"ready", "busy", "after"} /\ phase \in {"running", "draining"}
    /\ inv' = IF sched.task[n][s].phase = "busy" THEN CloseInvocation(n, sched.task[n][s].inv, st) ELSE inv
    /\ sched' = SetTask(sched, n, s, b)
    /\ b.phase \in {"none", "faulted", "interrupted"} /\ (b.phase = "none" => phase = "draining")
    /\ UNCHANGED <<delivers, status, runVer, phase, drain, final, starts>>

\* It leaves the ledger as it is.
LEMMA CloseEffect ==
    ASSUME Plain, Based, JoinInv, NEW n \in Nodes, NEW s \in Slots, NEW st \in {"CRASHED", "CANCELED"},
           NEW b, EndsTask(n, s, st, b)
    PROVE  /\ Ledger' /\ Undone' = Undone /\ Done' = Done
           /\ \A x \in Nodes : x # n => inv'[x] = inv[x]
           /\ \A x \in Nodes : Latest(x)' = Latest(x)
           /\ \A y \in Slots \ {s} : sched.task[n][y] = NoTask
           /\ sched'.task[n][s] = b
           /\ \A x \in Nodes, y \in Slots : x # n \/ y # s => sched'.task[x][y] = sched.task[x][y]
           /\ sched'.waiting = sched.waiting /\ sched'.scheduled = sched.scheduled
           /\ sched'.reached = sched.reached
           /\ ActiveNodes(sched') \subseteq ActiveNodes(sched)
           /\ phase = "running" => ActiveNodes(sched') = ActiveNodes(sched)
<1>0. /\ sched.task[n][s].phase \in {"ready", "busy", "after"}
      /\ inv' = IF sched.task[n][s].phase = "busy" THEN CloseInvocation(n, sched.task[n][s].inv, st) ELSE inv
      /\ sched' = SetTask(sched, n, s, b) /\ (b.phase = "none" => phase = "draining")
      /\ UNCHANGED <<delivers, status, runVer, phase, drain, final, starts>>
  BY DEF EndsTask
<1>1. /\ Typed /\ TakenByRecord /\ Ledger /\ AlongEdges /\ Slotted(sched) /\ sched \in Scheduler
      /\ TaskInv /\ TaskOK(n, s)
  BY DEF Based, RowInv, JoinInv, TaskInv, Ledger, Typed
<1>2. /\ Ledger' /\ Undone' = Undone /\ Done' = Done
      /\ \A x \in Nodes : x # n => inv'[x] = inv[x]
      /\ \A x \in Nodes : Latest(x)' = Latest(x)
  <2>1. CASE sched.task[n][s].phase = "busy"
    <3>1. /\ inv' = CloseInvocation(n, Latest(n), st) /\ Latest(n) # 0
          /\ inv[n][Latest(n)].st = "RUNNING"
      BY <1>0, <1>1, <2>1 DEF TaskOK
    <3>2. Ledger'
      BY <1>0, <1>1, <3>1, CloseLedger
    <3>3. st \in {"COMPLETED", "CRASHED", "CANCELED"} /\ st # "COMPLETED"
      OBVIOUS
    <3> QED BY <1>1, <3>1, <3>2, <3>3, CloseStatus
  <2>2. CASE sched.task[n][s].phase # "busy"
    <3>1. inv' = inv
      BY <1>0, <2>2
    <3> QED BY <1>0, <1>1, <3>1, SameStatus, SameLedger
  <2> QED BY <2>1, <2>2
<1>3. \A y \in Slots \ {s} : sched.task[n][y] = NoTask
  BY <1>0, <1>1, PlainFacts
<1>4. /\ sched'.task[n][s] = b
      /\ \A x \in Nodes, y \in Slots : x # n \/ y # s => sched'.task[x][y] = sched.task[x][y]
      /\ sched'.waiting = sched.waiting /\ sched'.scheduled = sched.scheduled
      /\ sched'.reached = sched.reached
  BY <1>0, <1>1, SetTaskTask, SetTaskEffect
<1>5. /\ ActiveNodes(sched') \subseteq ActiveNodes(sched)
      /\ phase = "running" => ActiveNodes(sched') = ActiveNodes(sched)
  <2>1. n \in ActiveNodes(sched)
    BY <1>0 DEF ActiveNodes
  <2>2. ActiveNodes(sched') =
           IF b.phase = "none" THEN ActiveNodes(sched) \ {n} ELSE ActiveNodes(sched) \union {n}
    BY <1>0, <1>1, <1>3, SetTaskActive
  <2> QED BY <1>0, <2>1, <2>2
<1> QED BY <1>2, <1>3, <1>4, <1>5

LEMMA CloseJoin ==
    ASSUME Plain, Based, Typed', JoinInv, NEW n \in Nodes, NEW s \in Slots, NEW st \in {"CRASHED", "CANCELED"},
           NEW b, EndsTask(n, s, st, b)
    PROVE  JoinInv'
<1>0. /\ phase \in {"running", "draining"} /\ b.phase \in {"none", "faulted", "interrupted"}
      /\ UNCHANGED <<delivers, status, runVer, phase, drain, final, starts>>
  BY DEF EndsTask
<1>1. Typed /\ TaskInv
  BY DEF Based, JoinInv
<1>2. /\ Ledger' /\ Undone' = Undone /\ Done' = Done
      /\ \A x \in Nodes : x # n => inv'[x] = inv[x]
      /\ \A x \in Nodes : Latest(x)' = Latest(x)
  BY CloseEffect
<1>3. \A y \in Slots \ {s} : sched.task[n][y] = NoTask
  BY CloseEffect
<1>4. /\ sched'.task[n][s] = b
      /\ \A x \in Nodes, y \in Slots : x # n \/ y # s => sched'.task[x][y] = sched.task[x][y]
      /\ sched'.waiting = sched.waiting /\ sched'.scheduled = sched.scheduled
  BY CloseEffect
<1>5. /\ ActiveNodes(sched') \subseteq ActiveNodes(sched)
      /\ phase = "running" => ActiveNodes(sched') = ActiveNodes(sched)
  BY CloseEffect
<1>6. TaskInv'
  <2>1. ASSUME NEW y \in Slots PROVE TaskOK(n, y)'
    BY <1>0, <1>3, <1>4 DEF TaskOK, NoTask
  <2> DEFINE X == {n}
  <2>2. /\ \A x \in Nodes \ X, y \in Slots : sched'.task[x][y] = sched.task[x][y]
        /\ \A x \in Nodes \ X : inv'[x] = inv[x]
        /\ \A x \in X, y \in Slots : x \in Nodes => TaskOK(x, y)'
    BY <1>2, <1>4, <2>1
  <2> HIDE DEF X
  <2> QED BY <1>0, <1>1, <2>2, TaskInvKept
<1>7. AllPromoted' /\ AllSettled'
  BY <1>0, <1>2 DEF JoinInv, Steady, AllPromoted, AllSettled
<1>8. EngineInv'
  <2>1. ASSUME phase = "running" PROVE Gated(sched', delivers) /\ Undone' \subseteq ActiveNodes(sched')
    <3>1. Gated(sched, delivers) /\ Undone \subseteq ActiveNodes(sched)
      BY <2>1 DEF JoinInv, EngineInv
    <3>2. \A x \in Nodes, y \in Slots :
             sched'.task[x][y].phase = "ready" => sched.task[x][y].phase = "ready"
      BY <1>0, <1>4
    <3> QED BY <1>2, <1>4, <1>5, <2>1, <3>1, <3>2, GatedShrinks
  <2> QED BY <1>0, <2>1 DEF EngineInv
<1>9. Unbegun'
  BY <1>0, <1>2, <1>4, <1>5, GraphAssumption DEF JoinInv, Unbegun
<1> QED BY <1>0, <1>2, <1>6, <1>7, <1>8, <1>9, AliveJoin

\* The engine scans its store, after an instance ended or because a deliver
\* woke it.
LEMMA ScanJoin ==
    ASSUME Plain, Based, Typed', JoinInv, phase \in {"running", "draining"},
           inv' = inv, delivers' = delivers, UNCHANGED <<status, runVer, phase, final>>,
           NEW m \in Scheduler, sched' = Recheck(m, delivers),
           phase = "running" => Gated(m, delivers) /\ Undone \subseteq ActiveNodes(m),
           m.waiting = sched.waiting, ActiveNodes(m) \subseteq ActiveNodes(sched),
           \A x \in Nodes, y \in Slots : m.task[x][y].phase \in {"busy", "after"} =>
              m.task[x][y] = sched.task[x][y]
    PROVE  JoinInv'
<1>1. Typed /\ Ledger /\ AlongEdges /\ Slotted(sched) /\ TaskInv /\ Acyclic /\ OnReceive = {}
  BY DEF Based, JoinInv, Ledger, Plain
<1>2. delivers \in SUBSET Deliver /\ \A d \in delivers : d.dst # Start
  <2>1. delivers \in SUBSET Deliver
    BY <1>1 DEF Typed
  <2> QED BY <1>1, <2>1, PlainFacts
<1>3. Undone' = Undone /\ Done' = Done /\ \A x \in Nodes : Latest(x)' = Latest(x)
  BY SameStatus
<1>4. Ledger'
  BY <1>1, SameLedger
<1>5. \A x \in Nodes, y \in Slots : sched'.task[x][y] \in {m.task[x][y], ReadyTask}
  BY <1>2, RecheckTask
<1>6. TaskInv'
  <2> DEFINE X == {}
  <2>1. /\ \A x \in Nodes \ X, y \in Slots : sched'.task[x][y].phase \in {"busy", "after"} =>
              sched'.task[x][y] = sched.task[x][y]
        /\ \A x \in Nodes \ X : inv'[x] = inv[x]
        /\ \A x \in X, y \in Slots : x \in Nodes => TaskOK(x, y)'
    BY <1>5 DEF ReadyTask
  <2> HIDE DEF X
  <2> QED BY <1>1, <2>1, TaskInvKept
<1>7. AllPromoted' /\ AllSettled'
  BY <1>3 DEF JoinInv, Steady, AllPromoted, AllSettled
<1>8. /\ sched'.waiting = (m.waiting \union Fresh(m, delivers)) \ Ripe(m, delivers)
      /\ ActiveNodes(sched') = ActiveNodes(m) \union Ripe(m, delivers)
      /\ Ripe(m, delivers) \subseteq m.waiting \union Fresh(m, delivers)
      /\ Fresh(m, delivers) \subseteq PendingNodes(delivers)
  BY <1>1, <1>2, RecheckWaiters
<1>9. EngineInv'
  <2>1. ASSUME phase = "running" PROVE Gated(sched', delivers)
    BY <1>1, <1>2, <2>1, RecheckGated
  <2> QED BY <1>3, <1>8, <2>1 DEF EngineInv
<1>10. Unbegun'
  <2>1. ASSUME Latest(Start) = 0
        PROVE  ActiveNodes(sched') \subseteq {Start} /\ sched'.waiting = {}
    <3>1. delivers = {} /\ ActiveNodes(sched) \subseteq {Start} /\ sched.waiting = {}
      BY <2>1 DEF JoinInv, Unbegun
    <3>2. PendingNodes(delivers) = {}
      BY <3>1 DEF PendingNodes, PendingAt
    <3> QED BY <1>8, <3>1, <3>2
  <2> QED BY <1>3, <2>1, GraphAssumption DEF JoinInv, Unbegun
<1> QED BY <1>4, <1>6, <1>7, <1>9, <1>10, AliveJoin

LEMMA FinishEffect ==
    ASSUME Plain, Based, JoinInv, NEW n \in Nodes, NEW s \in Slots, Finish(n, s),
           NEW m, m = SetTask(sched, n, s, NoTask)
    PROVE  /\ sched.task[n][s].phase = "after" /\ phase \in {"running", "draining"}
           /\ UNCHANGED <<delivers, inv, status, runVer, phase, drain, final, starts>>
           /\ sched' = Recheck(m, delivers) /\ m \in Scheduler
           /\ m.waiting = sched.waiting /\ m.scheduled = sched.scheduled /\ m.reached = sched.reached
           /\ ActiveNodes(m) = ActiveNodes(sched) \ {n} /\ n \notin Undone
           /\ \A x \in Nodes, y \in Slots :
                 /\ m.task[x][y].phase \in {"busy", "after"} => m.task[x][y] = sched.task[x][y]
                 /\ m.task[x][y].phase = "ready" => sched.task[x][y].phase = "ready"
<1> DEFINE r == Recheck(m, delivers)
<1>1. /\ sched.task[n][s].phase = "after" /\ phase \in {"running", "draining"}
      /\ sched' = DrainOnReceive(r, n)
      /\ UNCHANGED <<delivers, inv, status, runVer, phase, drain, final, starts>>
  BY DEF Finish, TaskIs, Alive
<1>2. /\ Typed /\ AlongEdges /\ Slotted(sched) /\ sched \in Scheduler /\ delivers \in SUBSET Deliver
      /\ OnReceive = {} /\ TaskOK(n, s)
  BY DEF Based, JoinInv, TaskInv, Ledger, Plain, Typed
<1>3. /\ m \in Scheduler /\ m.waiting = sched.waiting /\ m.scheduled = sched.scheduled
      /\ m.task[n][s] = NoTask /\ m.queued = sched.queued /\ m.reached = sched.reached
      /\ \A x \in Nodes, y \in Slots : x # n \/ y # s => m.task[x][y] = sched.task[x][y]
  <2>1. NoTask \in [phase : TaskPhases, inv : Nat]
    BY DEF NoTask, TaskPhases, Unfinished
  <2> QED BY <1>2, <2>1, SetTaskType, SetTaskEffect, SetTaskTask
<1>4. ActiveNodes(m) = ActiveNodes(sched) \ {n}
  <2>1. \A y \in Slots \ {s} : sched.task[n][y] = NoTask
    BY <1>1, <1>2, PlainFacts
  <2> DEFINE t == NoTask
  <2>2. t.phase = "none" /\ m = SetTask(sched, n, s, t)
    BY DEF NoTask
  <2> HIDE DEF t
  <2> QED BY <1>2, <2>1, <2>2, SetTaskActive
<1>5. sched' = r
  <2>1. r \in Scheduler /\ r.queued = m.queued
    BY <1>2, <1>3, RecheckType, RecheckEffect
  <2>2. r.queued[n] = 0
    BY <1>2, <1>3, <2>1 DEF Slotted
  <2> HIDE DEF r
  <2> QED BY <1>1, <2>1, <2>2, DrainEffect
<1>6. \A x \in Nodes, y \in Slots :
         /\ m.task[x][y].phase \in {"busy", "after"} => m.task[x][y] = sched.task[x][y]
         /\ m.task[x][y].phase = "ready" => sched.task[x][y].phase = "ready"
  BY <1>3 DEF NoTask
<1>7. n \notin Undone
  BY <1>1, <1>2 DEF TaskOK, Done, Undone
<1> QED BY <1>1, <1>3, <1>4, <1>5, <1>6, <1>7

LEMMA FinishJoin ==
    ASSUME Plain, Based, Typed', JoinInv, NEW n \in Nodes, NEW s \in Slots, Finish(n, s)
    PROVE  JoinInv'
<1> DEFINE m == SetTask(sched, n, s, NoTask)
<1>1. m = SetTask(sched, n, s, NoTask)
  OBVIOUS
<1> HIDE DEF m
<1>2. /\ phase \in {"running", "draining"}
      /\ UNCHANGED <<delivers, inv, status, runVer, phase, drain, final, starts>>
      /\ sched' = Recheck(m, delivers) /\ m \in Scheduler
      /\ m.waiting = sched.waiting /\ m.scheduled = sched.scheduled
      /\ ActiveNodes(m) = ActiveNodes(sched) \ {n} /\ n \notin Undone
  BY <1>1, FinishEffect
<1>3. \A x \in Nodes, y \in Slots :
         /\ m.task[x][y].phase \in {"busy", "after"} => m.task[x][y] = sched.task[x][y]
         /\ m.task[x][y].phase = "ready" => sched.task[x][y].phase = "ready"
  BY <1>1, FinishEffect
<1>4. phase = "running" => Gated(m, delivers) /\ Undone \subseteq ActiveNodes(m)
  BY <1>2, <1>3, GatedShrinks DEF JoinInv, EngineInv
<1> QED BY <1>2, <1>3, <1>4, ScanJoin
\* The engine is started from a ledger that is in order.
LEMMA EnterGated ==
    ASSUME Plain, Typed, Ledger', NEW seeds \in SUBSET Nodes,
           NEW reached \in BOOLEAN, NEW dl \in SUBSET Deliver, Enter(seeds, reached, dl),
           ReadySeeds(seeds) = Undone \/ (ReadySeeds(seeds) = {Start} /\ Undone = {} /\ dl = {})
    PROVE  /\ inv' = inv /\ delivers' = dl /\ status' = "RUNNING" /\ phase' = "running" /\ final' = final
           /\ Gated(sched', dl) /\ ReadySeeds(seeds) \subseteq ActiveNodes(sched')
           /\ ActiveNodes(sched') \subseteq ReadySeeds(seeds) \union PendingNodes(dl)
           /\ sched'.waiting \subseteq PendingNodes(dl)
           /\ sched'.reached \in {reached, reached \/ PendingAt(dl, End) # {}}
           /\ \A n \in Nodes, s \in Slots : sched'.task[n][s] \in {NoTask, ReadyTask}
           /\ PendingNodes(dl) \subseteq Fed'
<1> DEFINE r == Launch(seeds, reached, dl)
           ready == ReadySeeds(seeds)
<1>1. /\ inv' = inv /\ delivers' = dl /\ sched' = r /\ status' = "RUNNING" /\ phase' = "running"
      /\ final' = final
  BY DEF Enter
<1>2. Undone' = Undone /\ Done' = Done /\ \A x \in Nodes : Latest(x)' = Latest(x)
  BY <1>1, SameStatus
<1>3. Acyclic /\ OnReceive = {} /\ AlongEdges'
  BY DEF Plain, Ledger
<1>4. \A d \in dl : d.dst \in Nodes \ {Start}
  BY <1>1, <1>3, GraphAssumption DEF AlongEdges
<1>5. PendingNodes(dl) \subseteq Fed'
  BY <1>1 DEF PendingNodes, PendingAt, Fed, Feeds
<1>6. \A a \in ready \union PendingNodes(dl), b \in ready : b \notin Downstream[a]
  <2>1. CASE ready = Undone
    BY <1>2, <1>5, <2>1 DEF Ledger, Apart
  <2>2. CASE ready = {Start} /\ dl = {}
    <3>1. PendingNodes(dl) = {}
      BY <2>2 DEF PendingNodes, PendingAt
    <3> QED BY <1>3, <2>2, <3>1, GraphAssumption DEF Acyclic
  <2> QED BY <2>1, <2>2
<1>7. \A n \in ready \ {Start} : Consumable(dl, n) # {}
  BY <1>1, <1>2 DEF Ledger, UndoneHasInput
<1>8. /\ Gated(r, dl) /\ ready \subseteq ActiveNodes(r)
      /\ ActiveNodes(r) \subseteq ready \union PendingNodes(dl)
      /\ r.waiting \subseteq PendingNodes(dl)
      /\ r.reached \in {reached, reached \/ PendingAt(dl, End) # {}}
      /\ \A n \in Nodes, s \in Slots : r.task[n][s] \in {NoTask, ReadyTask}
  BY <1>3, <1>4, <1>6, <1>7, LaunchGated
<1> HIDE DEF r
<1> QED BY <1>1, <1>5, <1>8

LEMMA EnterJoin ==
    ASSUME Plain, Typed, Typed', Ledger', AllPromoted', AllSettled', NEW seeds \in SUBSET Nodes,
           NEW reached \in BOOLEAN, NEW dl \in SUBSET Deliver, Enter(seeds, reached, dl), runVer' # 0,
           ReadySeeds(seeds) = Undone \/ (ReadySeeds(seeds) = {Start} /\ Undone = {} /\ dl = {}),
           Latest(Start) = 0 => seeds = {Start} /\ dl = {} /\ \A n \in Nodes : Latest(n) = 0
    PROVE  JoinInv'
<1>1. /\ inv' = inv /\ delivers' = dl /\ status' = "RUNNING" /\ phase' = "running" /\ final' = final
  BY EnterGated
<1>2. Undone' = Undone /\ Done' = Done /\ \A x \in Nodes : Latest(x)' = Latest(x)
  BY <1>1, SameStatus
<1>3. /\ Gated(sched', dl) /\ ReadySeeds(seeds) \subseteq ActiveNodes(sched')
      /\ ActiveNodes(sched') \subseteq ReadySeeds(seeds) \union PendingNodes(dl)
      /\ sched'.waiting \subseteq PendingNodes(dl)
  BY EnterGated
<1>4. \A n \in Nodes, s \in Slots : sched'.task[n][s] \in {NoTask, ReadyTask}
  BY EnterGated
<1>9. EngineInv'
  BY <1>1, <1>2, <1>3 DEF EngineInv
<1>10. TaskInv'
  BY <1>1, <1>4 DEF TaskInv, TaskOK, NoTask, ReadyTask
<1>11. Unbegun'
  <2>1. ASSUME Latest(Start) = 0 PROVE ActiveNodes(sched') \subseteq {Start} /\ sched'.waiting = {}
    <3>1. PendingNodes(dl) = {}
      BY <2>1 DEF PendingNodes, PendingAt
    <3>2. ReadySeeds(seeds) \subseteq {Start}
      BY <2>1 DEF ReadySeeds
    <3> QED BY <1>3, <3>1, <3>2
  <2> QED BY <1>1, <1>2, <2>1, GraphAssumption DEF Unbegun
<1>12. Steady' /\ Unstarted' /\ EndSettled'
  BY <1>1 DEF Steady, Unstarted, EndSettled, Ending
<1> QED BY <1>9, <1>10, <1>11, <1>12 DEF JoinInv

\* Both ways to start at the entry node find that nothing began.
LEMMA EntryEffect ==
    ASSUME Plain, Based, Typed', JoinInv, StartFresh \/ RecoverFromEntry
    PROVE  /\ runVer' # 0 /\ Latest(Start) = 0 /\ (\A n \in Nodes : Latest(n) = 0)
           /\ Undone = {} /\ delivers = {} /\ Ledger' /\ AllPromoted' /\ AllSettled'
           /\ \E seeds \in SUBSET Nodes :
                 seeds = {Start} /\ ReadySeeds(seeds) = {Start} /\ Enter(seeds, FALSE, delivers)
<1>1. Typed /\ Ledger /\ Enter({Start}, FALSE, delivers)
  BY DEF Based, JoinInv, StartFresh, RecoverFromEntry
<1>2. Latest(Start) = 0 /\ runVer' # 0
  <2>1. CASE StartFresh
    <3>1. runVer \in Nat /\ MaxRuns \in Nat /\ MaxRuns <= 1 /\ runVer < MaxRuns /\ runVer' = runVer + 1
      BY <1>1, <2>1, RunBoundAssumption DEF StartFresh, Typed, Plain
    <3>2. runVer = 0 /\ runVer' # 0
      BY <3>1
    <3> QED BY <3>2 DEF JoinInv, Unstarted
  <2>2. CASE RecoverFromEntry
    <3>1. RunStatus(Start) = "none"
      BY <2>2 DEF RecoverFromEntry, NeverBegan
    <3>2. Latest(Start) = 0
      BY <1>1, <3>1, RunStatusIs, StatusOf, GraphAssumption DEF Ledger
    <3>3. status # "PENDING" /\ runVer' = runVer
      BY <2>2 DEF RecoverFromEntry
    <3> QED BY <3>2, <3>3 DEF JoinInv, Unstarted
  <2> QED BY <2>1, <2>2
<1>3. delivers = {} /\ (\A n \in Nodes : Latest(n) = 0)
  BY <1>2 DEF JoinInv, Unbegun
<1>4. inv' = inv /\ delivers' = {}
  BY <1>1, <1>3 DEF Enter
<1>5. Undone = {} /\ Done = {}
  BY <1>1, <1>3, StatusOf DEF Undone, Done
<1>6. Undone' = {} /\ \A x \in Nodes : Latest(x)' = 0
  BY <1>3, <1>4, <1>5, SameStatus
<1>7. Ledger' /\ AllPromoted' /\ AllSettled'
  <2>1. \A x \in Nodes : 1..Latest(x)' = {}
    BY <1>6
  <2>2. OneRun' /\ DoneHadInput'
    BY <2>1 DEF OneRun, DoneHadInput
  <2> QED BY <1>4, <1>6, <2>2 DEF Ledger, AlongEdges, Apart, TakenIsLatest, UndoneHasInput,
      AllPromoted, AllSettled
<1> DEFINE seeds == {Start}
<1>8. /\ seeds \in SUBSET Nodes /\ ReadySeeds(seeds) = {Start}
      /\ seeds = {Start} /\ Enter(seeds, FALSE, delivers)
  BY <1>1, GraphAssumption DEF ReadySeeds
<1> HIDE DEF seeds
<1> QED BY <1>2, <1>3, <1>5, <1>7, <1>8

LEMMA EntryJoin ==
    ASSUME Plain, Based, Typed', JoinInv, StartFresh \/ RecoverFromEntry
    PROVE  JoinInv'
<1>1. /\ runVer' # 0 /\ (\A n \in Nodes : Latest(n) = 0)
      /\ Undone = {} /\ delivers = {} /\ Ledger' /\ AllPromoted' /\ AllSettled'
  BY EntryEffect
<1>2. PICK seeds \in SUBSET Nodes :
         seeds = {Start} /\ ReadySeeds(seeds) = {Start} /\ Enter(seeds, FALSE, delivers)
  BY EntryEffect
<1>3. Typed
  BY DEF Based
<1> QED BY <1>1, <1>2, <1>3, EnterJoin

\* A recovery makes the nodes to be done again instances at once.
LEMMA HistoryEffect ==
    ASSUME Plain, Based, Typed', JoinInv, RecoverFromHistory
    PROVE  /\ runVer' = runVer /\ runVer' # 0 /\ Latest(Start) # 0
           /\ Ledger' /\ AllPromoted' /\ AllSettled' /\ Fed' \subseteq Fed
           /\ \E seeds \in SUBSET Nodes, reached \in BOOLEAN, dl \in SUBSET Deliver :
                 /\ Enter(seeds, reached, dl) /\ ReadySeeds(seeds) = Undone
                 /\ seeds = Undone \union {n \in Nodes \ {Start} : PendingAt(dl, n) # {}}
                 /\ reached <=> End \in seeds \/ (seeds = {} /\ LatestStatus(End) = "COMPLETED")
<1> DEFINE dl == AutoPromoted
           seeds == Redo \union {n \in Nodes \ {Start} : PendingAt(dl, n) # {}}
           reached == End \in seeds \/ (seeds = {} /\ RunStatus(End) = "COMPLETED")
<1>1. /\ Enter(seeds, reached, dl) /\ reached \in BOOLEAN /\ seeds \in SUBSET Nodes
      /\ runVer' = runVer /\ ~NeverBegan /\ status # "PENDING"
  BY DEF RecoverFromHistory, Redo
<1>2. Typed /\ Ledger
  BY DEF Based, JoinInv
<1>3. runVer' # 0
  BY <1>1 DEF JoinInv, Unstarted
<1>4. Redo = Undone /\ \A n \in Nodes : RunStatus(n) = LatestStatus(n)
  BY <1>2, RunStatusIs DEF Ledger
<1>5. Latest(Start) # 0
  BY <1>1, <1>2, <1>4, StatusOf, GraphAssumption DEF NeverBegan
<1>6. ReadySeeds(seeds) = Undone
  <2>1. \A n \in Nodes : n \in Undone <=> LatestStatus(n) \in {"CRASHED", "RUNNING", "CANCELED"}
    <3>1. \A n \in Nodes : LatestStatus(n) \in InvocationStatus \union {"none"}
      BY <1>2, StatusOf
    <3> QED BY <3>1 DEF Undone, InvocationStatus
  <2> QED BY <1>4, <2>1 DEF ReadySeeds, Undone
<1>7. delivers' = dl /\ inv' = inv /\ dl \in SUBSET Deliver
  BY <1>1, <1>2, AutoPromotedType DEF Enter, Typed
<1>8. Ledger' /\ AllPromoted' /\ AllSettled' /\ Fed' \subseteq Fed
  BY <1>1, <1>2, <1>7, RecoverLedger
<1>9. /\ seeds = Undone \union {n \in Nodes \ {Start} : PendingAt(dl, n) # {}}
      /\ reached <=> End \in seeds \/ (seeds = {} /\ LatestStatus(End) = "COMPLETED")
  BY <1>4, GraphAssumption
<1> HIDE DEF seeds, reached, dl
<1> QED BY <1>1, <1>3, <1>5, <1>6, <1>7, <1>8, <1>9

LEMMA HistoryJoin ==
    ASSUME Plain, Based, Typed', JoinInv, RecoverFromHistory
    PROVE  JoinInv'
<1>1. runVer' # 0 /\ Latest(Start) # 0 /\ Ledger' /\ AllPromoted' /\ AllSettled' /\ Typed
  BY HistoryEffect DEF Based
<1>2. PICK seeds \in SUBSET Nodes, reached \in BOOLEAN, dl \in SUBSET Deliver :
         Enter(seeds, reached, dl) /\ ReadySeeds(seeds) = Undone
  BY HistoryEffect
<1> QED BY <1>1, <1>2, EnterJoin

\* The scheduler is thrown away.
LEMMA IdleJoin ==
    ASSUME Ledger', sched' = NewScheduler, phase' = "idle", runVer' # 0,
           Latest(Start)' = 0 => delivers' = {} /\ \A n \in Nodes : Latest(n)' = 0,
           status' \in {"COMPLETED", "FAILED"} => Settled'
    PROVE  JoinInv'
<1>1. /\ ActiveNodes(sched') = {} /\ sched'.waiting = {}
      /\ \A n \in Nodes, s \in Slots : sched'.task[n][s].phase = "none"
  BY NewSlots DEF NewScheduler, NoTask
<1>2. TaskInv' /\ EngineInv' /\ Steady' /\ Unstarted' /\ Unbegun' /\ EndSettled'
  BY <1>1 DEF TaskInv, TaskOK, EngineInv, Steady, Unstarted, Unbegun, EndSettled, Ending
<1> QED BY <1>2 DEF JoinInv

LEMMA BeginDiesJoin ==
    ASSUME Plain, Based, Typed', JoinInv, NEW n \in Nodes, NEW s \in Slots, BeginDies(n, s)
    PROVE  JoinInv'
<1>1. /\ sched.task[n][s].phase = "ready" /\ phase = "running"
      /\ inv' = BeginInvocation(n) /\ delivers' = delivers
      /\ sched' = NewScheduler /\ phase' = "idle" /\ runVer' = runVer
      /\ status' = IF status = "RUNNING" THEN "CRASHED" ELSE status
  BY DEF BeginDies, TaskIs, Die, Startable
<1>2. MayBegin(n) /\ n \in ActiveNodes(sched)
  BY <1>1, ReadyMayBegin
<1>3. Typed /\ TakenByRecord /\ Acyclic /\ Ledger
  BY DEF Based, RowInv, JoinInv, Plain
<1>4. Ledger'
  BY <1>1, <1>2, <1>3, HalfBeginLedger
<1>5. /\ \A x \in Nodes : x # n => Latest(x)' = Latest(x)
      /\ Latest(n)' = Latest(n) + 1
  BY <1>1, <1>3, BeginStatus
<1>6. Latest(Start)' # 0
  <2>1. CASE n = Start
    BY <1>3, <1>5, <2>1 DEF Typed
  <2>2. CASE n # Start
    <3>1. Latest(Start) # 0
      BY <1>2, <2>2 DEF JoinInv, Unbegun
    <3> QED BY <1>5, <2>2, <3>1, GraphAssumption
  <2> QED BY <2>1, <2>2
<1>7. status' = "CRASHED" /\ runVer' # 0
  BY <1>1 DEF JoinInv, Steady, Unstarted
<1> QED BY <1>1, <1>4, <1>6, <1>7, IdleJoin

LEMMA CompleteDiesJoin ==
    ASSUME Plain, Based, Typed', JoinInv, NEW n \in Nodes, NEW s \in Slots, NEW dsts \in SUBSET Outputs(n),
           CompleteDies(n, s, dsts)
    PROVE  JoinInv'
<1> DEFINE t == sched.task[n][s]
           k == Latest(n)
<1>1. /\ t.phase = "busy" /\ phase # "idle"
      /\ inv' = CloseInvocation(n, t.inv, "COMPLETED")
      /\ delivers' = PromoteStaged(delivers, {n}, dsts)
      /\ sched' = NewScheduler /\ phase' = "idle" /\ runVer' = runVer
      /\ status' = IF status = "RUNNING" THEN "CRASHED" ELSE status
  BY DEF CompleteDies, TaskIs, Alive, Die
<1>2. Typed /\ TakenByRecord /\ Ledger /\ TaskOK(n, s) /\ BusyHasRecord
  BY DEF Based, RowInv, JoinInv, TaskInv
<1>3. /\ t.inv = k /\ k # 0 /\ inv[n][k].st = "RUNNING"
      /\ n # Start => \E d \in delivers : d.dst = n /\ d.st = "CONSUMED_PENDING"
      /\ \A d \in delivers : d.dst = n /\ d.st = "CONSUMED_PENDING" => d.by = k
  BY <1>1, <1>2 DEF TaskOK, BusyHasRecord
<1>4. Ledger'
  <2> DEFINE ns == {}
  <2>1. delivers' = PromoteConsumed(PromoteStaged(delivers, {n}, dsts), ns) /\ ns \in SUBSET {n}
    BY <1>1, ConsumedOfNone
  <2> HIDE DEF ns
  <2> QED BY <1>1, <1>2, <1>3, <2>1, CompleteLedger
<1>5. \A x \in Nodes : Latest(x)' = Latest(x)
  BY <1>1, <1>2, <1>3, CloseStatus
<1>6. Latest(Start)' # 0
  BY <1>1, <1>2, <1>5, StartBegan, GraphAssumption
<1>7. status' = "CRASHED" /\ runVer' # 0
  BY <1>1 DEF JoinInv, Steady, Unstarted
<1> QED BY <1>1, <1>4, <1>6, <1>7, IdleJoin

\* Nobody is left, and the last scan found nothing: then all is settled.
LEMMA ReturnSettled ==
    ASSUME Plain, Based, JoinInv, Return
    PROVE  Settled /\ PendingAt(delivers, End) = {}
<1>1. phase = "running" /\ ActiveNodes(sched) = {} /\ Recheck(sched, delivers) = sched
  BY DEF Return, NothingLeft
<1>2. Typed /\ Ledger /\ AllPromoted /\ AllSettled /\ Undone = {} /\ Claimed(sched, delivers) /\ SentByRecord
  BY <1>1 DEF Based, RowInv, JoinInv, EngineInv, Steady, WaitInv
<1>3. \A d \in delivers : d.src \in Nodes /\ d.dst # Start /\ d.src # External
  BY <1>2, PlainFacts DEF Based, Ledger
<1>4. \A d \in delivers : d.st # "PENDING"
  <2>1. \A d \in delivers : d.st = "PENDING" => d.dst = Start
    BY <1>1, <1>2, ReturnWaits DEF Plain, Typed
  <2> QED BY <1>3, <2>1
<1>5. \A d \in delivers : d.st # "CONSUMED_PENDING"
  BY <1>2 DEF AllSettled
<1>6. ASSUME NEW d \in delivers, d.st = "STAGED" PROVE FALSE
  <2>1. d.src \in Nodes \ Done /\ d.from \in 1..Latest(d.src)
    BY <1>2, <1>3, <1>6 DEF AllPromoted, SentByRecord
  <2>2. Latest(d.src) # 0
    BY <1>2, <2>1 DEF Typed
  <2> QED BY <1>2, <2>1, <2>2, StatusOf
<1>7. \A d \in delivers : d.st \in {"STAGED", "PENDING", "CONSUMED_PENDING", "CONSUMED_COMPLETED"}
  BY <1>2 DEF Typed, Deliver
<1> QED BY <1>2, <1>4, <1>5, <1>6, <1>7 DEF Settled, PendingAt

\* Steps that touch neither the stores nor the scheduler.
LEMMA PhaseJoin ==
    ASSUME Plain, Based, JoinInv, Return \/ BeginDrain \/ Drained \/ RequestDrain
    PROVE  JoinInv'
<1>1. /\ UNCHANGED <<delivers, inv, sched, status, runVer>>
      /\ phase # "idle" /\ phase' # "idle" /\ (phase' = "running" => phase = "running")
  BY DEF Return, BeginDrain, Drained, RequestDrain, durable, NothingLeft, MustDrain, AllOver,
      Unfinished
<1>2. Typed /\ Ledger /\ TaskInv
  BY DEF Based, JoinInv
<1>3. Undone' = Undone /\ Done' = Done /\ \A x \in Nodes : Latest(x)' = Latest(x)
  BY <1>1, SameStatus
<1>4. Ledger'
  BY <1>1, <1>2, SameLedger
<1>5. TaskInv'
  <2> DEFINE X == {}
  <2>1. /\ \A x \in Nodes \ X, y \in Slots : sched'.task[x][y] = sched.task[x][y]
        /\ \A x \in Nodes \ X : inv'[x] = inv[x]
        /\ \A x \in X, y \in Slots : x \in Nodes => TaskOK(x, y)'
    BY <1>1
  <2> HIDE DEF X
  <2> QED BY <1>1, <1>2, <2>1, TaskInvKept
<1>6. EngineInv' /\ Steady' /\ Unstarted' /\ Unbegun'
  BY <1>1, <1>3, GraphAssumption DEF JoinInv, EngineInv, Steady, Unstarted, Unbegun, AllPromoted,
      AllSettled
<1>7. EndSettled'
  <2>1. status' = "RUNNING"
    BY <1>1 DEF JoinInv, Steady
  <2>2. CASE Return
    <3>1. Settled
      BY <2>2, ReturnSettled
    <3> QED BY <1>1, <1>3, <3>1 DEF EndSettled, Settled
  <2>3. CASE BeginDrain \/ RequestDrain
    BY <2>1, <2>3 DEF EndSettled, Ending, BeginDrain, RequestDrain, MustDrain
  <2>4. CASE Drained
    BY <2>1, <2>4 DEF EndSettled, Ending, Drained, AllOver, Unfinished
  <2> QED BY <2>2, <2>3, <2>4
<1> QED BY <1>4, <1>5, <1>6, <1>7 DEF JoinInv

LEMMA StopJoin ==
    ASSUME Plain, Based, JoinInv, WriteFinal \/ ProcessDies
    PROVE  JoinInv'
<1>1. /\ UNCHANGED <<delivers, inv, runVer>> /\ sched' = NewScheduler /\ phase' = "idle" /\ phase # "idle"
  BY DEF WriteFinal, ProcessDies, Die
<1>2. Typed /\ Ledger
  BY DEF Based, JoinInv
<1>3. Undone' = Undone /\ \A x \in Nodes : Latest(x)' = Latest(x)
  BY <1>1, SameStatus
<1>4. Ledger'
  BY <1>1, <1>2, SameLedger
<1>5. runVer' # 0
  BY <1>1 DEF JoinInv, Unstarted
<1>6. Latest(Start)' = 0 => delivers' = {} /\ \A n \in Nodes : Latest(n)' = 0
  BY <1>1, <1>3, GraphAssumption DEF JoinInv, Unbegun
<1>7. ASSUME status' \in {"COMPLETED", "FAILED"} PROVE Settled'
  <2>1. CASE WriteFinal
    <3>1. phase = "ended" /\ final = status'
      BY <2>1 DEF WriteFinal
    <3>2. Settled
      BY <1>7, <3>1 DEF JoinInv, EndSettled, Ending
    <3> QED BY <1>1, <1>3, <3>2 DEF Settled
  <2>2. CASE ProcessDies
    <3>1. status' = "CRASHED"
      BY <1>1, <2>2 DEF JoinInv, Steady, ProcessDies, Die
    <3> QED BY <1>7, <3>1
  <2> QED BY <2>1, <2>2
<1> QED BY <1>1, <1>4, <1>5, <1>6, <1>7, IdleJoin
LEMMA CancelCloses ==
    ASSUME NEW n \in Nodes, NEW s \in Slots, CancelTask(n, s),
           sched.task[n][s].phase = "busy" => OwnsInvocation(n, s)
    PROVE  \E st \in {"CRASHED", "CANCELED"}, b \in [phase : TaskPhases, inv : Nat] : EndsTask(n, s, st, b)
<1> DEFINE b == NoTask
           st == "CANCELED"
<1>1. /\ sched.task[n][s].phase \in {"ready", "busy", "after"} /\ phase = "draining"
      /\ inv' = IF sched.task[n][s].phase = "busy" /\ OwnsInvocation(n, s)
                THEN CloseInvocation(n, sched.task[n][s].inv, st) ELSE inv
      /\ sched' = IF sched.task[n][s].phase = "busy" /\ ~OwnsInvocation(n, s)
                  THEN [sched EXCEPT !.task[n][s].phase = "faulted"] ELSE SetTask(sched, n, s, b)
      /\ UNCHANGED <<delivers, status, runVer, phase, drain, final, starts>>
  BY DEF CancelTask, Cancellable, Unfinished
<1>2. b.phase = "none" /\ st \in {"CRASHED", "CANCELED"} /\ b \in [phase : TaskPhases, inv : Nat]
  BY DEF NoTask, TaskPhases, Unfinished
<1> HIDE DEF b, st
<1>3. /\ sched' = SetTask(sched, n, s, b)
      /\ inv' = IF sched.task[n][s].phase = "busy"
                THEN CloseInvocation(n, sched.task[n][s].inv, st) ELSE inv
  BY <1>1
<1>4. EndsTask(n, s, st, b)
  BY <1>1, <1>2, <1>3 DEF EndsTask
<1> QED BY <1>2, <1>4

LEMMA RaiseCloses ==
    ASSUME Based, JoinInv, NEW n \in Nodes, NEW s \in Slots, Fault(n, s) \/ Interrupt(n, s)
    PROVE  \E st \in {"CRASHED", "CANCELED"}, b \in [phase : TaskPhases, inv : Nat] : EndsTask(n, s, st, b)
<1>1. TaskOK(n, s) /\ sched \in Scheduler
  BY DEF Based, JoinInv, TaskInv, Typed
<1>2. PICK st \in {"CRASHED", "CANCELED"}, ph \in {"faulted", "interrupted"} : Raise(n, s, st, ph)
  BY DEF Fault, Interrupt
<1> DEFINE b == [sched.task[n][s] EXCEPT !.phase = ph]
<1>3. /\ sched.task[n][s].phase \in {"ready", "busy", "after"} /\ phase \in {"running", "draining"}
      /\ inv' = IF sched.task[n][s].phase = "busy" /\ OwnsInvocation(n, s)
                THEN CloseInvocation(n, sched.task[n][s].inv, st) ELSE inv
      /\ sched' = SetTask(sched, n, s, b)
      /\ UNCHANGED <<delivers, status, runVer, phase, drain, final, starts>>
  BY <1>1, <1>2 DEF Raise, Alive, SetTask, Scheduler, Unfinished
<1>4. b.phase = ph /\ b \in [phase : TaskPhases, inv : Nat]
  <2>1. sched.task[n][s] \in [phase : TaskPhases, inv : Nat] /\ ph \in TaskPhases
    BY <1>1 DEF Scheduler, TaskPhases, Unfinished
  <2> QED BY <2>1
<1> HIDE DEF b
<1>5. inv' = IF sched.task[n][s].phase = "busy"
            THEN CloseInvocation(n, sched.task[n][s].inv, st) ELSE inv
  BY <1>1, <1>3 DEF TaskOK, OwnsInvocation
<1>6. EndsTask(n, s, st, b)
  BY <1>3, <1>4, <1>5 DEF EndsTask
<1> QED BY <1>4, <1>6

LEMMA NoneFromOutside ==
    ASSUME Plain, Based, NEW n \in Nodes
    PROVE  ~DeliverToNode(n)
<1> DEFINE S == {d \in delivers : d.src = External}
<1>1. Cardinality(S) \in Nat
  BY FS_Subset, FS_CardinalityType DEF Based, FInv
<1> HIDE DEF S
<1>2. ~(Cardinality(S) < 0)
  BY <1>1
<1> QED BY <1>2 DEF DeliverToNode, Plain, S

LEMMA TaskStepJoin ==
    ASSUME Plain, Based, Typed', JoinInv, NEW n \in Nodes, NEW s \in Slots, TaskStep(n, s)
    PROVE  JoinInv'
<1>1. Typed /\ AlongEdges /\ Slotted(sched) /\ TaskOK(n, s) /\ sched \in Scheduler
  BY DEF Based, JoinInv, Ledger, TaskInv, Typed
<1>2. sched.task[n][s].phase = "busy" => OwnsInvocation(n, s)
  BY <1>1 DEF TaskOK, OwnsInvocation
<1>3. CASE Begin(n, s)
  BY <1>3, BeginJoin
<1>4. CASE Complete(n, s)
  BY <1>4, CompleteJoin
<1>5. CASE Finish(n, s)
  BY <1>5, FinishJoin
<1>6. CASE CompleteRejected(n, s)
  BY <1>2, <1>6 DEF CompleteRejected, TaskIs
<1>7. CASE CancelTask(n, s)
  <2>1. PICK st \in {"CRASHED", "CANCELED"}, b \in [phase : TaskPhases, inv : Nat] : EndsTask(n, s, st, b)
    BY <1>2, <1>7, CancelCloses
  <2> QED BY <2>1, CloseJoin
<1>8. ASSUME NEW ts \in SUBSET (Targets(n) \ Misrouted(n)), Misroute(n, s, ts) PROVE JoinInv'
  BY <1>1, <1>8, PlainFacts DEF Misroute
<1> QED BY <1>3, <1>4, <1>5, <1>6, <1>7, <1>8 DEF TaskStep

LEMMA JoinKept ==
    ASSUME Plain, Based, Typed', JoinInv, Next
    PROVE  JoinInv'
<1>1. CASE StartFresh \/ RecoverFromEntry
  BY <1>1, EntryJoin
<1>2. CASE RecoverFromHistory
  BY <1>2, HistoryJoin
<1>3. CASE Rescan
  <2> DEFINE m == sched
  <2>1. /\ phase = "running" /\ sched' = Recheck(m, delivers)
        /\ UNCHANGED <<delivers, inv, status, runVer, phase, drain, final, starts>>
    BY <1>3 DEF Rescan, durable, MoreToFind
  <2>2. /\ m \in Scheduler /\ m.waiting = sched.waiting /\ ActiveNodes(m) \subseteq ActiveNodes(sched)
        /\ Gated(m, delivers) /\ Undone \subseteq ActiveNodes(m)
        /\ \A x \in Nodes, y \in Slots : m.task[x][y] = sched.task[x][y]
    BY <2>1 DEF Based, Typed, JoinInv, EngineInv
  <2> HIDE DEF m
  <2> QED BY <2>1, <2>2, ScanJoin
<1>4. CASE Return \/ BeginDrain \/ Drained \/ RequestDrain
  BY <1>4, PhaseJoin
<1>5. CASE WriteFinal \/ ProcessDies
  BY <1>5, StopJoin
<1>6. ASSUME NEW n \in Nodes, DeliverToNode(n) PROVE JoinInv'
  BY <1>6, NoneFromOutside
<1>7. ASSUME NEW n \in Nodes, NEW s \in Slots, TaskStep(n, s) PROVE JoinInv'
  BY <1>7, TaskStepJoin
<1>8. ASSUME NEW n \in Nodes, NEW s \in Slots, Fault(n, s) \/ Interrupt(n, s) PROVE JoinInv'
  <2>1. PICK st \in {"CRASHED", "CANCELED"}, b \in [phase : TaskPhases, inv : Nat] : EndsTask(n, s, st, b)
    BY <1>8, RaiseCloses
  <2> QED BY <2>1, CloseJoin
<1>9. ASSUME NEW n \in Nodes, NEW s \in Slots, BeginDies(n, s) PROVE JoinInv'
  BY <1>9, BeginDiesJoin
<1>10. ASSUME NEW n \in Nodes, NEW s \in Slots, NEW u \in Nodes, Emit(n, s, u) PROVE JoinInv'
  BY <1>10, EmitJoin
<1>11. ASSUME NEW n \in Nodes, NEW s \in Slots, NEW dsts \in SUBSET Outputs(n), CompleteDies(n, s, dsts)
       PROVE  JoinInv'
  BY <1>11, CompleteDiesJoin
<1> QED
  BY <1>1, <1>2, <1>3, <1>4, <1>5, <1>6, <1>7, <1>8, <1>9, <1>10, <1>11 DEF Next, LoopStep

LEMMA StutterJoin ==
    ASSUME JoinInv, UNCHANGED vars
    PROVE  JoinInv'
BY DEF vars, JoinInv, Ledger, OneRun, AlongEdges, Apart, TakenIsLatest, UndoneHasInput,
    DoneHadInput,
       Undone, Done, Fed, Feeds, LatestStatus, Latest, TaskInv, TaskOK, EngineInv, Steady, AllPromoted,
       AllSettled, Unstarted, Unbegun, EndSettled, Ending, Settled

LEMMA InitJoin ==
    ASSUME Init
    PROVE  JoinInv
<1>1. /\ delivers = {} /\ phase = "idle" /\ status = "PENDING" /\ sched = NewScheduler
      /\ \A n \in Nodes : Latest(n) = 0 /\ LatestStatus(n) = "none"
  BY DEF Init, Latest, LatestStatus
<1>2. \A n \in Nodes : 1..Latest(n) = {}
  BY <1>1
<1>3. Undone = {} /\ Fed = {} /\ ActiveNodes(sched) = {} /\ sched.waiting = {}
  BY <1>1, NewSlots DEF Undone, Fed, NewScheduler
<1>4. Ledger
  BY <1>1, <1>2, <1>3 DEF Ledger, OneRun, AlongEdges, Apart, TakenIsLatest, UndoneHasInput,
      DoneHadInput
<1>5. TaskInv
  BY <1>1, NewBusy DEF TaskInv, TaskOK, NewScheduler, NoTask
<1> QED
  BY <1>1, <1>3, <1>4, <1>5, GraphAssumption
     DEF JoinInv, EngineInv, Steady, Unstarted, Unbegun, EndSettled, Ending

LEMMA BaseInvariant ==
    ASSUME Plain
    PROVE  Spec => []Based
<1>1. FInv /\ RowInv /\ Slotted(sched) /\ WaitInv => Based
  <2>1. FInv => Typed /\ sched.scheduled \subseteq Keys(delivers)
    BY TypeParts DEF FInv, IInv, Typed
  <2> QED BY <2>1 DEF Based
<1>2. Spec => [](FInv /\ WaitInv)
  BY WaitInvariant DEF Plain
<1> QED BY <1>1, <1>2, RowInvariant, SlotInvariant, PTL

LEMMA JoinInvariant ==
    ASSUME Plain
    PROVE  Spec => [](Based /\ JoinInv)
<1>1. Init => JoinInv
  BY InitJoin
<1>2. Based /\ Based' /\ JoinInv /\ [Next]_vars => JoinInv'
  <2>1. ASSUME Based, Based', JoinInv, Next PROVE JoinInv'
    BY <2>1, JoinKept DEF Based
  <2>2. ASSUME JoinInv, UNCHANGED vars PROVE JoinInv'
    BY <2>2, StutterJoin
  <2> QED BY <2>1, <2>2
<1> QED BY BaseInvariant, <1>1, <1>2, PTL DEF Spec

\* In a graph without loops, delivers along declared edges, no external ones
\* and one logical run, however often the process dies or is drained and is
\* recovered on the way: of two instances that exist, neither leads to the
\* other.  A join that has begun gets no late input.
THEOREM JoinsAreMature ==
    ASSUME Plain
    PROVE  Spec => []NoPrematureJoin
<1>1. Based /\ JoinInv => NoPrematureJoin
  BY DEF JoinInv, EngineInv, Gated, NoPrematureJoin
<1> QED BY JoinInvariant, <1>1, PTL

\* Under the same conditions nobody runs a node for a deliver that another
\* invocation has taken.
THEOREM NoIdleInvocation ==
    ASSUME Plain
    PROVE  Spec => []CompletedHadInput
<1>1. Based /\ JoinInv => CompletedHadInput
  BY DEF JoinInv, Ledger, DoneHadInput, CompletedHadInput
<1> QED BY JoinInvariant, <1>1, PTL

\* Under the same conditions a run that ends by itself leaves nothing behind:
\* every input settled, every output promoted, no invocation to be done again.
THEOREM NothingLeftBehind ==
    ASSUME Plain
    PROVE  Spec => []EndedIsSettled
<1>1. Based /\ JoinInv => EndedIsSettled
  <2>1. ASSUME JoinInv, status \in {"COMPLETED", "FAILED"} PROVE Settled
    BY <2>1 DEF JoinInv, EndSettled, Ending
  <2> QED BY <2>1 DEF EndedIsSettled, Settled, Undone
<1> QED BY JoinInvariant, <1>1, PTL
-----------------------------------------------------------------------------
(* What the verdict of a run means *)

\* The topology validator refuses a graph with a node that does not lead to
\* End (topology_validator.py, rule 5).
EveryNodeReachesEnd == \A n \in Nodes \ {End} : End \in Downstream[n]

\* When End begins nobody else is left, and nobody comes after it.
Closing ==
    Latest(End) # 0 =>
        /\ Undone \union Fed \subseteq {End}
        /\ phase = "running" => ActiveNodes(sched) \subseteq {End}
\* The engine remembers that End was reached, and End is reached when it is fed.
Reaching ==
    phase = "running" =>
        /\ sched.reached => PendingAt(delivers, End) # {} \/ Latest(End) # 0
        /\ End \in sched.waiting \union ActiveNodes(sched) \/ Latest(End) # 0 => sched.reached
Verdict(st) == st \in {"COMPLETED", "FAILED"} => (st = "COMPLETED" <=> Latest(End) # 0)
EndInv == Closing /\ Reaching /\ Verdict(status) /\ (phase = "ended" => Verdict(final))

\* Steps in which End does not begin.
LEMMA ClosingKept ==
    ASSUME Closing, Latest(End)' = Latest(End),
           Latest(End) # 0 => /\ Undone' \union Fed' \subseteq Undone \union Fed
                              /\ phase' = "running" => ActiveNodes(sched') \subseteq {End}
    PROVE  Closing'
BY DEF Closing

\* Nobody is active or fed beside an active End.
LEMMA EndAlone ==
    ASSUME Plain, EveryNodeReachesEnd, JoinInv, phase = "running", End \in ActiveNodes(sched)
    PROVE  ActiveNodes(sched) \union PendingNodes(delivers) \subseteq {End} /\ Undone \subseteq {End}
<1>1. Gated(sched, delivers) /\ Undone \subseteq ActiveNodes(sched)
  BY DEF JoinInv, EngineInv
<1>2. ActiveNodes(sched) \union PendingNodes(delivers) \subseteq Nodes
  BY DEF ActiveNodes, PendingNodes
<1>3. ASSUME NEW a \in ActiveNodes(sched) \union PendingNodes(delivers) PROVE a = End
  BY <1>1, <1>2, <1>3 DEF Gated, EveryNodeReachesEnd
<1> QED BY <1>1, <1>3

LEMMA BeginEnd ==
    ASSUME Plain, EveryNodeReachesEnd, Based, Typed', JoinInv, EndInv,
           NEW n \in Nodes, NEW s \in Slots, Begin(n, s)
    PROVE  EndInv'
<1>1. phase = "running" /\ UNCHANGED <<status, phase, final>> /\ n \in ActiveNodes(sched)
  BY BeginEffect
<1>2. Undone' = Undone \union {n} /\ Done' = Done \ {n} /\ Fed = PendingNodes(delivers)
  BY BeginEffect
<1>3. Latest(n)' = Latest(n) + 1 /\ \A x \in Nodes : x # n => Latest(x)' = Latest(x)
  BY BeginEffect
<1>4. /\ sched'.waiting = sched.waiting /\ sched'.reached = sched.reached
      /\ ActiveNodes(sched') = ActiveNodes(sched)
  BY BeginEffect
<1>5. PendingNodes(delivers') = PendingNodes(delivers) \ {n}
  BY BeginEffect
<1>6. \A e \in delivers' : e \in delivers \/ e.st = "CONSUMED_PENDING"
  BY BeginEffect
<1>7. Fed' \subseteq Fed
  BY <1>2, <1>6 DEF Fed, Feeds
<1>8. CASE n = End
  <2>1. Latest(End)' # 0
    BY <1>3, <1>8 DEF Based, Typed
  <2>2. ActiveNodes(sched) \union PendingNodes(delivers) \subseteq {End} /\ Undone \subseteq {End}
    BY <1>1, <1>8, EndAlone
  <2>3. Closing'
    BY <1>1, <1>2, <1>4, <1>7, <1>8, <2>2 DEF Closing
  <2>4. sched.reached
    BY <1>1, <1>8 DEF EndInv, Reaching
  <2>5. Reaching'
    BY <1>4, <2>1, <2>4 DEF Reaching
  <2> QED BY <1>1, <2>3, <2>5 DEF EndInv, Verdict, JoinInv, Steady
<1>9. CASE n # End
  <2>1. Latest(End) = 0 /\ Latest(End)' = 0
    BY <1>1, <1>3, <1>9, GraphAssumption DEF EndInv, Closing
  <2>2. PendingAt(delivers, End) # {} => PendingAt(delivers', End) # {}
    BY <1>5, <1>9, GraphAssumption DEF PendingNodes
  <2>3. Reaching'
    BY <1>1, <1>4, <2>1, <2>2 DEF EndInv, Reaching
  <2> QED BY <1>1, <2>1, <2>3 DEF EndInv, Closing, Verdict, JoinInv, Steady
<1> QED BY <1>8, <1>9

LEMMA CompleteEnd ==
    ASSUME Plain, EveryNodeReachesEnd, Based, Typed', JoinInv, EndInv,
           NEW n \in Nodes, NEW s \in Slots, Complete(n, s)
    PROVE  EndInv'
<1>1. phase \in {"running", "draining"} /\ UNCHANGED <<status, phase, final>> /\ n \in Undone
  BY CompleteEffect
<1>2. Undone' = Undone \ {n} /\ \A x \in Nodes : Latest(x)' = Latest(x)
  BY CompleteEffect
<1>3. \A x \in Fed' : x \in Fed \/ <<n, x>> \in Edges
  BY CompleteEffect
<1>4. /\ sched'.waiting = sched.waiting \union Targets(n) /\ Targets(n) \subseteq Nodes
      /\ sched'.reached = (sched.reached \/ End \in Targets(n))
      /\ ActiveNodes(sched') = ActiveNodes(sched)
  BY CompleteEffect
<1>5. PendingNodes(delivers') = PendingNodes(delivers) \union Targets(n)
  BY CompleteEffect
<1>6. Closing'
  <2>1. ASSUME Latest(End) # 0 PROVE Fed' \subseteq Fed /\ (phase = "running" => ActiveNodes(sched') \subseteq {End})
    <3>1. n = End
      BY <1>1, <2>1 DEF EndInv, Closing
    <3>2. \A x : <<n, x>> \notin Edges
      BY <3>1, GraphAssumption
    <3> QED BY <1>3, <1>4, <2>1, <3>2 DEF EndInv, Closing
  <2> QED BY <1>1, <1>2, <2>1, ClosingKept, GraphAssumption DEF EndInv
<1>7. Reaching'
  <2>1. End \in PendingNodes(delivers') <=> PendingAt(delivers', End) # {}
    BY GraphAssumption DEF PendingNodes
  <2>2. End \in PendingNodes(delivers) <=> PendingAt(delivers, End) # {}
    BY GraphAssumption DEF PendingNodes
  <2> QED BY <1>1, <1>2, <1>4, <1>5, <2>1, <2>2, GraphAssumption DEF EndInv, Reaching
<1> QED BY <1>1, <1>6, <1>7 DEF EndInv, Verdict, JoinInv, Steady

\* The engine scans its store.
LEMMA ScanEnd ==
    ASSUME Plain, EveryNodeReachesEnd, Based, Typed', JoinInv, EndInv, phase \in {"running", "draining"},
           inv' = inv, delivers' = delivers, UNCHANGED <<status, phase, final>>,
           NEW m \in Scheduler, sched' = Recheck(m, delivers), m.waiting = sched.waiting,
           m.reached = sched.reached, ActiveNodes(m) \subseteq ActiveNodes(sched)
    PROVE  EndInv'
<1>1. Typed /\ AlongEdges /\ Slotted(sched) /\ OnReceive = {} /\ delivers \in SUBSET Deliver
  BY DEF Based, JoinInv, Ledger, Plain, Typed
<1>2. \A d \in delivers : d.dst # Start
  BY <1>1, PlainFacts
<1>3. /\ sched'.waiting \subseteq m.waiting \union Fresh(m, delivers)
      /\ sched'.reached = (m.reached \/ End \in Fresh(m, delivers))
      /\ ActiveNodes(sched') \subseteq ActiveNodes(m) \union m.waiting \union Fresh(m, delivers)
      /\ Fresh(m, delivers) \subseteq PendingNodes(delivers)
  BY <1>1, <1>2, RecheckWaiters
<1>4. Undone' = Undone /\ Done' = Done /\ \A x \in Nodes : Latest(x)' = Latest(x)
  BY SameStatus
<1>5. Fed' = Fed
  BY <1>4 DEF Fed, Feeds
<1>6. PendingNodes(delivers) \subseteq Fed
  BY DEF PendingNodes, PendingAt, Fed, Feeds
<1>7. phase = "running" => sched.waiting \subseteq PendingNodes(delivers)
  BY DEF JoinInv, EngineInv, Gated
<1>8. Closing'
  <2>1. ASSUME Latest(End) # 0, phase = "running" PROVE ActiveNodes(sched') \subseteq {End}
    BY <1>3, <1>6, <1>7, <2>1 DEF EndInv, Closing
  <2> QED BY <1>4, <1>5, <2>1, ClosingKept, GraphAssumption DEF EndInv
<1>9. Reaching'
  <2>1. End \in Fresh(m, delivers) => PendingAt(delivers, End) # {}
    BY <1>3 DEF PendingNodes
  <2> QED BY <1>3, <1>4, <2>1, GraphAssumption DEF EndInv, Reaching
<1> QED BY <1>8, <1>9 DEF EndInv, Verdict, JoinInv, Steady

LEMMA FinishEnd ==
    ASSUME Plain, EveryNodeReachesEnd, Based, Typed', JoinInv, EndInv,
           NEW n \in Nodes, NEW s \in Slots, Finish(n, s)
    PROVE  EndInv'
<1> DEFINE m == SetTask(sched, n, s, NoTask)
<1>1. m = SetTask(sched, n, s, NoTask)
  OBVIOUS
<1> HIDE DEF m
<1>2. /\ phase \in {"running", "draining"}
      /\ inv' = inv /\ delivers' = delivers /\ UNCHANGED <<status, phase, final>>
      /\ sched' = Recheck(m, delivers) /\ m \in Scheduler
      /\ m.waiting = sched.waiting /\ m.reached = sched.reached
      /\ ActiveNodes(m) \subseteq ActiveNodes(sched)
  BY <1>1, FinishEffect
<1> QED BY <1>2, ScanEnd

\* A task raises or is cancelled.
LEMMA CloseEnd ==
    ASSUME Plain, EveryNodeReachesEnd, Based, Typed', JoinInv, EndInv,
           NEW n \in Nodes, NEW s \in Slots, NEW st \in {"CRASHED", "CANCELED"},
           NEW b, EndsTask(n, s, st, b)
    PROVE  EndInv'
<1>0. UNCHANGED <<delivers, status, phase, final>> /\ phase \in {"running", "draining"}
  BY DEF EndsTask
<1>1. /\ Undone' = Undone /\ Done' = Done
      /\ \A x \in Nodes : Latest(x)' = Latest(x)
      /\ sched'.waiting = sched.waiting /\ sched'.reached = sched.reached
      /\ ActiveNodes(sched') \subseteq ActiveNodes(sched)
  BY CloseEffect
<1>2. Fed' = Fed
  BY <1>0, <1>1 DEF Fed, Feeds
<1>3. Closing'
  BY <1>0, <1>1, <1>2, ClosingKept, GraphAssumption DEF EndInv, Closing
<1>4. Reaching'
  BY <1>0, <1>1, GraphAssumption DEF EndInv, Reaching
<1> QED BY <1>0, <1>3, <1>4 DEF EndInv, Verdict, JoinInv, Steady

LEMMA EmitEnd ==
    ASSUME Plain, EveryNodeReachesEnd, Based, Typed', JoinInv, EndInv,
           NEW n \in Nodes, NEW s \in Slots, NEW u \in Nodes, Emit(n, s, u)
    PROVE  EndInv'
<1> DEFINE e == [src |-> n, from |-> sched.task[n][s].inv, dst |-> u, by |-> 0, st |-> "STAGED"]
<1>1. /\ sched.task[n][s].phase = "busy" /\ phase \in {"running", "draining"}
      /\ delivers' = delivers \union {e} /\ <<n, u>> \in Edges
      /\ UNCHANGED <<inv, status, runVer, phase, drain, sched, final, starts>>
  BY DEF Emit, TaskIs, Alive, Plain
<1>2. e.st = "STAGED"
  OBVIOUS
<1> HIDE DEF e
<1>3. n \in Undone
  BY <1>1, StatusOf DEF Based, JoinInv, TaskInv, TaskOK
<1>4. Latest(End) = 0
  <2>1. n # End
    BY <1>1, GraphAssumption
  <2> QED BY <1>3, <2>1 DEF EndInv, Closing
<1>5. Latest(End)' = 0
  BY <1>1, <1>4, SameStatus, GraphAssumption
<1>6. PendingAt(delivers', End) = PendingAt(delivers, End)
  BY <1>1, <1>2 DEF PendingAt
<1>7. Closing' /\ Reaching'
  BY <1>1, <1>4, <1>5, <1>6 DEF EndInv, Closing, Reaching
<1> QED BY <1>1, <1>7 DEF EndInv, Verdict, JoinInv, Steady

LEMMA EntryEnd ==
    ASSUME Plain, EveryNodeReachesEnd, Based, Typed', JoinInv, JoinInv', StartFresh \/ RecoverFromEntry
    PROVE  EndInv'
<1>1. Latest(Start) = 0 /\ (\A n \in Nodes : Latest(n) = 0) /\ Ledger' /\ Undone = {} /\ delivers = {}
  BY EntryEffect
<1>2. PICK seeds \in SUBSET Nodes :
         seeds = {Start} /\ ReadySeeds(seeds) = {Start} /\ Enter(seeds, FALSE, delivers)
  BY EntryEffect
<1>3. Typed /\ delivers \in SUBSET Deliver
  BY DEF Based, Typed
<1>4. /\ inv' = inv /\ delivers' = delivers /\ status' = "RUNNING" /\ phase' = "running"
      /\ sched'.reached \in {FALSE, FALSE \/ PendingAt(delivers, End) # {}}
  BY <1>1, <1>2, <1>3, EnterGated
<1>5. sched'.reached = FALSE
  BY <1>1, <1>4 DEF PendingAt
<1>6. \A n \in Nodes : Latest(n)' = 0
  BY <1>1, <1>4, SameStatus
<1>7. ActiveNodes(sched') \subseteq {Start} /\ sched'.waiting = {}
  BY <1>6, GraphAssumption DEF JoinInv, Unbegun
<1>8. Closing' /\ Reaching'
  BY <1>5, <1>6, <1>7, GraphAssumption DEF Closing, Reaching
<1> QED BY <1>4, <1>8 DEF EndInv, Verdict

LEMMA HistoryEnd ==
    ASSUME Plain, EveryNodeReachesEnd, Based, Typed', JoinInv, EndInv, RecoverFromHistory
    PROVE  EndInv'
<1>1. Ledger' /\ Fed' \subseteq Fed
  BY HistoryEffect
<1>2. PICK seeds \in SUBSET Nodes, reached \in BOOLEAN, dl \in SUBSET Deliver :
         /\ Enter(seeds, reached, dl) /\ ReadySeeds(seeds) = Undone
         /\ seeds = Undone \union {n \in Nodes \ {Start} : PendingAt(dl, n) # {}}
         /\ reached <=> End \in seeds \/ (seeds = {} /\ LatestStatus(End) = "COMPLETED")
  BY HistoryEffect
<1>3. Typed
  BY DEF Based
<1>4. /\ inv' = inv /\ delivers' = dl /\ status' = "RUNNING" /\ phase' = "running"
      /\ ActiveNodes(sched') \subseteq Undone \union PendingNodes(dl)
      /\ sched'.waiting \subseteq PendingNodes(dl)
      /\ sched'.reached \in {reached, reached \/ PendingAt(dl, End) # {}}
      /\ PendingNodes(dl) \subseteq Fed'
  BY <1>1, <1>2, <1>3, EnterGated
<1>5. Undone' = Undone /\ \A x \in Nodes : Latest(x)' = Latest(x)
  BY <1>4, SameStatus
<1>6. Closing'
  <2>1. ASSUME Latest(End) # 0 PROVE ActiveNodes(sched') \subseteq {End}
    BY <1>1, <1>4, <2>1 DEF EndInv, Closing
  <2> QED BY <1>1, <1>5, <2>1, ClosingKept, GraphAssumption DEF EndInv
<1>7. End \in PendingNodes(dl) <=> PendingAt(dl, End) # {}
  BY GraphAssumption DEF PendingNodes
<1>8. sched'.reached => PendingAt(dl, End) # {} \/ Latest(End) # 0
  <2>1. ASSUME End \in Undone \/ LatestStatus(End) = "COMPLETED" PROVE Latest(End) # 0
    BY <1>3, <2>1, StatusOf, GraphAssumption
  <2> QED BY <1>2, <1>4, <2>1
<1>9. End \in PendingNodes(dl) \union Undone => sched'.reached
  BY <1>2, <1>4, <1>7, GraphAssumption
<1>10. Latest(End) # 0 => sched'.reached
  <2>1. ASSUME Latest(End) # 0, End \notin seeds PROVE seeds = {} /\ LatestStatus(End) = "COMPLETED"
    <3>1. Undone \subseteq {End} /\ PendingNodes(dl) \subseteq {End}
      BY <1>1, <1>4, <2>1 DEF EndInv, Closing
    <3>2. seeds \subseteq {End}
      BY <1>2, <3>1 DEF PendingNodes
    <3>3. End \notin Undone
      BY <1>2, <2>1
    <3>4. LatestStatus(End) = "COMPLETED"
      BY <1>3, <2>1, <3>3, StatusOf, GraphAssumption DEF Undone
    <3> QED BY <2>1, <3>2, <3>4
  <2> QED BY <1>2, <1>4, <2>1
<1>11. Reaching'
  <2>1. Latest(End)' = Latest(End)
    BY <1>5, GraphAssumption
  <2> QED BY <1>4, <1>8, <1>9, <1>10, <2>1 DEF Reaching
<1> QED BY <1>4, <1>6, <1>11 DEF EndInv, Verdict

LEMMA BeginDiesEnd ==
    ASSUME Plain, EveryNodeReachesEnd, Based, Typed', JoinInv, EndInv,
           NEW n \in Nodes, NEW s \in Slots, BeginDies(n, s)
    PROVE  EndInv'
<1>1. /\ sched.task[n][s].phase = "ready" /\ phase = "running"
      /\ inv' = BeginInvocation(n) /\ delivers' = delivers /\ phase' = "idle"
      /\ status' = IF status = "RUNNING" THEN "CRASHED" ELSE status
  BY DEF BeginDies, TaskIs, Die, Startable
<1>2. n \in ActiveNodes(sched) /\ Fed = PendingNodes(delivers)
  BY <1>1, ReadyMayBegin
<1>3. Typed
  BY DEF Based
<1>4. /\ Undone' = Undone \union {n} /\ Done' = Done \ {n}
      /\ \A x \in Nodes : x # n => Latest(x)' = Latest(x)
  BY <1>1, <1>3, BeginStatus
<1>5. Fed' \subseteq Fed
  BY <1>1, <1>4 DEF Fed, Feeds
<1>6. Closing'
  <2>1. CASE n = End
    <3>1. PendingNodes(delivers) \subseteq {End} /\ Undone \subseteq {End}
      BY <1>1, <1>2, <2>1, EndAlone
    <3> QED BY <1>1, <1>2, <1>4, <1>5, <2>1, <3>1 DEF Closing
  <2>2. CASE n # End
    <3>1. Latest(End)' = 0
      BY <1>1, <1>2, <1>4, <2>2, GraphAssumption DEF EndInv, Closing
    <3> QED BY <3>1 DEF Closing
  <2> QED BY <2>1, <2>2
<1>7. status' = "CRASHED"
  BY <1>1 DEF JoinInv, Steady
<1> QED BY <1>1, <1>6, <1>7 DEF EndInv, Reaching, Verdict

LEMMA CompleteDiesEnd ==
    ASSUME Plain, EveryNodeReachesEnd, Based, Typed', JoinInv, EndInv,
           NEW n \in Nodes, NEW s \in Slots, NEW dsts \in SUBSET Outputs(n), CompleteDies(n, s, dsts)
    PROVE  EndInv'
<1> DEFINE k == Latest(n)
<1>1. /\ sched.task[n][s].phase = "busy" /\ phase # "idle"
      /\ inv' = CloseInvocation(n, sched.task[n][s].inv, "COMPLETED")
      /\ delivers' = PromoteStaged(delivers, {n}, dsts) /\ phase' = "idle"
      /\ status' = IF status = "RUNNING" THEN "CRASHED" ELSE status
  BY DEF CompleteDies, TaskIs, Alive, Die
<1>2. Typed /\ Ledger /\ TaskOK(n, s)
  BY DEF Based, JoinInv, TaskInv
<1>3. sched.task[n][s].inv = k /\ k # 0 /\ inv[n][k].st = "RUNNING"
  BY <1>1, <1>2 DEF TaskOK
<1>4. \A a \in Fed' : a \in Fed \/ <<n, a>> \in Edges
  <2> DEFINE ns == {}
  <2>1. delivers' = PromoteConsumed(PromoteStaged(delivers, {n}, dsts), ns) /\ ns \in SUBSET {n}
    BY <1>1, ConsumedOfNone
  <2> HIDE DEF ns
  <2> QED BY <1>1, <1>2, <1>3, <2>1, CompleteFed
<1>5. n \in Undone /\ Undone' = Undone \ {n} /\ \A x \in Nodes : Latest(x)' = Latest(x)
  <2> DEFINE st == "COMPLETED"
  <2>1. inv' = CloseInvocation(n, Latest(n), st) /\ st = "COMPLETED"
    BY <1>1, <1>3
  <2> HIDE DEF st
  <2> QED BY <1>2, <1>3, <2>1, CloseStatus
<1>6. Closing'
  <2>1. ASSUME Latest(End) # 0 PROVE Fed' \subseteq Fed
    <3>1. n = End
      BY <1>5, <2>1 DEF EndInv, Closing
    <3>2. \A x : <<n, x>> \notin Edges
      BY <3>1, GraphAssumption
    <3> QED BY <1>4, <3>2
  <2> QED BY <1>1, <1>5, <2>1, ClosingKept, GraphAssumption DEF EndInv
<1>7. status' = "CRASHED"
  BY <1>1 DEF JoinInv, Steady
<1> QED BY <1>1, <1>6, <1>7 DEF EndInv, Reaching, Verdict

\* The verdict is taken when nobody is left and nothing is pending.
LEMMA PhaseEnd ==
    ASSUME Plain, Based, JoinInv, EndInv, Return \/ BeginDrain \/ Drained \/ RequestDrain
    PROVE  EndInv'
<1>1. /\ UNCHANGED <<delivers, inv, sched, status, runVer>>
      /\ phase # "idle" /\ (phase' = "running" => phase = "running")
  BY DEF Return, BeginDrain, Drained, RequestDrain, durable, NothingLeft, MustDrain, AllOver,
      Unfinished
<1>2. Undone' = Undone /\ Done' = Done /\ Latest(End)' = Latest(End)
  BY <1>1, SameStatus, GraphAssumption
<1>3. Fed' = Fed
  BY <1>1, <1>2 DEF Fed, Feeds
<1>4. Closing' /\ Reaching'
  BY <1>1, <1>2, <1>3 DEF EndInv, Closing, Reaching
<1>5. phase' = "ended" => Verdict(final)'
  <2>1. CASE Return
    <3>1. /\ phase = "running" /\ final' = IF sched.reached THEN "COMPLETED" ELSE "FAILED"
          /\ PendingAt(delivers, End) = {}
      BY <2>1, ReturnSettled DEF Return, NothingLeft
    <3>2. sched.reached <=> Latest(End) # 0
      BY <3>1 DEF EndInv, Reaching
    <3> QED BY <1>2, <3>1, <3>2 DEF Verdict
  <2>2. CASE BeginDrain
    BY <2>2 DEF BeginDrain, MustDrain
  <2>3. CASE RequestDrain
    BY <2>3 DEF RequestDrain
  <2>4. CASE Drained
    BY <2>4 DEF Drained, Verdict, AllOver, Unfinished
  <2> QED BY <2>1, <2>2, <2>3, <2>4
<1> QED BY <1>1, <1>4, <1>5 DEF EndInv, Verdict, JoinInv, Steady

LEMMA StopEnd ==
    ASSUME Plain, Based, JoinInv, EndInv, WriteFinal \/ ProcessDies
    PROVE  EndInv'
<1>1. UNCHANGED <<delivers, inv, runVer>> /\ phase' = "idle"
  BY DEF WriteFinal, ProcessDies, Die
<1>2. Undone' = Undone /\ Done' = Done /\ Latest(End)' = Latest(End)
  BY <1>1, SameStatus, GraphAssumption
<1>3. Fed' = Fed
  BY <1>1, <1>2 DEF Fed, Feeds
<1>4. Closing' /\ Reaching'
  BY <1>1, <1>2, <1>3 DEF EndInv, Closing, Reaching
<1>5. Verdict(status)'
  <2>1. CASE WriteFinal
    BY <1>2, <2>1 DEF WriteFinal, EndInv, Verdict
  <2>2. CASE ProcessDies
    BY <1>2, <2>2 DEF ProcessDies, Die, JoinInv, Steady, Verdict
  <2> QED BY <2>1, <2>2
<1> QED BY <1>1, <1>4, <1>5 DEF EndInv

LEMMA EndKept ==
    ASSUME Plain, EveryNodeReachesEnd, Based, Typed', JoinInv, JoinInv', EndInv, Next
    PROVE  EndInv'
<1>1. CASE StartFresh \/ RecoverFromEntry
  BY <1>1, EntryEnd
<1>2. CASE RecoverFromHistory
  BY <1>2, HistoryEnd
<1>3. CASE Rescan
  <2> DEFINE m == sched
  <2>1. /\ phase = "running" /\ sched' = Recheck(m, delivers)
        /\ UNCHANGED <<delivers, inv, status, phase, final>>
    BY <1>3 DEF Rescan, durable, MoreToFind
  <2>2. /\ m \in Scheduler /\ m.waiting = sched.waiting /\ m.reached = sched.reached
        /\ ActiveNodes(m) \subseteq ActiveNodes(sched)
    BY <2>1 DEF Based, Typed
  <2> HIDE DEF m
  <2> QED BY <2>1, <2>2, ScanEnd
<1>4. CASE Return \/ BeginDrain \/ Drained \/ RequestDrain
  BY <1>4, PhaseEnd
<1>5. CASE WriteFinal \/ ProcessDies
  BY <1>5, StopEnd
<1>6. ASSUME NEW n \in Nodes, DeliverToNode(n) PROVE EndInv'
  BY <1>6, NoneFromOutside
<1>7. ASSUME NEW n \in Nodes, NEW s \in Slots, TaskStep(n, s) PROVE EndInv'
  <2>1. TaskOK(n, s) /\ Typed /\ AlongEdges /\ Slotted(sched)
    BY DEF Based, JoinInv, TaskInv, Ledger
  <2>2. sched.task[n][s].phase = "busy" => OwnsInvocation(n, s)
    BY <2>1 DEF TaskOK, OwnsInvocation
  <2>3. CASE Begin(n, s)
    BY <2>3, BeginEnd
  <2>4. CASE Complete(n, s)
    BY <2>4, CompleteEnd
  <2>5. CASE Finish(n, s)
    BY <2>5, FinishEnd
  <2>6. CASE CompleteRejected(n, s)
    BY <2>2, <2>6 DEF CompleteRejected, TaskIs
  <2>7. CASE CancelTask(n, s)
    <3>1. PICK st \in {"CRASHED", "CANCELED"}, b \in [phase : TaskPhases, inv : Nat] : EndsTask(n, s, st, b)
      BY <2>2, <2>7, CancelCloses
    <3> QED BY <3>1, CloseEnd
  <2>8. ASSUME NEW ts \in SUBSET (Targets(n) \ Misrouted(n)), Misroute(n, s, ts) PROVE EndInv'
    BY <2>1, <2>8, PlainFacts DEF Misroute
  <2> QED BY <1>7, <2>3, <2>4, <2>5, <2>6, <2>7, <2>8 DEF TaskStep
<1>8. ASSUME NEW n \in Nodes, NEW s \in Slots, Fault(n, s) \/ Interrupt(n, s) PROVE EndInv'
  <2>1. PICK st \in {"CRASHED", "CANCELED"}, b \in [phase : TaskPhases, inv : Nat] : EndsTask(n, s, st, b)
    BY <1>8, RaiseCloses
  <2> QED BY <2>1, CloseEnd
<1>9. ASSUME NEW n \in Nodes, NEW s \in Slots, BeginDies(n, s) PROVE EndInv'
  BY <1>9, BeginDiesEnd
<1>10. ASSUME NEW n \in Nodes, NEW s \in Slots, NEW u \in Nodes, Emit(n, s, u) PROVE EndInv'
  BY <1>10, EmitEnd
<1>11. ASSUME NEW n \in Nodes, NEW s \in Slots, NEW dsts \in SUBSET Outputs(n), CompleteDies(n, s, dsts)
       PROVE  EndInv'
  BY <1>11, CompleteDiesEnd
<1> QED
  BY <1>1, <1>2, <1>3, <1>4, <1>5, <1>6, <1>7, <1>8, <1>9, <1>10, <1>11 DEF Next, LoopStep

LEMMA EndInvariant ==
    ASSUME Plain, EveryNodeReachesEnd
    PROVE  Spec => [](Based /\ JoinInv /\ EndInv)
<1>1. Init => EndInv
  <2>1. ASSUME Init PROVE EndInv
    BY <2>1, GraphAssumption DEF Init, Latest, EndInv, Closing, Reaching, Verdict
  <2> QED BY <2>1
<1>2. /\ Based /\ Based' /\ JoinInv /\ JoinInv' /\ EndInv /\ [Next]_vars => EndInv'
  <2>1. ASSUME Based, Based', JoinInv, JoinInv', EndInv, Next PROVE EndInv'
    BY <2>1, EndKept DEF Based
  <2>2. ASSUME EndInv, UNCHANGED vars PROVE EndInv'
    BY <2>2 DEF vars, EndInv, Closing, Reaching, Verdict, Undone, Fed, Feeds, Done, LatestStatus,
        Latest
  <2> QED BY <2>1, <2>2
<1> QED BY JoinInvariant, <1>1, <1>2, PTL DEF Spec

\* Under the conditions of the join theorems, and when every node leads to
\* End: a run that ends by itself is COMPLETED exactly when End has run in it,
\* whatever crashes, drains and recoveries it went through.
THEOREM EndDecides ==
    ASSUME Plain, EveryNodeReachesEnd
    PROVE  Spec => []CompletedMeansEnd
<1>1. Based /\ JoinInv /\ EndInv => CompletedMeansEnd
  <2>1. ASSUME Based, JoinInv, EndInv, status \in {"COMPLETED", "FAILED"}
        PROVE  status = "COMPLETED" <=> RunStatus(End) = "COMPLETED"
    <3>1. Typed /\ OneRun /\ Undone = {}
      BY <2>1 DEF Based, JoinInv, Ledger, EndSettled, Ending, Settled
    <3>2. RunStatus(End) = LatestStatus(End)
      BY <3>1, RunStatusIs, GraphAssumption
    <3>3. LatestStatus(End) = "COMPLETED" <=> Latest(End) # 0
      BY <3>1, StatusOf, GraphAssumption DEF Undone
    <3>4. status = "COMPLETED" <=> Latest(End) # 0
      BY <2>1 DEF EndInv, Verdict
    <3> QED BY <3>2, <3>3, <3>4
  <2> QED BY <2>1 DEF CompletedMeansEnd
<1> QED BY EndInvariant, <1>1, PTL
=============================================================================
