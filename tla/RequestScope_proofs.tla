------------------------ MODULE RequestScope_proofs ------------------------
(* Theorems about RequestScope for any number of requests, any asking and    *)
(* approving turns and any bounds, whether the queries of the stores suspend *)
(* or not: the type of the state, what a cancel leaves behind and which      *)
(* outcomes stay.                                                            *)
EXTENDS RequestScope, Selection_proofs

-----------------------------------------------------------------------------
(* The types *)

Pcs == {"idle", "start", "next", "turn", "stale", "asking", "answering", "tracking",
        "noting", "ack", "end", "peek", "mark", "leave"}

\* Where a task is at the first message of its batch.
AtMessage == {"turn", "stale", "asking", "answering", "tracking", "noting", "ack"}

Clients == {"new", "interrupting", "interrupted", "beginning", "reserved", "releasing",
            "activating", "submitting", "delivering", "waiting", "asleep", "running",
            "tracks", "rest", "joining", "settling", "failing", "done"}

Cancels == {"none", "starting", "closing", "draining", "drained", "cleaned", "settling", "done"}

Tasks == [pc : Pcs, batch : Seq(Messages), scope : Scopes \union {NoScope},
          cancelled : BOOLEAN, left : BOOLEAN]

Writers == {"begin", "interrupt", "release", "activate", "fail", "wait", "note", "close", "cancel"}
Writes == [by : Writers, scope : Scopes \union {NoScope}, state : States]
Facts == {"none", "finished", "failed", "handled"}

ScopeTypes ==
    /\ suspends \in BOOLEAN /\ current \in Scopes \union {NoScope}
    /\ rec \in [Scopes -> [state : States, fact : Facts, from : Scopes \union {NoScope}]]
    /\ disk \in [scope : Scopes \union {NoScope}, state : States]
    /\ writes \in Seq(Writes)

InboxTypes ==
    /\ queue \in [Sessions -> Seq(Messages)] /\ work \in [Sessions -> Seq(Messages)]
    /\ tracks \subseteq Messages /\ snapshot \in BOOLEAN

ActorTypes ==
    /\ pendingInput \subseteq Sessions /\ event \in [flag : BOOLEAN, woken : SUBSET Scopes]
    /\ client \in [Scopes -> Clients] /\ cancel \in [Scopes -> Cancels]
    /\ asked \subseteq Scopes /\ suspended \subseteq Scopes

\* The tasks: one that is at a message has one, one that asks or answers has a
\* scope, and a session runs exactly while it has a task.
TaskTypes ==
    /\ task \in [Sessions -> Tasks]
    /\ running = {x \in Sessions : task[x].pc # "idle"}
    /\ \A x \in Sessions : /\ task[x].pc = "idle" => task[x] = NoTask
                           /\ task[x].pc \in AtMessage => task[x].batch # <<>>
                           /\ task[x].pc \in {"asking", "answering", "tracking"} =>
                                 task[x].scope \in Scopes

Typed == ScopeTypes /\ InboxTypes /\ ActorTypes /\ TaskTypes

LEMMA TypedIsTypeOK == ASSUME Typed PROVE TypeOK
<1>1. ScopeTypes /\ InboxTypes /\ ActorTypes /\ TaskTypes
  BY DEF Typed
<1>2. /\ suspends \in BOOLEAN /\ current \in Scopes \union {NoScope}
      /\ rec \in [Scopes -> [state : States, fact : {"none", "finished", "failed", "handled"},
                             from : Scopes \union {NoScope}]]
      /\ disk \in [scope : Scopes \union {NoScope}, state : States]
      /\ writes \in Seq([by : {"begin", "interrupt", "release", "activate", "fail", "wait", "note",
                               "close", "cancel"},
                         scope : Scopes \union {NoScope}, state : States])
  BY <1>1, Zenon DEF ScopeTypes, Facts, Writes, Writers
<1>3. /\ running \subseteq Sessions
      /\ \A x \in Sessions : (x \in running) = (task[x].pc # "idle")
  BY <1>1 DEF TaskTypes
<1> QED BY <1>1, <1>2, <1>3, Zenon DEF TypeOK, InboxTypes, ActorTypes

LEMMA NoTaskType == NoTask \in Tasks
<1>1. <<>> \in Seq(Messages)
  OBVIOUS
<1> HIDE DEF Messages
<1> QED BY <1>1 DEF NoTask, Tasks, Pcs

LEMMA MessageTypes ==
    /\ Message("decision", NoScope) \in Messages
    /\ \A s \in Scopes : /\ Message("prompt", s) \in Messages /\ Message("task", s) \in Messages
                         /\ Message("result", s) \in Messages
  BY DEF Message, Messages

LEMMA TypedInit == ASSUME Init PROVE Typed
<1>1. ScopeTypes
  <2>1. <<>> \in Seq(Writes)
    OBVIOUS
  <2>2. NoRec \in [state : States, fact : Facts, from : Scopes \union {NoScope}]
    BY DEF NoRec, States, Terminal, Facts
  <2>3. "none" \in States
    BY DEF States
  <2> QED BY <2>1, <2>2, <2>3 DEF Init, ScopeTypes
<1>2. InboxTypes
  <2>1. <<>> \in Seq(Messages)
    OBVIOUS
  <2> HIDE DEF Messages
  <2> QED BY <2>1 DEF Init, InboxTypes
<1>3. ActorTypes
  BY DEF Init, ActorTypes, NoEvent, Clients, Cancels
<1>4. TaskTypes
  <2>1. task = [x \in Sessions |-> NoTask] /\ running = {} /\ NoTask.pc = "idle"
    BY DEF Init, NoTask
  <2> QED BY <2>1, NoTaskType DEF TaskTypes, AtMessage
<1> QED BY <1>1, <1>2, <1>3, <1>4 DEF Typed

-----------------------------------------------------------------------------
(* The inductive invariant *)

Pending == ToSet(writes)

\* The handler that waits for the registration w.
Owner(w) ==
    /\ w.by \in {"begin", "activate", "fail", "wait", "close", "cancel"} => w.scope \in Scopes
    /\ w.by = "begin" => client[w.scope] = "beginning"
    /\ w.by = "interrupt" => \E s \in Scopes : client[s] = "interrupting"
    /\ w.by = "release" => \E s \in Scopes : client[s] = "releasing"
    /\ w.by = "activate" => client[w.scope] = "activating"
    /\ w.by = "fail" => client[w.scope] = "failing" /\ w.state \in Terminal \ {"cancelled"}
    /\ w.by = "wait" => client[w.scope] = "settling" /\ w.state \in Terminal \ {"cancelled"}
    /\ w.by = "note" => task[Root].pc = "noting"
    /\ w.by = "close" => cancel[w.scope] = "closing"
    /\ w.by = "cancel" => cancel[w.scope] = "settling" /\ w.state \in Terminal

\* Two registrations that one handler would wait for.
Same(v, w) == v.by = w.by /\ (v.scope = w.scope \/ v.by \in {"interrupt", "release", "note"})

\* A handler waits for the one registration it has begun.
Owned ==
    /\ \A w \in Pending : Owner(w)
    /\ IsInjective(writes) /\ \A v, w \in Pending : Same(v, w) => v = w

Untouched == {"new", "interrupting", "interrupted"}

\* A scope that is not installed yet has no record and no cancel.
FreshScopes ==
    \A s \in Scopes : client[s] \in Untouched =>
        State(s) = "none" /\ current # s /\ cancel[s] = "none"

Closed == {"closing", "draining", "drained", "cleaned", "settling"}

\* What a cancel has closed stays closed to new turns,
ClosedScopes ==
    \A s \in Scopes : cancel[s] \in Closed => State(s) \in Terminal \union {"cancelling"}

Busy(x, s) == task[x].scope = s /\ task[x].pc # "idle"

\* the turns that were there are cancelled,
CancelledTurns ==
    \A s \in Scopes : cancel[s] \in {"draining", "drained"} =>
        \A x \in Sessions : Busy(x, s) => task[x].cancelled

\* and once they were awaited there is none.
QuietScopes ==
    \A s \in Scopes : cancel[s] \in {"cleaned", "settling"} \/ State(s) = "cancelled" =>
        \A x \in Sessions : ~Busy(x, s)

\* A client that settles a scope which nobody cancels is the only one to do so.
OneOutcome ==
    \A w \in Pending : w.by \in {"fail", "wait"} /\ cancel[w.scope] = "none" =>
        State(w.scope) \notin Terminal

\* Who was woken had been asleep and has not gone on.
Sleepers == \A s \in event.woken : client[s] = "asleep"

IInv ==
    /\ Typed /\ Owned /\ FreshScopes /\ ClosedScopes /\ CancelledTurns /\ QuietScopes
    /\ OneOutcome /\ Sleepers

LEMMA Start == ASSUME Init PROVE IInv
<1>1. Typed
  BY TypedInit
<1>2. Pending = {} /\ IsInjective(writes)
  BY DEF Init, Pending, ToSet, IsInjective
<1>3. Owned /\ OneOutcome /\ Sleepers
  BY <1>2 DEF Owned, OneOutcome, Sleepers, Init, NoEvent
<1>4. /\ \A s \in Scopes : State(s) = "none" /\ current # s /\ cancel[s] = "none"
      /\ \A x \in Sessions : task[x].pc = "idle"
  BY ScopeAssumption DEF Init, State, NoRec, NoTask
<1>5. FreshScopes /\ ClosedScopes /\ CancelledTurns /\ QuietScopes
  BY <1>4 DEF FreshScopes, ClosedScopes, Closed, CancelledTurns, QuietScopes, Busy, Terminal
<1> QED BY <1>1, <1>3, <1>5 DEF IInv

-----------------------------------------------------------------------------
(* The registrations *)

\* An appended registration is one more,
LEMMA WriteAdded ==
    ASSUME ScopeTypes, IsInjective(writes), NEW w \in Writes, w \notin Pending,
           writes' = Append(writes, w)
    PROVE  writes' \in Seq(Writes) /\ Pending' = Pending \union {w} /\ IsInjective(writes')
  BY AppendFacts DEF ScopeTypes, Pending

\* and one that is done is gone.
LEMMA WriteDone ==
    ASSUME ScopeTypes, IsInjective(writes), writes # <<>>, writes' = Tail(writes)
    PROVE  /\ writes' \in Seq(Writes) /\ Pending' = Pending \ {Head(writes)}
           /\ Head(writes) \in Pending /\ Head(writes) \in Writes /\ IsInjective(writes')
<1> DEFINE n == Len(writes)
           h == Head(writes)
<1>1. /\ n \in Nat \ {0} /\ writes \in Seq(Writes) /\ DOMAIN writes = 1..n
      /\ h = writes[1] /\ h \in Writes
  BY DEF ScopeTypes
<1>2. /\ writes' \in Seq(Writes) /\ DOMAIN writes' = 1..(n - 1)
      /\ \A i \in 1..(n - 1) : writes'[i] = writes[i + 1]
  BY <1>1, SMT
<1> HIDE DEF n, h
<1>3. h \in Pending
  BY <1>1 DEF Pending, ToSet
<1>4. IsInjective(writes')
  <2>1. ASSUME NEW i \in 1..(n - 1), NEW j \in 1..(n - 1), writes'[i] = writes'[j] PROVE i = j
    <3>1. i + 1 \in 1..n /\ j + 1 \in 1..n /\ writes[i + 1] = writes[j + 1]
      BY <1>1, <1>2, <2>1
    <3>2. i + 1 = j + 1
      BY <1>1, <3>1 DEF IsInjective
    <3> QED BY <1>1, <3>2
  <2> QED BY <1>2, <2>1 DEF IsInjective
<1>5. Pending' \subseteq Pending \ {h}
  <2>1. ASSUME NEW i \in 1..(n - 1) PROVE writes'[i] \in Pending \ {h}
    <3>1. i + 1 \in 1..n /\ i + 1 # 1 /\ 1 \in 1..n /\ writes'[i] = writes[i + 1]
      BY <1>1, <1>2
    <3> QED BY <1>1, <3>1 DEF IsInjective, Pending, ToSet
  <2> QED BY <1>2, <2>1 DEF Pending, ToSet
<1>6. Pending \ {h} \subseteq Pending'
  <2>1. ASSUME NEW i \in 1..n, writes[i] # h PROVE writes[i] \in Pending'
    <3>1. i - 1 \in 1..(n - 1) /\ writes'[i - 1] = writes[i]
      BY <1>1, <1>2, <2>1
    <3> QED BY <1>2, <3>1 DEF Pending, ToSet
  <2> QED BY <1>1, <2>1 DEF Pending, ToSet
<1> QED BY <1>1, <1>2, <1>3, <1>4, <1>5, <1>6 DEF h

-----------------------------------------------------------------------------
(* What a step may change, while it is neither a registration nor a crash.   *)
(* Each conjunct of Moves says it of one part of the state; every action     *)
(* satisfies Moves, and Moves preserves the invariant.                       *)

\* The handlers that wait for a registration.
Writing == {"interrupting", "beginning", "releasing", "activating", "failing", "settling"}

\* Who waits for a registration goes on waiting,
Loyal ==
    /\ \A s \in Scopes : client[s] \in Writing => client'[s] = client[s]
    /\ \A s \in Scopes : cancel[s] \in {"closing", "settling"} => cancel'[s] = cancel[s]
    /\ task[Root].pc = "noting" => task'[Root].pc = "noting"

\* and a new registration is one that nobody waits for yet.
NewWrite(w) ==
    /\ w \in Writes /\ writes' = Append(writes, w)
    /\ Owner(w)' /\ \A v \in Pending : ~Same(v, w)
    /\ w.by \in {"fail", "wait"} => State(w.scope) \notin Terminal /\ rec' = rec

Added == writes' = writes \/ \E w \in Writes : NewWrite(w)

\* A record is installed, goes on, or is closed by its cancel.
Recorded ==
    \A s \in Scopes : rec'[s].state # rec[s].state =>
        \/ client[s] \in Untouched /\ client'[s] = "beginning" /\ rec'[s].state = "reserved"
        \/ /\ client[s] \notin Untouched
           /\ State(s) \notin Terminal \union {"cancelling"}
           /\ rec'[s].state \in {"active", "awaiting"}
        \/ cancel[s] = "starting" /\ cancel'[s] = "closing" /\ rec'[s].state = "cancelling"

\* The current scope is the one that its client installs.
Installed ==
    /\ \/ current' = current \/ current' = NoScope
       \/ current' \in Scopes /\ client'[current'] = "beginning"
    /\ \A s \in Scopes : client'[s] \in Untouched => client[s] \in Untouched

\* A cancel goes its way.
CancelMoves ==
    \A s \in Scopes : cancel'[s] # cancel[s] =>
        \/ cancel[s] = "none" /\ cancel'[s] = "starting" /\ client[s] \notin Untouched
        \/ cancel[s] = "starting" /\ cancel'[s] = "closing" /\ rec'[s].state = "cancelling"
        \/ /\ cancel[s] \in {"draining", "drained"} /\ cancel'[s] = "cleaned"
           /\ task' = task /\ \A x \in Sessions : ~task[x].cancelled
        \/ cancel[s] = "cleaned" /\ cancel'[s] \in {"settling", "done"}

\* A turn of s starts only while s is current and runs or awaits an approval.
TurnMoves ==
    \A s \in Scopes, x \in Sessions : Busy(x, s)' =>
        \/ Busy(x, s) /\ (task[x].cancelled => task'[x].cancelled)
        \/ current = s /\ State(s) \in {"active", "awaiting"}

Moves == Loyal /\ Added /\ Recorded /\ Installed /\ CancelMoves /\ TurnMoves /\ Sleepers'

\* The steps that change nothing of this but the place of one client,
LEMMA ClientMoves ==
    ASSUME IInv, UNCHANGED <<current, rec, writes, cancel, task>>,
           NEW s \in Scopes, client[s] \notin Writing \union Untouched,
           NEW pc, pc \notin Untouched, client' = [client EXCEPT ![s] = pc],
           event'.woken \subseteq event.woken \union {t \in Scopes : client[t] = "asleep"},
           client[s] = "asleep" => s \notin event'.woken
    PROVE  Moves
<1>1. client \in [Scopes -> Clients]
  BY DEF IInv, Typed, ActorTypes
<1>2. client'[s] = pc /\ \A t \in Scopes : t # s => client'[t] = client[t]
  BY <1>1
<1>3. Loyal /\ Added
  BY <1>2 DEF Loyal, Added
<1>4. Recorded /\ CancelMoves
  BY DEF Recorded, CancelMoves
<1>5. Installed
  BY <1>2 DEF Installed
<1>6. TurnMoves
  BY DEF TurnMoves, Busy
<1>7. Sleepers'
  <2>1. \A t \in event'.woken : client[t] = "asleep" /\ t \in Scopes
    BY DEF IInv, Sleepers, Typed, ActorTypes
  <2> QED BY <1>2, <2>1 DEF Sleepers
<1> QED BY <1>3, <1>4, <1>5, <1>6, <1>7 DEF Moves

\* and those that change nothing but the task of one session.
LEMMA TaskMoves ==
    ASSUME IInv, UNCHANGED <<current, rec, writes, client, cancel>>, NEW x \in Sessions,
           \A y \in Sessions \ {x} : task'[y] = task[y],
           x = Root /\ task[x].pc = "noting" => task'[x].pc = "noting",
           \/ task'[x].scope \notin Scopes \/ task'[x].pc = "idle"
           \/ /\ task'[x].scope = task[x].scope /\ task[x].pc # "idle"
              /\ (task[x].cancelled => task'[x].cancelled)
           \/ task'[x].scope = current /\ CurrentState \in {"active", "awaiting"},
           event'.woken \subseteq event.woken \union {t \in Scopes : client[t] = "asleep"}
    PROVE  Moves
<1>0. Root \in Sessions
  BY DEF Sessions
<1>1. Loyal /\ Added
  BY <1>0 DEF Loyal, Added
<1>2. Recorded /\ CancelMoves /\ Installed
  BY DEF Recorded, CancelMoves, Installed
<1>3. TurnMoves
  <2>1. ASSUME NEW s \in Scopes, NEW y \in Sessions, Busy(y, s)'
        PROVE  \/ Busy(y, s) /\ (task[y].cancelled => task'[y].cancelled)
               \/ current = s /\ State(s) \in {"active", "awaiting"}
    <3>1. s # NoScope
      BY ScopeAssumption
    <3>2. CASE y # x
      BY <2>1, <3>2 DEF Busy
    <3>3. CASE y = x
      BY <2>1, <3>1, <3>3 DEF Busy, CurrentState
    <3> QED BY <3>2, <3>3
  <2> QED BY <2>1 DEF TurnMoves
<1>4. Sleepers'
  BY DEF IInv, Sleepers
<1> QED BY <1>1, <1>2, <1>3, <1>4 DEF Moves

-----------------------------------------------------------------------------
(* The steps of the clients and of the approvals *)

\* Signal wakes those who sleep.
LEMMA SignalWakes ==
    ASSUME Signal
    PROVE  event'.woken \subseteq event.woken \union {t \in Scopes : client[t] = "asleep"}
  BY DEF Signal

LEMMA SleepIsNoWrite == Sleep \in {"waiting", "asleep"}
  BY DEF Sleep

\* A client that begins a registration.
LEMMA ClientWrites ==
    ASSUME IInv, UNCHANGED <<cancel, task>>, NEW s \in Scopes, client[s] \notin Writing \union {"asleep"},
           NEW pc, pc \notin {"new", "interrupted"}, client' = [client EXCEPT ![s] = pc],
           client[s] \in Untouched \/ pc \notin Untouched,
           Added, Recorded, Installed,
           event'.woken \subseteq event.woken \union {t \in Scopes : client[t] = "asleep"}
    PROVE  Moves
<1>1. client \in [Scopes -> Clients]
  BY DEF IInv, Typed, ActorTypes
<1>2. client'[s] = pc /\ \A t \in Scopes : t # s => client'[t] = client[t]
  BY <1>1
<1>3. Loyal
  BY <1>2 DEF Loyal
<1>4. CancelMoves
  BY DEF CancelMoves
<1>6. TurnMoves
  BY DEF TurnMoves, Busy
<1>7. Sleepers'
  <2>1. \A t \in event'.woken : client[t] = "asleep" /\ t \in Scopes
    BY DEF IInv, Sleepers, Typed, ActorTypes
  <2> QED BY <1>2, <2>1 DEF Sleepers
<1> QED BY <1>3, <1>4, <1>6, <1>7 DEF Moves

\* The scope of s is installed.
LEMMA InstallMoves ==
    ASSUME IInv, UNCHANGED <<cancel, task>>, NEW s \in Scopes, client[s] \in {"new", "interrupted"},
           Install(s), event'.woken \subseteq event.woken
    PROVE  Moves
<1> DEFINE w == [by |-> "begin", scope |-> s, state |-> "reserved"]
<1>1. /\ client \in [Scopes -> Clients]
      /\ rec \in [Scopes -> [state : States, fact : Facts, from : Scopes \union {NoScope}]]
  BY DEF IInv, Typed, ActorTypes, ScopeTypes
<1>2. /\ client' = [client EXCEPT ![s] = "beginning"] /\ current' = s
      /\ rec' = [rec EXCEPT ![s].state = "reserved"] /\ writes' = Append(writes, w)
  BY DEF Install, Write
<1>3. Added
  <2>1. w \in Writes /\ w.by = "begin" /\ w.scope = s
    BY DEF Writes, Writers, States
  <2> HIDE DEF w
  <2>2. Owner(w)'
    BY <1>1, <1>2, <2>1 DEF Owner
  <2>3. \A v \in Pending : ~Same(v, w)
    BY <2>1 DEF IInv, Owned, Owner, Same
  <2> QED BY <1>2, <2>1, <2>2, <2>3 DEF Added, NewWrite
<1>4. Recorded
  BY <1>1, <1>2 DEF Recorded, Untouched
<1>5. Installed
  BY <1>1, <1>2 DEF Installed, Untouched
<1> QED BY <1>2, <1>3, <1>4, <1>5, ClientWrites DEF Untouched, Writing

LEMMA BeginMoves == ASSUME IInv, NEW s \in Scopes, Begin(s) PROVE Moves
<1>1. client[s] = "new" /\ UNCHANGED <<cancel, task>> /\ event' = event
  BY DEF Begin, tree
<1>2. CASE Install(s)
  BY <1>1, <1>2, InstallMoves
<1>3. CASE ~Install(s)
  <2>1. /\ client' = [client EXCEPT ![s] = "interrupting"] /\ UNCHANGED <<current, rec>>
        /\ writes' = Append(writes, [by |-> "interrupt", scope |-> disk.scope, state |-> "interrupted"])
        /\ AdmissionFree
    BY <1>3 DEF Begin, Write
  <2>2. /\ client \in [Scopes -> Clients]
        /\ [by |-> "interrupt", scope |-> disk.scope, state |-> "interrupted"] \in Writes
    BY DEF IInv, Typed, ActorTypes, ScopeTypes, Writes, Writers, States, Terminal
  <2>3. PICK w \in Writes : w.by = "interrupt" /\ writes' = Append(writes, w)
    BY <2>1, <2>2
  <2>4. Owner(w)'
    <3>1. client'[s] = "interrupting"
      BY <2>1, <2>2
    <3> QED BY <2>3, <3>1 DEF Owner
  <2>5. \A v \in Pending : ~Same(v, w)
    <3>1. \A t \in Scopes : client[t] # "interrupting"
      BY <2>1 DEF AdmissionFree
    <3>2. \A v \in Pending : Owner(v)
      BY DEF IInv, Owned
    <3> QED BY <2>3, <3>1, <3>2 DEF Owner, Same
  <2>6. Added
    BY <2>1, <2>2, <2>3, <2>4, <2>5 DEF Added, NewWrite
  <2>7. Recorded
    BY <2>1 DEF Recorded
  <2>8. Installed
    BY <1>1, <2>1, <2>2 DEF Installed, Untouched
  <2> QED BY <1>1, <2>1, <2>6, <2>7, <2>8, ClientWrites DEF Untouched, Writing
<1> QED BY <1>2, <1>3

LEMMA InterruptedBeginMoves == ASSUME IInv, NEW s \in Scopes, InterruptedBegin(s) PROVE Moves
  BY InstallMoves DEF InterruptedBegin, tree

LEMMA ReleaseMoves == ASSUME IInv, NEW s \in Scopes, Release(s) PROVE Moves
<1>1. client[s] = "reserved" /\ UNCHANGED <<cancel, task, rec>> /\ event' = event /\ AdmissionFree
  BY DEF Release, tree
<1>2. CASE current = s /\ State(s) = "reserved"
  <2> DEFINE w == [by |-> "release", scope |-> NoScope, state |-> "none"]
  <2>1. /\ client' = [client EXCEPT ![s] = "releasing"] /\ current' = NoScope
        /\ writes' = Append(writes, w)
    BY <1>2 DEF Release, Write
  <2>2. client \in [Scopes -> Clients] /\ w \in Writes
    BY DEF IInv, Typed, ActorTypes, ScopeTypes, Writes, Writers, States
  <2>3. w.by = "release"
    OBVIOUS
  <2> HIDE DEF w
  <2>4. Owner(w)'
    BY <2>1, <2>2, <2>3 DEF Owner
  <2>5. \A v \in Pending : ~Same(v, w)
    BY <1>1, <2>3 DEF IInv, Owned, Owner, Same, AdmissionFree
  <2>6. Added
    BY <2>1, <2>2, <2>3, <2>4, <2>5 DEF Added, NewWrite
  <2>7. Recorded
    BY <1>1 DEF Recorded
  <2>8. Installed
    BY <1>1, <2>1, <2>2 DEF Installed, Untouched
  <2> QED BY <1>1, <2>1, <2>6, <2>7, <2>8, ClientWrites DEF Untouched, Writing
<1>3. CASE ~(current = s /\ State(s) = "reserved")
  <2>1. client' = [client EXCEPT ![s] = "done"] /\ UNCHANGED <<current, writes>>
    BY <1>3 DEF Release
  <2> QED BY <1>1, <2>1, ClientMoves DEF Untouched, Writing
<1> QED BY <1>2, <1>3

LEMMA ActivateMoves == ASSUME IInv, NEW s \in Scopes, Activate(s) PROVE Moves
<1>1. client[s] = "reserved" /\ UNCHANGED <<cancel, task, current>> /\ event' = event
  BY DEF Activate, tree
<1>2. CASE current = s /\ State(s) = "reserved"
  <2> DEFINE w == [by |-> "activate", scope |-> s, state |-> "active"]
  <2>1. /\ client' = [client EXCEPT ![s] = "activating"] /\ writes' = Append(writes, w)
        /\ rec' = [rec EXCEPT ![s].state = "active"]
    BY <1>2 DEF Activate, Transition, Write
  <2>2. /\ client \in [Scopes -> Clients] /\ w \in Writes
        /\ rec \in [Scopes -> [state : States, fact : Facts, from : Scopes \union {NoScope}]]
    BY DEF IInv, Typed, ActorTypes, ScopeTypes, Writes, Writers, States
  <2>3. w.by = "activate" /\ w.scope = s
    OBVIOUS
  <2> HIDE DEF w
  <2>4. Owner(w)'
    BY <2>1, <2>2, <2>3 DEF Owner
  <2>5. \A v \in Pending : ~Same(v, w)
    BY <1>1, <2>3 DEF IInv, Owned, Owner, Same
  <2>6. Added
    BY <2>1, <2>2, <2>3, <2>4, <2>5 DEF Added, NewWrite
  <2>7. Recorded
    BY <1>1, <1>2, <2>1, <2>2 DEF Recorded, State, Untouched, Terminal
  <2>8. Installed
    BY <1>1, <2>1, <2>2 DEF Installed, Untouched
  <2> QED BY <1>1, <2>1, <2>6, <2>7, <2>8, ClientWrites DEF Untouched, Writing
<1>3. CASE ~(current = s /\ State(s) = "reserved")
  <2>1. client' = [client EXCEPT ![s] = "done"] /\ UNCHANGED <<rec, writes>>
    BY <1>3 DEF Activate
  <2> QED BY <1>1, <2>1, ClientMoves DEF Untouched, Writing
<1> QED BY <1>2, <1>3

\* The client of s begins to settle it.
LEMMA SettleMoves ==
    ASSUME IInv, UNCHANGED <<cancel, task, current, event>>, NEW s \in Scopes,
           NEW by, NEW pc, NEW state \in Terminal \ {"cancelled"},
           (by = "fail" /\ pc = "failing") \/ (by = "wait" /\ pc = "settling"),
           client[s] \notin Writing \union Untouched \union {"asleep"},
           client' = [client EXCEPT ![s] = pc], Settle(by, s, state)
    PROVE  Moves
<1> DEFINE w == [by |-> by, scope |-> s, state |-> state]
<1>1. State(s) \notin Terminal /\ rec' = rec /\ writes' = Append(writes, w)
  BY DEF Settle, Write
<1>2. client \in [Scopes -> Clients] /\ w \in Writes
  BY DEF IInv, Typed, ActorTypes, Writes, Writers, States
<1>3. w.by = by /\ w.scope = s /\ w.state = state
  OBVIOUS
<1> HIDE DEF w
<1>4. Owner(w)'
  BY <1>2, <1>3 DEF Owner
<1>5. \A v \in Pending : ~Same(v, w)
  BY <1>3 DEF IInv, Owned, Owner, Same, Writing
<1>6. Added
  BY <1>1, <1>2, <1>3, <1>4, <1>5 DEF Added, NewWrite
<1>7. Recorded
  BY <1>1 DEF Recorded
<1>8. Installed
  BY <1>2 DEF Installed, Untouched
<1> QED BY <1>6, <1>7, <1>8, ClientWrites DEF Untouched, Writing

LEMMA SubmitMoves == ASSUME IInv, NEW s \in Scopes, Submit(s) PROVE Moves
<1>1. client[s] = "submitting" /\ UNCHANGED <<cancel, task, current, event>>
  BY DEF Submit
<1>2. CASE Live(s) /\ State(s) # "cancelling"
  <2>1. client' = [client EXCEPT ![s] = "delivering"] /\ UNCHANGED <<rec, writes>>
    BY <1>2 DEF Submit
  <2> QED BY <1>1, <2>1, ClientMoves DEF Untouched, Writing
<1>3. CASE Live(s) /\ State(s) = "cancelling"
  <2>1. Settle("fail", s, "failed") /\ client' = [client EXCEPT ![s] = "failing"]
    BY <1>3 DEF Submit
  <2>2. "failed" \in Terminal \ {"cancelled"}
    BY DEF Terminal
  <2> QED BY <1>1, <2>1, <2>2, SettleMoves DEF Untouched, Writing
<1>4. CASE ~Live(s)
  <2>1. client' = [client EXCEPT ![s] = "done"] /\ UNCHANGED <<rec, writes>>
    BY <1>4 DEF Submit
  <2> QED BY <1>1, <2>1, ClientMoves DEF Untouched, Writing
<1> QED BY <1>2, <1>3, <1>4

LEMMA DeliverMoves == ASSUME IInv, NEW s \in Scopes, Deliver(s) PROVE Moves
<1>1. /\ client[s] = "delivering" /\ UNCHANGED <<cancel, task, current, rec, writes>>
      /\ client' = [client EXCEPT ![s] = "waiting"] /\ Signal
  BY DEF Deliver, scope, stores
<1> QED BY <1>1, ClientMoves, SignalWakes DEF Untouched, Writing

LEMMA DeliverFailsMoves == ASSUME IInv, NEW s \in Scopes, DeliverFails(s) PROVE Moves
<1>1. client[s] = "delivering" /\ UNCHANGED <<cancel, task, current>>
  BY DEF DeliverFails
<1>2. CASE Live(s)
  <2>1. /\ Settle("fail", s, "failed") /\ client' = [client EXCEPT ![s] = "failing"]
        /\ event' = event
    BY <1>2 DEF DeliverFails
  <2>2. "failed" \in Terminal \ {"cancelled"}
    BY DEF Terminal
  <2> QED BY <1>1, <2>1, <2>2, SettleMoves DEF Untouched, Writing
<1>3. CASE ~Live(s)
  <2>1. client' = [client EXCEPT ![s] = "waiting"] /\ UNCHANGED <<rec, writes>> /\ Signal
    BY <1>3 DEF DeliverFails
  <2> QED BY <1>1, <2>1, ClientMoves, SignalWakes DEF Untouched, Writing
<1> QED BY <1>2, <1>3

LEMMA WaitMoves == ASSUME IInv, NEW s \in Scopes, Wait(s) PROVE Moves
<1>1. CASE Look(s)
  <2>1. client[s] \in {"waiting", "asleep"}
    BY <1>1 DEF Look, IInv, Sleepers
  <2>2. /\ client' = [client EXCEPT ![s] = "running"] /\ event'.woken = event.woken \ {s}
        /\ UNCHANGED <<cancel, task, current, rec, writes>>
    BY <1>1 DEF Look, Goes, WaitFrame, scope, stores
  <2>3. s \notin event'.woken /\ event'.woken \subseteq event.woken
    BY <2>2
  <2> QED BY <2>1, <2>2, <2>3, ClientMoves DEF Untouched, Writing
<1>2. CASE LookAtRunning(s)
  <2>1. PICK pc \in {"waiting", "asleep", "tracks"} : client' = [client EXCEPT ![s] = pc]
    BY <1>2, SleepIsNoWrite DEF LookAtRunning, Goes
  <2>2. client[s] = "running" /\ event' = event /\ UNCHANGED <<cancel, task, current, rec, writes>>
    BY <1>2 DEF LookAtRunning, WaitFrame, scope, stores
  <2> QED BY <2>1, <2>2, ClientMoves DEF Untouched, Writing
<1>3. CASE LookAtTracks(s)
  <2>1. PICK pc \in {"waiting", "asleep", "rest"} : client' = [client EXCEPT ![s] = pc]
    BY <1>3, SleepIsNoWrite DEF LookAtTracks, Goes
  <2>2. client[s] = "tracks" /\ event' = event /\ UNCHANGED <<cancel, task, current, rec, writes>>
    BY <1>3 DEF LookAtTracks, WaitFrame, scope, stores
  <2> QED BY <2>1, <2>2, ClientMoves DEF Untouched, Writing
<1>4. CASE LookAtRest(s)
  <2>1. client[s] = "rest" /\ UNCHANGED <<cancel, task, current, event>>
    BY <1>4 DEF LookAtRest, tree
  <2>2. CASE \E pc \in {"waiting", "asleep", "done", "joining"} :
                client' = [client EXCEPT ![s] = pc] /\ UNCHANGED <<rec, writes>>
    BY <2>1, <2>2, ClientMoves DEF Untouched, Writing
  <2>3. CASE Settle("wait", s, OutcomeOf(s)) /\ client' = [client EXCEPT ![s] = "settling"]
    <3>1. PICK state \in Terminal \ {"cancelled"} : Settle("wait", s, state)
      BY <2>3 DEF OutcomeOf, Terminal
    <3> QED BY <2>1, <2>3, <3>1, SettleMoves DEF Untouched, Writing
  <2> QED BY <1>4, <2>2, <2>3, SleepIsNoWrite DEF LookAtRest, Goes
<1>5. CASE Joined(s)
  <2>1. /\ client[s] = "joining" /\ event' = event /\ UNCHANGED <<cancel, task, current, rec, writes>>
        /\ client' = [client EXCEPT ![s] = "waiting"]
    BY <1>5 DEF Joined, WaitFrame, scope, stores, Goes
  <2> QED BY <2>1, ClientMoves DEF Untouched, Writing
<1> QED BY <1>1, <1>2, <1>3, <1>4, <1>5 DEF Wait

\* A step that leaves all this alone.
LEMMA IdleMoves ==
    ASSUME IInv, UNCHANGED <<current, rec, writes, client, cancel, task>>,
           event'.woken \subseteq event.woken \union {t \in Scopes : client[t] = "asleep"}
    PROVE  Moves
<1>1. Root \in Sessions
  BY DEF Sessions
<1>2. Loyal /\ Added /\ Recorded /\ CancelMoves /\ Installed
  BY DEF Loyal, Added, Recorded, CancelMoves, Installed
<1>3. TurnMoves
  BY DEF TurnMoves, Busy
<1>4. Sleepers'
  BY DEF IInv, Sleepers
<1> QED BY <1>2, <1>3, <1>4 DEF Moves

LEMMA ApproveMoves == ASSUME IInv, NEW s \in Scopes, Approve(s) PROVE Moves
<1>1. CASE Decide(s)
  BY <1>1, IdleMoves DEF Decide, scope, stores
<1>2. CASE DeliverDecision(s)
  BY <1>2, IdleMoves, SignalWakes DEF DeliverDecision, scope, stores
<1> QED BY <1>1, <1>2 DEF Approve

LEMMA CallMoves == ASSUME IInv, NEW s \in Scopes, Call(s) PROVE Moves
  BY BeginMoves, InterruptedBeginMoves, ReleaseMoves, ActivateMoves, SubmitMoves, DeliverMoves,
     DeliverFailsMoves DEF Call

-----------------------------------------------------------------------------
(* The steps of the dispatch and of the turns *)

\* Root and Child are two sessions and all there are.
LEMMA TheSessions == Root \in Sessions /\ Child \in Sessions /\ Root # Child
  BY ScopeAssumption DEF Sessions

\* A task at pc goes on to to.
LEMMA StepMoves ==
    ASSUME IInv, UNCHANGED <<current, rec, writes, client, cancel>>, NEW x \in Sessions,
           task[x].pc \notin {"idle", "noting"}, NEW to, Step(x, to),
           event'.woken \subseteq event.woken \union {t \in Scopes : client[t] = "asleep"}
    PROVE  Moves
<1>1. task \in [Sessions -> Tasks]
  BY DEF IInv, Typed, TaskTypes
<1>2. /\ \A y \in Sessions \ {x} : task'[y] = task[y]
      /\ task'[x].scope = task[x].scope /\ task'[x].cancelled = task[x].cancelled
  BY <1>1 DEF Step, Tasks
<1> QED BY <1>2, TaskMoves

LEMMA DispatchMoves == ASSUME IInv, NEW x \in Sessions, Dispatch(x) PROVE Moves
<1>0. task \in [Sessions -> Tasks] /\ (task[x].pc = "idle" => task[x] = NoTask)
  BY DEF IInv, Typed, TaskTypes
<1>1. CASE StartDispatch(x)
  <2>1. /\ task[x] = NoTask /\ task' = [task EXCEPT ![x].pc = "start"] /\ event' = event
        /\ UNCHANGED <<current, rec, writes, client, cancel>>
    BY <1>0, <1>1 DEF StartDispatch, At, Step, TaskFrame
  <2>2. task'[x].scope = NoScope /\ \A y \in Sessions \ {x} : task'[y] = task[y]
    BY <1>0, <2>1 DEF NoTask, Tasks
  <2> QED BY <2>1, <2>2, TaskMoves, ScopeAssumption DEF NoTask
<1>2. CASE Consume(x)
  <2>1. PICK b : task' = [task EXCEPT ![x].pc = "next", ![x].batch = b]
    BY <1>2 DEF Consume
  <2>2. /\ task[x].pc = "start" /\ event' = event
        /\ UNCHANGED <<current, rec, writes, client, cancel>>
    BY <1>2 DEF Consume, At, TaskFrame, tree
  <2>3. /\ task'[x].scope = task[x].scope /\ task'[x].cancelled = task[x].cancelled
        /\ \A y \in Sessions \ {x} : task'[y] = task[y]
    BY <1>0, <2>1 DEF Tasks
  <2> QED BY <2>2, <2>3, TaskMoves
<1>3. CASE Admit(x)
  <2>0. /\ task[x].pc = "next" /\ UNCHANGED <<current, rec, writes, client, cancel>>
    BY <1>3 DEF Admit, At, TaskFrame
  <2>1. event'.woken \subseteq event.woken \union {t \in Scopes : client[t] = "asleep"}
    BY <1>3, SignalWakes DEF Admit, Acknowledge
  <2>2. CASE task' = [task EXCEPT ![x].batch = Tail(@)]
    <3>1. /\ task'[x].scope = task[x].scope /\ task'[x].cancelled = task[x].cancelled
          /\ \A y \in Sessions \ {x} : task'[y] = task[y]
      BY <1>0, <2>2 DEF Tasks
    <3> QED BY <2>0, <2>1, <3>1, TaskMoves
  <2>3. CASE /\ MayDispatch(Head(task[x].batch))
             /\ \E pc : task' = [task EXCEPT ![x].scope = current, ![x].pc = pc]
    <3>1. PICK pc : task' = [task EXCEPT ![x].scope = current, ![x].pc = pc]
      BY <2>3
    <3>2. task'[x].scope = current /\ \A y \in Sessions \ {x} : task'[y] = task[y]
      BY <1>0, <3>1 DEF Tasks
    <3>3. current \notin Scopes \/ CurrentState \in {"active", "awaiting"}
      BY <2>3, ScopeAssumption DEF MayDispatch
    <3> QED BY <2>0, <2>1, <3>2, <3>3, TaskMoves
  <2> QED BY <1>3, <2>2, <2>3 DEF Admit
<1>4. CASE AckTurn(x)
  <2>1. /\ task[x].pc = "ack" /\ UNCHANGED <<current, rec, writes, client, cancel>>
        /\ task' = [task EXCEPT ![x].pc = "next", ![x].batch = Tail(@)]
    BY <1>4 DEF AckTurn, At, TaskFrame
  <2>2. event'.woken \subseteq event.woken \union {t \in Scopes : client[t] = "asleep"}
    BY <1>4, SignalWakes DEF AckTurn, Acknowledge
  <2>3. /\ task'[x].scope = task[x].scope /\ task'[x].cancelled = task[x].cancelled
        /\ \A y \in Sessions \ {x} : task'[y] = task[y]
    BY <1>0, <2>1 DEF Tasks
  <2> QED BY <2>1, <2>2, <2>3, TaskMoves
<1>5. CASE Unwind(x)
  <2>1. /\ task[x].pc \notin {"idle", "noting"} /\ UNCHANGED <<current, rec, writes, client, cancel>>
        /\ task' = [task EXCEPT ![x].pc = "end", ![x].batch = <<>>] /\ event' = event
    BY <1>5 DEF Unwind, TaskFrame, tree
  <2>2. /\ task'[x].scope = task[x].scope /\ task'[x].cancelled = task[x].cancelled
        /\ \A y \in Sessions \ {x} : task'[y] = task[y]
    BY <1>0, <2>1 DEF Tasks
  <2> QED BY <2>1, <2>2, TaskMoves
<1>6. CASE CloseTracks(x)
  <2>1. /\ task[x].pc \in {"end", "next"} /\ UNCHANGED <<current, rec, writes, client, cancel>>
        /\ task' = [task EXCEPT ![x].pc = "peek", ![x].scope = NoScope] /\ event' = event
    BY <1>6 DEF CloseTracks, TaskFrame, tree
  <2>2. task'[x].scope = NoScope /\ \A y \in Sessions \ {x} : task'[y] = task[y]
    BY <1>0, <2>1 DEF Tasks
  <2> QED BY <2>1, <2>2, TaskMoves, ScopeAssumption
<1>7. CASE Peek(x)
  <2>1. PICK b : task' = [task EXCEPT ![x].pc = "mark", ![x].left = b]
    BY <1>7 DEF Peek
  <2>2. /\ task[x].pc = "peek" /\ UNCHANGED <<current, rec, writes, client, cancel>> /\ event' = event
    BY <1>7 DEF Peek, At, TaskFrame, tree
  <2>3. /\ task'[x].scope = task[x].scope /\ task'[x].cancelled = task[x].cancelled
        /\ \A y \in Sessions \ {x} : task'[y] = task[y]
    BY <1>0, <2>1 DEF Tasks
  <2> QED BY <2>2, <2>3, TaskMoves
<1>8. CASE Mark(x)
  BY <1>8, StepMoves DEF Mark, At, TaskFrame
<1>9. CASE Leave(x)
  <2>1. /\ task[x].pc = "leave" /\ UNCHANGED <<current, rec, writes, client, cancel>>
        /\ task' = [task EXCEPT ![x] = NoTask]
    BY <1>9 DEF Leave, At, TaskFrame
  <2>2. task'[x].pc = "idle" /\ \A y \in Sessions \ {x} : task'[y] = task[y]
    BY <1>0, <2>1 DEF NoTask
  <2>3. event'.woken \subseteq event.woken \union {t \in Scopes : client[t] = "asleep"}
    BY <1>9, SignalWakes DEF Leave
  <2> QED BY <2>1, <2>2, <2>3, TaskMoves
<1> QED BY <1>1, <1>2, <1>3, <1>4, <1>5, <1>6, <1>7, <1>8, <1>9 DEF Dispatch

\* A fact of the root: the record goes on and is registered, or only the fact
\* is kept.
LEMMA NoteMoves ==
    ASSUME IInv, UNCHANGED <<current, client, cancel, event>>, NEW fact, Note(fact),
           task[Root].pc \notin {"idle", "noting"}
    PROVE  Moves
<1>0. /\ task \in [Sessions -> Tasks] /\ current \in Scopes \union {NoScope}
      /\ rec \in [Scopes -> [state : States, fact : Facts, from : Scopes \union {NoScope}]]
  BY DEF IInv, Typed, TaskTypes, ScopeTypes
<1>1. CASE Step(Root, "ack") /\ UNCHANGED <<rec, writes>>
  BY <1>1, StepMoves, TheSessions
<1>2. CASE ~(Step(Root, "ack") /\ UNCHANGED <<rec, writes>>)
  <2>1. /\ current \in Scopes /\ State(current) \notin Terminal \union {"cancelling"}
        /\ client[current] \notin Untouched
    BY <1>0, <1>2 DEF Note, CurrentState, IInv, FreshScopes
  <2>2. /\ \E pc \in {"ack", "noting"} : Step(Root, pc)
        /\ \A s \in Scopes \ {current} : rec'[s] = rec[s]
        /\ rec'[current].state \in {rec[current].state, "active", "awaiting"}
        /\ \/ writes' = writes
           \/ /\ Step(Root, "noting")
              /\ \E state \in {"active", "awaiting"} :
                    writes' = Append(writes, [by |-> "note", scope |-> current, state |-> state])
    <3>1. CASE fact = "suspended"
      BY <1>0, <1>2, <2>1, <3>1 DEF Note, Transition, Write
    <3>2. CASE fact # "suspended"
      <4> DEFINE r == [rec EXCEPT ![current].fact = FactAfter(@, fact), ![current].from = task[Root].scope]
      <4>1. /\ r[current].state = rec[current].state /\ \A s \in Scopes \ {current} : r[s] = rec[s]
            /\ r = [s \in Scopes |-> r[s]]
            /\ r[current] = [rec[current] EXCEPT !.fact = FactAfter(@, fact), !.from = task[Root].scope]
        BY <1>0, <2>1
      <4>2. \/ /\ rec' = [r EXCEPT ![current].state = "active"]
               /\ Write("note", current, "active") /\ Step(Root, "noting")
            \/ rec' = r /\ writes' = writes /\ Step(Root, "ack")
        BY <1>2, <3>2 DEF Note
      <4>3. current \in DOMAIN r /\ "state" \in DOMAIN r[current]
        BY <1>0, <2>1, <4>1
      <4> HIDE DEF r
      <4> QED BY <2>1, <4>1, <4>2, <4>3 DEF Write
    <3> QED BY <3>1, <3>2
  <2>3. PICK pc \in {"ack", "noting"} : Step(Root, pc)
    BY <2>2
  <2>4. /\ task'[Root].pc = pc /\ task'[Root].scope = task[Root].scope
        /\ task'[Root].cancelled = task[Root].cancelled
        /\ \A y \in Sessions \ {Root} : task'[y] = task[y]
    BY <1>0, <2>3, TheSessions DEF Step, Tasks
  <2>5. Loyal
    BY DEF Loyal
  <2>6. Added
    <3>1. CASE writes' = writes
      BY <3>1 DEF Added
    <3>2. CASE writes' # writes
      <4>1. PICK state \in {"active", "awaiting"} :
                writes' = Append(writes, [by |-> "note", scope |-> current, state |-> state])
        BY <2>2, <3>2
      <4>2. [by |-> "note", scope |-> current, state |-> state] \in Writes
        BY <2>1 DEF Writes, Writers, States
      <4>3. PICK w \in Writes : w.by = "note" /\ writes' = Append(writes, w)
        BY <4>1, <4>2
      <4>4. task'[Root].pc = "noting"
        BY <1>0, <2>2, <3>2, TheSessions DEF Step, Tasks
      <4>5. Owner(w)'
        BY <4>3, <4>4 DEF Owner
      <4>6. \A v \in Pending : ~Same(v, w)
        <5>1. \A v \in Pending : Owner(v)
          BY DEF IInv, Owned
        <5> QED BY <4>3, <5>1 DEF Owner, Same
      <4> QED BY <4>3, <4>5, <4>6 DEF Added, NewWrite
    <3> QED BY <3>1, <3>2
  <2>7. Recorded
    BY <2>1, <2>2 DEF Recorded
  <2>8. Installed /\ CancelMoves
    BY DEF Installed, CancelMoves
  <2>9. TurnMoves
    BY <2>4 DEF TurnMoves, Busy
  <2>10. Sleepers'
    BY DEF IInv, Sleepers
  <2> QED BY <2>5, <2>6, <2>7, <2>8, <2>9, <2>10 DEF Moves
<1> QED BY <1>1, <1>2

LEMMA TurnStepMoves == ASSUME IInv, Turn PROVE Moves
<1>1. CASE Ask
  <2>1. task[Root].pc = "turn" /\ UNCHANGED <<current, rec, writes, client, cancel, event>>
    BY <1>1 DEF Ask, At, TaskFrame, tree
  <2>2. Step(Root, "asking") \/ task' = task
    BY <1>1 DEF Ask
  <2> QED BY <2>1, <2>2, StepMoves, IdleMoves, TheSessions
<1>2. CASE Asked
  BY <1>2, StepMoves, SignalWakes, TheSessions DEF Asked, At, TaskFrame
<1>3. CASE Fold
  <2>1. UNCHANGED <<current, rec, writes, client, cancel, task>> /\ Signal
    BY <1>3 DEF Fold, TaskFrame
  <2> QED BY <2>1, IdleMoves, SignalWakes
<1>4. CASE Answer
  <2>1. task[Child].pc = "turn" /\ UNCHANGED <<current, rec, writes, client, cancel, event>>
    BY <1>4 DEF Answer, At, TaskFrame, tree
  <2>2. Step(Child, "answering") \/ Step(Child, "ack")
    BY <1>4 DEF Answer
  <2> QED BY <2>1, <2>2, StepMoves, TheSessions
<1>5. CASE TrackAnswer
  BY <1>5, StepMoves, TheSessions DEF TrackAnswer, At, TaskFrame, tree
<1>6. CASE Answered
  BY <1>6, StepMoves, SignalWakes, TheSessions DEF Answered, At, TaskFrame
<1>7. CASE EndTurn
  <2>1. /\ task[Root].pc \in {"stale", "turn"} /\ \E fact : Note(fact)
        /\ UNCHANGED <<current, client, cancel, event>>
    BY <1>7 DEF EndTurn, TaskFrame, tree
  <2> QED BY <2>1, NoteMoves
<1> QED BY <1>1, <1>2, <1>3, <1>4, <1>5, <1>6, <1>7 DEF Turn

-----------------------------------------------------------------------------
(* The steps of a cancel *)

\* A step that changes nothing of this but the place of one cancel.
LEMMA CancelOnly ==
    ASSUME IInv, UNCHANGED <<current, rec, client, task>>, NEW s \in Scopes, NEW pc,
           cancel' = [cancel EXCEPT ![s] = pc], Added,
           \/ cancel[s] = "none" /\ pc = "starting" /\ client[s] \notin Untouched
           \/ /\ cancel[s] \in {"draining", "drained"} /\ pc = "cleaned"
              /\ \A x \in Sessions : ~task[x].cancelled
           \/ cancel[s] = "cleaned" /\ pc \in {"settling", "done"},
           event'.woken \subseteq event.woken \union {t \in Scopes : client[t] = "asleep"}
    PROVE  Moves
<1>1. cancel \in [Scopes -> Cancels]
  BY DEF IInv, Typed, ActorTypes
<1>2. cancel'[s] = pc /\ \A t \in Scopes : t # s => cancel'[t] = cancel[t]
  BY <1>1
<1>3. Loyal
  BY <1>2 DEF Loyal
<1>4. Recorded /\ Installed
  BY DEF Recorded, Installed
<1>5. CancelMoves
  BY <1>2 DEF CancelMoves
<1>6. TurnMoves
  BY DEF TurnMoves, Busy
<1>7. Sleepers'
  BY DEF IInv, Sleepers
<1> QED BY <1>3, <1>4, <1>5, <1>6, <1>7 DEF Moves

LEMMA CancelRequestMoves == ASSUME IInv, NEW s \in Scopes, CancelRequest(s) PROVE Moves
<1>1. /\ UNCHANGED <<current, rec, client, task, event>> /\ cancel[s] = "none" /\ Live(s)
      /\ cancel' = [cancel EXCEPT ![s] = "starting"] /\ writes' = writes
  BY DEF CancelRequest, CancelFrame, tree
<1>2. client[s] \notin Untouched
  BY <1>1 DEF IInv, FreshScopes, Live
<1>3. Added
  BY <1>1 DEF Added
<1> QED BY <1>1, <1>2, <1>3, CancelOnly

LEMMA CloseScopeMoves == ASSUME IInv, NEW s \in Scopes, CloseScope(s) PROVE Moves
<1> DEFINE w == [by |-> "close", scope |-> s, state |-> "cancelling"]
<1>1. /\ UNCHANGED <<current, client, task, event>> /\ cancel[s] = "starting"
      /\ cancel' = [cancel EXCEPT ![s] = "closing"]
      /\ rec' = [rec EXCEPT ![s].state = "cancelling"] /\ writes' = Append(writes, w)
  BY DEF CloseScope, CancelFrame, tree, Transition, Write
<1>2. /\ cancel \in [Scopes -> Cancels] /\ w \in Writes
      /\ rec \in [Scopes -> [state : States, fact : Facts, from : Scopes \union {NoScope}]]
  BY DEF IInv, Typed, ActorTypes, ScopeTypes, Writes, Writers, States
<1>3. /\ cancel'[s] = "closing" /\ \A t \in Scopes : t # s => cancel'[t] = cancel[t]
      /\ rec'[s].state = "cancelling" /\ \A t \in Scopes : t # s => rec'[t] = rec[t]
  BY <1>1, <1>2
<1>4. w.by = "close" /\ w.scope = s
  OBVIOUS
<1> HIDE DEF w
<1>5. Added
  <2>1. Owner(w)'
    BY <1>3, <1>4 DEF Owner
  <2>2. \A v \in Pending : ~Same(v, w)
    BY <1>1, <1>4 DEF IInv, Owned, Owner, Same
  <2> QED BY <1>1, <1>2, <1>4, <2>1, <2>2 DEF Added, NewWrite
<1>6. Loyal
  BY <1>1, <1>3 DEF Loyal
<1>7. Recorded /\ Installed /\ CancelMoves
  BY <1>1, <1>3 DEF Recorded, Installed, CancelMoves
<1>8. TurnMoves
  BY <1>1 DEF TurnMoves, Busy
<1>9. Sleepers'
  BY <1>1 DEF IInv, Sleepers
<1> QED BY <1>5, <1>6, <1>7, <1>8, <1>9 DEF Moves

LEMMA CleanUpMoves == ASSUME IInv, NEW s \in Scopes, CleanUp(s) PROVE Moves
<1>1. /\ UNCHANGED <<current, rec, client, task>> /\ cancel[s] \in {"draining", "drained"}
      /\ cancel' = [cancel EXCEPT ![s] = "cleaned"] /\ writes' = writes
      /\ \A x \in Sessions : ~task[x].cancelled
  BY DEF CleanUp, CancelFrame, Drained
<1>2. event'.woken \subseteq event.woken \union {t \in Scopes : client[t] = "asleep"}
  BY SignalWakes DEF CleanUp
<1>3. Added
  BY <1>1 DEF Added
<1> QED BY <1>1, <1>2, <1>3, CancelOnly

LEMMA CancelSettlesMoves == ASSUME IInv, NEW s \in Scopes, CancelSettles(s) PROVE Moves
<1>1. /\ UNCHANGED <<current, client, task, event>> /\ cancel[s] = "cleaned"
      /\ rec' = rec
  BY DEF CancelSettles, CancelFrame, tree, Settle
<1>2. CASE State(s) \in Terminal
  <2>1. cancel' = [cancel EXCEPT ![s] = "done"] /\ Added
    BY <1>2 DEF CancelSettles, Added
  <2> QED BY <1>1, <2>1, CancelOnly
<1>3. CASE State(s) \notin Terminal
  <2>1. /\ cancel' = [cancel EXCEPT ![s] = "settling"]
        /\ Settle("cancel", s, "cancelled") \/ Settle("cancel", s, "failed")
    BY <1>3 DEF CancelSettles
  <2>2. PICK state \in Terminal : Settle("cancel", s, state)
    BY <2>1 DEF Terminal
  <2> DEFINE w == [by |-> "cancel", scope |-> s, state |-> state]
  <2>3. writes' = Append(writes, w) /\ w \in Writes /\ cancel \in [Scopes -> Cancels]
    BY <2>2 DEF Settle, Write, Writes, Writers, States, IInv, Typed, ActorTypes
  <2>4. w.by = "cancel" /\ w.scope = s /\ w.state = state
    OBVIOUS
  <2> HIDE DEF w
  <2>5. Owner(w)'
    BY <2>1, <2>2, <2>3, <2>4 DEF Owner
  <2>6. \A v \in Pending : ~Same(v, w)
    BY <1>1, <2>4 DEF IInv, Owned, Owner, Same
  <2>7. Added
    BY <2>3, <2>4, <2>5, <2>6 DEF Added, NewWrite
  <2> QED BY <1>1, <2>1, <2>7, CancelOnly
<1> QED BY <1>2, <1>3

\* Every step but a registration and a crash.
LEMMA NextMoves == ASSUME IInv, Next, ~Register, ~Crash PROVE Moves
<1>1. CASE \E s \in Scopes : Call(s) \/ Wait(s) \/ Approve(s) \/ CancelRequest(s) \/ Finalize(s)
  BY <1>1, CallMoves, WaitMoves, ApproveMoves, CancelRequestMoves, CloseScopeMoves, CleanUpMoves,
     CancelSettlesMoves DEF Finalize
<1>2. CASE \E x \in Sessions : Dispatch(x)
  BY <1>2, DispatchMoves
<1>3. CASE Turn
  BY <1>3, TurnStepMoves
<1> QED BY <1>1, <1>2, <1>3 DEF Next

-----------------------------------------------------------------------------
(* Moves preserves the invariant *)

LEMMA MovesKeepOwners == ASSUME IInv, Moves PROVE Owned' /\ OneOutcome'
<1>1. ScopeTypes /\ Owned /\ OneOutcome /\ Loyal /\ Added /\ Recorded /\ CancelMoves
  BY DEF IInv, Typed, Moves
<1>2. \A v \in Pending : Owner(v) /\ Owner(v)'
  BY <1>1 DEF Owned, Owner, Loyal, Writing
<1>3. \A s \in Scopes : cancel'[s] = "none" => cancel[s] = "none"
  BY <1>1 DEF CancelMoves
<1>4. \A v \in Pending : v.by \in {"fail", "wait"} /\ cancel'[v.scope] = "none" =>
           State(v.scope)' \notin Terminal
  <2>1. ASSUME NEW v \in Pending, v.by \in {"fail", "wait"}, cancel'[v.scope] = "none"
        PROVE  State(v.scope)' \notin Terminal
    <3>1. v.scope \in Scopes
      BY <1>2, <2>1 DEF Owner
    <3>2. cancel[v.scope] = "none" /\ State(v.scope) \notin Terminal
      BY <1>1, <1>3, <2>1, <3>1 DEF OneOutcome
    <3> QED BY <1>1, <3>1, <3>2 DEF Recorded, State, Terminal
  <2> QED BY <2>1
<1>5. CASE writes' = writes
  <2>1. Pending' = Pending
    BY <1>5 DEF Pending
  <2>2. Owned'
    BY <1>1, <1>2, <1>5, <2>1 DEF Owned
  <2>3. OneOutcome'
    BY <1>4, <2>1 DEF OneOutcome
  <2> QED BY <2>2, <2>3
<1>6. CASE writes' # writes
  <2>1. PICK w \in Writes : NewWrite(w)
    BY <1>1, <1>6 DEF Added
  <2>2. w \notin Pending
    BY <2>1 DEF NewWrite, Same
  <2>3. Pending' = Pending \union {w} /\ IsInjective(writes')
    BY <1>1, <2>1, <2>2, WriteAdded DEF Owned, NewWrite
  <2>4. \A u, v \in Pending' : Same(u, v) => u = v
    BY <1>1, <2>1, <2>3 DEF Owned, NewWrite, Same
  <2>5. \A v \in Pending' : Owner(v)'
    BY <1>2, <2>1, <2>3 DEF NewWrite
  <2>6. Owned'
    BY <2>3, <2>4, <2>5 DEF Owned
  <2>7. w.by \in {"fail", "wait"} => State(w.scope)' \notin Terminal
    BY <2>1 DEF NewWrite, State
  <2>8. OneOutcome'
    BY <1>4, <2>3, <2>7 DEF OneOutcome
  <2> QED BY <2>6, <2>8
<1> QED BY <1>5, <1>6

LEMMA MovesKeepScopes ==
    ASSUME IInv, Moves
    PROVE  FreshScopes' /\ ClosedScopes' /\ CancelledTurns' /\ QuietScopes'
<1>1. /\ FreshScopes /\ ClosedScopes /\ CancelledTurns /\ QuietScopes
      /\ Recorded /\ Installed /\ CancelMoves /\ TurnMoves
  BY DEF IInv, Moves
<1>2. FreshScopes'
  <2>1. ASSUME NEW s \in Scopes, client'[s] \in Untouched
        PROVE  State(s)' = "none" /\ current' # s /\ cancel'[s] = "none"
    <3>1. client[s] \in Untouched /\ rec[s].state = "none" /\ current # s /\ cancel[s] = "none"
      BY <1>1, <2>1 DEF Installed, FreshScopes, State
    <3>2. rec'[s].state = "none"
      BY <1>1, <2>1, <3>1 DEF Recorded, Untouched
    <3>3. current' # s
      BY <1>1, <2>1, <3>1, ScopeAssumption DEF Installed, Untouched
    <3>4. cancel'[s] = "none"
      BY <1>1, <3>1 DEF CancelMoves
    <3> QED BY <3>2, <3>3, <3>4 DEF State
  <2> QED BY <2>1 DEF FreshScopes
<1>3. ClosedScopes'
  <2>1. ASSUME NEW s \in Scopes, cancel'[s] \in Closed
        PROVE  rec'[s].state \in Terminal \union {"cancelling"}
    <3>1. cancel[s] \in Closed \/ rec'[s].state = "cancelling"
      BY <1>1, <2>1 DEF CancelMoves, Closed
    <3>2. CASE cancel[s] \in Closed
      <4>1. rec[s].state \in Terminal \union {"cancelling"} /\ cancel[s] # "none"
        BY <1>1, <3>2 DEF ClosedScopes, State, Closed
      <4>2. client[s] \notin Untouched
        BY <1>1, <4>1 DEF FreshScopes
      <4> QED BY <1>1, <4>1, <4>2 DEF Recorded, State
    <3> QED BY <3>1, <3>2
  <2> QED BY <2>1 DEF ClosedScopes, State
<1>4. CancelledTurns'
  <2>1. ASSUME NEW s \in Scopes, cancel'[s] \in {"draining", "drained"},
               NEW x \in Sessions, Busy(x, s)'
        PROVE  task'[x].cancelled
    <3>1. cancel[s] \in {"draining", "drained"}
      BY <1>1, <2>1 DEF CancelMoves
    <3>2. State(s) \notin {"active", "awaiting"}
      BY <1>1, <3>1 DEF ClosedScopes, Closed, Terminal
    <3> QED BY <1>1, <2>1, <3>1, <3>2 DEF TurnMoves, CancelledTurns
  <2> QED BY <2>1 DEF CancelledTurns
<1>5. QuietScopes'
  <2>1. ASSUME NEW s \in Scopes, cancel'[s] \in {"cleaned", "settling"} \/ State(s)' = "cancelled",
               NEW x \in Sessions
        PROVE  ~Busy(x, s)'
    <3>1. \/ cancel[s] \in {"cleaned", "settling"}
          \/ State(s) = "cancelled"
          \/ /\ cancel[s] \in {"draining", "drained"} /\ task' = task
             /\ \A y \in Sessions : ~task[y].cancelled
      BY <1>1, <2>1 DEF CancelMoves, Recorded, State
    <3>2. State(s) \notin {"active", "awaiting"}
      BY <1>1, <3>1 DEF ClosedScopes, Closed, Terminal
    <3>3. ~Busy(x, s)
      BY <1>1, <3>1 DEF QuietScopes, CancelledTurns
    <3> QED BY <1>1, <3>2, <3>3 DEF TurnMoves
  <2> QED BY <2>1 DEF QuietScopes
<1> QED BY <1>2, <1>3, <1>4, <1>5

-----------------------------------------------------------------------------
(* A registration *)

\* What follows a registration lets everybody else wait.
LEMMA RegisterOwners ==
    ASSUME IInv, Register
    PROVE  Owned' /\ \A v \in Pending' : v \in Pending \ {Head(writes)} /\ Owner(v)'
<1> DEFINE h == Head(writes)
<1>1. /\ writes # <<>> /\ writes' = Tail(writes) /\ AfterWrite(h)
      /\ UNCHANGED <<suspends, current, inbox, snapshot, running, pendingInput, decide, bounds>>
  BY DEF Register
<1>2. /\ ScopeTypes /\ Owned /\ client \in [Scopes -> Clients] /\ cancel \in [Scopes -> Cancels]
      /\ task \in [Sessions -> Tasks]
  BY DEF IInv, Typed, ActorTypes, TaskTypes
<1>3. Pending' = Pending \ {h} /\ h \in Pending /\ h \in Writes /\ IsInjective(writes')
  BY <1>1, <1>2, WriteDone DEF Owned
<1> HIDE DEF h
<1>4. Owner(h) /\ \A v \in Pending \ {h} : Owner(v) /\ ~Same(v, h)
  BY <1>2, <1>3 DEF Owned
<1>5. \A v \in Pending \ {h} : Owner(v)'
  <2>1. SUFFICES ASSUME NEW v \in Pending \ {h} PROVE Owner(v)'
    OBVIOUS
  <2>2. Owner(v) /\ ~Same(v, h) /\ Owner(h)
    BY <1>4
  <2>3. CASE h.by = "begin"
    <3>1. UNCHANGED <<task, cancel>> /\ client' = [client EXCEPT ![h.scope] = "reserved"]
      BY <1>1, <2>3 DEF AfterWrite, Goes
    <3>2. h.scope \in Scopes /\ client[h.scope] = "beginning"
      BY <2>2, <2>3 DEF Owner
    <3>3. \A s \in Scopes : s # h.scope => client'[s] = client[s]
      BY <1>2, <3>1
    <3> QED BY <2>2, <2>3, <3>1, <3>2, <3>3 DEF Owner, Same
  <2>4. CASE h.by = "interrupt"
    <3>1. UNCHANGED <<task, cancel>> /\ \A s \in Scopes : client[s] # "interrupting" => client'[s] = client[s]
      BY <1>1, <2>4 DEF AfterWrite
    <3> QED BY <2>2, <2>4, <3>1 DEF Owner, Same
  <2>5. CASE h.by = "release"
    <3>1. UNCHANGED <<task, cancel>> /\ \A s \in Scopes : client[s] # "releasing" => client'[s] = client[s]
      BY <1>1, <2>5 DEF AfterWrite
    <3> QED BY <2>2, <2>5, <3>1 DEF Owner, Same
  <2>6. CASE h.by = "activate"
    <3>1. UNCHANGED <<task, cancel>> /\ client' = [client EXCEPT ![h.scope] = "submitting"]
      BY <1>1, <2>6 DEF AfterWrite, Goes
    <3>2. h.scope \in Scopes /\ client[h.scope] = "activating"
      BY <2>2, <2>6 DEF Owner
    <3>3. \A s \in Scopes : s # h.scope => client'[s] = client[s]
      BY <1>2, <3>1
    <3> QED BY <2>2, <2>6, <3>1, <3>2, <3>3 DEF Owner, Same
  <2>7. CASE h.by \in {"fail", "wait"}
    <3>1. UNCHANGED <<task, cancel>> /\ client' = [client EXCEPT ![h.scope] = "done"]
      BY <1>1, <2>7 DEF AfterWrite, Goes
    <3>2. h.scope \in Scopes /\ client[h.scope] = IF h.by = "fail" THEN "failing" ELSE "settling"
      BY <2>2, <2>7 DEF Owner
    <3>3. \A s \in Scopes : s # h.scope => client'[s] = client[s]
      BY <1>2, <3>1
    <3> QED BY <2>2, <2>7, <3>1, <3>2, <3>3 DEF Owner, Same
  <2>8. CASE h.by = "note"
    <3>1. UNCHANGED <<client, cancel>> /\ v.by # "note"
      BY <1>1, <2>2, <2>8 DEF AfterWrite, Same
    <3> QED BY <2>2, <3>1 DEF Owner
  <2>9. CASE h.by = "close"
    <3>1. /\ client' = client /\ \A s \in Scopes : s # h.scope => cancel'[s] = cancel[s]
          /\ task' = [x \in Sessions |-> [task[x] EXCEPT !.cancelled = task[x].pc # "idle"]]
      BY <1>1, <1>2, <2>9 DEF AfterWrite
    <3>2. task'[Root].pc = task[Root].pc
      BY <1>2, <3>1, TheSessions DEF Tasks
    <3>3. h.scope \in Scopes /\ cancel[h.scope] = "closing"
      BY <2>2, <2>9 DEF Owner
    <3> QED BY <2>2, <2>9, <3>1, <3>2, <3>3 DEF Owner, Same
  <2>10. CASE h.by = "cancel"
    <3>1. UNCHANGED <<client, task>> /\ \A s \in Scopes : s # h.scope => cancel'[s] = cancel[s]
      BY <1>1, <1>2, <2>10 DEF AfterWrite
    <3>2. h.scope \in Scopes /\ cancel[h.scope] = "settling"
      BY <2>2, <2>10 DEF Owner
    <3> QED BY <2>2, <2>10, <3>1, <3>2 DEF Owner, Same
  <2> QED BY <1>3, <2>3, <2>4, <2>5, <2>6, <2>7, <2>8, <2>9, <2>10 DEF Writes, Writers
<1>6. \A u, v \in Pending' : Same(u, v) => u = v
  BY <1>2, <1>3 DEF Owned
<1>7. Owned'
  BY <1>3, <1>5, <1>6 DEF Owned
<1> QED BY <1>3, <1>5, <1>7 DEF h

\* What a registration changes of the records, the clients, the cancels and the
\* tasks.
LEMMA RegisterEffects ==
    ASSUME IInv, Register
    PROVE  /\ current' = current
           /\ \A s \in Scopes : rec'[s].state # rec[s].state =>
                \E w \in Pending : /\ w.by \in {"fail", "wait", "cancel"} /\ w.scope = s
                                   /\ rec'[s].state = w.state /\ w = Head(writes)
           /\ \A s \in Scopes : client'[s] \in Untouched => client[s] \in Untouched
           /\ \A s \in Scopes : cancel'[s] # cancel[s] =>
                \/ /\ cancel[s] = "closing" /\ cancel'[s] \in {"draining", "drained"}
                   /\ \A x \in Sessions : task[x].pc # "idle" => task'[x].cancelled
                \/ cancel[s] = "settling" /\ cancel'[s] = "done"
           /\ \A x \in Sessions : /\ task'[x].scope = task[x].scope
                                  /\ task[x].cancelled => task'[x].cancelled
                                  /\ (task'[x].pc = "idle") = (task[x].pc = "idle")
           /\ Sleepers'
<1> DEFINE h == Head(writes)
<1>1. writes # <<>> /\ AfterWrite(h) /\ current' = current
  BY DEF Register
<1>2. /\ ScopeTypes /\ Owned /\ client \in [Scopes -> Clients] /\ cancel \in [Scopes -> Cancels]
      /\ task \in [Sessions -> Tasks] /\ Sleepers
      /\ rec \in [Scopes -> [state : States, fact : Facts, from : Scopes \union {NoScope}]]
      /\ event.woken \subseteq Scopes
      /\ \A x \in Sessions : task[x].pc = "idle" => task[x].cancelled = FALSE
  BY DEF IInv, Typed, ActorTypes, TaskTypes, ScopeTypes, NoTask
<1>3. h \in Pending /\ h \in Writes
  <2>1. writes \in Seq(Writes) /\ 1 \in DOMAIN writes /\ h = writes[1]
    BY <1>1, <1>2 DEF ScopeTypes
  <2> QED BY <2>1 DEF Pending, ToSet
<1> HIDE DEF h
<1>4. Owner(h)
  BY <1>2, <1>3 DEF Owned
<1>5. CASE h.by \in {"begin", "activate"}
  <2>1. /\ UNCHANGED <<rec, task, cancel>> /\ (event' = event \/ Signal)
        /\ \E pc \in {"reserved", "submitting"} : client' = [client EXCEPT ![h.scope] = pc]
    BY <1>1, <1>5 DEF AfterWrite, Goes
  <2>2. h.scope \in Scopes /\ client[h.scope] \in {"beginning", "activating"}
    BY <1>4, <1>5 DEF Owner
  <2>3. /\ client'[h.scope] \in {"reserved", "submitting"}
        /\ \A s \in Scopes : s # h.scope => client'[s] = client[s]
    BY <1>2, <2>1, <2>2
  <2>4. Sleepers'
    BY <1>2, <2>1, <2>2, <2>3, SignalWakes DEF Sleepers
  <2> QED BY <1>1, <2>1, <2>3, <2>4 DEF Untouched
<1>6. CASE h.by \in {"interrupt", "release"}
  <2>1. /\ UNCHANGED <<rec, task, cancel>> /\ Signal
        /\ \A s \in Scopes : \/ client'[s] = client[s]
                             \/ client[s] = "interrupting" /\ client'[s] = "interrupted"
                             \/ client[s] = "releasing" /\ client'[s] = "done"
    BY <1>1, <1>6 DEF AfterWrite
  <2>2. Sleepers'
    BY <1>2, <2>1, SignalWakes DEF Sleepers
  <2> QED BY <1>1, <2>1, <2>2 DEF Untouched
<1>7. CASE h.by \in {"fail", "wait"}
  <2>1. /\ UNCHANGED <<task, cancel>> /\ Signal /\ rec' = [rec EXCEPT ![h.scope].state = h.state]
        /\ client' = [client EXCEPT ![h.scope] = "done"]
    BY <1>1, <1>7 DEF AfterWrite, Goes, Settled
  <2>2. h.scope \in Scopes /\ client[h.scope] \in {"failing", "settling"}
    BY <1>4, <1>7 DEF Owner
  <2>3. client'[h.scope] = "done" /\ \A s \in Scopes : s # h.scope => client'[s] = client[s]
    BY <1>2, <2>1, <2>2
  <2>4. /\ rec'[h.scope].state = h.state /\ \A s \in Scopes : s # h.scope => rec'[s] = rec[s]
    BY <1>2, <2>1, <2>2
  <2>5. Sleepers'
    BY <1>2, <2>1, <2>2, <2>3, SignalWakes DEF Sleepers
  <2> QED BY <1>1, <1>3, <1>7, <2>1, <2>3, <2>4, <2>5 DEF Untouched, h
<1>8. CASE h.by = "note"
  <2>1. UNCHANGED <<rec, event, client, cancel>> /\ task' = [task EXCEPT ![Root].pc = "ack"]
    BY <1>1, <1>8 DEF AfterWrite, Step
  <2>2. task[Root].pc = "noting"
    BY <1>4, <1>8 DEF Owner
  <2>3. \A x \in Sessions : /\ task'[x].scope = task[x].scope
                            /\ task[x].cancelled => task'[x].cancelled
                            /\ (task'[x].pc = "idle") = (task[x].pc = "idle")
    BY <1>2, <2>1, <2>2, TheSessions DEF Tasks
  <2>4. Sleepers'
    BY <1>2, <2>1 DEF Sleepers
  <2> QED BY <1>1, <2>1, <2>3, <2>4
<1>9. CASE h.by = "close"
  <2>1. /\ UNCHANGED <<rec, client>> /\ Signal
        /\ \E pc \in {"draining", "drained"} : cancel' = [cancel EXCEPT ![h.scope] = pc]
        /\ task' = [x \in Sessions |-> [task[x] EXCEPT !.cancelled = task[x].pc # "idle"]]
    BY <1>1, <1>9 DEF AfterWrite
  <2>2. h.scope \in Scopes /\ cancel[h.scope] = "closing"
    BY <1>4, <1>9 DEF Owner
  <2>3. /\ cancel'[h.scope] \in {"draining", "drained"}
        /\ \A s \in Scopes : s # h.scope => cancel'[s] = cancel[s]
    BY <1>2, <2>1, <2>2
  <2>4. \A x \in Sessions : /\ task'[x].scope = task[x].scope /\ task'[x].pc = task[x].pc
                            /\ task'[x].cancelled = (task[x].pc # "idle")
    BY <1>2, <2>1 DEF Tasks
  <2>5. \A x \in Sessions : task[x].cancelled => task'[x].cancelled
    BY <1>2, <2>4
  <2>6. Sleepers'
    BY <1>2, <2>1, SignalWakes DEF Sleepers
  <2> QED BY <1>1, <2>1, <2>2, <2>3, <2>4, <2>5, <2>6
<1>10. CASE h.by = "cancel"
  <2>1. /\ UNCHANGED <<client, task>> /\ Signal /\ rec' = [rec EXCEPT ![h.scope].state = h.state]
        /\ cancel' = [cancel EXCEPT ![h.scope] = "done"]
    BY <1>1, <1>10 DEF AfterWrite, Settled
  <2>2. h.scope \in Scopes /\ cancel[h.scope] = "settling"
    BY <1>4, <1>10 DEF Owner
  <2>3. cancel'[h.scope] = "done" /\ \A s \in Scopes : s # h.scope => cancel'[s] = cancel[s]
    BY <1>2, <2>1, <2>2
  <2>4. rec'[h.scope].state = h.state /\ \A s \in Scopes : s # h.scope => rec'[s] = rec[s]
    BY <1>2, <2>1, <2>2
  <2>5. Sleepers'
    BY <1>2, <2>1, SignalWakes DEF Sleepers
  <2> QED BY <1>1, <1>3, <1>10, <2>1, <2>2, <2>3, <2>4, <2>5 DEF h
<1> QED BY <1>3, <1>5, <1>6, <1>7, <1>8, <1>9, <1>10 DEF Writes, Writers

\* A registration preserves the rest of the invariant.
LEMMA RegisterKeeps ==
    ASSUME IInv, Register
    PROVE  OneOutcome' /\ FreshScopes' /\ ClosedScopes' /\ CancelledTurns' /\ QuietScopes'
<1> DEFINE h == Head(writes)
<1>1. /\ current' = current
      /\ \A s \in Scopes : rec'[s].state # rec[s].state =>
            /\ h.by \in {"fail", "wait", "cancel"} /\ h.scope = s /\ rec'[s].state = h.state
            /\ h \in Pending
      /\ \A s \in Scopes : client'[s] \in Untouched => client[s] \in Untouched
      /\ \A s \in Scopes : cancel'[s] # cancel[s] =>
            \/ /\ cancel[s] = "closing" /\ cancel'[s] \in {"draining", "drained"}
               /\ \A x \in Sessions : task[x].pc # "idle" => task'[x].cancelled
            \/ cancel[s] = "settling" /\ cancel'[s] = "done"
      /\ \A x \in Sessions : /\ task'[x].scope = task[x].scope
                             /\ task[x].cancelled => task'[x].cancelled
                             /\ (task'[x].pc = "idle") = (task[x].pc = "idle")
  BY RegisterEffects
<1>2. \A v \in Pending' : v \in Pending \ {h}
  BY RegisterOwners
<1> HIDE DEF h
<1>3. /\ Owned /\ FreshScopes /\ ClosedScopes /\ CancelledTurns /\ QuietScopes /\ OneOutcome
      /\ \A v \in Pending : Owner(v)
  BY DEF IInv, Owned
<1>4. \A s \in Scopes, x \in Sessions : Busy(x, s)' => Busy(x, s) /\ (task[x].cancelled => task'[x].cancelled)
  BY <1>1 DEF Busy
<1>5. FreshScopes'
  <2>1. ASSUME NEW s \in Scopes, client'[s] \in Untouched
        PROVE  rec'[s].state = "none" /\ current' # s /\ cancel'[s] = "none"
    <3>1. /\ client[s] \in Untouched /\ rec[s].state = "none" /\ current # s /\ cancel[s] = "none"
      BY <1>1, <1>3, <2>1 DEF FreshScopes, State
    <3>2. rec'[s].state = "none"
      BY <1>1, <1>3, <3>1 DEF Owner, Untouched
    <3>3. cancel'[s] = "none"
      BY <1>1, <3>1
    <3> QED BY <1>1, <3>1, <3>2, <3>3
  <2> QED BY <2>1 DEF FreshScopes, State
<1>6. ClosedScopes'
  <2>1. ASSUME NEW s \in Scopes, cancel'[s] \in Closed
        PROVE  rec'[s].state \in Terminal \union {"cancelling"}
    <3>1. cancel[s] \in Closed
      BY <1>1, <2>1 DEF Closed
    <3>2. rec[s].state \in Terminal \union {"cancelling"}
      BY <1>3, <3>1 DEF ClosedScopes, State
    <3> QED BY <1>1, <1>3, <3>2 DEF Owner
  <2> QED BY <2>1 DEF ClosedScopes, State
<1>7. CancelledTurns'
  <2>1. ASSUME NEW s \in Scopes, cancel'[s] \in {"draining", "drained"},
               NEW x \in Sessions, Busy(x, s)'
        PROVE  task'[x].cancelled
    <3>1. Busy(x, s) /\ (task[x].cancelled => task'[x].cancelled)
      BY <1>4, <2>1
    <3>2. CASE cancel[s] \in {"draining", "drained"}
      BY <1>3, <3>1, <3>2 DEF CancelledTurns
    <3>3. CASE cancel[s] \notin {"draining", "drained"}
      BY <1>1, <2>1, <3>1, <3>3 DEF Busy
    <3> QED BY <3>2, <3>3
  <2> QED BY <2>1 DEF CancelledTurns
<1>8. QuietScopes'
  <2>1. ASSUME NEW s \in Scopes, cancel'[s] \in {"cleaned", "settling"} \/ State(s)' = "cancelled",
               NEW x \in Sessions
        PROVE  ~Busy(x, s)'
    <3>1. cancel'[s] \in {"cleaned", "settling"} => cancel[s] \in {"cleaned", "settling"}
      BY <1>1
    <3>2. rec'[s].state = "cancelled" => rec[s].state = "cancelled" \/ cancel[s] = "settling"
      BY <1>1, <1>3 DEF Owner
    <3> QED BY <1>3, <1>4, <2>1, <3>1, <3>2 DEF QuietScopes, State
  <2> QED BY <2>1 DEF QuietScopes
<1>9. OneOutcome'
  <2>1. ASSUME NEW v \in Pending', v.by \in {"fail", "wait"}, cancel'[v.scope] = "none"
        PROVE  rec'[v.scope].state \notin Terminal
    <3>1. v \in Pending /\ v # h /\ Owner(v)
      BY <1>2, <1>3, <2>1
    <3>2. v.scope \in Scopes /\ cancel[v.scope] = "none"
      BY <1>1, <2>1, <3>1 DEF Owner
    <3>3. rec[v.scope].state \notin Terminal
      BY <1>3, <2>1, <3>1, <3>2 DEF OneOutcome, State
    <3>4. rec'[v.scope].state = rec[v.scope].state
      <4>1. SUFFICES ASSUME rec'[v.scope].state # rec[v.scope].state PROVE FALSE
        OBVIOUS
      <4>2. h.by \in {"fail", "wait", "cancel"} /\ h.scope = v.scope /\ h \in Pending /\ Owner(h)
        BY <1>1, <1>3, <3>2, <4>1
      <4>3. h.by = v.by
        BY <2>1, <3>1, <3>2, <4>2 DEF Owner
      <4> QED BY <1>3, <3>1, <4>2, <4>3 DEF Owned, Same
    <3> QED BY <3>3, <3>4
  <2> QED BY <2>1 DEF OneOutcome, State
<1> QED BY <1>5, <1>6, <1>7, <1>8, <1>9

-----------------------------------------------------------------------------
(* A crash *)

LEMMA CrashKeeps ==
    ASSUME IInv, Crash
    PROVE  /\ Owned' /\ OneOutcome' /\ FreshScopes' /\ ClosedScopes' /\ CancelledTurns'
           /\ QuietScopes' /\ Sleepers'
<1>1. /\ current' = NoScope /\ rec' = [s \in Scopes |-> NoRec] /\ writes' = <<>> /\ event' = NoEvent
      /\ client' = [s \in Scopes |-> IF client[s] = "new" THEN "new" ELSE "done"]
      /\ task' = [x \in Sessions |-> NoTask]
      /\ cancel' = [s \in Scopes |-> IF cancel[s] = "none" THEN "none" ELSE "done"]
  BY DEF Crash
<1>2. Owned' /\ OneOutcome' /\ Sleepers'
  <2>1. Pending' = {} /\ IsInjective(writes')
    BY <1>1 DEF Pending, ToSet, IsInjective
  <2>2. Sleepers'
    BY <1>1 DEF Sleepers, NoEvent
  <2> QED BY <2>1, <2>2 DEF Owned, OneOutcome
<1>3. \A s \in Scopes : /\ State(s)' = "none" /\ current' # s
                        /\ cancel'[s] \in {"none", "done"}
                        /\ client'[s] \in Untouched => client[s] = "new" /\ (cancel[s] = "none" => cancel'[s] = "none")
  BY <1>1, ScopeAssumption DEF State, NoRec, Untouched
<1>4. FreshScopes'
  BY <1>3 DEF FreshScopes, IInv, Untouched
<1>5. ClosedScopes' /\ CancelledTurns'
  BY <1>3 DEF ClosedScopes, CancelledTurns, Closed
<1>6. QuietScopes'
  <2>1. \A x \in Sessions : task'[x].pc = "idle"
    BY <1>1 DEF NoTask
  <2> QED BY <2>1 DEF QuietScopes, Busy
<1> QED BY <1>2, <1>4, <1>5, <1>6


-----------------------------------------------------------------------------
(* The types of the records and of the registry *)

\* One record goes to another state.
LEMMA RecordTypes ==
    ASSUME ScopeTypes, NEW s \in Scopes, NEW state \in States,
           rec' = [rec EXCEPT ![s].state = state]
    PROVE  rec' \in [Scopes -> [state : States, fact : Facts, from : Scopes \union {NoScope}]]
  BY DEF ScopeTypes

\* A fact of the root keeps the type of the record it is noted in.
LEMMA NoteTypes ==
    ASSUME ScopeTypes, TaskTypes, NEW fact \in {"finished", "failed", "handled", "suspended"}, Note(fact)
    PROVE  rec' \in [Scopes -> [state : States, fact : Facts, from : Scopes \union {NoScope}]]
<1>1. /\ rec \in [Scopes -> [state : States, fact : Facts, from : Scopes \union {NoScope}]]
      /\ current \in Scopes \union {NoScope} /\ task[Root].scope \in Scopes \union {NoScope}
      /\ {"awaiting", "active"} \subseteq States
  BY TheSessions DEF ScopeTypes, TaskTypes, Tasks, States
<1>2. CASE rec' = rec
  BY <1>1, <1>2
<1>3. CASE rec' # rec
  <2>1. current \in Scopes
    BY <1>1, <1>3 DEF Note
  <2>2. CASE fact = "suspended"
    <3>1. rec' = [rec EXCEPT ![current].state = "awaiting"]
      BY <1>3, <2>2 DEF Note, Transition
    <3> QED BY <1>1, <2>1, <3>1, RecordTypes
  <2>3. CASE fact # "suspended"
    <3> DEFINE f == FactAfter(rec[current].fact, fact)
               r == [rec EXCEPT ![current].fact = FactAfter(@, fact), ![current].from = task[Root].scope]
    <3>1. f \in Facts
      BY <1>1, <2>1, <2>3 DEF FactAfter, Facts
    <3>2. r = [rec EXCEPT ![current].fact = f, ![current].from = task[Root].scope]
      BY <1>1, <2>1
    <3>3. rec' = r \/ rec' = [r EXCEPT ![current].state = "active"]
      BY <1>3, <2>3 DEF Note
    <3> HIDE DEF f
    <3>4. r \in [Scopes -> [state : States, fact : Facts, from : Scopes \union {NoScope}]]
      BY <1>1, <2>1, <3>1, <3>2
    <3> HIDE DEF r
    <3>5. [r EXCEPT ![current].state = "active"] \in
              [Scopes -> [state : States, fact : Facts, from : Scopes \union {NoScope}]]
      BY <1>1, <2>1, <3>4
    <3> QED BY <3>3, <3>4, <3>5
  <2> QED BY <2>2, <2>3
<1> QED BY <1>2, <1>3

LEMMA ScopesStayTyped == ASSUME IInv, Next, ~Register, ~Crash PROVE ScopeTypes'
<1>1. ScopeTypes /\ TaskTypes /\ Added /\ Owned /\ {"reserved", "active", "cancelling"} \subseteq States
  BY NextMoves DEF IInv, Typed, Moves, States
<1>2. writes' \in Seq(Writes)
  <2>1. CASE writes' = writes
    BY <1>1, <2>1 DEF ScopeTypes
  <2>2. ASSUME NEW w \in Writes, NewWrite(w) PROVE writes' \in Seq(Writes)
    BY <1>1, <2>2 DEF ScopeTypes, NewWrite
  <2> QED BY <1>1, <2>1, <2>2 DEF Added
<1>3. /\ UNCHANGED <<suspends, disk>> /\ current' \in Scopes \union {NoScope}
      /\ rec' \in [Scopes -> [state : States, fact : Facts, from : Scopes \union {NoScope}]]
  <2>0. /\ current \in Scopes \union {NoScope}
        /\ rec \in [Scopes -> [state : States, fact : Facts, from : Scopes \union {NoScope}]]
    BY <1>1 DEF ScopeTypes
  <2>1. ASSUME NEW s \in Scopes, Call(s)
        PROVE  /\ UNCHANGED <<suspends, disk>> /\ current' \in {current, s, NoScope}
               /\ rec' = rec \/ \E state \in States : rec' = [rec EXCEPT ![s].state = state]
    <3>1. CASE Begin(s)
      BY <1>1, <3>1 DEF Begin, Install
    <3>2. CASE InterruptedBegin(s)
      BY <1>1, <3>2 DEF InterruptedBegin, Install
    <3>3. CASE Release(s)
      BY <3>3 DEF Release
    <3>4. CASE Activate(s)
      BY <1>1, <3>4 DEF Activate, Transition
    <3>5. CASE Submit(s)
      BY <3>5 DEF Submit, Settle
    <3>6. CASE Deliver(s)
      BY <3>6 DEF Deliver, scope, stores
    <3>7. CASE DeliverFails(s)
      BY <3>7 DEF DeliverFails, Settle
    <3> QED BY <2>1, <3>1, <3>2, <3>3, <3>4, <3>5, <3>6, <3>7 DEF Call
  <2>2. ASSUME NEW s \in Scopes, Wait(s)
        PROVE  UNCHANGED <<suspends, disk, current, rec>>
    <3>1. CASE LookAtRest(s)
      BY <3>1 DEF LookAtRest, Settle
    <3>2. CASE WaitFrame(s)
      BY <3>2 DEF WaitFrame, scope, stores
    <3> QED BY <2>2, <3>1, <3>2 DEF Wait, Look, LookAtRunning, LookAtTracks, Joined
  <2>3. ASSUME NEW s \in Scopes, Approve(s)
        PROVE  UNCHANGED <<suspends, disk, current, rec>>
    BY <2>3 DEF Approve, Decide, DeliverDecision, scope, stores
  <2>4. ASSUME NEW s \in Scopes, CancelRequest(s) \/ Finalize(s)
        PROVE  /\ UNCHANGED <<suspends, disk, current>>
               /\ rec' = rec \/ \E state \in States : rec' = [rec EXCEPT ![s].state = state]
    BY <1>1, <2>4
    DEF CancelRequest, Finalize, CloseScope, CleanUp, CancelSettles, Transition, Settle, CancelFrame
  <2>5. ASSUME NEW x \in Sessions, Dispatch(x)
        PROVE  UNCHANGED <<suspends, disk, current, rec>>
    <3>1. rec' = rec /\ TaskFrame
      BY <2>5 DEF Dispatch, StartDispatch, Consume, Admit, AckTurn, Unwind, CloseTracks, Peek, Mark, Leave
    <3> QED BY <3>1 DEF TaskFrame
  <2>6. ASSUME Turn
        PROVE  /\ UNCHANGED <<suspends, disk, current>>
               /\ rec' = rec \/ \E fact \in {"finished", "failed", "handled", "suspended"} : Note(fact)
    <3>1. TaskFrame
      BY <2>6 DEF Turn, Ask, Asked, Fold, Answer, TrackAnswer, Answered, EndTurn
    <3>2. rec' = rec \/ EndTurn
      BY <2>6 DEF Turn, Ask, Asked, Fold, Answer, TrackAnswer, Answered
    <3>3. EndTurn => \E fact \in {"finished", "failed", "handled", "suspended"} : Note(fact)
      BY Zenon DEF EndTurn
    <3> QED BY <3>1, <3>2, <3>3 DEF TaskFrame
  <2> QED BY <1>1, <2>0, <2>1, <2>2, <2>3, <2>4, <2>5, <2>6, RecordTypes, NoteTypes DEF Next
<1> QED BY <1>1, <1>2, <1>3 DEF ScopeTypes

-----------------------------------------------------------------------------
(* The types of the inboxes *)

LEMMA ChosenTypes ==
    ASSUME NEW s \in Seq(Messages), NEW T
    PROVE  Only(s, T) \in Seq(Messages)
  BY OnlyFacts

\* One inbox changes.
LEMMA QueueTypes ==
    ASSUME InboxTypes, NEW x \in Sessions, NEW s \in Seq(Messages), queue' = [queue EXCEPT ![x] = s]
    PROVE  queue' \in [Sessions -> Seq(Messages)]
  BY DEF InboxTypes

LEMMA WorkTypes ==
    ASSUME InboxTypes, NEW x \in Sessions, NEW s \in Seq(Messages), work' = [work EXCEPT ![x] = s]
    PROVE  work' \in [Sessions -> Seq(Messages)]
  BY DEF InboxTypes

\* One message more.
LEMMA SentTypes ==
    ASSUME InboxTypes, NEW x \in Sessions, NEW m \in Messages,
           queue' = [queue EXCEPT ![x] = Append(@, m)]
    PROVE  queue' \in [Sessions -> Seq(Messages)]
<1>1. queue[x] \in Seq(Messages)
  BY DEF InboxTypes
<1>2. Append(queue[x], m) \in Seq(Messages)
  BY <1>1, AppendFacts
<1>3. queue' = [queue EXCEPT ![x] = Append(queue[x], m)]
  OBVIOUS
<1> QED BY <1>2, <1>3, QueueTypes

\* An acknowledgement takes one receipt and its track.
LEMMA AcknowledgeTypes ==
    ASSUME InboxTypes, NEW x \in Sessions, NEW m, Acknowledge(x, m)
    PROVE  work' \in [Sessions -> Seq(Messages)] /\ tracks' \subseteq Messages
<1>1. work[x] \in Seq(Messages)
  BY DEF InboxTypes
<1>2. Without(work[x], m) \in Seq(Messages)
  BY <1>1, ChosenTypes DEF Without
<1>3. work' = [work EXCEPT ![x] = Without(work[x], m)]
  BY DEF Acknowledge
<1>4. work' \in [Sessions -> Seq(Messages)]
  BY <1>2, <1>3, WorkTypes
<1>5. tracks' \subseteq tracks
  BY DEF Acknowledge
<1> QED BY <1>4, <1>5 DEF InboxTypes

\* Everything is dropped.
LEMMA DroppedTypes ==
    ASSUME queue' = [x \in Sessions |-> <<>>], work' = [x \in Sessions |-> <<>>],
           tracks' = {}, snapshot' = FALSE
    PROVE  InboxTypes'
<1>1. <<>> \in Seq(Messages)
  OBVIOUS
<1> QED BY <1>1 DEF InboxTypes

LEMMA InboxesStayTyped == ASSUME IInv, Next, ~Register, ~Crash PROVE InboxTypes'
<1>1. /\ InboxTypes /\ TaskTypes
      /\ queue \in [Sessions -> Seq(Messages)] /\ work \in [Sessions -> Seq(Messages)]
      /\ tracks \subseteq Messages /\ snapshot \in BOOLEAN
  BY DEF IInv, Typed, InboxTypes
<1>2. CASE UNCHANGED <<inbox, snapshot>>
  BY <1>2, <1>1, Zenon DEF InboxTypes, inbox
<1>3. ASSUME NEW s \in Scopes, Call(s) PROVE InboxTypes'
  <2>1. CASE Begin(s)
    <3>1. CASE UNCHANGED <<inbox, snapshot>>
      BY <3>1, <1>2
    <3>2. CASE ~UNCHANGED <<inbox, snapshot>>
      <4>1. /\ queue' = [x \in Sessions |-> <<>>] /\ work' = [x \in Sessions |-> <<>>]
            /\ tracks' = {} /\ snapshot' = FALSE
        BY <2>1, <3>2, Zenon DEF Begin
      <4> QED BY <4>1, DroppedTypes
    <3> QED BY <3>1, <3>2
  <2>2. CASE Deliver(s)
    <3>1. /\ queue' = [queue EXCEPT ![Root] = Append(@, Message("prompt", s))]
          /\ UNCHANGED <<work, tracks, snapshot>>
      BY <2>2 DEF Deliver
    <3>2. queue' \in [Sessions -> Seq(Messages)]
      BY <1>1, <3>1, SentTypes, TheSessions, MessageTypes
    <3> QED BY <1>1, <3>1, <3>2 DEF InboxTypes
  <2>3. CASE ~Begin(s) /\ ~Deliver(s)
    <3>1. UNCHANGED <<inbox, snapshot>>
      BY <1>3, <2>3 DEF Call, InterruptedBegin, Release, Activate, Submit, DeliverFails
    <3> QED BY <3>1, <1>2
  <2> QED BY <2>1, <2>2, <2>3
<1>4. ASSUME NEW s \in Scopes, Wait(s) PROVE InboxTypes'
  <2>1. UNCHANGED <<inbox, snapshot>>
    BY <1>4 DEF Wait, Look, LookAtRunning, LookAtTracks, LookAtRest, Joined, WaitFrame
  <2> QED BY <2>1, <1>2
<1>5. ASSUME NEW s \in Scopes, Approve(s) PROVE InboxTypes'
  <2>1. CASE Decide(s)
    BY <1>2, <2>1 DEF Decide
  <2>2. CASE DeliverDecision(s)
    <3>1. /\ queue' = [queue EXCEPT ![Root] = Append(@, Message("decision", NoScope))]
          /\ UNCHANGED <<work, tracks, snapshot>>
      BY <2>2 DEF DeliverDecision
    <3>2. queue' \in [Sessions -> Seq(Messages)]
      BY <1>1, <3>1, SentTypes, TheSessions, MessageTypes
    <3> QED BY <1>1, <3>1, <3>2 DEF InboxTypes
  <2> QED BY <1>5, <2>1, <2>2 DEF Approve
<1>6. ASSUME NEW s \in Scopes, CancelRequest(s) \/ Finalize(s) PROVE InboxTypes'
  <2>1. CASE CleanUp(s)
    <3>1. /\ queue' = [x \in Sessions |-> <<>>] /\ work' = [x \in Sessions |-> <<>>]
          /\ tracks' = {} /\ snapshot' = FALSE
      BY <2>1 DEF CleanUp
    <3> QED BY <3>1, DroppedTypes
  <2>2. CASE ~CleanUp(s)
    <3>1. UNCHANGED <<inbox, snapshot>>
      BY <1>6, <2>2 DEF CancelRequest, Finalize, CloseScope, CancelSettles
    <3> QED BY <3>1, <1>2
  <2> QED BY <2>1, <2>2
<1>7. ASSUME NEW x \in Sessions, Dispatch(x) PROVE InboxTypes'
  <2>0. queue[x] \in Seq(Messages) /\ work[x] \in Seq(Messages)
    BY <1>1
  <2>1. CASE Consume(x)
    <3>1. PICK open : /\ work' = [work EXCEPT ![x] = @ \o Only(queue[x], open)]
                      /\ queue' = [queue EXCEPT ![x] = Only(@, Messages \ open)]
                      /\ UNCHANGED <<tracks, snapshot>>
      BY <2>1 DEF Consume
    <3>2. /\ Only(queue[x], open) \in Seq(Messages)
          /\ Only(queue[x], Messages \ open) \in Seq(Messages)
      BY <2>0, ChosenTypes
    <3>3. work[x] \o Only(queue[x], open) \in Seq(Messages)
      BY <2>0, <3>2, ConcatFacts
    <3>4. /\ work' = [work EXCEPT ![x] = work[x] \o Only(queue[x], open)]
          /\ queue' = [queue EXCEPT ![x] = Only(queue[x], Messages \ open)]
      BY <3>1
    <3>5. work' \in [Sessions -> Seq(Messages)] /\ queue' \in [Sessions -> Seq(Messages)]
      BY <1>1, <3>2, <3>3, <3>4, WorkTypes, QueueTypes
    <3> QED BY <1>1, <3>1, <3>5 DEF InboxTypes
  <2>2. CASE Admit(x)
    <3>1. CASE Acknowledge(x, Head(task[x].batch)) /\ UNCHANGED <<queue, snapshot>>
      BY <1>1, <3>1, AcknowledgeTypes DEF InboxTypes
    <3>2. CASE UNCHANGED <<queue, work, tracks>> /\ snapshot' \in BOOLEAN
      BY <1>1, <3>2 DEF InboxTypes
    <3> QED BY <1>1, <2>2, <3>1, <3>2 DEF Admit
  <2>3. CASE AckTurn(x)
    <3>1. Acknowledge(x, Head(task[x].batch)) /\ UNCHANGED <<queue, snapshot>>
      BY <2>3 DEF AckTurn
    <3> QED BY <1>1, <3>1, AcknowledgeTypes DEF InboxTypes
  <2>4. CASE CloseTracks(x)
    <3>1. UNCHANGED <<queue, work, snapshot>> /\ tracks' \subseteq tracks
      BY <2>4 DEF CloseTracks
    <3> QED BY <1>1, <3>1 DEF InboxTypes
  <2>5. CASE ~Consume(x) /\ ~Admit(x) /\ ~AckTurn(x) /\ ~CloseTracks(x)
    <3>1. UNCHANGED <<inbox, snapshot>>
      BY <1>7, <2>5 DEF Dispatch, StartDispatch, Unwind, Peek, Mark, Leave
    <3> QED BY <3>1, <1>2
  <2> QED BY <2>1, <2>2, <2>3, <2>4, <2>5
<1>8. ASSUME Turn PROVE InboxTypes'
  <2>0. /\ \A x \in Sessions : task[x].pc \in {"asking", "answering", "tracking"} => task[x].scope \in Scopes
        /\ \A x \in Sessions : task[x].scope \in Scopes \union {NoScope}
    BY <1>1 DEF TaskTypes, Tasks
  <2>1. CASE Ask
    <3>1. task[Root].scope \in Asking /\ UNCHANGED <<queue, work, snapshot>>
      BY <2>1 DEF Ask
    <3>2. Message("task", task[Root].scope) \in Messages
      BY <3>1, ScopeAssumption, MessageTypes
    <3>3. tracks' \subseteq tracks \union {Message("task", task[Root].scope)}
      BY <2>1 DEF Ask
    <3> QED BY <1>1, <3>1, <3>2, <3>3 DEF InboxTypes
  <2>2. CASE Asked
    <3>1. /\ queue' = [queue EXCEPT ![Child] = Append(@, Message("task", task[Root].scope))]
          /\ UNCHANGED <<work, tracks, snapshot>> /\ task[Root].pc = "asking"
      BY <2>2 DEF Asked, At
    <3>2. queue' \in [Sessions -> Seq(Messages)]
      BY <1>1, <2>0, <3>1, SentTypes, TheSessions, MessageTypes
    <3> QED BY <1>1, <3>1, <3>2 DEF InboxTypes
  <2>3. CASE Fold
    <3>1. PICK m : /\ queue' = [queue EXCEPT ![Root] = Without(@, m)] /\ tracks' = tracks \ {m}
                   /\ UNCHANGED <<work, snapshot>>
      BY <2>3 DEF Fold
    <3>2. Without(queue[Root], m) \in Seq(Messages)
      BY <1>1, ChosenTypes, TheSessions DEF Without
    <3>3. queue' = [queue EXCEPT ![Root] = Without(queue[Root], m)]
      BY <3>1
    <3>4. queue' \in [Sessions -> Seq(Messages)]
      BY <1>1, <3>2, <3>3, QueueTypes, TheSessions
    <3> QED BY <1>1, <3>1, <3>4 DEF InboxTypes
  <2>4. CASE Answer
    <3>1. UNCHANGED <<queue, work, snapshot>> /\ tracks' \subseteq tracks
      BY <2>4 DEF Answer
    <3> QED BY <1>1, <3>1 DEF InboxTypes
  <2>5. CASE TrackAnswer
    <3>1. /\ tracks' = tracks \union {Message("result", task[Child].scope)}
          /\ UNCHANGED <<queue, work, snapshot>> /\ task[Child].pc = "answering"
      BY <2>5 DEF TrackAnswer, At
    <3>2. Message("result", task[Child].scope) \in Messages
      BY <2>0, <3>1, TheSessions, MessageTypes
    <3> QED BY <1>1, <3>1, <3>2 DEF InboxTypes
  <2>6. CASE Answered
    <3>1. /\ queue' = [queue EXCEPT ![Root] = Append(@, Message("result", task[Child].scope))]
          /\ UNCHANGED <<work, tracks, snapshot>> /\ task[Child].pc = "tracking"
      BY <2>6 DEF Answered, At
    <3>2. queue' \in [Sessions -> Seq(Messages)]
      BY <1>1, <2>0, <3>1, SentTypes, TheSessions, MessageTypes
    <3> QED BY <1>1, <3>1, <3>2 DEF InboxTypes
  <2>7. CASE EndTurn
    <3>1. UNCHANGED <<queue, work, tracks>> /\ snapshot' \in {snapshot, TRUE}
      BY <2>7 DEF EndTurn, inbox
    <3> QED BY <1>1, <3>1 DEF InboxTypes
  <2> QED BY <1>8, <2>1, <2>2, <2>3, <2>4, <2>5, <2>6, <2>7 DEF Turn
<1> QED BY <1>3, <1>4, <1>5, <1>6, <1>7, <1>8 DEF Next

-----------------------------------------------------------------------------
(* The types of the clients, the cancels and the event *)

LEMMA SignalTypes ==
    ASSUME ActorTypes, Signal \/ event' = event
    PROVE  event' \in [flag : BOOLEAN, woken : SUBSET Scopes]
<1>1. event \in [flag : BOOLEAN, woken : SUBSET Scopes] /\ event.woken \subseteq Scopes
  BY DEF ActorTypes
<1>2. CASE Signal
  BY <1>1, <1>2 DEF Signal
<1> QED BY <1>1, <1>2

LEMMA ActorsStayTyped == ASSUME IInv, Next, ~Register, ~Crash PROVE ActorTypes'
<1>1. /\ ActorTypes /\ client \in [Scopes -> Clients] /\ cancel \in [Scopes -> Cancels]
      /\ pendingInput \subseteq Sessions /\ asked \subseteq Scopes /\ suspended \subseteq Scopes
      /\ event \in [flag : BOOLEAN, woken : SUBSET Scopes]
  BY DEF IInv, Typed, ActorTypes
<1>2. ASSUME NEW s \in Scopes, Call(s)
      PROVE  /\ \E pc \in Clients : client' = [client EXCEPT ![s] = pc]
             /\ Signal \/ event' = event
             /\ pendingInput' \subseteq pendingInput \union {Root}
             /\ UNCHANGED <<cancel, asked, suspended>>
  <2>1. CASE Begin(s)
    BY <2>1 DEF Begin, Install, Clients, bounds, tree
  <2>2. CASE InterruptedBegin(s)
    BY <2>2 DEF InterruptedBegin, Install, Clients, bounds, tree
  <2>3. CASE Release(s)
    BY <2>3 DEF Release, Clients, bounds, tree
  <2>4. CASE Activate(s)
    BY <2>4 DEF Activate, Clients, bounds, tree
  <2>5. CASE Submit(s)
    BY <2>5 DEF Submit, Clients, bounds
  <2>6. CASE Deliver(s)
    BY <2>6 DEF Deliver, Clients, bounds
  <2>7. CASE DeliverFails(s)
    BY <2>7 DEF DeliverFails, Clients
  <2> QED BY <1>2, <2>1, <2>2, <2>3, <2>4, <2>5, <2>6, <2>7 DEF Call
<1>3. ASSUME NEW s \in Scopes, Wait(s)
      PROVE  /\ \E pc \in Clients : client' = [client EXCEPT ![s] = pc]
             /\ event' \in [flag : BOOLEAN, woken : SUBSET Scopes]
             /\ UNCHANGED <<pendingInput, cancel, asked, suspended>>
  <2>0. Sleep \in Clients /\ {"running", "tracks", "rest", "done", "joining", "settling", "waiting"} \subseteq Clients
    BY SleepIsNoWrite DEF Clients
  <2>1. CASE Look(s)
    <3>1. event.woken \ {s} \subseteq Scopes
      BY <1>1
    <3> QED BY <2>0, <2>1, <3>1 DEF Look, Goes, WaitFrame, bounds
  <2>2. CASE LookAtRunning(s)
    BY <1>1, <2>0, <2>2 DEF LookAtRunning, Goes, WaitFrame, bounds
  <2>3. CASE LookAtTracks(s)
    BY <1>1, <2>0, <2>3 DEF LookAtTracks, Goes, WaitFrame, bounds
  <2>4. CASE LookAtRest(s)
    BY <1>1, <2>0, <2>4 DEF LookAtRest, Goes, tree, bounds
  <2>5. CASE Joined(s)
    BY <1>1, <2>0, <2>5 DEF Joined, Goes, WaitFrame, bounds
  <2> QED BY <1>3, <2>1, <2>2, <2>3, <2>4, <2>5 DEF Wait
<1>4. ASSUME NEW s \in Scopes, Approve(s)
      PROVE  /\ UNCHANGED <<client, cancel, asked, suspended>>
             /\ Signal \/ event' = event
             /\ pendingInput' \subseteq pendingInput \union {Root}
  BY <1>4 DEF Approve, Decide, DeliverDecision, bounds
<1>5. ASSUME NEW s \in Scopes, CancelRequest(s) \/ Finalize(s)
      PROVE  /\ UNCHANGED <<client, asked, suspended>>
             /\ \E pc \in Cancels : cancel' = [cancel EXCEPT ![s] = pc]
             /\ Signal \/ event' = event
             /\ pendingInput' \subseteq pendingInput
  <2>1. CASE CancelRequest(s)
    BY <2>1 DEF CancelRequest, CancelFrame, Cancels, tree
  <2>2. CASE CloseScope(s)
    BY <2>2 DEF CloseScope, CancelFrame, Cancels, tree
  <2>3. CASE CleanUp(s)
    BY <2>3 DEF CleanUp, CancelFrame, Cancels
  <2>4. CASE CancelSettles(s)
    BY <2>4 DEF CancelSettles, CancelFrame, Cancels, tree
  <2> QED BY <1>5, <2>1, <2>2, <2>3, <2>4 DEF Finalize
<1>6. ASSUME NEW x \in Sessions, Dispatch(x)
      PROVE  /\ UNCHANGED <<client, cancel, asked, suspended>>
             /\ Signal \/ event' = event
             /\ pendingInput' \subseteq pendingInput \union {x}
  <2>1. TaskFrame /\ UNCHANGED <<asked, suspended>>
    BY <1>6 DEF Dispatch, StartDispatch, Consume, Admit, AckTurn, Unwind, CloseTracks, Peek, Mark, Leave
  <2>2. /\ Signal \/ event' = event
        /\ pendingInput' \subseteq pendingInput \union {x}
    BY <1>6 DEF Dispatch, StartDispatch, Consume, Admit, AckTurn, Unwind, CloseTracks, Peek, Mark, Leave,
                Acknowledge, tree
  <2> QED BY <2>1, <2>2 DEF TaskFrame
<1>7. ASSUME Turn
      PROVE  /\ UNCHANGED <<client, cancel, pendingInput>>
             /\ asked' \subseteq Scopes /\ suspended' \subseteq Scopes
             /\ Signal \/ event' = event
  <2>1. TaskFrame /\ UNCHANGED pendingInput /\ (Signal \/ event' = event)
    BY <1>7 DEF Turn, Ask, Asked, Fold, Answer, TrackAnswer, Answered, EndTurn, tree
  <2>2. asked' \subseteq asked \union Asking /\ suspended' \subseteq suspended \union Suspending
    BY <1>7 DEF Turn, Ask, Asked, Fold, Answer, TrackAnswer, Answered, EndTurn
  <2> QED BY <1>1, <2>1, <2>2, ScopeAssumption DEF TaskFrame
<1> USE TheSessions
<1>8. CASE \E s \in Scopes : Call(s) \/ Wait(s)
  <2>1. PICK s \in Scopes : Call(s) \/ Wait(s)
    BY <1>8
  <2>2. event' \in [flag : BOOLEAN, woken : SUBSET Scopes]
    BY <1>1, <1>2, <1>3, <2>1, SignalTypes
  <2>3. PICK pc \in Clients : client' = [client EXCEPT ![s] = pc]
    BY <1>2, <1>3, <2>1
  <2>4. client' \in [Scopes -> Clients]
    BY <1>1, <2>3
  <2>5. UNCHANGED <<cancel, asked, suspended>> /\ pendingInput' \subseteq pendingInput \union {Root}
    BY <1>2, <1>3, <2>1
  <2> QED BY <1>1, <2>2, <2>4, <2>5 DEF ActorTypes
<1>9. CASE \E s \in Scopes : CancelRequest(s) \/ Finalize(s)
  <2>1. PICK s \in Scopes : CancelRequest(s) \/ Finalize(s)
    BY <1>9
  <2>2. event' \in [flag : BOOLEAN, woken : SUBSET Scopes]
    BY <1>1, <1>5, <2>1, SignalTypes
  <2>3. PICK pc \in Cancels : cancel' = [cancel EXCEPT ![s] = pc]
    BY <1>5, <2>1
  <2>4. cancel' \in [Scopes -> Cancels]
    BY <1>1, <2>3
  <2>5. UNCHANGED <<client, asked, suspended>> /\ pendingInput' \subseteq pendingInput
    BY <1>5, <2>1
  <2> QED BY <1>1, <2>2, <2>4, <2>5 DEF ActorTypes
<1>10. CASE (\E s \in Scopes : Approve(s)) \/ (\E x \in Sessions : Dispatch(x)) \/ Turn
  <2>1. /\ UNCHANGED <<client, cancel>> /\ pendingInput' \subseteq Sessions
        /\ asked' \subseteq Scopes /\ suspended' \subseteq Scopes /\ (Signal \/ event' = event)
    BY <1>1, <1>4, <1>6, <1>7, <1>10
  <2>2. event' \in [flag : BOOLEAN, woken : SUBSET Scopes]
    BY <1>1, <2>1, SignalTypes
  <2> QED BY <1>1, <2>1, <2>2 DEF ActorTypes
<1> QED BY <1>8, <1>9, <1>10 DEF Next

-----------------------------------------------------------------------------
(* The types of the tasks *)

\* One task goes on, and its session runs as before.
LEMMA OneTask ==
    ASSUME TaskTypes, NEW x \in Sessions, running' = running,
           task[x].pc # "idle", NEW t \in Tasks, t.pc # "idle",
           t.pc \in AtMessage => t.batch # <<>>,
           t.pc \in {"asking", "answering", "tracking"} => t.scope \in Scopes,
           task' = [task EXCEPT ![x] = t]
    PROVE  TaskTypes'
<1>1. task \in [Sessions -> Tasks]
  BY DEF TaskTypes
<1>2. /\ task' \in [Sessions -> Tasks] /\ task'[x] = t
      /\ \A y \in Sessions \ {x} : task'[y] = task[y]
  BY <1>1
<1>3. running' = {y \in Sessions : task'[y].pc # "idle"}
  BY <1>2 DEF TaskTypes
<1>4. \A y \in Sessions : /\ task'[y].pc = "idle" => task'[y] = NoTask
                          /\ task'[y].pc \in AtMessage => task'[y].batch # <<>>
                          /\ task'[y].pc \in {"asking", "answering", "tracking"} =>
                                task'[y].scope \in Scopes
  BY <1>2 DEF TaskTypes
<1> QED BY <1>2, <1>3, <1>4 DEF TaskTypes

\* A task goes to another place with what it has.
LEMMA OneStep ==
    ASSUME TaskTypes, NEW x \in Sessions, running' = running, task[x].pc # "idle",
           NEW to \in Pcs \ {"idle"}, Step(x, to),
           to \in AtMessage => task[x].pc \in AtMessage,
           to \in {"asking", "answering", "tracking"} => task[x].scope \in Scopes
    PROVE  TaskTypes'
<1> DEFINE t == [task[x] EXCEPT !.pc = to]
<1>1. /\ task[x] \in Tasks /\ task \in [Sessions -> Tasks]
      /\ task[x].pc \in AtMessage => task[x].batch # <<>>
  BY DEF TaskTypes
<1>2. /\ t \in Tasks /\ t.pc = to /\ t.batch = task[x].batch /\ t.scope = task[x].scope
      /\ task' = [task EXCEPT ![x] = t]
  BY <1>1 DEF Tasks, Step
<1> HIDE DEF t
<1> QED BY <1>1, <1>2, OneTask

LEMMA DispatchTypes == ASSUME IInv, NEW x \in Sessions, Dispatch(x) PROVE TaskTypes'
<1>0. /\ TaskTypes /\ InboxTypes /\ current \in Scopes \union {NoScope} /\ task \in [Sessions -> Tasks]
      /\ task[x] \in Tasks /\ (task[x].pc = "idle" => task[x] = NoTask)
      /\ task[x].pc \in AtMessage => task[x].batch # <<>>
  BY DEF IInv, Typed, TaskTypes, ScopeTypes
<1>1. CASE StartDispatch(x)
  <2> DEFINE t == [NoTask EXCEPT !.pc = "start"]
  <2>1. task[x] = NoTask /\ task' = [task EXCEPT ![x] = t] /\ running' = running \union {x}
    BY <1>0, <1>1 DEF StartDispatch, At, Step
  <2>2. t \in Tasks /\ t.pc = "start"
    BY NoTaskType DEF Tasks, Pcs
  <2> HIDE DEF t
  <2>3. /\ task' \in [Sessions -> Tasks] /\ task'[x] = t
        /\ \A y \in Sessions \ {x} : task'[y] = task[y]
    BY <1>0, <2>1, <2>2
  <2>4. running' = {y \in Sessions : task'[y].pc # "idle"}
    BY <1>0, <2>1, <2>2, <2>3 DEF TaskTypes
  <2>5. \A y \in Sessions : /\ task'[y].pc = "idle" => task'[y] = NoTask
                            /\ task'[y].pc \in AtMessage => task'[y].batch # <<>>
                            /\ task'[y].pc \in {"asking", "answering", "tracking"} =>
                                  task'[y].scope \in Scopes
    BY <1>0, <2>2, <2>3 DEF TaskTypes, AtMessage
  <2> QED BY <2>3, <2>4, <2>5 DEF TaskTypes
<1>2. CASE Consume(x)
  <2>1. PICK open : task' = [task EXCEPT ![x].pc = "next", ![x].batch = Only(work[x] \o queue[x], open)]
    BY <1>2 DEF Consume
  <2>2. task[x].pc = "start" /\ running' = running
    BY <1>2 DEF Consume, At, tree
  <2> DEFINE b == Only(work[x] \o queue[x], open)
             t == [task[x] EXCEPT !.pc = "next", !.batch = b]
  <2>3. work[x] \o queue[x] \in Seq(Messages)
    BY <1>0, ConcatFacts DEF InboxTypes
  <2>4. b \in Seq(Messages)
    BY <2>3, ChosenTypes
  <2>5. task' = [task EXCEPT ![x].pc = "next", ![x].batch = b]
    BY <2>1
  <2> HIDE DEF b
  <2>6. t \in Tasks /\ t.pc = "next" /\ task' = [task EXCEPT ![x] = t]
    BY <1>0, <2>4, <2>5 DEF Tasks, Pcs
  <2> HIDE DEF t
  <2> QED BY <1>0, <2>2, <2>6, OneTask DEF AtMessage
<1>3. CASE Admit(x)
  <2>0. /\ task[x].pc = "next" /\ running' = running /\ task[x].batch # <<>>
        /\ task[x].batch \in Seq(Messages)
    BY <1>0, <1>3 DEF Admit, At, Tasks
  <2>1. CASE task' = [task EXCEPT ![x].batch = Tail(@)]
    <3> DEFINE t == [task[x] EXCEPT !.batch = Tail(@)]
    <3>1. Tail(task[x].batch) \in Seq(Messages)
      BY <2>0
    <3>2. t \in Tasks /\ t.pc = "next" /\ task' = [task EXCEPT ![x] = t]
      BY <1>0, <2>0, <2>1, <3>1 DEF Tasks
    <3> HIDE DEF t
    <3> QED BY <1>0, <2>0, <3>2, OneTask DEF AtMessage
  <2>2. CASE \E pc \in {"stale", "turn"} : task' = [task EXCEPT ![x].scope = current, ![x].pc = pc]
    <3>1. PICK pc \in {"stale", "turn"} : task' = [task EXCEPT ![x].scope = current, ![x].pc = pc]
      BY <2>2
    <3> DEFINE t == [task[x] EXCEPT !.scope = current, !.pc = pc]
    <3>2. t \in Tasks /\ t.pc = pc /\ t.batch = task[x].batch /\ task' = [task EXCEPT ![x] = t]
      BY <1>0, <3>1 DEF Tasks, Pcs
    <3> HIDE DEF t
    <3> QED BY <1>0, <2>0, <3>2, OneTask
  <2> QED BY <1>3, <2>1, <2>2 DEF Admit
<1>4. CASE AckTurn(x)
  <2>1. /\ task[x].pc = "ack" /\ running' = running /\ task[x].batch # <<>>
        /\ task' = [task EXCEPT ![x].pc = "next", ![x].batch = Tail(@)]
        /\ task[x].batch \in Seq(Messages)
    BY <1>0, <1>4 DEF AckTurn, At, AtMessage, Tasks
  <2> DEFINE t == [task[x] EXCEPT !.pc = "next", !.batch = Tail(@)]
  <2>2. Tail(task[x].batch) \in Seq(Messages)
    BY <2>1
  <2>3. t \in Tasks /\ t.pc = "next" /\ task' = [task EXCEPT ![x] = t]
    BY <1>0, <2>1, <2>2 DEF Tasks, Pcs
  <2> HIDE DEF t
  <2> QED BY <1>0, <2>1, <2>3, OneTask DEF AtMessage
<1>5. CASE Unwind(x)
  <2>1. /\ task[x].pc # "idle" /\ running' = running
        /\ task' = [task EXCEPT ![x].pc = "end", ![x].batch = <<>>]
    BY <1>5 DEF Unwind, tree
  <2> DEFINE t == [task[x] EXCEPT !.pc = "end", !.batch = <<>>]
  <2>2. <<>> \in Seq(Messages)
    OBVIOUS
  <2>3. t \in Tasks /\ t.pc = "end" /\ task' = [task EXCEPT ![x] = t]
    BY <1>0, <2>1, <2>2 DEF Tasks, Pcs
  <2> HIDE DEF t
  <2> QED BY <1>0, <2>1, <2>3, OneTask DEF AtMessage
<1>6. CASE CloseTracks(x)
  <2>1. /\ task[x].pc # "idle" /\ running' = running
        /\ task' = [task EXCEPT ![x].pc = "peek", ![x].scope = NoScope]
    BY <1>6 DEF CloseTracks, tree
  <2> DEFINE t == [task[x] EXCEPT !.pc = "peek", !.scope = NoScope]
  <2>2. t \in Tasks /\ t.pc = "peek" /\ task' = [task EXCEPT ![x] = t]
    BY <1>0, <2>1 DEF Tasks, Pcs
  <2> HIDE DEF t
  <2> QED BY <1>0, <2>1, <2>2, OneTask DEF AtMessage
<1>7. CASE Peek(x)
  <2>1. /\ task[x].pc = "peek" /\ running' = running
        /\ task' = [task EXCEPT ![x].pc = "mark", ![x].left = work[x] # <<>> \/ queue[x] # <<>>]
    BY <1>7 DEF Peek, At, tree
  <2> DEFINE left == work[x] # <<>> \/ queue[x] # <<>>
             t == [task[x] EXCEPT !.pc = "mark", !.left = left]
  <2>2. left \in BOOLEAN /\ task' = [task EXCEPT ![x].pc = "mark", ![x].left = left]
    BY <2>1
  <2> HIDE DEF left
  <2>3. t \in Tasks /\ t.pc = "mark" /\ task' = [task EXCEPT ![x] = t]
    BY <1>0, <2>2 DEF Tasks, Pcs
  <2> HIDE DEF t
  <2> QED BY <1>0, <2>1, <2>3, OneTask DEF AtMessage
<1>8. CASE Mark(x)
  <2>1. task[x].pc = "mark" /\ running' = running /\ Step(x, "leave")
    BY <1>8 DEF Mark, At
  <2> QED BY <1>0, <2>1, OneStep DEF Pcs, AtMessage
<1>9. CASE Leave(x)
  <2>1. running' = running \ {x} /\ task' = [task EXCEPT ![x] = NoTask]
    BY <1>9 DEF Leave
  <2>2. /\ task' \in [Sessions -> Tasks] /\ task'[x] = NoTask
        /\ \A y \in Sessions \ {x} : task'[y] = task[y]
    BY <1>0, <2>1, NoTaskType
  <2>3. NoTask.pc = "idle"
    BY DEF NoTask
  <2>4. running' = {y \in Sessions : task'[y].pc # "idle"}
    BY <1>0, <2>1, <2>2, <2>3 DEF TaskTypes
  <2>5. \A y \in Sessions : /\ task'[y].pc = "idle" => task'[y] = NoTask
                            /\ task'[y].pc \in AtMessage => task'[y].batch # <<>>
                            /\ task'[y].pc \in {"asking", "answering", "tracking"} =>
                                  task'[y].scope \in Scopes
    BY <1>0, <2>2, <2>3 DEF TaskTypes, AtMessage
  <2> QED BY <2>2, <2>4, <2>5 DEF TaskTypes
<1> QED BY <1>1, <1>2, <1>3, <1>4, <1>5, <1>6, <1>7, <1>8, <1>9 DEF Dispatch

LEMMA TurnTypes == ASSUME IInv, Turn PROVE TaskTypes'
<1>0. /\ TaskTypes /\ \A x \in Sessions : task[x].scope \in Scopes \union {NoScope}
      /\ task \in [Sessions -> Tasks]
  BY DEF IInv, Typed, TaskTypes, Tasks
<1>1. CASE Ask
  <2>1. task[Root].pc = "turn" /\ running' = running /\ task[Root].scope \in Scopes
    BY <1>1, ScopeAssumption DEF Ask, At, tree
  <2>2. CASE Step(Root, "asking")
    BY <1>0, <2>1, <2>2, OneStep, TheSessions DEF Pcs, AtMessage
  <2>3. CASE task' = task
    BY <1>0, <2>1, <2>3, Zenon DEF TaskTypes
  <2> QED BY <1>1, <2>2, <2>3 DEF Ask
<1>2. CASE Asked
  <2>1. task[Root].pc = "asking" /\ running' = running /\ Step(Root, "turn")
    BY <1>2 DEF Asked, At
  <2> QED BY <1>0, <2>1, OneStep, TheSessions DEF Pcs, AtMessage
<1>3. CASE Fold
  <2>1. UNCHANGED <<running, task>>
    BY <1>3 DEF Fold
  <2> QED BY <1>0, <2>1, Zenon DEF TaskTypes
<1>4. CASE Answer
  <2>1. /\ task[Child].pc = "turn" /\ running' = running
        /\ Step(Child, "ack") \/ (Step(Child, "answering") /\ task[Child].scope # NoScope)
    BY <1>4 DEF Answer, At, tree
  <2> QED BY <1>0, <2>1, OneStep, TheSessions DEF Pcs, AtMessage
<1>5. CASE TrackAnswer
  <2>1. task[Child].pc = "answering" /\ running' = running /\ Step(Child, "tracking")
    BY <1>5 DEF TrackAnswer, At, tree
  <2>2. task[Child].scope \in Scopes
    BY <1>0, <2>1, TheSessions DEF TaskTypes
  <2> QED BY <1>0, <2>1, <2>2, OneStep, TheSessions DEF Pcs, AtMessage
<1>6. CASE Answered
  <2>1. task[Child].pc = "tracking" /\ running' = running /\ Step(Child, "ack")
    BY <1>6 DEF Answered, At
  <2> QED BY <1>0, <2>1, OneStep, TheSessions DEF Pcs, AtMessage
<1>7. CASE EndTurn
  <2>1. /\ task[Root].pc \in {"stale", "turn"} /\ running' = running
        /\ Step(Root, "ack") \/ Step(Root, "noting")
    BY <1>7 DEF EndTurn, Note, tree
  <2> QED BY <1>0, <2>1, OneStep, TheSessions DEF Pcs, AtMessage
<1> QED BY <1>1, <1>2, <1>3, <1>4, <1>5, <1>6, <1>7 DEF Turn

LEMMA TasksStayTyped == ASSUME IInv, Next, ~Register, ~Crash PROVE TaskTypes'
<1>1. ASSUME UNCHANGED <<running, task>> PROVE TaskTypes'
  BY <1>1, Zenon DEF IInv, Typed, TaskTypes
<1>2. ASSUME NEW s \in Scopes, Call(s) PROVE UNCHANGED <<running, task>>
  BY <1>2 DEF Call, Begin, InterruptedBegin, Release, Activate, Submit, Deliver, DeliverFails, tree
<1>3. ASSUME NEW s \in Scopes, Wait(s) \/ Approve(s) PROVE UNCHANGED <<running, task>>
  BY <1>3 DEF Wait, Look, LookAtRunning, LookAtTracks, LookAtRest, Joined, WaitFrame, tree,
              Approve, Decide, DeliverDecision
<1>4. ASSUME NEW s \in Scopes, CancelRequest(s) \/ Finalize(s) PROVE UNCHANGED <<running, task>>
  BY <1>4 DEF CancelRequest, Finalize, CloseScope, CleanUp, CancelSettles, tree
<1> QED BY <1>1, <1>2, <1>3, <1>4, DispatchTypes, TurnTypes DEF Next

-----------------------------------------------------------------------------
(* The types after a registration and after a crash *)

LEMMA RegisterTypes == ASSUME IInv, Register PROVE Typed'
<1> DEFINE h == Head(writes)
<1>1. /\ writes # <<>> /\ writes' = Tail(writes) /\ AfterWrite(h)
      /\ disk' = [scope |-> h.scope, state |-> h.state]
      /\ UNCHANGED <<suspends, current, inbox, snapshot, running, pendingInput, decide, bounds>>
  BY DEF Register
<1>2. /\ ScopeTypes /\ InboxTypes /\ ActorTypes /\ TaskTypes /\ Owned
      /\ client \in [Scopes -> Clients] /\ cancel \in [Scopes -> Cancels]
      /\ task \in [Sessions -> Tasks]
  BY DEF IInv, Typed, ActorTypes, TaskTypes
<1>3. h \in Pending /\ h \in Writes /\ writes' \in Seq(Writes)
  BY <1>1, <1>2, WriteDone DEF Owned
<1> HIDE DEF h
<1>4. Owner(h)
  BY <1>2, <1>3 DEF Owned
<1>5. InboxTypes'
  BY <1>1, <1>2, Zenon DEF InboxTypes, inbox
<1>6. ScopeTypes'
  <2>1. disk' \in [scope : Scopes \union {NoScope}, state : States]
    BY <1>1, <1>3 DEF Writes
  <2>2. rec' \in [Scopes -> [state : States, fact : Facts, from : Scopes \union {NoScope}]]
    <3>1. CASE rec' = rec
      BY <1>2, <3>1 DEF ScopeTypes
    <3>2. CASE rec' # rec
      <4>1. h.scope \in Scopes /\ rec' = [rec EXCEPT ![h.scope].state = h.state]
        BY <1>1, <1>4, <3>2 DEF AfterWrite, Settled, Owner
      <4>2. h.state \in States
        BY <1>3 DEF Writes
      <4> QED BY <1>2, <4>1, <4>2, RecordTypes
    <3> QED BY <3>1, <3>2
  <2> QED BY <1>1, <1>2, <1>3, <2>1, <2>2 DEF ScopeTypes
<1>7. ActorTypes'
  <2>1. Signal \/ event' = event
    BY <1>1 DEF AfterWrite, Settled
  <2>2. event' \in [flag : BOOLEAN, woken : SUBSET Scopes]
    BY <1>2, <2>1, SignalTypes
  <2>3. client' \in [Scopes -> Clients]
    <3>1. \/ client' = client
          \/ \E pc \in {"reserved", "submitting", "done"} : client' = [client EXCEPT ![h.scope] = pc]
          \/ \E from \in {"interrupting", "releasing"}, to \in {"interrupted", "done"} :
                client' = [s \in Scopes |-> IF client[s] = from THEN to ELSE client[s]]
      BY <1>1 DEF AfterWrite, Goes
    <3>2. {"reserved", "submitting", "done", "interrupted"} \subseteq Clients
      BY DEF Clients
    <3> QED BY <1>2, <3>1, <3>2
  <2>4. cancel' \in [Scopes -> Cancels]
    <3>1. cancel' = cancel \/ \E pc \in {"draining", "drained", "done"} : cancel' = [cancel EXCEPT ![h.scope] = pc]
      BY <1>1 DEF AfterWrite
    <3>2. {"draining", "drained", "done"} \subseteq Cancels
      BY DEF Cancels
    <3> QED BY <1>2, <3>1, <3>2
  <2> QED BY <1>1, <1>2, <2>2, <2>3, <2>4 DEF ActorTypes, bounds
<1>8. TaskTypes'
  <2>1. CASE task' = task
    BY <1>1, <1>2, <2>1, Zenon DEF TaskTypes
  <2>2. CASE Step(Root, "ack") /\ h.by = "note"
    <3>1. task[Root].pc = "noting"
      BY <1>4, <2>2 DEF Owner
    <3> QED BY <1>1, <1>2, <2>2, <3>1, OneStep, TheSessions DEF Pcs, AtMessage
  <2>3. CASE task' = [x \in Sessions |-> [task[x] EXCEPT !.cancelled = task[x].pc # "idle"]]
    <3>1. \A x \in Sessions : /\ task'[x] \in Tasks /\ task'[x].pc = task[x].pc
                              /\ task'[x].batch = task[x].batch /\ task'[x].scope = task[x].scope
      <4> TAKE x \in Sessions
      <4> DEFINE busy == task[x].pc # "idle"
      <4>1. busy \in BOOLEAN /\ task[x] \in Tasks /\ task'[x] = [task[x] EXCEPT !.cancelled = busy]
        BY <1>2, <2>3
      <4> HIDE DEF busy
      <4> QED BY <4>1 DEF Tasks
    <3>2. \A x \in Sessions : task'[x].pc = "idle" => task'[x] = NoTask
      <4>1. \A x \in Sessions : task[x].pc = "idle" => task[x] = NoTask
        BY <1>2 DEF TaskTypes
      <4>2. \A t \in Tasks : t.cancelled = FALSE => [t EXCEPT !.cancelled = FALSE] = t
        BY DEF Tasks
      <4>3. [NoTask EXCEPT !.cancelled = FALSE] = NoTask /\ NoTask.pc = "idle"
        <5>1. NoTask.pc = "idle" /\ NoTask.cancelled = FALSE
          BY DEF NoTask
        <5> QED BY <4>2, <5>1, NoTaskType
      <4> QED BY <2>3, <3>1, <4>1, <4>3
    <3>3. /\ task' \in [Sessions -> Tasks] /\ running' = {x \in Sessions : task'[x].pc # "idle"}
      BY <1>1, <1>2, <2>3, <3>1 DEF TaskTypes
    <3>4. \A x \in Sessions : /\ task'[x].pc \in AtMessage => task'[x].batch # <<>>
                              /\ task'[x].pc \in {"asking", "answering", "tracking"} =>
                                    task'[x].scope \in Scopes
      BY <1>2, <3>1 DEF TaskTypes
    <3> QED BY <3>2, <3>3, <3>4 DEF TaskTypes
  <2> QED BY <1>1, <2>1, <2>2, <2>3 DEF AfterWrite
<1> QED BY <1>5, <1>6, <1>7, <1>8 DEF Typed

LEMMA CrashTypes == ASSUME IInv, Crash PROVE Typed'
<1>1. /\ ScopeTypes /\ InboxTypes /\ ActorTypes /\ TaskTypes
      /\ disk \in [scope : Scopes \union {NoScope}, state : States]
      /\ client \in [Scopes -> Clients] /\ cancel \in [Scopes -> Cancels]
  BY DEF IInv, Typed, ScopeTypes, ActorTypes
<1>2. ScopeTypes'
  <2>1. disk' \in [scope : Scopes \union {NoScope}, state : States]
    <3>1. "interrupted" \in States
      BY DEF States, Terminal
    <3>2. disk' = disk \/ disk' = [disk EXCEPT !.state = "interrupted"]
      BY DEF Crash
    <3> QED BY <1>1, <3>1, <3>2
  <2>2. NoRec \in [state : States, fact : Facts, from : Scopes \union {NoScope}]
    BY DEF NoRec, States, Terminal, Facts
  <2>3. /\ current' = NoScope /\ rec' = [s \in Scopes |-> NoRec] /\ writes' = <<>> /\ suspends' = suspends
    BY DEF Crash
  <2>4. <<>> \in Seq(Writes)
    OBVIOUS
  <2> QED BY <1>1, <2>1, <2>2, <2>3, <2>4 DEF ScopeTypes
<1>3. InboxTypes'
  <2>1. CASE disk.state \in Terminal \union {"none"}
    <3>1. tracks' \subseteq tracks /\ UNCHANGED <<queue, work, snapshot>>
      BY <2>1 DEF Crash
    <3> QED BY <1>1, <3>1 DEF InboxTypes
  <2>2. CASE disk.state \notin Terminal \union {"none"}
    <3>1. /\ queue' = [x \in Sessions |-> <<>>] /\ work' = [x \in Sessions |-> <<>>]
          /\ tracks' = {} /\ snapshot' = FALSE
      BY <2>2 DEF Crash
    <3> QED BY <3>1, DroppedTypes
  <2> QED BY <2>1, <2>2
<1>4. ActorTypes'
  <2>1. pendingInput' \subseteq Sessions /\ UNCHANGED <<asked, suspended>>
    BY DEF Crash
  <2>2. event' \in [flag : BOOLEAN, woken : SUBSET Scopes]
    BY DEF Crash, NoEvent
  <2>3. client' \in [Scopes -> Clients] /\ cancel' \in [Scopes -> Cancels]
    BY <1>1 DEF Crash, Clients, Cancels
  <2> QED BY <1>1, <2>1, <2>2, <2>3 DEF ActorTypes
<1>5. TaskTypes'
  <2>1. task' = [x \in Sessions |-> NoTask] /\ running' = {} /\ NoTask.pc = "idle"
    BY DEF Crash, NoTask
  <2> QED BY <2>1, NoTaskType DEF TaskTypes, AtMessage
<1> QED BY <1>2, <1>3, <1>4, <1>5 DEF Typed

-----------------------------------------------------------------------------
(* The invariant *)

LEMMA Stutter == ASSUME IInv, UNCHANGED vars PROVE IInv'
<1>1. UNCHANGED <<suspends, current, rec, disk, writes, queue, work, tracks, snapshot, running,
                  pendingInput, event, client, task, cancel, asked, suspended>>
  BY DEF vars, scope, stores, inbox, tree, bounds
<1>2. Typed'
  <2>1. ScopeTypes' /\ InboxTypes'
    BY <1>1, Zenon DEF IInv, Typed, ScopeTypes, InboxTypes
  <2>2. ActorTypes' /\ TaskTypes'
    BY <1>1, Zenon DEF IInv, Typed, ActorTypes, TaskTypes
  <2> QED BY <2>1, <2>2 DEF Typed
<1>3. Owned' /\ OneOutcome'
  <2>1. \A w : Owner(w) => Owner(w)'
    BY <1>1 DEF Owner
  <2>2. Pending' = Pending
    BY <1>1 DEF Pending
  <2> QED BY <1>1, <2>1, <2>2 DEF IInv, Owned, OneOutcome, State
<1>4. FreshScopes' /\ ClosedScopes' /\ CancelledTurns' /\ QuietScopes' /\ Sleepers'
  BY <1>1 DEF IInv, FreshScopes, ClosedScopes, CancelledTurns, QuietScopes, Sleepers, State, Busy
<1> QED BY <1>2, <1>3, <1>4 DEF IInv

LEMMA Inductive == ASSUME IInv, [Next]_vars PROVE IInv'
<1>1. CASE Register
  <2>1. Sleepers'
    BY <1>1, RegisterEffects
  <2> QED BY <1>1, <2>1, RegisterTypes, RegisterOwners, RegisterKeeps DEF IInv
<1>2. CASE Crash
  BY <1>2, CrashTypes, CrashKeeps DEF IInv
<1>3. CASE Next /\ ~Register /\ ~Crash
  <2>1. Typed'
    BY <1>3, ScopesStayTyped, InboxesStayTyped, ActorsStayTyped, TasksStayTyped DEF Typed
  <2>2. Moves
    BY <1>3, NextMoves
  <2>3. Sleepers'
    BY <2>2 DEF Moves
  <2> QED BY <2>1, <2>2, <2>3, MovesKeepOwners, MovesKeepScopes DEF IInv
<1>4. CASE UNCHANGED vars
  BY <1>4, Stutter
<1> QED BY <1>1, <1>2, <1>3, <1>4

\* The records, the registrations, the clients, the cancels and the tasks of a
\* tree always fit together as IInv says.
THEOREM Invariance == Spec => []IInv
<1>1. Init => IInv
  BY Start
<1>2. IInv /\ [Next]_vars => IInv'
  BY Inductive
<1> QED BY <1>1, <1>2, PTL DEF Spec

-----------------------------------------------------------------------------
(* The theorems *)

\* Every variable of a session tree has its type, and a session is in the
\* running set of the tree exactly while it has a dispatch task
\* (on_dispatch_start and on_dispatch_end, manager.py).
THEOREM TypeCorrect == Spec => []TypeOK
<1>1. IInv => TypeOK
  BY TypedIsTypeOK DEF IInv
<1> QED BY <1>1, Invariance, PTL

\* Once a cancel has settled a scope (_cancel_scope), none of its turns runs,
\* wherever they were when it was accepted and whichever other client, turn or
\* decision went on meanwhile, with any store.
THEOREM CancelledLeavesNoTurn == Spec => []CancelledIsQuiet
<1>1. IInv => CancelledIsQuiet
  BY DEF IInv, QuietScopes, Busy, CancelledIsQuiet, TurnOf
<1> QED BY <1>1, Invariance, PTL

\* Two clients, a turn and a failing submission may all hold an outcome for a
\* scope: unless a cancel was accepted, the first one registered stays
\* (_settle_scope, manager.py).
THEOREM OutcomesAreFrozen == Spec => OutcomeIsFrozen
<1> DEFINE Frozen == \A s \in Scopes : State(s) \in Terminal /\ State(s)' # State(s) =>
                        State(s)' = "none" \/ cancel[s] # "none"
<1>1. IInv /\ [Next]_vars => [Frozen]_vars
  <2> SUFFICES ASSUME IInv, Next PROVE Frozen
    OBVIOUS
  <2>1. CASE Register
    <3>1. ASSUME NEW s \in Scopes, rec[s].state \in Terminal, rec'[s].state # rec[s].state
          PROVE  cancel[s] # "none"
      <4>1. PICK w \in Pending : w.by \in {"fail", "wait", "cancel"} /\ w.scope = s
        BY <2>1, <3>1, RegisterEffects
      <4>2. Owner(w) /\ OneOutcome
        BY DEF IInv, Owned
      <4>3. CASE w.by = "cancel"
        BY <4>1, <4>2, <4>3 DEF Owner
      <4>4. CASE w.by \in {"fail", "wait"}
        BY <3>1, <4>1, <4>2, <4>4 DEF OneOutcome, State
      <4> QED BY <4>1, <4>3, <4>4
    <3> QED BY <3>1 DEF State
  <2>2. CASE Crash
    BY <2>2 DEF Crash, State, NoRec
  <2>3. CASE ~Register /\ ~Crash
    <3>1. Recorded /\ FreshScopes
      BY <2>3, NextMoves DEF Moves, IInv
    <3>2. ASSUME NEW s \in Scopes, rec[s].state \in Terminal, rec'[s].state # rec[s].state
          PROVE  cancel[s] # "none"
      <4>1. rec[s].state # "none"
        BY <3>2 DEF Terminal
      <4> QED BY <3>1, <3>2, <4>1 DEF Recorded, FreshScopes, State
    <3> QED BY <3>2 DEF State
  <2> QED BY <2>1, <2>2, <2>3
<1> QED BY <1>1, Invariance, PTL DEF Spec, OutcomeIsFrozen

=============================================================================
