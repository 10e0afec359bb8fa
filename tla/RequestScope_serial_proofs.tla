-------------------- MODULE RequestScope_serial_proofs --------------------
(* Theorems about RequestScope where no query of the stores suspends, as with *)
(* the in-memory stores, for any number of requests and turns: what a settled *)
(* request leaves behind, whose facts decide its outcome, who is woken.       *)
EXTENDS RequestScope_proofs

-----------------------------------------------------------------------------
(* Where no query suspends: a handler runs through to its next real wait, so *)
(* what it saw is true when it uses it.  Serial says what follows for a tree.*)

MidClients == {"interrupted", "delivering", "running", "tracks", "rest"}
MidPcs == {"start", "next", "asking", "answering", "tracking", "ack", "peek", "mark", "leave"}
MidCancels == {"drained", "cleaned"}

\* Everybody is at a real wait.
NobodyMid ==
    /\ \A s \in Scopes : /\ client[s] \notin MidClients /\ cancel[s] \notin MidCancels
                         /\ decide[s] # "delivering"
    /\ \A x \in Sessions : task[x].pc \notin MidPcs

\* One registration at a time, while nobody else runs.
Alone == Len(writes) <= 1 /\ (writes # <<>> => NobodyMid)

\* The messages of a session belong to it and to the current request,
Fits(x, m) == Target(m) = x /\ m.scope \in {current, NoScope}

Placed ==
    /\ \A x \in Sessions : /\ \A m \in ToSet(queue[x]) \union ToSet(work[x]) : Fits(x, m)
                           /\ \A m \in ToSet(task[x].batch) : Target(m) = x
    /\ \A m \in tracks : m.scope = current

\* and so do the turns.
OwnTurns == \A x \in Sessions : task[x].scope \in {current, NoScope}

\* Nothing is left to do,
Calm ==
    /\ running = {} /\ tracks = {} /\ snapshot = FALSE
    /\ \A x \in Sessions : queue[x] = <<>> /\ work[x] = <<>>

\* Where a client is before its prompt is delivered, or when it settles.
Apart == {"beginning", "reserved", "activating", "submitting", "delivering", "failing", "settling"}

\* when the current request is settled, or not submitted yet, or cleaned up.
Resting ==
    \/ CurrentState \notin {"active", "awaiting", "cancelling"}
    \/ current \in Scopes /\ (client[current] \in Apart \/ cancel[current] \in {"cleaned", "settling"})

Submitting == current \in Scopes /\ client[current] = "delivering" /\ pendingInput \subseteq {Root}

Rest == Resting => Calm /\ (pendingInput = {} \/ Submitting)

\* While a cancel awaits the turns of the current request, no other one runs.
Draining ==
    \A s \in Scopes : cancel[s] \in {"draining", "drained"} /\ current = s =>
        \A x \in Sessions : task[x].pc # "idle" => task[x].cancelled

\* A message in an inbox is known to the tree.
Covered ==
    \A x \in Sessions : queue[x] # <<>> =>
        x \in running \/ x \in pendingInput \/ ToSet(queue[x]) \subseteq tracks

\* A session that stops to run has no message or is marked.
Leaving ==
    \A x \in Sessions :
        /\ task[x].pc = "mark" /\ ~task[x].left => queue[x] = <<>>
        /\ task[x].pc = "leave" /\ x \notin pendingInput => queue[x] = <<>>

\* The track of a message is there before the message.
Tracked ==
    /\ task[Root].pc = "asking" => Message("task", task[Root].scope) \in tracks
    /\ task[Child].pc = "tracking" => Message("result", task[Child].scope) \in tracks

\* Who delivers has marked the session, and the request still runs.
Delivering ==
    \A s \in Scopes :
        /\ client[s] = "delivering" =>
              Root \in pendingInput /\ current = s /\ State(s) \in {"active", "awaiting"}
        /\ decide[s] = "delivering" => Root \in pendingInput /\ snapshot

\* A batch waits for a decision only while its request does,
SnapshotAwaited == snapshot => CurrentState \in {"awaiting", "cancelling"}

\* and never beside a turn of the root.
TurnHasNoSnapshot == task[Root].pc \in {"turn", "stale", "asking"} => ~snapshot

\* What the waiter has looked at is still so.
Looked ==
    \A s \in Scopes : /\ client[s] \in {"tracks", "rest"} => running = {}
                      /\ client[s] = "rest" => tracks = {}

\* A client submits a request that it has activated.
Activated ==
    \A s \in Scopes : client[s] \in {"activating", "submitting"} => State(s) \notin {"none", "reserved"}

\* A client interrupts what was lost while no request is live.
Interrupted ==
    \A s \in Scopes :
        /\ client[s] = "interrupting" => \E w \in Pending : w.by = "interrupt"
        /\ client[s] \in {"interrupting", "interrupted"} => CurrentState \in Terminal \union {"none"}

OwnFacts == \A s \in Scopes : rec[s].from \in {s, NoScope}

\* What the places of the actors promise, and what the work of the tree does.
Places == Alone /\ Rest /\ Delivering /\ Looked /\ Activated /\ Interrupted /\ OwnFacts
Works ==
    /\ Placed /\ OwnTurns /\ Draining /\ Covered /\ Leaving /\ Tracked /\ SnapshotAwaited
    /\ TurnHasNoSnapshot
Serial == Places /\ Works

-----------------------------------------------------------------------------
(* What a handler finds *)

\* While an actor runs, nobody else is between two awaits, and nothing waits to
\* be registered.
LEMMA RunsAlone ==
    ASSUME ~suspends, NEW actor, NEW name, Runs(actor, name)
    PROVE  /\ writes = <<>>
           /\ \A s \in Scopes : /\ client[s] \in MidClients => actor = "client" /\ name = s
                                /\ cancel[s] \in MidCancels => actor = "cancel" /\ name = s
                                /\ decide[s] = "delivering" => actor = "decide" /\ name = s
           /\ \A x \in Sessions : task[x].pc \in MidPcs => actor = "task" /\ name = x
<1>1. writes = <<>> /\ MidHandler \subseteq {<<actor, name>>}
  BY DEF Runs
<1>2. ASSUME NEW a, NEW n, <<a, n>> \in MidHandler PROVE a = actor /\ n = name
  <2>1. <<a, n>> = <<actor, name>>
    BY <1>1, <1>2, Zenon
  <2>2. \A p, q : p = q => p[1] = q[1] /\ p[2] = q[2]
    OBVIOUS
  <2>3. <<a, n>>[1] = <<actor, name>>[1] /\ <<a, n>>[2] = <<actor, name>>[2]
    BY <2>1, <2>2, Zenon
  <2>4. <<a, n>>[1] = a /\ <<a, n>>[2] = n /\ <<actor, name>>[1] = actor /\ <<actor, name>>[2] = name
    BY SMT
  <2> QED BY <2>3, <2>4
<1>3. ASSUME NEW s \in Scopes, client[s] \in MidClients PROVE <<"client", s>> \in MidHandler
  BY <1>3 DEF MidHandler, MidClients
<1>4. ASSUME NEW s \in Scopes, cancel[s] \in MidCancels PROVE <<"cancel", s>> \in MidHandler
  BY <1>4 DEF MidHandler, MidCancels
<1>5. ASSUME NEW s \in Scopes, decide[s] = "delivering" PROVE <<"decide", s>> \in MidHandler
  BY <1>5 DEF MidHandler
<1>6. ASSUME NEW x \in Sessions, task[x].pc \in MidPcs PROVE <<"task", x>> \in MidHandler
  BY <1>6 DEF MidHandler, MidPcs
<1> QED BY <1>1, <1>2, <1>3, <1>4, <1>5, <1>6

\* In a calm tree there is no task.
LEMMA CalmIsIdle ==
    ASSUME Typed, Calm
    PROVE  \A x \in Sessions : /\ task[x] = NoTask /\ task[x].pc = "idle"
                               /\ task[x].batch = <<>> /\ task[x].scope = NoScope
<1>1. \A x \in Sessions : task[x].pc = "idle" /\ task[x] = NoTask
  BY DEF Typed, TaskTypes, Calm
<1>2. NoTask.pc = "idle" /\ NoTask.batch = <<>> /\ NoTask.scope = NoScope
  BY DEF NoTask
<1> QED BY <1>1, <1>2

\* The work of a tree that is calm after a step is as it should be.
LEMMA CalmWorks ==
    ASSUME Calm', \A x \in Sessions : task'[x] = NoTask
    PROVE  Works'
<1>1. \A x \in Sessions : /\ task'[x].pc = "idle" /\ task'[x].batch = <<>> /\ task'[x].scope = NoScope
                          /\ ~task'[x].left
  BY DEF NoTask
<1>2. ToSet(<<>>) = {}
  BY DEF ToSet
<1>3. Placed'
  BY <1>1, <1>2 DEF Calm, Placed
<1>4. OwnTurns' /\ Draining'
  BY <1>1 DEF OwnTurns, Draining
<1>5. Covered' /\ Leaving'
  BY <1>1 DEF Calm, Covered, Leaving
<1>6. Tracked' /\ SnapshotAwaited' /\ TurnHasNoSnapshot'
  BY <1>1, TheSessions DEF Calm, Tracked, SnapshotAwaited, TurnHasNoSnapshot
<1> QED BY <1>3, <1>4, <1>5, <1>6 DEF Works

\* Where a session runs the current request is neither settled nor waiting to be
\* submitted.
LEMMA RunningIsNoRest ==
    ASSUME Typed, Rest, NEW x \in Sessions, task[x].pc # "idle"
    PROVE  ~Resting
  BY CalmIsIdle DEF Rest

\* The work stays as it is where a step does not touch it.
LEMMA WorksKept ==
    ASSUME Works, UNCHANGED <<current, queue, work, tracks, snapshot, running>>,
           pendingInput \subseteq pendingInput',
           \A x \in Sessions : /\ task'[x].batch = task[x].batch /\ task'[x].scope = task[x].scope
                               /\ \/ task'[x].pc = task[x].pc /\ task'[x].left = task[x].left
                                  \/ task'[x].pc = "ack",
           Draining', SnapshotAwaited'
    PROVE  Works'
<1>1. Placed' /\ OwnTurns'
  BY DEF Works, Placed, Fits, OwnTurns
<1>2. Covered' /\ Leaving'
  BY DEF Works, Covered, Leaving
<1>3. Tracked' /\ TurnHasNoSnapshot'
  BY TheSessions DEF Works, Tracked, TurnHasNoSnapshot
<1> QED BY <1>1, <1>2, <1>3 DEF Works

-----------------------------------------------------------------------------
(* The clients of a serial tree *)

\* What a step of one client keeps of the places.
LEMMA ClientPlaces ==
    ASSUME IInv, Serial, ~suspends, NEW s \in Scopes, Runs("client", s),
           NEW pc, client' = [client EXCEPT ![s] = pc], UNCHANGED <<cancel, decide, task>>,
           Len(writes') <= 1, writes' = <<>> \/ pc \notin MidClients,
           pc \notin {"delivering", "interrupted"},
           pc = "interrupting" => /\ \E w \in Pending' : w.by = "interrupt"
                                  /\ CurrentState' \in Terminal \union {"none"},
           pc \in {"tracks", "rest"} => running' = {},
           pc = "rest" => tracks' = {},
           \A t \in Scopes : rec'[t].from = rec[t].from
    PROVE  Alone' /\ Delivering' /\ Looked' /\ Interrupted' /\ OwnFacts'
<1>1. /\ writes = <<>>
      /\ \A t \in Scopes : /\ client[t] \in MidClients => t = s
                           /\ cancel[t] \notin MidCancels /\ decide[t] # "delivering"
      /\ \A x \in Sessions : task[x].pc \notin MidPcs
  BY RunsAlone
<1>2. client'[s] = pc /\ \A t \in Scopes \ {s} : client'[t] = client[t]
  BY DEF IInv, Typed, ActorTypes
<1>3. Alone'
  BY <1>1, <1>2 DEF Alone, NobodyMid
<1>4. Delivering'
  BY <1>1, <1>2 DEF Delivering, MidClients
<1>5. Looked'
  BY <1>1, <1>2 DEF Looked, MidClients
<1>6. Interrupted'
  <2>1. \A t \in Scopes : client[t] # "interrupting"
    BY <1>1 DEF Serial, Places, Interrupted, Pending, ToSet
  <2>2. \A t \in Scopes \ {s} : client[t] # "interrupted"
    BY <1>1 DEF MidClients
  <2> QED BY <1>2, <2>1, <2>2 DEF Interrupted
<1>7. OwnFacts'
  BY DEF Serial, Places, OwnFacts
<1> QED BY <1>3, <1>4, <1>5, <1>6, <1>7

\* A client that leaves the request and the work of the tree alone.
LEMMA ClientSerial ==
    ASSUME IInv, Serial, ~suspends, NEW s \in Scopes, Runs("client", s),
           client[s] \notin Untouched \union {"delivering"}, NEW pc, client' = [client EXCEPT ![s] = pc],
           UNCHANGED <<current, rec, queue, work, tracks, snapshot, running, pendingInput, task, cancel, decide>>,
           Len(writes') <= 1, writes' = <<>> \/ pc \notin MidClients,
           pc \notin {"delivering", "interrupting", "interrupted", "activating", "submitting"},
           pc \in {"tracks", "rest"} => running = {},
           pc = "rest" => tracks = {},
           pc \in Apart /\ current = s => client[s] \in Apart \/ (Calm /\ pendingInput = {})
    PROVE  Serial'
<1>1. client'[s] = pc /\ \A t \in Scopes \ {s} : client'[t] = client[t]
  BY DEF IInv, Typed, ActorTypes
<1>2. Alone' /\ Delivering' /\ Looked' /\ Interrupted' /\ OwnFacts'
  BY ClientPlaces
<1>3. Activated'
  BY <1>1 DEF Serial, Places, Activated, State
<1>4. Rest'
  <2>1. SUFFICES ASSUME Resting' PROVE Calm /\ pendingInput = {}
    BY DEF Rest, Calm
  <2>2. ~Submitting
    BY RunsAlone DEF Submitting, MidClients
  <2>3. CASE Resting
    BY <2>2, <2>3 DEF Serial, Places, Rest
  <2>4. CASE ~Resting
    <3>1. current = s /\ pc \in Apart /\ client[s] \notin Apart
      BY <1>1, <2>1, <2>4 DEF Resting, CurrentState, State
    <3> QED BY <3>1
  <2> QED BY <2>3, <2>4
<1>5. Works'
  <2>1. Draining' /\ SnapshotAwaited'
    BY DEF Serial, Works, Draining, SnapshotAwaited, CurrentState, State
  <2> QED BY <2>1, WorksKept DEF Serial
<1> QED BY <1>2, <1>3, <1>4, <1>5 DEF Serial, Places

\* A client that finds and leaves the tree calm.
LEMMA CalmSerial ==
    ASSUME IInv, Serial, ~suspends, NEW s \in Scopes, Runs("client", s), Calm, Calm',
           NEW pc, client' = [client EXCEPT ![s] = pc], UNCHANGED <<cancel, decide, task>>,
           pendingInput' = {}, Len(writes') <= 1, pc \notin MidClients,
           pc = "interrupting" => /\ \E w \in Pending' : w.by = "interrupt"
                                  /\ CurrentState' \in Terminal \union {"none"},
           Activated', \A t \in Scopes : rec'[t].from = rec[t].from
    PROVE  Serial'
<1>1. Alone' /\ Delivering' /\ Looked' /\ Interrupted' /\ OwnFacts'
  BY ClientPlaces DEF MidClients
<1>2. Rest'
  BY DEF Rest
<1>3. Works'
  BY CalmIsIdle, CalmWorks DEF IInv
<1> QED BY <1>1, <1>2, <1>3 DEF Serial, Places

\* One registration.
LEMMA OneWrite ==
    ASSUME writes = <<>>, NEW w, writes' = Append(writes, w)
    PROVE  Len(writes') = 1 /\ Pending' = {w}
<1>1. writes' = <<w>>
  OBVIOUS
<1>2. Len(<<w>>) = 1 /\ DOMAIN <<w>> = {1} /\ <<w>>[1] = w
  OBVIOUS
<1> QED BY <1>1, <1>2 DEF Pending, ToSet

\* The scope of s is installed in a calm tree.
LEMMA InstallSerial ==
    ASSUME IInv, Serial, ~suspends, NEW s \in Scopes, Runs("client", s),
           client[s] \in {"new", "interrupted"}, CurrentState \in Terminal \union {"none"}, Install(s),
           UNCHANGED <<queue, work, tracks, snapshot, running, pendingInput, task, cancel, decide>>
    PROVE  Serial'
<1>1. Resting
  BY DEF Resting, Terminal
<1>2. ~Submitting
  <2>1. client[s] # "delivering"
    OBVIOUS
  <2> QED BY <2>1, RunsAlone DEF Submitting, MidClients
<1>3. Calm /\ pendingInput = {}
  BY <1>1, <1>2 DEF Serial, Places, Rest
<1>4. Calm'
  BY <1>3 DEF Calm
<1>5. /\ client' = [client EXCEPT ![s] = "beginning"] /\ rec' = [rec EXCEPT ![s].state = "reserved"]
      /\ Len(writes') = 1
  BY RunsAlone, OneWrite DEF Install, Write
<1>6. /\ \A t \in Scopes : rec'[t].from = rec[t].from
      /\ \A t \in Scopes \ {s} : rec'[t] = rec[t]
  BY <1>5 DEF IInv, Typed, ScopeTypes
<1>7. Activated'
  <2>1. client'[s] = "beginning" /\ \A t \in Scopes \ {s} : client'[t] = client[t]
    BY <1>5 DEF IInv, Typed, ActorTypes
  <2> QED BY <1>6, <2>1 DEF Serial, Places, Activated, State
<1>8. Len(writes') <= 1 /\ pendingInput' = {} /\ UNCHANGED <<cancel, decide, task>>
  BY <1>3, <1>5
<1>9. "beginning" \notin MidClients /\ "beginning" # "interrupting"
  BY DEF MidClients
<1> QED BY <1>3, <1>4, <1>5, <1>6, <1>7, <1>8, <1>9, CalmSerial

LEMMA BeginSerial == ASSUME IInv, Serial, ~suspends, NEW s \in Scopes, Begin(s) PROVE Serial'
<1>1. /\ client[s] = "new" /\ Runs("client", s) /\ CurrentState \in Terminal \union {"none"}
      /\ UNCHANGED <<task, cancel, decide>>
  BY DEF Begin
<1>2. CASE Install(s)
  <2>1. UNCHANGED <<queue, work, tracks, snapshot, running, pendingInput>>
    BY <1>2, <1>1, RunsAlone, OneWrite DEF Begin, Install, Write, inbox, tree
  <2> QED BY <1>1, <1>2, <2>1, InstallSerial
<1>3. CASE ~Install(s)
  <2> DEFINE w == [by |-> "interrupt", scope |-> disk.scope, state |-> "interrupted"]
  <2>1. /\ writes' = Append(writes, w) /\ client' = [client EXCEPT ![s] = "interrupting"]
        /\ queue' = [x \in Sessions |-> <<>>] /\ work' = [x \in Sessions |-> <<>>]
        /\ tracks' = {} /\ snapshot' = FALSE /\ pendingInput' = {}
        /\ UNCHANGED <<current, rec, running>>
    BY <1>3 DEF Begin, Write
  <2>2. Resting /\ ~Submitting
    BY <1>1, RunsAlone DEF Resting, Terminal, Submitting, MidClients
  <2>3. Calm
    BY <2>2 DEF Serial, Places, Rest
  <2>4. Calm'
    BY <2>1, <2>3 DEF Calm
  <2>5. Len(writes') = 1 /\ Pending' = {w}
    BY <1>1, <2>1, RunsAlone, OneWrite
  <2>6. \E v \in Pending' : v.by = "interrupt"
    BY <2>5
  <2>7. CurrentState' \in Terminal \union {"none"}
    BY <1>1, <2>1 DEF CurrentState, State
  <2>8. Activated'
    <3>1. client'[s] = "interrupting" /\ \A t \in Scopes \ {s} : client'[t] = client[t]
      BY <2>1 DEF IInv, Typed, ActorTypes
    <3> QED BY <2>1, <3>1 DEF Serial, Places, Activated, State
  <2>9. Len(writes') <= 1 /\ "interrupting" \notin MidClients /\ \A t \in Scopes : rec'[t].from = rec[t].from
    BY <2>1, <2>5 DEF MidClients
  <2> HIDE DEF w
  <2> QED BY <1>1, <2>1, <2>3, <2>4, <2>6, <2>7, <2>8, <2>9, CalmSerial
<1> QED BY <1>2, <1>3

LEMMA InterruptedBeginSerial ==
    ASSUME IInv, Serial, ~suspends, NEW s \in Scopes, InterruptedBegin(s) PROVE Serial'
<1>1. client[s] = "interrupted" /\ CurrentState \in Terminal \union {"none"}
  BY DEF InterruptedBegin, Serial, Places, Interrupted
<1> QED BY <1>1, InstallSerial DEF InterruptedBegin, inbox, tree

\* A record of which only the state changes.
LEMMA StateMoves ==
    ASSUME Typed, NEW s \in Scopes, NEW v, rec' = [rec EXCEPT ![s].state = v]
    PROVE  /\ rec'[s].state = v
           /\ \A t \in Scopes : rec'[t].from = rec[t].from
           /\ \A t \in Scopes \ {s} : rec'[t] = rec[t]
  BY DEF Typed, ScopeTypes

\* Before it submits, a client finds the tree of its request calm.
LEMMA ApartIsCalm ==
    ASSUME Serial, NEW s \in Scopes, current = s, client[s] \in Apart \ {"delivering"}
    PROVE  Calm /\ pendingInput = {}
  BY DEF Serial, Places, Rest, Resting, Submitting

LEMMA ReleaseSerial == ASSUME IInv, Serial, ~suspends, NEW s \in Scopes, Release(s) PROVE Serial'
<1>1. /\ client[s] = "reserved" /\ Runs("client", s) /\ writes = <<>>
      /\ UNCHANGED <<rec, queue, work, tracks, snapshot, running, pendingInput, task, cancel, decide>>
  BY RunsAlone DEF Release, inbox, tree
<1>2. CASE current = s /\ State(s) = "reserved"
  <2>1. Calm /\ pendingInput = {}
    BY <1>1, <1>2, ApartIsCalm DEF Apart
  <2>2. /\ client' = [client EXCEPT ![s] = "releasing"] /\ Len(writes') = 1
    BY <1>1, <1>2, OneWrite DEF Release, Write
  <2>3. Calm' /\ pendingInput' = {} /\ Len(writes') <= 1 /\ UNCHANGED <<cancel, decide, task>>
    BY <1>1, <2>1, <2>2 DEF Calm
  <2>4. Activated'
    <3>1. client'[s] = "releasing" /\ \A t \in Scopes \ {s} : client'[t] = client[t]
      BY <2>2 DEF IInv, Typed, ActorTypes
    <3> QED BY <1>1, <3>1 DEF Serial, Places, Activated, State
  <2>5. "releasing" \notin MidClients /\ "releasing" # "interrupting"
    BY DEF MidClients
  <2>6. \A t \in Scopes : rec'[t].from = rec[t].from
    BY <1>1
  <2> QED BY <1>1, <2>1, <2>2, <2>3, <2>4, <2>5, <2>6, CalmSerial
<1>3. CASE ~(current = s /\ State(s) = "reserved")
  <2>1. client' = [client EXCEPT ![s] = "done"] /\ current' = current /\ writes' = <<>>
    BY <1>1, <1>3 DEF Release
  <2>2. Len(writes') <= 1
    BY <2>1
  <2>3. "done" \notin Apart
    BY DEF Apart
  <2>4. client[s] \notin Untouched \union {"delivering"}
    BY <1>1 DEF Untouched
  <2> QED BY <1>1, <2>1, <2>2, <2>3, <2>4, ClientSerial
<1> QED BY <1>2, <1>3

LEMMA ActivateSerial == ASSUME IInv, Serial, ~suspends, NEW s \in Scopes, Activate(s) PROVE Serial'
<1>1. /\ client[s] = "reserved" /\ Runs("client", s) /\ writes = <<>>
      /\ UNCHANGED <<current, queue, work, tracks, snapshot, running, pendingInput, task, cancel, decide>>
  BY RunsAlone DEF Activate, inbox, tree
<1>2. CASE current = s /\ State(s) = "reserved"
  <2>1. Calm /\ pendingInput = {}
    BY <1>1, <1>2, ApartIsCalm DEF Apart
  <2>2. /\ client' = [client EXCEPT ![s] = "activating"] /\ Len(writes') = 1
        /\ rec' = [rec EXCEPT ![s].state = "active"]
    BY <1>1, <1>2, OneWrite DEF Activate, Transition, Write
  <2>3. Calm' /\ pendingInput' = {} /\ Len(writes') <= 1 /\ UNCHANGED <<cancel, decide, task>>
    BY <1>1, <2>1, <2>2 DEF Calm
  <2>4. /\ rec'[s].state = "active" /\ \A t \in Scopes : rec'[t].from = rec[t].from
        /\ \A t \in Scopes \ {s} : rec'[t] = rec[t]
    BY <2>2, StateMoves DEF IInv
  <2>5. Activated'
    <3>1. client'[s] = "activating" /\ \A t \in Scopes \ {s} : client'[t] = client[t]
      BY <2>2 DEF IInv, Typed, ActorTypes
    <3> QED BY <2>4, <3>1 DEF Serial, Places, Activated, State
  <2>6. "activating" \notin MidClients /\ "activating" # "interrupting"
    BY DEF MidClients
  <2> QED BY <1>1, <2>1, <2>2, <2>3, <2>4, <2>5, <2>6, CalmSerial
<1>3. CASE ~(current = s /\ State(s) = "reserved")
  <2>1. client' = [client EXCEPT ![s] = "done"] /\ rec' = rec /\ writes' = <<>>
    BY <1>1, <1>3 DEF Activate
  <2>2. Len(writes') <= 1
    BY <2>1
  <2>3. "done" \notin Apart
    BY DEF Apart
  <2>4. client[s] \notin Untouched \union {"delivering"}
    BY <1>1 DEF Untouched
  <2> QED BY <1>1, <2>1, <2>2, <2>3, <2>4, ClientSerial
<1> QED BY <1>2, <1>3

\* The gate lets the prompt of a request pass whose tree is calm.
LEMMA SubmitSerial == ASSUME IInv, Serial, ~suspends, NEW s \in Scopes, Submit(s) PROVE Serial'
<1>1. /\ client[s] = "submitting" /\ Runs("client", s)
      /\ UNCHANGED <<suspends, current, queue, work, tracks, snapshot, running, task, cancel, decide>>
  BY DEF Submit, inbox
<1>2. /\ writes = <<>>
      /\ \A t \in Scopes : client[t] \notin MidClients /\ cancel[t] \notin MidCancels /\ decide[t] # "delivering"
      /\ \A x \in Sessions : task[x].pc \notin MidPcs
  BY <1>1, RunsAlone DEF MidClients
<1>3. CASE Live(s) /\ State(s) # "cancelling"
  <2>1. Calm /\ pendingInput = {} /\ current = s
    BY <1>1, <1>3, ApartIsCalm DEF Apart, Live
  <2>2. State(s) \in {"active", "awaiting"}
    BY <1>1, <1>3 DEF Serial, Places, Activated, Live, IInv, Typed, ScopeTypes, States, State
  <2>3. /\ pendingInput' = {Root} /\ client' = [client EXCEPT ![s] = "delivering"]
        /\ UNCHANGED <<rec, writes>>
    BY <1>3, <2>1 DEF Submit
  <2>4. client'[s] = "delivering" /\ \A t \in Scopes \ {s} : client'[t] = client[t]
    BY <2>3 DEF IInv, Typed, ActorTypes
  <2>5. Calm'
    BY <1>1, <2>1 DEF Calm
  <2>6. Alone'
    BY <1>2, <2>3 DEF Alone
  <2>7. Rest'
    BY <1>1, <2>1, <2>3, <2>4, <2>5 DEF Rest, Submitting
  <2>8. Delivering'
    BY <1>1, <1>2, <2>1, <2>2, <2>3, <2>4 DEF Delivering, State, MidClients
  <2>9. Looked'
    BY <1>2, <2>4 DEF Looked, MidClients
  <2>10. Activated' /\ OwnFacts'
    BY <2>3, <2>4 DEF Serial, Places, Activated, OwnFacts, State
  <2>11. Interrupted'
    <3>1. \A t \in Scopes : client[t] \notin {"interrupting", "interrupted"}
      BY <1>2 DEF Serial, Places, Interrupted, Pending, ToSet, MidClients
    <3> QED BY <2>4, <3>1 DEF Interrupted
  <2>12. Works'
    BY <1>1, <2>1, <2>5, CalmIsIdle, CalmWorks DEF IInv
  <2> QED BY <2>6, <2>7, <2>8, <2>9, <2>10, <2>11, <2>12 DEF Serial, Places
<1>4. CASE ~(Live(s) /\ State(s) # "cancelling")
  <2>1. pendingInput' = pendingInput
    BY <1>4 DEF Submit
  <2>2. client[s] \notin Untouched \union {"delivering"} /\ client[s] \in Apart
    BY <1>1 DEF Untouched, Apart
  <2>3. CASE Live(s)
    <3>1. /\ client' = [client EXCEPT ![s] = "failing"] /\ rec' = rec /\ Len(writes') = 1
      BY <1>2, <1>4, <2>3, OneWrite DEF Submit, Settle, Write
    <3>2. Len(writes') <= 1 /\ "failing" \notin MidClients
      BY <3>1 DEF MidClients
    <3> QED BY <1>1, <2>1, <2>2, <3>1, <3>2, ClientSerial
  <2>4. CASE ~Live(s)
    <3>1. client' = [client EXCEPT ![s] = "done"] /\ rec' = rec /\ writes' = <<>>
      BY <1>2, <1>4, <2>4 DEF Submit
    <3>2. Len(writes') <= 1 /\ "done" \notin Apart
      BY <3>1 DEF Apart
    <3> QED BY <1>1, <2>1, <2>2, <3>1, <3>2, ClientSerial
  <2> QED BY <2>3, <2>4
<1> QED BY <1>3, <1>4

\* The prompt is the only message of its tree.
LEMMA DeliverSerial == ASSUME IInv, Serial, ~suspends, NEW s \in Scopes, Deliver(s) PROVE Serial'
<1> DEFINE m == Message("prompt", s)
<1>1. /\ client[s] = "delivering" /\ Runs("client", s) /\ queue' = [queue EXCEPT ![Root] = Append(@, m)]
      /\ client' = [client EXCEPT ![s] = "waiting"] /\ UNCHANGED <<cancel, decide, task>>
      /\ UNCHANGED <<current, rec, writes, work, tracks, snapshot, running, pendingInput>>
  BY DEF Deliver, scope, stores
<1>2. Root \in pendingInput /\ current = s /\ State(s) \in {"active", "awaiting"}
  BY <1>1 DEF Serial, Places, Delivering
<1>3. Calm
  BY <1>1, <1>2 DEF Serial, Places, Rest, Resting, Apart
<1>4. queue'[Root] = <<m>> /\ queue'[Child] = <<>>
  <2>1. queue[Root] = <<>> /\ queue[Child] = <<>>
    BY <1>3, TheSessions DEF Calm
  <2> QED BY <1>1, <2>1, TheSessions DEF IInv, Typed, InboxTypes
<1>5. m.scope = s /\ m.kind = "prompt" /\ Target(m) = Root
  BY DEF Message, Target
<1> HIDE DEF m
<1>6. /\ writes' = <<>> /\ Len(writes') <= 1 /\ "waiting" \notin MidClients
      /\ \A t \in Scopes : rec'[t].from = rec[t].from
  <2>1. writes = <<>>
    BY <1>1, RunsAlone
  <2> QED BY <1>1, <2>1 DEF MidClients
<1>7. Alone' /\ Delivering' /\ Looked' /\ Interrupted' /\ OwnFacts'
  <2>1. "waiting" \notin {"delivering", "interrupted", "interrupting", "tracks", "rest"}
    OBVIOUS
  <2> QED BY <1>1, <1>6, <2>1, ClientPlaces
<1>8. client'[s] = "waiting" /\ \A t \in Scopes \ {s} : client'[t] = client[t]
  BY <1>1 DEF IInv, Typed, ActorTypes
<1>9. Activated'
  BY <1>1, <1>8 DEF Serial, Places, Activated, State
<1>10. ~Resting'
  <2>1. CurrentState' \in {"active", "awaiting"} /\ current' = s
    BY <1>1, <1>2, ScopeAssumption DEF CurrentState, State
  <2>2. cancel[s] \notin {"cleaned", "settling"}
    BY <1>2 DEF IInv, ClosedScopes, Closed, Terminal
  <2> QED BY <1>1, <1>8, <2>1, <2>2 DEF Resting, Apart
<1>11. \A x \in Sessions : /\ task'[x].pc = "idle" /\ task'[x].batch = <<>> /\ task'[x].scope = NoScope
  BY <1>1, <1>3, CalmIsIdle DEF IInv
<1>12. Placed'
  <2>1. ToSet(<<>>) = {} /\ ToSet(<<m>>) = {m}
    BY DEF ToSet
  <2>2. Fits(Root, m)'
    BY <1>1, <1>2, <1>5 DEF Fits
  <2> QED BY <1>1, <1>3, <1>4, <1>11, <2>1, <2>2 DEF Placed, Calm, Sessions
<1>13. OwnTurns' /\ Draining' /\ Leaving' /\ Tracked' /\ TurnHasNoSnapshot'
  BY <1>11, TheSessions DEF OwnTurns, Draining, Leaving, Tracked, TurnHasNoSnapshot
<1>14. Covered'
  BY <1>1, <1>2, <1>4 DEF Covered, Sessions
<1>15. SnapshotAwaited'
  BY <1>1, <1>3 DEF SnapshotAwaited, Calm
<1> QED BY <1>7, <1>9, <1>10, <1>12, <1>13, <1>14, <1>15 DEF Serial, Places, Works, Rest

LEMMA DeliverFailsSerial ==
    ASSUME IInv, Serial, ~suspends, NEW s \in Scopes, DeliverFails(s) PROVE Serial'
<1>1. /\ client[s] = "delivering" /\ Runs("client", s) /\ UNCHANGED <<cancel, decide, task>>
      /\ UNCHANGED <<current, queue, work, tracks, snapshot, running>> /\ pendingInput' = pendingInput \ {Root}
  BY DEF DeliverFails, inbox
<1>2. current = s /\ State(s) \in {"active", "awaiting"} /\ Live(s)
  BY <1>1 DEF Serial, Places, Delivering, Live, Terminal
<1>3. Calm /\ pendingInput \subseteq {Root}
  BY <1>1, <1>2 DEF Serial, Places, Rest, Resting, Apart, Submitting
<1>4. /\ client' = [client EXCEPT ![s] = "failing"] /\ rec' = rec /\ Len(writes') = 1
  BY <1>1, <1>2, RunsAlone, OneWrite DEF DeliverFails, Settle, Write
<1>5. /\ Calm' /\ pendingInput' = {} /\ Len(writes') <= 1 /\ "failing" \notin MidClients
      /\ "failing" # "interrupting" /\ \A t \in Scopes : rec'[t].from = rec[t].from
  BY <1>1, <1>3, <1>4 DEF Calm, MidClients
<1>6. Activated'
  <2>1. client'[s] = "failing" /\ \A t \in Scopes \ {s} : client'[t] = client[t]
    BY <1>4 DEF IInv, Typed, ActorTypes
  <2> QED BY <1>4, <2>1 DEF Serial, Places, Activated, State
<1> QED BY <1>1, <1>3, <1>4, <1>5, <1>6, CalmSerial

LEMMA CallSerial == ASSUME IInv, Serial, ~suspends, NEW s \in Scopes, Call(s) PROVE Serial'
  BY BeginSerial, InterruptedBeginSerial, ReleaseSerial, ActivateSerial, SubmitSerial, DeliverSerial,
     DeliverFailsSerial DEF Call

-----------------------------------------------------------------------------
(* The waiters *)

\* A waiter settles its request in a calm tree: nobody ran since it looked.
LEMMA LookAtRestSerial ==
    ASSUME IInv, Serial, ~suspends, NEW s \in Scopes, LookAtRest(s) PROVE Serial'
<1>1. /\ client[s] = "rest" /\ Runs("client", s) /\ writes = <<>>
      /\ UNCHANGED <<current, queue, work, tracks, snapshot, running, pendingInput, task, cancel, decide>>
  BY RunsAlone DEF LookAtRest, inbox, tree
<1>2. client[s] \notin Untouched \union {"delivering"}
  BY <1>1 DEF Untouched
<1>3. ASSUME NEW pc \in {"waiting", "asleep", "done", "joining"}, Goes(s, pc), UNCHANGED <<rec, writes>>
      PROVE  Serial'
  <2>1. client' = [client EXCEPT ![s] = pc] /\ writes' = <<>> /\ Len(writes') <= 1
    BY <1>1, <1>3 DEF Goes
  <2>2. pc \notin {"delivering", "interrupting", "interrupted", "activating", "submitting", "tracks", "rest"}
    OBVIOUS
  <2>3. pc \notin Apart
    BY DEF Apart
  <2> QED BY <1>1, <1>2, <1>3, <2>1, <2>2, <2>3, ClientSerial
<1>4. CASE PendingWork \/ ~Live(s) \/ State(s) = "cancelling"
  <2>1. \E pc \in {"waiting", "asleep", "done", "joining"} : Goes(s, pc) /\ UNCHANGED <<rec, writes>>
    BY <1>4, SleepIsNoWrite DEF LookAtRest
  <2> QED BY <1>3, <2>1
<1>5. CASE ~PendingWork /\ Live(s) /\ State(s) # "cancelling"
  <2>1. /\ client' = [client EXCEPT ![s] = "settling"] /\ rec' = rec /\ Len(writes') = 1
    BY <1>1, <1>5, OneWrite DEF LookAtRest, Goes, Settle, Write
  <2>2. running = {} /\ tracks = {} /\ pendingInput = {} /\ \A x \in Sessions : work[x] = <<>>
    BY <1>1, <1>5 DEF Serial, Places, Looked, PendingWork
  <2>3. \A x \in Sessions : queue[x] = <<>>
    <3>1. ASSUME NEW x \in Sessions, queue[x] # <<>> PROVE FALSE
      <4>1. ToSet(queue[x]) \subseteq {}
        BY <2>2, <3>1 DEF Serial, Works, Covered
      <4>2. queue[x] \in Seq(Messages) /\ 1 \in DOMAIN queue[x]
        <5>1. queue[x] \in Seq(Messages)
          BY DEF IInv, Typed, InboxTypes
        <5> HIDE DEF Messages
        <5> QED BY <3>1, <5>1
      <4>3. queue[x][1] \in ToSet(queue[x])
        BY <4>2 DEF ToSet
      <4> QED BY <4>1, <4>3
    <3> QED BY <3>1
  <2>4. snapshot = FALSE
    <3>1. CurrentState = State(s) /\ CurrentState # "awaiting"
      BY <1>5, ScopeAssumption DEF Live, CurrentState, PendingWork
    <3>2. ~snapshot /\ snapshot \in BOOLEAN
      BY <1>5, <3>1 DEF Serial, Works, SnapshotAwaited, IInv, Typed, InboxTypes
    <3> QED BY <3>2
  <2>5. Calm
    BY <2>2, <2>3, <2>4 DEF Calm
  <2>6. Len(writes') <= 1 /\ "settling" \notin MidClients
    BY <2>1 DEF MidClients
  <2> QED BY <1>1, <1>2, <2>1, <2>2, <2>5, <2>6, ClientSerial
<1> QED BY <1>4, <1>5

LEMMA WaitSerial == ASSUME IInv, Serial, ~suspends, NEW s \in Scopes, Wait(s) PROVE Serial'
<1>1. ASSUME NEW pc \in {"waiting", "asleep", "running", "tracks", "rest"}, Goes(s, pc), WaitFrame(s),
             client[s] \in {"waiting", "asleep", "running", "tracks", "joining"}, Runs("client", s),
             pc \in {"tracks", "rest"} => running = {}, pc = "rest" => tracks = {}
      PROVE  Serial'
  <2>1. /\ client' = [client EXCEPT ![s] = pc] /\ writes' = <<>> /\ Len(writes') <= 1
        /\ UNCHANGED <<current, rec, queue, work, tracks, snapshot, running, pendingInput, task, cancel, decide>>
    <3>1. writes = <<>>
      BY <1>1, RunsAlone
    <3> QED BY <1>1, <3>1 DEF Goes, WaitFrame, scope, stores, inbox
  <2>2. /\ pc \notin {"delivering", "interrupting", "interrupted", "activating", "submitting"}
        /\ pc \notin Apart
    BY DEF Apart
  <2>3. client[s] \notin Untouched \union {"delivering"}
    BY <1>1 DEF Untouched
  <2> QED BY <1>1, <2>1, <2>2, <2>3, ClientSerial
<1>2. CASE Look(s)
  <2>1. client[s] \in {"waiting", "asleep"}
    BY <1>2 DEF Look, IInv, Sleepers
  <2> QED BY <1>1, <1>2, <2>1 DEF Look
<1>3. CASE LookAtRunning(s)
  <2>1. \E pc \in {"waiting", "asleep", "tracks"} : Goes(s, pc) /\ (pc = "tracks" => running = {})
    BY <1>3, SleepIsNoWrite DEF LookAtRunning
  <2> QED BY <1>1, <1>3, <2>1 DEF LookAtRunning
<1>4. CASE LookAtTracks(s)
  <2>1. running = {}
    BY <1>4 DEF LookAtTracks, Serial, Places, Looked
  <2>2. \E pc \in {"waiting", "asleep", "rest"} : Goes(s, pc) /\ (pc = "rest" => tracks = {})
    BY <1>4, SleepIsNoWrite DEF LookAtTracks
  <2> QED BY <1>1, <1>4, <2>1, <2>2 DEF LookAtTracks
<1>5. CASE Joined(s)
  BY <1>1, <1>5 DEF Joined
<1> QED BY <1>2, <1>3, <1>4, <1>5, LookAtRestSerial DEF Wait

-----------------------------------------------------------------------------
(* Decisions and cancels *)

\* What a step of somebody who is not a client keeps of the places.
LEMMA OtherPlaces ==
    ASSUME Serial, ~suspends, NEW actor, NEW name, Runs(actor, name), actor # "client", client' = client,
           Len(writes') <= 1, writes' # <<>> => NobodyMid',
           \A s \in Scopes : rec'[s].state = rec[s].state \/ rec'[s].state \notin {"none", "reserved"},
           \A s \in Scopes : rec'[s].from = rec[s].from \/ rec'[s].from \in {s, NoScope},
           \A s \in Scopes : decide'[s] = "delivering" => Root \in pendingInput' /\ snapshot'
    PROVE  Alone' /\ Delivering' /\ Looked' /\ Activated' /\ Interrupted' /\ OwnFacts'
<1>1. writes = <<>> /\ \A s \in Scopes : client[s] \notin MidClients
  BY RunsAlone
<1>2. Alone'
  BY DEF Alone
<1>3. Delivering' /\ Looked'
  BY <1>1 DEF Delivering, Looked, MidClients
<1>4. Activated' /\ OwnFacts'
  BY DEF Serial, Places, Activated, OwnFacts, State
<1>5. Interrupted'
  BY <1>1 DEF Serial, Places, Interrupted, Pending, ToSet, MidClients
<1> QED BY <1>2, <1>3, <1>4, <1>5

\* Whether the request of the tree rests depends on its state, its client and
\* its cancel.
LEMMA RestingKept ==
    ASSUME UNCHANGED <<current, client>>, CurrentState' = CurrentState,
           \A s \in Scopes : cancel'[s] \in {"cleaned", "settling"} => cancel[s] \in {"cleaned", "settling"}
    PROVE  Resting' => Resting
  BY DEF Resting

\* The work of a session that gets one more message.
LEMMA AppendPlaced ==
    ASSUME Typed, Placed, NEW y \in Sessions, NEW m \in Messages, Fits(y, m),
           queue' = [queue EXCEPT ![y] = Append(@, m)], UNCHANGED <<current, work, tracks>>,
           \A x \in Sessions : task'[x].batch = task[x].batch
    PROVE  /\ Placed'
           /\ ToSet(queue'[y]) = ToSet(queue[y]) \union {m}
           /\ \A x \in Sessions \ {y} : queue'[x] = queue[x]
<1>1. queue \in [Sessions -> Seq(Messages)] /\ queue[y] \in Seq(Messages)
  BY DEF Typed, InboxTypes
<1>2. ToSet(Append(queue[y], m)) = ToSet(queue[y]) \union {m}
  BY <1>1, AppendFacts
<1> HIDE DEF Messages
<1>3. queue'[y] = Append(queue[y], m) /\ \A x \in Sessions \ {y} : queue'[x] = queue[x]
  BY <1>1
<1>4. \A x \in Sessions : \A n : Fits(x, n)' <=> Fits(x, n)
  BY DEF Fits
<1>5. \A x \in Sessions : \A n \in ToSet(queue'[x]) \union ToSet(work'[x]) : Fits(x, n)'
  BY <1>2, <1>3, <1>4 DEF Placed
<1> QED BY <1>2, <1>3, <1>5 DEF Placed

\* A decision comes to a tree that awaits it.
LEMMA ApproveSerial == ASSUME IInv, Serial, ~suspends, NEW s \in Scopes, Approve(s) PROVE Serial'
<1>1. /\ Runs("decide", s) /\ snapshot
      /\ UNCHANGED <<suspends, current, rec, writes, work, tracks, snapshot, running, client, task, cancel>>
  BY DEF Approve, Decide, DeliverDecision, scope, stores, inbox, Serial, Places, Delivering
<1>2. /\ writes = <<>>
      /\ \A t \in Scopes : t # s => decide[t] # "delivering"
      /\ \A x \in Sessions : task[x].pc \notin MidPcs
  BY <1>1, RunsAlone
<1>3. CurrentState' = CurrentState /\ ~Resting' /\ SnapshotAwaited' /\ Draining'
  <2>1. CurrentState' = CurrentState
    BY <1>1 DEF CurrentState, State
  <2>2. ~Resting
    BY <1>1 DEF Serial, Places, Rest, Calm
  <2>3. Draining'
    BY <1>1 DEF Serial, Works, Draining
  <2> QED BY <1>1, <2>1, <2>2, <2>3, RestingKept DEF Serial, Works, SnapshotAwaited
<1>4. Len(writes') <= 1 /\ writes' = <<>>
  BY <1>1, <1>2
<1>5. ASSUME \A t \in Scopes : decide'[t] = "delivering" => Root \in pendingInput' /\ snapshot', Works'
      PROVE  Serial'
  <2>1. Alone' /\ Delivering' /\ Looked' /\ Activated' /\ Interrupted' /\ OwnFacts'
    <3>1. "decide" # "client"
      OBVIOUS
    <3> QED BY <1>1, <1>4, <1>5, <3>1, OtherPlaces
  <2> QED BY <1>3, <1>5, <2>1 DEF Serial, Places, Rest
<1>6. CASE Decide(s)
  <2>1. /\ pendingInput' = pendingInput \union {Root} /\ queue' = queue
        /\ decide' = [decide EXCEPT ![s] = "delivering"]
    BY <1>6 DEF Decide, inbox
  <2>2. Works'
    BY <1>1, <1>3, <2>1, WorksKept DEF Serial
  <2> QED BY <1>1, <1>5, <2>1, <2>2
<1>7. CASE DeliverDecision(s)
  <2> DEFINE m == Message("decision", NoScope)
  <2>1. /\ queue' = [queue EXCEPT ![Root] = Append(@, m)] /\ decide[s] = "delivering"
        /\ decide' = [decide EXCEPT ![s] = "done"] /\ pendingInput' = pendingInput
    BY <1>7 DEF DeliverDecision
  <2>2. Root \in pendingInput
    BY <2>1 DEF Serial, Places, Delivering
  <2>3. \A t \in Scopes : t \in DOMAIN decide /\ decide'[t] = "delivering" => t # s
    BY <2>1
  <2>4. m \in Messages /\ Fits(Root, m)
    BY MessageTypes DEF Fits, Message, Target
  <2> HIDE DEF m
  <2>5. Placed' /\ \A x \in Sessions \ {Root} : queue'[x] = queue[x]
    BY <1>1, <2>1, <2>4, TheSessions, AppendPlaced DEF IInv, Serial, Works
  <2>6. Covered'
    BY <1>1, <2>1, <2>2, <2>5 DEF Serial, Works, Covered
  <2>7. Leaving'
    BY <1>1, <1>2 DEF Leaving, MidPcs
  <2>8. OwnTurns' /\ Tracked' /\ TurnHasNoSnapshot'
    BY <1>1 DEF Serial, Works, OwnTurns, Tracked, TurnHasNoSnapshot
  <2>9. Works'
    BY <1>3, <2>5, <2>6, <2>7, <2>8 DEF Works
  <2>10. \A t \in Scopes : decide'[t] = "delivering" => Root \in pendingInput' /\ snapshot'
    BY <1>1, <2>1, <2>2
  <2> QED BY <1>5, <2>9, <2>10
<1> QED BY <1>6, <1>7 DEF Approve

\* A step of a cancel that leaves the work alone.
LEMMA CancelSerial ==
    ASSUME IInv, Serial, ~suspends, NEW s \in Scopes, Runs("cancel", s),
           UNCHANGED <<current, queue, work, tracks, snapshot, running, pendingInput, client, task, decide>>,
           NEW c \in {"starting", "closing", "settling", "done"}, cancel' = [cancel EXCEPT ![s] = c],
           c = "settling" => cancel[s] = "cleaned",
           Len(writes') <= 1,
           \/ rec' = rec
           \/ rec' = [rec EXCEPT ![s].state = "cancelling"]
    PROVE  Serial'
<1>1. /\ \A t \in Scopes : /\ client[t] \notin MidClients /\ decide[t] # "delivering"
                           /\ cancel[t] \in MidCancels => t = s
      /\ \A x \in Sessions : task[x].pc \notin MidPcs
  BY RunsAlone
<1>2. cancel'[s] = c /\ \A t \in Scopes \ {s} : cancel'[t] = cancel[t]
  BY DEF IInv, Typed, ActorTypes
<1>3. \A t \in Scopes : /\ rec'[t].from = rec[t].from
                        /\ rec'[t].state = rec[t].state \/ rec'[t].state = "cancelling"
  BY StateMoves DEF IInv
<1>4. NobodyMid'
  BY <1>1, <1>2 DEF NobodyMid, MidCancels
<1>5. Alone' /\ Delivering' /\ Looked' /\ Activated' /\ Interrupted' /\ OwnFacts'
  <2>1. "cancel" # "client"
    OBVIOUS
  <2>2. \A t \in Scopes : rec'[t].state = rec[t].state \/ rec'[t].state \notin {"none", "reserved"}
    BY <1>3
  <2>3. \A t \in Scopes : decide'[t] = "delivering" => Root \in pendingInput' /\ snapshot'
    BY <1>1
  <2> QED BY <1>3, <1>4, <2>1, <2>2, <2>3, OtherPlaces
<1>6. CurrentState' = CurrentState \/ CurrentState' = "cancelling"
  BY <1>3 DEF CurrentState, State, IInv, Typed, ScopeTypes
<1>7. Rest'
  <2>1. Resting' => Resting
    BY <1>2, <1>6 DEF Resting
  <2>2. Submitting' <=> Submitting
    BY DEF Submitting
  <2> QED BY <2>1, <2>2 DEF Serial, Places, Rest, Calm
<1>8. Works'
  <2>1. SnapshotAwaited'
    BY <1>6 DEF Serial, Works, SnapshotAwaited
  <2>2. Draining'
    BY <1>2 DEF Serial, Works, Draining
  <2> QED BY <2>1, <2>2, WorksKept DEF Serial
<1> QED BY <1>5, <1>7, <1>8 DEF Serial, Places

\* The cleanup finds no turn of the current request.
LEMMA CleanUpSerial == ASSUME IInv, Serial, ~suspends, NEW s \in Scopes, CleanUp(s) PROVE Serial'
<1>1. /\ Runs("cancel", s) /\ cancel[s] \in {"draining", "drained"} /\ Drained(s)
      /\ snapshot' = FALSE /\ tracks' = {} /\ pendingInput' = {}
      /\ queue' = [x \in Sessions |-> <<>>] /\ work' = [x \in Sessions |-> <<>>]
      /\ cancel' = [cancel EXCEPT ![s] = "cleaned"]
      /\ UNCHANGED <<current, rec, writes, running, task, client, decide>>
  BY DEF CleanUp, CancelFrame
<1>2. /\ writes = <<>>
      /\ \A t \in Scopes : decide[t] # "delivering"
      /\ \A x \in Sessions : task[x].pc \notin MidPcs
  BY <1>1, RunsAlone
<1>3. cancel'[s] = "cleaned" /\ \A t \in Scopes \ {s} : cancel'[t] = cancel[t]
  BY <1>1 DEF IInv, Typed, ActorTypes
<1>4. Alone' /\ Delivering' /\ Looked' /\ Activated' /\ Interrupted' /\ OwnFacts'
  <2>1. "cancel" # "client" /\ Len(writes') <= 1 /\ writes' = <<>>
    BY <1>1, <1>2
  <2>2. \A t \in Scopes : decide'[t] = "delivering" => Root \in pendingInput' /\ snapshot'
    BY <1>1, <1>2
  <2>3. \A t \in Scopes : rec'[t].state = rec[t].state /\ rec'[t].from = rec[t].from
    BY <1>1
  <2> QED BY <1>1, <2>1, <2>2, <2>3, OtherPlaces
<1>5. \A x \in Sessions : queue'[x] = <<>> /\ work'[x] = <<>>
  BY <1>1
<1>6. Rest'
  <2>1. SUFFICES ASSUME Resting' PROVE running = {}
    BY <1>1, <1>5, <2>1 DEF Rest, Calm
  <2>2. CASE s = current
    <3>1. \A x \in Sessions : task[x].pc = "idle"
      BY <1>1, <2>2 DEF Drained, Serial, Works, Draining
    <3> QED BY <3>1 DEF IInv, Typed, TaskTypes
  <2>3. CASE s # current
    <3>1. CurrentState' = CurrentState
      BY <1>1 DEF CurrentState, State
    <3>2. Resting
      BY <1>1, <1>3, <2>1, <2>3, <3>1 DEF Resting
    <3> QED BY <3>2 DEF Serial, Places, Rest, Calm
  <2> QED BY <2>2, <2>3
<1>7. Works'
  <2>1. ToSet(<<>>) = {}
    BY DEF ToSet
  <2>2. Placed'
    BY <1>1, <1>5, <2>1 DEF Serial, Works, Placed
  <2>3. OwnTurns' /\ Covered' /\ Leaving'
    BY <1>1, <1>5 DEF Serial, Works, OwnTurns, Covered, Leaving
  <2>4. Draining'
    BY <1>1, <1>3 DEF Serial, Works, Draining
  <2>5. Tracked'
    BY <1>1, <1>2, TheSessions DEF Tracked, MidPcs
  <2>6. SnapshotAwaited' /\ TurnHasNoSnapshot'
    BY <1>1 DEF SnapshotAwaited, TurnHasNoSnapshot
  <2> QED BY <2>2, <2>3, <2>4, <2>5, <2>6 DEF Works
<1> QED BY <1>4, <1>6, <1>7 DEF Serial, Places

LEMMA FinalizeSerial ==
    ASSUME IInv, Serial, ~suspends, NEW s \in Scopes, CancelRequest(s) \/ Finalize(s)
    PROVE  Serial'
<1>1. CASE CancelRequest(s)
  <2>1. /\ Runs("cancel", s) /\ cancel' = [cancel EXCEPT ![s] = "starting"]
        /\ UNCHANGED <<current, queue, work, tracks, snapshot, running, pendingInput, client, task, decide, rec, writes>>
    BY <1>1 DEF CancelRequest, CancelFrame, inbox, tree
  <2>2. Len(writes') <= 1
    <3>1. writes = <<>>
      BY <2>1, RunsAlone
    <3> QED BY <2>1, <3>1
  <2> QED BY <2>1, <2>2, CancelSerial
<1>2. CASE CloseScope(s)
  <2>1. /\ Runs("cancel", s) /\ cancel' = [cancel EXCEPT ![s] = "closing"]
        /\ rec' = [rec EXCEPT ![s].state = "cancelling"]
        /\ UNCHANGED <<current, queue, work, tracks, snapshot, running, pendingInput, client, task, decide>>
    BY <1>2 DEF CloseScope, CancelFrame, inbox, tree, Transition
  <2>2. Len(writes') = 1
    BY <1>2, <2>1, RunsAlone, OneWrite DEF CloseScope, Transition, Write
  <2>3. Len(writes') <= 1
    BY <2>2
  <2> QED BY <2>1, <2>3, CancelSerial
<1>3. CASE CancelSettles(s)
  <2>1. /\ Runs("cancel", s) /\ cancel[s] = "cleaned" /\ writes = <<>>
        /\ UNCHANGED <<current, queue, work, tracks, snapshot, running, pendingInput, client, task, decide>>
    BY <1>3, RunsAlone DEF CancelSettles, CancelFrame, inbox, tree
  <2>2. CASE State(s) \in Terminal
    <3>1. cancel' = [cancel EXCEPT ![s] = "done"] /\ rec' = rec /\ Len(writes') <= 1
      BY <1>3, <2>1, <2>2 DEF CancelSettles
    <3> QED BY <2>1, <3>1, CancelSerial
  <2>3. CASE State(s) \notin Terminal
    <3>1. cancel' = [cancel EXCEPT ![s] = "settling"] /\ rec' = rec
      BY <1>3, <2>3 DEF CancelSettles, Settle
    <3>2. Len(writes') = 1
      BY <1>3, <2>1, <2>3, OneWrite DEF CancelSettles, Settle, Write
    <3>3. Len(writes') <= 1
      BY <3>2
    <3> QED BY <2>1, <3>1, <3>3, CancelSerial
  <2> QED BY <2>2, <2>3
<1> QED BY <1>1, <1>2, <1>3, CleanUpSerial DEF Finalize

-----------------------------------------------------------------------------
(* The turns *)

\* A session that runs may change its own inbox and close its own tracks.
LEMMA CoveredWhileRunning ==
    ASSUME Placed, Covered, NEW x \in Sessions, x \in running',
           \A y \in Sessions \ {x} : /\ queue'[y] = queue[y]
                                     /\ y \in running => y \in running'
                                     /\ y \in pendingInput => y \in pendingInput',
           \A m \in tracks : m \in tracks' \/ Target(m) = x
    PROVE  Covered'
<1>1. ASSUME NEW y \in Sessions \ {x}, queue'[y] # <<>>, y \notin running', y \notin pendingInput'
      PROVE  ToSet(queue'[y]) \subseteq tracks'
  <2>1. ToSet(queue[y]) \subseteq tracks /\ queue'[y] = queue[y]
    BY <1>1 DEF Covered
  <2>2. \A m \in ToSet(queue[y]) : Target(m) = y
    BY DEF Placed, Fits
  <2> QED BY <2>1, <2>2
<1> QED BY <1>1 DEF Covered

\* The messages of one session change.
LEMMA InboxPlaced ==
    ASSUME Placed, current' = current, NEW x \in Sessions,
           \A y \in Sessions \ {x} : /\ queue'[y] = queue[y] /\ work'[y] = work[y]
                                     /\ task'[y].batch = task[y].batch,
           ToSet(queue'[x]) \union ToSet(work'[x]) \subseteq ToSet(queue[x]) \union ToSet(work[x]),
           \A m \in ToSet(task'[x].batch) : Target(m) = x,
           \A m \in tracks' : m \in tracks \/ m.scope = current
    PROVE  Placed'
<1>1. \A y \in Sessions : \A n : Fits(y, n)' <=> Fits(y, n)
  BY DEF Fits
<1>2. \A n \in ToSet(queue'[x]) \union ToSet(work'[x]) : Fits(x, n)'
  BY <1>1 DEF Placed
<1>3. \A y \in Sessions \ {x} : \A n \in ToSet(queue'[y]) \union ToSet(work'[y]) : Fits(y, n)'
  BY <1>1 DEF Placed
<1>4. \A y \in Sessions : \A n \in ToSet(task'[y].batch) : Target(n) = y
  BY DEF Placed
<1>5. \A n \in tracks' : n.scope = current'
  BY DEF Placed
<1> QED BY <1>2, <1>3, <1>4, <1>5 DEF Placed

\* What the task of a session must leave behind.
TaskFits(x) ==
    /\ task'[x].scope \in {current, NoScope}
    /\ \/ task'[x].pc = "idle" \/ CurrentState \in {"active", "awaiting"}
       \/ task[x].pc # "idle" /\ (task[x].cancelled => task'[x].cancelled)
    /\ task'[x].pc = "mark" /\ ~task'[x].left => queue'[x] = <<>>
    /\ task'[x].pc = "leave" /\ x \notin pendingInput' => queue'[x] = <<>>
    /\ task'[x].pc = "asking" => Message("task", task'[x].scope) \in tracks'
    /\ task'[x].pc = "tracking" => Message("result", task'[x].scope) \in tracks'
    /\ x = Root /\ task'[x].pc \in {"turn", "stale", "asking"} => ~snapshot'

LEMMA TaskWorks ==
    ASSUME IInv, Serial, ~suspends, NEW x \in Sessions, Runs("task", x),
           UNCHANGED <<current, cancel>>, \A y \in Sessions \ {x} : task'[y] = task[y],
           TaskFits(x), Placed', Covered', SnapshotAwaited', x # Root => (snapshot' => snapshot)
    PROVE  Works'
<1>1. \A y \in Sessions \ {x} : task'[y].pc \notin MidPcs
  BY RunsAlone
<1>2. OwnTurns'
  BY DEF Serial, Works, OwnTurns, TaskFits
<1>3. Draining'
  <2>1. ASSUME NEW s \in Scopes, cancel[s] \in {"draining", "drained"}, current = s, task'[x].pc # "idle"
        PROVE  task'[x].cancelled
    <3>1. CurrentState \notin {"active", "awaiting"}
      BY <2>1, ScopeAssumption DEF IInv, ClosedScopes, Closed, Terminal, CurrentState
    <3>2. task[x].pc # "idle" /\ (task[x].cancelled => task'[x].cancelled)
      BY <2>1, <3>1 DEF TaskFits
    <3> QED BY <2>1, <3>2 DEF Serial, Works, Draining
  <2> QED BY <2>1 DEF Serial, Works, Draining
<1>4. Leaving'
  BY <1>1 DEF Leaving, TaskFits, MidPcs
<1>5. Tracked'
  BY <1>1, TheSessions DEF Tracked, TaskFits, MidPcs
<1>6. TurnHasNoSnapshot'
  BY TheSessions DEF Serial, Works, TurnHasNoSnapshot, TaskFits
<1> QED BY <1>2, <1>3, <1>4, <1>5, <1>6 DEF Works

\* A turn that records nothing.
LEMMA TaskSerial ==
    ASSUME IInv, Serial, ~suspends, NEW x \in Sessions, Runs("task", x), ~Resting,
           UNCHANGED <<current, rec, writes, client, cancel, decide>>,
           \A y \in Sessions \ {x} : task'[y] = task[y],
           TaskFits(x), Placed', Covered', snapshot' => snapshot
    PROVE  Serial'
<1>1. writes = <<>> /\ \A s \in Scopes : decide[s] # "delivering"
  BY RunsAlone
<1>2. CurrentState' = CurrentState
  BY DEF CurrentState, State
<1>3. SnapshotAwaited'
  BY <1>2 DEF Serial, Works, SnapshotAwaited
<1>4. Works'
  BY <1>3, TaskWorks
<1>5. ~Resting'
  BY <1>2, RestingKept
<1>6. Alone' /\ Delivering' /\ Looked' /\ Activated' /\ Interrupted' /\ OwnFacts'
  <2>1. "task" # "client" /\ Len(writes') <= 1 /\ writes' = <<>>
    BY <1>1
  <2>2. \A s \in Scopes : decide'[s] = "delivering" => Root \in pendingInput' /\ snapshot'
    BY <1>1
  <2> QED BY <2>1, <2>2, OtherPlaces
<1> QED BY <1>4, <1>5, <1>6 DEF Serial, Places, Rest

\* A task that changes by a field or two.
LEMMA TaskField ==
    ASSUME TaskTypes, NEW x \in Sessions, NEW t, task' = [task EXCEPT ![x] = t]
    PROVE  task'[x] = t /\ \A y \in Sessions \ {x} : task'[y] = task[y]
  BY DEF TaskTypes

LEMMA TaskStep ==
    ASSUME TaskTypes, NEW x \in Sessions, NEW to, Step(x, to)
    PROVE  /\ \A y \in Sessions \ {x} : task'[y] = task[y]
           /\ task'[x].pc = to /\ task'[x].batch = task[x].batch /\ task'[x].scope = task[x].scope
           /\ task'[x].cancelled = task[x].cancelled /\ task'[x].left = task[x].left
<1>1. task \in [Sessions -> Tasks] /\ task[x] \in Tasks
  BY DEF TaskTypes
<1> QED BY <1>1 DEF Step, Tasks

\* The rest of a batch.
LEMMA TailFacts ==
    ASSUME NEW S, NEW s \in Seq(S), s # <<>>
    PROVE  Head(s) \in ToSet(s) /\ ToSet(Tail(s)) \subseteq ToSet(s)
<1>1. Len(s) \in Nat \ {0} /\ DOMAIN s = 1..Len(s) /\ Head(s) = s[1]
  OBVIOUS
<1>2. /\ Tail(s) \in Seq(S) /\ DOMAIN Tail(s) = 1..(Len(s) - 1)
      /\ \A i \in 1..(Len(s) - 1) : Tail(s)[i] = s[i + 1] /\ i + 1 \in 1..Len(s)
  BY <1>1, SMT
<1>3. 1 \in DOMAIN s
  BY <1>1
<1>4. \A i \in DOMAIN Tail(s) : Tail(s)[i] \in ToSet(s)
  BY <1>1, <1>2 DEF ToSet
<1> QED BY <1>1, <1>3, <1>4 DEF ToSet

\* An acknowledgement takes what is in the inbox of a session.
LEMMA AcknowledgeTakes ==
    ASSUME Typed, NEW x \in Sessions, NEW m, Acknowledge(x, m)
    PROVE  /\ \A y \in Sessions \ {x} : /\ work'[y] = work[y]
                                        /\ y \in pendingInput => y \in pendingInput'
           /\ ToSet(work'[x]) \subseteq ToSet(work[x])
           /\ tracks' \subseteq tracks /\ \A n \in tracks : n \in tracks' \/ n = m
<1>1. work \in [Sessions -> Seq(Messages)] /\ work[x] \in Seq(Messages)
  BY DEF Typed, InboxTypes
<1>2. /\ work' = [work EXCEPT ![x] = Without(work[x], m)]
      /\ pendingInput' = pendingInput \/ pendingInput' = pendingInput \ {x}
      /\ tracks' = tracks \/ tracks' = tracks \ {m}
  BY DEF Acknowledge
<1>3. ToSet(Without(work[x], m)) \subseteq ToSet(work[x])
  BY <1>1, OnlyFacts DEF Without
<1> HIDE DEF Messages
<1>4. work'[x] = Without(work[x], m) /\ \A y \in Sessions \ {x} : work'[y] = work[y]
  BY <1>1, <1>2
<1> QED BY <1>2, <1>3, <1>4

LEMMA TaskBatch ==
    ASSUME TaskTypes, NEW x \in Sessions, NEW to, NEW b, task' = [task EXCEPT ![x].pc = to, ![x].batch = b]
    PROVE  /\ \A y \in Sessions \ {x} : task'[y] = task[y]
           /\ task'[x].pc = to /\ task'[x].batch = b /\ task'[x].scope = task[x].scope
           /\ task'[x].cancelled = task[x].cancelled
<1>1. task \in [Sessions -> Tasks] /\ task[x] \in Tasks
  BY DEF TaskTypes
<1> QED BY <1>1 DEF Tasks

\* The tree runs where a session does, and where one starts.
LEMMA RunsUnrested ==
    ASSUME IInv, Serial, ~suspends, NEW x \in Sessions, Runs("task", x),
           task[x].pc # "idle" \/ queue[x] # <<>> \/ x \in pendingInput
    PROVE  ~Resting
<1>1. \A s \in Scopes : client[s] # "delivering"
  BY RunsAlone DEF MidClients
<1>2. ~Submitting
  BY <1>1 DEF Submitting
<1> QED BY <1>2, RunningIsNoRest DEF IInv, Serial, Places, Rest, Calm

LEMMA StartSerial == ASSUME IInv, Serial, ~suspends, NEW x \in Sessions, StartDispatch(x) PROVE Serial'
<1>1. /\ Runs("task", x) /\ task[x].pc = "idle" /\ CanDispatch /\ (queue[x] # <<>> \/ x \in pendingInput)
      /\ Step(x, "start") /\ running' = running \union {x} /\ pendingInput' = pendingInput \ {x}
      /\ UNCHANGED <<current, rec, writes, client, cancel, decide, queue, work, tracks, snapshot>>
  BY DEF StartDispatch, At, TaskFrame, inbox
<1>2. ~Resting
  BY <1>1, RunsUnrested
<1>3. CurrentState \in {"active", "awaiting"}
  BY <1>1, <1>2 DEF CanDispatch, Resting, CurrentState
<1>4. /\ \A y \in Sessions \ {x} : task'[y] = task[y]
      /\ task'[x].pc = "start" /\ task'[x].batch = task[x].batch /\ task'[x].scope = task[x].scope
  BY <1>1, TaskStep DEF IInv, Typed
<1>5. TaskFits(x)
  BY <1>3, <1>4 DEF TaskFits, Serial, Works, OwnTurns
<1>6. Placed' /\ Covered'
  <2>1. Placed'
    BY <1>1, <1>4, InboxPlaced DEF Serial, Works, Placed
  <2>2. Covered'
    BY <1>1, CoveredWhileRunning DEF Serial, Works
  <2> QED BY <2>1, <2>2
<1> QED BY <1>1, <1>2, <1>4, <1>5, <1>6, TaskSerial

LEMMA ConsumeSerial == ASSUME IInv, Serial, ~suspends, NEW x \in Sessions, Consume(x) PROVE Serial'
<1>1. PICK open : /\ task' = [task EXCEPT ![x].pc = "next", ![x].batch = Only(work[x] \o queue[x], open)]
                  /\ work' = [work EXCEPT ![x] = @ \o Only(queue[x], open)]
                  /\ queue' = [queue EXCEPT ![x] = Only(@, Messages \ open)]
  BY DEF Consume
<1>2. /\ Runs("task", x) /\ task[x].pc = "start"
      /\ UNCHANGED <<current, rec, writes, client, cancel, decide, tracks, snapshot, running, pendingInput>>
  BY DEF Consume, At, TaskFrame, tree
<1> DEFINE b == Only(work[x] \o queue[x], open)
           k == work[x] \o Only(queue[x], open)
           q == Only(queue[x], Messages \ open)
<1>3. /\ queue \in [Sessions -> Seq(Messages)] /\ work \in [Sessions -> Seq(Messages)]
      /\ queue[x] \in Seq(Messages) /\ work[x] \in Seq(Messages)
  BY DEF IInv, Typed, InboxTypes
<1>4. ToSet(b) \subseteq ToSet(work[x]) \union ToSet(queue[x])
  <2> DEFINE all == work[x] \o queue[x]
  <2>1. all \in Seq(Messages) /\ ToSet(all) = ToSet(work[x]) \union ToSet(queue[x])
    BY <1>3, ConcatFacts
  <2> HIDE DEF all
  <2>2. ToSet(Only(all, open)) \subseteq ToSet(all)
    BY <2>1, OnlyFacts
  <2> QED BY <2>1, <2>2 DEF all
<1>5. ToSet(k) \subseteq ToSet(work[x]) \union ToSet(queue[x]) /\ ToSet(q) \subseteq ToSet(queue[x])
  <2>1. /\ Only(queue[x], open) \in Seq(Messages) /\ ToSet(Only(queue[x], open)) \subseteq ToSet(queue[x])
        /\ ToSet(q) \subseteq ToSet(queue[x])
    BY <1>3, OnlyFacts
  <2>2. ToSet(k) = ToSet(work[x]) \union ToSet(Only(queue[x], open))
    BY <1>3, <2>1, ConcatFacts
  <2> QED BY <2>1, <2>2
<1>6. /\ task' = [task EXCEPT ![x].pc = "next", ![x].batch = b]
      /\ work' = [work EXCEPT ![x] = k] /\ queue' = [queue EXCEPT ![x] = q]
  BY <1>1
<1> HIDE DEF b, k, q, Messages
<1>7. /\ work'[x] = k /\ queue'[x] = q
      /\ \A y \in Sessions \ {x} : work'[y] = work[y] /\ queue'[y] = queue[y]
  BY <1>3, <1>6
<1>8. /\ \A y \in Sessions \ {x} : task'[y] = task[y]
      /\ task'[x].pc = "next" /\ task'[x].batch = b /\ task'[x].scope = task[x].scope
      /\ task'[x].cancelled = task[x].cancelled
  BY <1>6, TaskBatch DEF IInv, Typed
<1>9. TaskFits(x)
  BY <1>2, <1>8 DEF TaskFits, Serial, Works, OwnTurns
<1>10. Placed'
  <2>1. \A m \in ToSet(b) : Target(m) = x
    BY <1>4 DEF Serial, Works, Placed, Fits
  <2> QED BY <1>2, <1>5, <1>7, <1>8, <2>1, InboxPlaced DEF Serial, Works
<1>11. Covered'
  <2>1. x \in running
    BY <1>2 DEF IInv, Typed, TaskTypes
  <2> QED BY <1>2, <1>7, <2>1, CoveredWhileRunning DEF Serial, Works
<1>12. ~Resting
  BY <1>2, RunsUnrested
<1> QED BY <1>2, <1>8, <1>9, <1>10, <1>11, <1>12, TaskSerial

\* A session that runs acknowledges a message of its batch.
LEMMA AcknowledgeWorks ==
    ASSUME Typed, Works, NEW x \in Sessions, task[x].pc # "idle", task[x].batch # <<>>,
           Acknowledge(x, Head(task[x].batch)), UNCHANGED <<current, queue, running>>,
           \A y \in Sessions \ {x} : task'[y] = task[y], task'[x].batch = Tail(task[x].batch)
    PROVE  Placed' /\ Covered'
<1> DEFINE m == Head(task[x].batch)
<1>1. task[x].batch \in Seq(Messages)
  BY DEF Typed, TaskTypes, Tasks
<1>2. m \in ToSet(task[x].batch) /\ ToSet(Tail(task[x].batch)) \subseteq ToSet(task[x].batch)
  BY <1>1, TailFacts
<1>3. Target(m) = x /\ \A n \in ToSet(task'[x].batch) : Target(n) = x
  BY <1>2 DEF Works, Placed
<1> HIDE DEF m
<1>4. /\ \A y \in Sessions \ {x} : work'[y] = work[y] /\ (y \in pendingInput => y \in pendingInput')
      /\ ToSet(work'[x]) \subseteq ToSet(work[x])
      /\ tracks' \subseteq tracks /\ \A n \in tracks : n \in tracks' \/ n = m
  BY AcknowledgeTakes DEF m
<1>5. Placed'
  BY <1>3, <1>4, InboxPlaced DEF Works
<1>6. Covered'
  <2>1. x \in running
    BY DEF Typed, TaskTypes
  <2> QED BY <1>3, <1>4, <2>1, CoveredWhileRunning DEF Works
<1> QED BY <1>5, <1>6

LEMMA AdmitSerial == ASSUME IInv, Serial, ~suspends, NEW x \in Sessions, Admit(x) PROVE Serial'
<1> DEFINE m == Head(task[x].batch)
           b == Tail(task[x].batch)
<1>1. /\ Runs("task", x) /\ task[x].pc = "next" /\ task[x].batch # <<>>
      /\ UNCHANGED <<current, rec, writes, client, cancel, decide, queue, running>>
  BY DEF Admit, At, TaskFrame
<1>2. ~Resting /\ x \in running
  BY <1>1, RunsUnrested DEF IInv, Typed, TaskTypes
<1>3. task \in [Sessions -> Tasks] /\ task[x] \in Tasks /\ task[x].batch \in Seq(Messages)
  BY DEF IInv, Typed, TaskTypes, Tasks
<1>4. ASSUME task' = [task EXCEPT ![x].batch = b]
      PROVE  /\ \A y \in Sessions \ {x} : task'[y] = task[y]
             /\ task'[x].pc = "next" /\ task'[x].batch = b
             /\ TaskFits(x)
  <2> HIDE DEF b
  <2>1. /\ \A y \in Sessions \ {x} : task'[y] = task[y]
        /\ task'[x].pc = task[x].pc /\ task'[x].batch = b /\ task'[x].scope = task[x].scope
        /\ task'[x].cancelled = task[x].cancelled
    BY <1>3, <1>4 DEF Tasks
  <2> QED BY <1>1, <2>1 DEF TaskFits, Serial, Works, OwnTurns
<1>5. CASE Acknowledge(x, m) /\ task' = [task EXCEPT ![x].batch = b] /\ UNCHANGED snapshot
  <2>1. Placed' /\ Covered'
    BY <1>1, <1>4, <1>5, AcknowledgeWorks DEF IInv, Serial
  <2> QED BY <1>1, <1>2, <1>4, <1>5, <2>1, TaskSerial
<1>6. CASE task' = [task EXCEPT ![x].batch = b] /\ UNCHANGED <<work, tracks, pendingInput, event, snapshot>>
  <2>1. \A n \in ToSet(b) : Target(n) = x
    BY <1>1, <1>3, TailFacts DEF Serial, Works, Placed
  <2>2. Placed'
    BY <1>1, <1>4, <1>6, <2>1, InboxPlaced DEF Serial, Works
  <2>3. Covered'
    BY <1>1, <1>2, <1>6, CoveredWhileRunning DEF Serial, Works
  <2> QED BY <1>1, <1>2, <1>4, <1>6, <2>2, <2>3, TaskSerial
<1>7. CASE /\ MayDispatch(m)
           /\ task' = [task EXCEPT ![x].scope = current,
                         ![x].pc = IF m.kind = "decision" /\ ~snapshot THEN "stale" ELSE "turn"]
           /\ snapshot' = (snapshot /\ m.kind # "decision")
           /\ UNCHANGED <<work, tracks, pendingInput, event>>
  <2> DEFINE to == IF m.kind = "decision" /\ ~snapshot THEN "stale" ELSE "turn"
  <2>1. to \in {"stale", "turn"} /\ task' = [task EXCEPT ![x].scope = current, ![x].pc = to]
    BY <1>7
  <2>2. ~snapshot'
    <3>1. CASE m.kind = "decision"
      BY <1>7, <3>1
    <3>2. CASE m.kind # "decision"
      <4>1. CurrentState \notin {"awaiting", "cancelling"}
        BY <1>7, <3>2 DEF MayDispatch, CurrentState
      <4> QED BY <1>7, <4>1 DEF Serial, Works, SnapshotAwaited
    <3> QED BY <3>1, <3>2
  <2>3. snapshot' => snapshot
    BY <2>2
  <2> HIDE DEF to, m
  <2>4. /\ \A y \in Sessions \ {x} : task'[y] = task[y]
        /\ task'[x].pc = to /\ task'[x].scope = current /\ task'[x].batch = task[x].batch
        /\ task'[x].cancelled = task[x].cancelled
    BY <1>3, <2>1 DEF Tasks
  <2>5. TaskFits(x)
    BY <1>1, <2>1, <2>2, <2>4 DEF TaskFits
  <2>6. Placed'
    <3>1. \A n \in ToSet(task'[x].batch) : Target(n) = x
      BY <2>4 DEF Serial, Works, Placed
    <3> QED BY <1>1, <1>7, <2>4, <3>1, InboxPlaced DEF Serial, Works
  <2>7. Covered'
    BY <1>1, <1>2, <1>7, CoveredWhileRunning DEF Serial, Works
  <2> QED BY <1>1, <1>2, <2>3, <2>4, <2>5, <2>6, <2>7, TaskSerial
<1> QED BY <1>5, <1>6, <1>7, Zenon DEF Admit

LEMMA AckTurnSerial == ASSUME IInv, Serial, ~suspends, NEW x \in Sessions, AckTurn(x) PROVE Serial'
<1> DEFINE b == Tail(task[x].batch)
<1>1. /\ Runs("task", x) /\ task[x].pc = "ack" /\ Acknowledge(x, Head(task[x].batch))
      /\ task' = [task EXCEPT ![x].pc = "next", ![x].batch = b]
      /\ UNCHANGED <<current, rec, writes, client, cancel, decide, queue, running, snapshot>>
  BY DEF AckTurn, At, TaskFrame
<1>2. task[x].batch # <<>>
  BY <1>1 DEF IInv, Typed, TaskTypes, AtMessage
<1> HIDE DEF b
<1>3. /\ \A y \in Sessions \ {x} : task'[y] = task[y]
      /\ task'[x].pc = "next" /\ task'[x].batch = b /\ task'[x].scope = task[x].scope
      /\ task'[x].cancelled = task[x].cancelled
  BY <1>1, TaskBatch DEF IInv, Typed
<1>4. TaskFits(x)
  BY <1>1, <1>3 DEF TaskFits, Serial, Works, OwnTurns
<1>5. Placed' /\ Covered'
  BY <1>1, <1>2, <1>3, AcknowledgeWorks DEF IInv, Serial, b
<1>6. ~Resting
  BY <1>1, RunsUnrested
<1> QED BY <1>1, <1>3, <1>4, <1>5, <1>6, TaskSerial

\* The end of a dispatch: the session leaves with an empty queue or marked.
LEMMA EndSerial ==
    ASSUME IInv, Serial, ~suspends, NEW x \in Sessions,
           Unwind(x) \/ CloseTracks(x) \/ Peek(x) \/ Mark(x) \/ Leave(x)
    PROVE  Serial'
<1>1. /\ Runs("task", x) /\ task[x].pc # "idle"
      /\ UNCHANGED <<current, rec, writes, client, cancel, decide, queue, work, snapshot>>
  BY DEF Unwind, CloseTracks, Peek, Mark, Leave, At, TaskFrame, inbox
<1>2. ~Resting /\ x \in running
  BY <1>1, RunsUnrested DEF IInv, Typed, TaskTypes
<1>3. task \in [Sessions -> Tasks] /\ task[x] \in Tasks
  BY DEF IInv, Typed, TaskTypes
<1>4. ASSUME \A y \in Sessions \ {x} : task'[y] = task[y], tracks' \subseteq tracks,
             \A n \in ToSet(task'[x].batch) : n \in ToSet(task[x].batch)
      PROVE  Placed'
  <2>1. \A n \in ToSet(task'[x].batch) : Target(n) = x
    BY <1>4 DEF Serial, Works, Placed
  <2> QED BY <1>1, <1>4, <2>1, InboxPlaced DEF Serial, Works
<1>5. CASE Unwind(x)
  <2>1. /\ task' = [task EXCEPT ![x].pc = "end", ![x].batch = <<>>]
        /\ UNCHANGED <<tracks, running, pendingInput>>
    BY <1>5 DEF Unwind, inbox, tree
  <2>2. /\ \A y \in Sessions \ {x} : task'[y] = task[y]
        /\ task'[x].pc = "end" /\ task'[x].batch = <<>> /\ task'[x].scope = task[x].scope
        /\ task'[x].cancelled = task[x].cancelled
    BY <2>1, TaskBatch DEF IInv, Typed
  <2>3. TaskFits(x)
    BY <1>1, <2>2 DEF TaskFits, Serial, Works, OwnTurns
  <2>4. Placed'
    <3>1. ToSet(<<>>) = {}
      BY DEF ToSet
    <3> QED BY <1>4, <2>1, <2>2, <3>1
  <2>5. Covered'
    BY <1>1, <1>2, <2>1, CoveredWhileRunning DEF Serial, Works
  <2> QED BY <1>1, <1>2, <2>2, <2>3, <2>4, <2>5, TaskSerial
<1>6. CASE CloseTracks(x)
  <2>1. /\ tracks' = {m \in tracks : Target(m) # x}
        /\ task' = [task EXCEPT ![x].pc = "peek", ![x].scope = NoScope]
        /\ UNCHANGED <<running, pendingInput>>
    BY <1>6 DEF CloseTracks, tree
  <2>2. /\ \A y \in Sessions \ {x} : task'[y] = task[y]
        /\ task'[x].pc = "peek" /\ task'[x].batch = task[x].batch /\ task'[x].scope = NoScope
        /\ task'[x].cancelled = task[x].cancelled
    BY <1>3, <2>1 DEF Tasks
  <2>3. TaskFits(x)
    BY <1>1, <2>2 DEF TaskFits
  <2>4. Placed'
    BY <1>4, <2>1, <2>2
  <2>5. Covered'
    BY <1>1, <1>2, <2>1, CoveredWhileRunning DEF Serial, Works
  <2> QED BY <1>1, <1>2, <2>2, <2>3, <2>4, <2>5, TaskSerial
<1>7. CASE Peek(x)
  <2> DEFINE l == work[x] # <<>> \/ queue[x] # <<>>
  <2>1. task' = [task EXCEPT ![x].pc = "mark", ![x].left = l] /\ UNCHANGED <<tracks, running, pendingInput>>
    BY <1>7 DEF Peek, inbox, tree
  <2>2. ~l => queue[x] = <<>>
    OBVIOUS
  <2> HIDE DEF l
  <2>3. /\ \A y \in Sessions \ {x} : task'[y] = task[y]
        /\ task'[x].pc = "mark" /\ task'[x].batch = task[x].batch /\ task'[x].scope = task[x].scope
        /\ task'[x].cancelled = task[x].cancelled /\ task'[x].left = l
    BY <1>3, <2>1 DEF Tasks
  <2>4. TaskFits(x)
    BY <1>1, <2>2, <2>3 DEF TaskFits, Serial, Works, OwnTurns
  <2>5. Placed'
    BY <1>4, <2>1, <2>3
  <2>6. Covered'
    BY <1>1, <1>2, <2>1, CoveredWhileRunning DEF Serial, Works
  <2> QED BY <1>1, <1>2, <2>3, <2>4, <2>5, <2>6, TaskSerial
<1>8. CASE Mark(x)
  <2>1. /\ task[x].pc = "mark" /\ Step(x, "leave") /\ UNCHANGED <<tracks, running>>
        /\ task[x].left => pendingInput' = pendingInput \union {x}
        /\ ~task[x].left => pendingInput' = pendingInput \ {x}
    BY <1>8 DEF Mark, At, inbox
  <2>2. /\ \A y \in Sessions \ {x} : task'[y] = task[y]
        /\ task'[x].pc = "leave" /\ task'[x].batch = task[x].batch /\ task'[x].scope = task[x].scope
        /\ task'[x].cancelled = task[x].cancelled
    BY <2>1, TaskStep DEF IInv, Typed
  <2>3. x \notin pendingInput' => queue[x] = <<>>
    BY <2>1 DEF Serial, Works, Leaving
  <2>4. TaskFits(x)
    BY <1>1, <2>2, <2>3 DEF TaskFits, Serial, Works, OwnTurns
  <2>5. Placed'
    BY <1>4, <2>1, <2>2
  <2>6. Covered'
    <3>1. \A y \in Sessions \ {x} : y \in pendingInput => y \in pendingInput'
      BY <2>1
    <3> QED BY <1>1, <1>2, <2>1, <3>1, CoveredWhileRunning DEF Serial, Works
  <2> QED BY <1>1, <1>2, <2>2, <2>4, <2>5, <2>6, TaskSerial
<1>9. CASE Leave(x)
  <2>1. /\ task[x].pc = "leave" /\ task' = [task EXCEPT ![x] = NoTask]
        /\ running' = running \ {x} /\ UNCHANGED <<tracks, pendingInput>>
    BY <1>9 DEF Leave, At, inbox
  <2>2. task'[x] = NoTask /\ \A y \in Sessions \ {x} : task'[y] = task[y]
    BY <1>3, <2>1
  <2>3. task'[x].pc = "idle" /\ task'[x].batch = <<>> /\ task'[x].scope = NoScope
    BY <2>2 DEF NoTask
  <2>4. TaskFits(x)
    BY <2>3 DEF TaskFits
  <2>5. Placed'
    <3>1. ToSet(<<>>) = {}
      BY DEF ToSet
    <3> QED BY <1>4, <2>1, <2>2, <2>3, <3>1
  <2>6. Covered'
    <3>1. x \in pendingInput \/ queue[x] = <<>>
      BY <2>1 DEF Serial, Works, Leaving
    <3> QED BY <1>1, <2>1, <3>1 DEF Serial, Works, Covered
  <2> QED BY <1>1, <1>2, <2>2, <2>4, <2>5, <2>6, TaskSerial
<1> QED BY <1>5, <1>6, <1>7, <1>8, <1>9

LEMMA DispatchSerial == ASSUME IInv, Serial, ~suspends, NEW x \in Sessions, Dispatch(x) PROVE Serial'
  BY StartSerial, ConsumeSerial, AdmitSerial, AckTurnSerial, EndSerial DEF Dispatch

\* A turn that changes the tracks of its tree, and its place.
LEMMA TrackSerial ==
    ASSUME IInv, Serial, ~suspends, NEW x \in Sessions, Runs("task", x), task[x].pc # "idle",
           UNCHANGED <<current, rec, writes, client, cancel, decide, work, snapshot, running, pendingInput>>,
           \A y \in Sessions \ {x} : task'[y] = task[y],
           task'[x].batch = task[x].batch, task'[x].scope = task[x].scope,
           task'[x].cancelled = task[x].cancelled, task'[x].pc \notin {"idle", "mark", "leave"},
           task'[x].pc = "asking" => Message("task", task'[x].scope) \in tracks',
           task'[x].pc = "tracking" => Message("result", task'[x].scope) \in tracks',
           x = Root /\ task'[x].pc \in {"turn", "stale", "asking"} => ~snapshot,
           \A m \in tracks : m \in tracks' \/ Target(m) = x,
           \A m \in tracks' : m \in tracks \/ m.scope = current,
           \A y \in Sessions \ {x} : queue'[y] = queue[y],
           ToSet(queue'[x]) \subseteq ToSet(queue[x])
    PROVE  Serial'
<1>1. ~Resting /\ x \in running
  BY RunsUnrested DEF IInv, Typed, TaskTypes
<1>2. TaskFits(x)
  BY DEF TaskFits, Serial, Works, OwnTurns
<1>3. Placed'
  <2>1. \A m \in ToSet(task'[x].batch) : Target(m) = x
    BY DEF Serial, Works, Placed
  <2> QED BY <2>1, InboxPlaced DEF Serial, Works
<1>4. Covered'
  BY <1>1, CoveredWhileRunning DEF Serial, Works
<1> QED BY <1>1, <1>2, <1>3, <1>4, TaskSerial

\* A turn that sends a message to the other session, whose track is there.
LEMMA SendSerial ==
    ASSUME IInv, Serial, ~suspends, NEW x \in Sessions, NEW y \in Sessions \ {x}, Runs("task", x),
           UNCHANGED <<current, rec, writes, client, cancel, decide, work, tracks, snapshot, running, pendingInput>>,
           task[x].pc \in {"asking", "tracking"}, NEW to \in {"turn", "ack"}, Step(x, to),
           x = Root /\ to = "turn" => task[x].pc = "asking",
           NEW m \in Messages, m \in tracks, Target(m) = y,
           queue' = [queue EXCEPT ![y] = Append(@, m)]
    PROVE  Serial'
<1>1. ~Resting /\ x \in running
  BY RunsUnrested DEF IInv, Typed, TaskTypes
<1>2. /\ \A z \in Sessions \ {x} : task'[z] = task[z]
      /\ task'[x].pc = to /\ task'[x].batch = task[x].batch /\ task'[x].scope = task[x].scope
      /\ task'[x].cancelled = task[x].cancelled
  BY TaskStep DEF IInv, Typed
<1>3. TaskFits(x)
  BY <1>2 DEF TaskFits, Serial, Works, OwnTurns, TurnHasNoSnapshot
<1>4. Fits(y, m)
  BY DEF Serial, Works, Placed, Fits
<1>5. \A z \in Sessions : task'[z].batch = task[z].batch
  BY <1>2
<1>6. /\ Placed' /\ ToSet(queue'[y]) = ToSet(queue[y]) \union {m}
      /\ \A z \in Sessions \ {y} : queue'[z] = queue[z]
  BY <1>4, <1>5, AppendPlaced DEF IInv, Serial, Works
<1>7. Covered'
  <2>1. queue[y] = <<>> => ToSet(queue[y]) = {}
    BY DEF ToSet
  <2>2. y \in running \/ y \in pendingInput \/ ToSet(queue'[y]) \subseteq tracks
    BY <1>6, <2>1 DEF Serial, Works, Covered
  <2> QED BY <1>6, <2>2 DEF Serial, Works, Covered
<1> QED BY <1>1, <1>2, <1>3, <1>6, <1>7, TaskSerial

LEMMA AskSerial == ASSUME IInv, Serial, ~suspends, Ask \/ Asked PROVE Serial'
<1> DEFINE s == task[Root].scope
           m == Message("task", s)
<1>0. Root \in Sessions /\ Child \in Sessions \ {Root} /\ Root \in Sessions \ {Child}
  BY TheSessions
<1>1. CASE Ask
  <2>1. /\ Runs("task", Root) /\ task[Root].pc = "turn" /\ ~snapshot
        /\ UNCHANGED <<current, rec, writes, client, cancel, decide, queue, work, snapshot, running, pendingInput>>
    BY <1>1 DEF Ask, At, TaskFrame, tree, Serial, Works, TurnHasNoSnapshot
  <2>2. CASE Vouched(s)
    <3>1. tracks' = tracks \union {m} /\ Step(Root, "asking") /\ s = current /\ m.scope = s
      BY <1>1, <2>2 DEF Ask, Vouched, Message
    <3>2. m = Message("task", task[Root].scope)
      OBVIOUS
    <3> HIDE DEF m, s
    <3>3. /\ \A y \in Sessions \ {Root} : task'[y] = task[y]
          /\ task'[Root].pc = "asking" /\ task'[Root].batch = task[Root].batch
          /\ task'[Root].scope = task[Root].scope /\ task'[Root].cancelled = task[Root].cancelled
      BY <1>0, <3>1, TaskStep DEF IInv, Typed
    <3>4. Message("task", task'[Root].scope) \in tracks'
      BY <3>1, <3>2, <3>3
    <3>5. /\ \A n \in tracks : n \in tracks' \/ Target(n) = Root
          /\ \A n \in tracks' : n \in tracks \/ n.scope = current
      BY <3>1
    <3> QED BY <1>0, <2>1, <3>3, <3>4, <3>5, TrackSerial
  <2>3. CASE ~Vouched(s)
    <3>1. UNCHANGED <<tracks, task>>
      BY <1>1, <2>3 DEF Ask
    <3> QED BY <1>0, <2>1, <3>1, TrackSerial
  <2> QED BY <2>2, <2>3
<1>2. CASE Asked
  <2>1. /\ Runs("task", Root) /\ task[Root].pc = "asking" /\ Step(Root, "turn")
        /\ queue' = [queue EXCEPT ![Child] = Append(@, m)]
        /\ UNCHANGED <<current, rec, writes, client, cancel, decide, work, tracks, snapshot, running, pendingInput>>
    BY <1>2 DEF Asked, At, TaskFrame
  <2>2. m \in tracks
    BY <2>1 DEF Serial, Works, Tracked
  <2>3. m \in Messages /\ Target(m) = Child
    BY <1>0, <2>1, MessageTypes DEF IInv, Typed, TaskTypes, Message, Target
  <2> HIDE DEF m
  <2> QED BY <1>0, <2>1, <2>2, <2>3, SendSerial
<1> QED BY <1>1, <1>2

LEMMA FoldSerial == ASSUME IInv, Serial, ~suspends, Fold PROVE Serial'
<1>1. PICK i \in DOMAIN queue[Root] :
         /\ queue[Root][i].kind = "result"
         /\ queue' = [queue EXCEPT ![Root] = Without(@, queue[Root][i])]
         /\ tracks' = tracks \ {queue[Root][i]}
  BY DEF Fold
<1> DEFINE m == queue[Root][i]
<1>2. /\ Runs("task", Root) /\ task[Root].pc = "turn" /\ ~snapshot
      /\ UNCHANGED <<current, rec, writes, client, cancel, decide, work, snapshot, running, pendingInput, task>>
  BY DEF Fold, At, TaskFrame, Serial, Works, TurnHasNoSnapshot
<1>3. queue \in [Sessions -> Seq(Messages)] /\ queue[Root] \in Seq(Messages)
  BY TheSessions DEF IInv, Typed, InboxTypes
<1>4. Target(m) = Root /\ queue' = [queue EXCEPT ![Root] = Without(queue[Root], m)] /\ tracks' = tracks \ {m}
  BY <1>1 DEF Target
<1> HIDE DEF m, Messages
<1>5. ToSet(Without(queue[Root], m)) \subseteq ToSet(queue[Root])
  BY <1>3, OnlyFacts DEF Without
<1>6. /\ ToSet(queue'[Root]) \subseteq ToSet(queue[Root])
      /\ \A y \in Sessions \ {Root} : queue'[y] = queue[y]
  BY <1>3, <1>4, <1>5, TheSessions
<1>7. /\ \A n \in tracks : n \in tracks' \/ Target(n) = Root
      /\ \A n \in tracks' : n \in tracks \/ n.scope = current
  BY <1>4
<1> QED BY <1>2, <1>6, <1>7, TheSessions, TrackSerial

LEMMA AnswerSerial == ASSUME IInv, Serial, ~suspends, Answer \/ TrackAnswer \/ Answered PROVE Serial'
<1> DEFINE s == task[Child].scope
           m == Message("result", s)
<1>0. Child \in Sessions /\ Root \in Sessions \ {Child} /\ Child # Root
  BY TheSessions
<1>1. CASE Answer
  <2>1. /\ Runs("task", Child) /\ task[Child].pc = "turn"
        /\ UNCHANGED <<current, rec, writes, client, cancel, decide, queue, work, snapshot, running, pendingInput>>
        /\ \/ tracks' = tracks \ {Message("task", s)} /\ Step(Child, "answering")
           \/ UNCHANGED tracks /\ Step(Child, "ack")
    BY <1>1 DEF Answer, At, TaskFrame, tree
  <2>2. PICK to \in {"answering", "ack"} : Step(Child, to)
    BY <2>1
  <2>3. /\ \A y \in Sessions \ {Child} : task'[y] = task[y]
        /\ task'[Child].pc = to /\ task'[Child].batch = task[Child].batch
        /\ task'[Child].scope = task[Child].scope /\ task'[Child].cancelled = task[Child].cancelled
    BY <1>0, <2>2, TaskStep DEF IInv, Typed
  <2>4. Target(Message("task", s)) = Child
    BY DEF Target, Message
  <2> DEFINE k == Message("task", s)
  <2>5. tracks' = tracks \ {k} \/ tracks' = tracks
    BY <2>1
  <2> HIDE DEF k
  <2>6. /\ \A n \in tracks : n \in tracks' \/ Target(n) = Child
        /\ \A n \in tracks' : n \in tracks \/ n.scope = current
    BY <2>4, <2>5 DEF k
  <2> QED BY <1>0, <2>1, <2>3, <2>6, TrackSerial
<1>2. CASE TrackAnswer
  <2>1. /\ Runs("task", Child) /\ task[Child].pc = "answering" /\ tracks' = tracks \union {m}
        /\ Step(Child, "tracking")
        /\ UNCHANGED <<current, rec, writes, client, cancel, decide, queue, work, snapshot, running, pendingInput>>
    BY <1>2 DEF TrackAnswer, At, TaskFrame, tree
  <2>2. s = current /\ m.scope = s
    BY <1>0, <2>1, ScopeAssumption DEF IInv, Typed, TaskTypes, Serial, Works, OwnTurns, Message
  <2>3. m = Message("result", task[Child].scope)
    OBVIOUS
  <2> HIDE DEF m, s
  <2>4. /\ \A y \in Sessions \ {Child} : task'[y] = task[y]
        /\ task'[Child].pc = "tracking" /\ task'[Child].batch = task[Child].batch
        /\ task'[Child].scope = task[Child].scope /\ task'[Child].cancelled = task[Child].cancelled
    BY <1>0, <2>1, TaskStep DEF IInv, Typed
  <2>5. Message("result", task'[Child].scope) \in tracks'
    BY <2>1, <2>3, <2>4
  <2>6. /\ \A n \in tracks : n \in tracks' \/ Target(n) = Child
        /\ \A n \in tracks' : n \in tracks \/ n.scope = current
    BY <2>1, <2>2
  <2> QED BY <1>0, <2>1, <2>4, <2>5, <2>6, TrackSerial
<1>3. CASE Answered
  <2>1. /\ Runs("task", Child) /\ task[Child].pc = "tracking" /\ Step(Child, "ack")
        /\ queue' = [queue EXCEPT ![Root] = Append(@, m)]
        /\ UNCHANGED <<current, rec, writes, client, cancel, decide, work, tracks, snapshot, running, pendingInput>>
    BY <1>3 DEF Answered, At, TaskFrame
  <2>2. m \in tracks
    BY <2>1 DEF Serial, Works, Tracked
  <2>3. m \in Messages /\ Target(m) = Root
    BY <1>0, <2>1, MessageTypes DEF IInv, Typed, TaskTypes, Message, Target
  <2> HIDE DEF m
  <2> QED BY <1>0, <2>1, <2>2, <2>3, SendSerial
<1> QED BY <1>1, <1>2, <1>3

\* The fact of a turn is noted for its own request, and a batch is pending
\* only while that request awaits a decision.
LEMMA NoteSerial ==
    ASSUME IInv, Serial, ~suspends, Runs("task", Root), task[Root].pc \in {"turn", "stale"},
           NEW fact, Note(fact), snapshot' \in BOOLEAN, snapshot' => fact = "suspended",
           UNCHANGED <<current, client, cancel, decide, queue, work, tracks, running, pendingInput>>
    PROVE  Serial'
<1>0. Root \in Sessions
  BY TheSessions
<1>1. ~Resting /\ CurrentState \in {"active", "awaiting", "cancelling"} /\ Root \in running
  BY <1>0, RunsUnrested DEF Resting, IInv, Typed, TaskTypes
<1>2. current \in Scopes /\ CurrentState = rec[current].state
  BY <1>1 DEF CurrentState, State, IInv, Typed, ScopeTypes
<1>3. /\ writes = <<>>
      /\ \A t \in Scopes : /\ client[t] \notin MidClients /\ cancel[t] \notin MidCancels
                           /\ decide[t] # "delivering"
      /\ \A x \in Sessions \ {Root} : task[x].pc \notin MidPcs
  BY RunsAlone
<1>4. PICK to \in {"ack", "noting"} : Step(Root, to) /\ (to = "ack" => writes' = writes)
  <2>1. (Step(Root, "ack") /\ writes' = writes) \/ Step(Root, "noting")
    BY DEF Note
  <2> QED BY <2>1
<1>5. /\ \A y \in Sessions \ {Root} : task'[y] = task[y]
      /\ task'[Root].pc = to /\ task'[Root].batch = task[Root].batch
      /\ task'[Root].scope = task[Root].scope /\ task'[Root].cancelled = task[Root].cancelled
  BY <1>0, <1>4, TaskStep DEF IInv, Typed
<1>6. Len(writes') <= 1
  <2>1. writes' = writes \/ \E w : writes' = Append(writes, w)
    BY DEF Note, Transition, Write
  <2>2. CASE writes' = writes
    BY <1>3, <2>2
  <2>3. CASE \E w : writes' = Append(writes, w)
    <3>1. PICK w : writes' = Append(writes, w)
      BY <2>3
    <3>2. Len(writes') = 1
      BY <1>3, <3>1, OneWrite
    <3> QED BY <3>2
  <2> QED BY <2>1, <2>2, <2>3
<1>7. writes' # <<>> => NobodyMid'
  <2>1. writes' # <<>> => to = "noting"
    BY <1>3, <1>4
  <2> QED BY <1>3, <1>5, <2>1 DEF NobodyMid, MidPcs
<1>8. /\ \A t \in Scopes : /\ rec'[t].state = rec[t].state \/ rec'[t].state \in {"active", "awaiting"}
                           /\ rec'[t].from = rec[t].from \/ rec'[t].from \in {t, NoScope}
      /\ CurrentState' = CurrentState \/ CurrentState' \in {"active", "awaiting"}
      /\ fact = "suspended" => CurrentState' \in {"awaiting", "cancelling"}
  <2>1. rec \in [Scopes -> [state : States, fact : Facts, from : Scopes \union {NoScope}]]
    BY DEF IInv, Typed, ScopeTypes
  <2>2. CurrentState' = rec'[current].state
    BY <1>2, ScopeAssumption DEF CurrentState, State
  <2>3. task[Root].scope \in {current, NoScope}
    BY <1>0 DEF Serial, Works, OwnTurns
  <2>4. current # NoScope /\ CurrentState \notin Terminal
    BY <1>1, <1>2, ScopeAssumption DEF Terminal
  <2>5. CASE CurrentState = "cancelling"
    BY <1>2, <2>2, <2>5 DEF Note
  <2>6. CASE CurrentState # "cancelling" /\ fact = "suspended"
    <3>1. rec' = [rec EXCEPT ![current].state = "awaiting"]
      BY <2>4, <2>6 DEF Note, Transition
    <3> QED BY <1>2, <2>1, <2>2, <3>1
  <2>7. CASE CurrentState # "cancelling" /\ fact # "suspended"
    <3> DEFINE f == FactAfter(rec[current].fact, fact)
               noted == [rec EXCEPT ![current].fact = f, ![current].from = task[Root].scope]
    <3>1. rec' = noted \/ rec' = [noted EXCEPT ![current].state = "active"]
      BY <2>4, <2>7 DEF Note
    <3> HIDE DEF f
    <3>2. /\ \A t \in Scopes \ {current} : noted[t] = rec[t]
          /\ noted[current].state = rec[current].state /\ noted[current].from = task[Root].scope
          /\ DOMAIN noted = Scopes
          /\ noted[current] = [rec[current] EXCEPT !.fact = f, !.from = task[Root].scope]
      BY <1>2, <2>1
    <3> HIDE DEF noted
    <3>3. CASE rec' = noted
      BY <1>2, <2>2, <2>3, <2>7, <3>2, <3>3
    <3>4. CASE rec' = [noted EXCEPT ![current].state = "active"]
      <4>1. /\ \A t \in Scopes \ {current} : rec'[t] = rec[t]
            /\ rec'[current] = [noted[current] EXCEPT !.state = "active"]
        BY <1>2, <3>2, <3>4
      <4>2. rec'[current].state = "active" /\ rec'[current].from = noted[current].from
        BY <1>2, <2>1, <3>2, <4>1
      <4> QED BY <1>2, <2>2, <2>3, <2>7, <3>2, <4>1, <4>2
    <3> QED BY <3>1, <3>3, <3>4
  <2> QED BY <2>5, <2>6, <2>7
<1>9. Alone' /\ Delivering' /\ Looked' /\ Activated' /\ Interrupted' /\ OwnFacts'
  <2>1. "task" # "client" /\ \A t \in Scopes : rec'[t].state = rec[t].state \/ rec'[t].state \notin {"none", "reserved"}
    BY <1>8
  <2>2. \A t \in Scopes : decide'[t] = "delivering" => Root \in pendingInput' /\ snapshot'
    BY <1>3
  <2>3. \A t \in Scopes : rec'[t].from = rec[t].from \/ rec'[t].from \in {t, NoScope}
    BY <1>8
  <2> QED BY <1>6, <1>7, <2>1, <2>2, <2>3, OtherPlaces
<1>10. ~Resting'
  BY <1>1, <1>8 DEF Resting
<1>11. SnapshotAwaited'
  BY <1>8 DEF SnapshotAwaited
<1>12. TaskFits(Root)
  <2>1. task'[Root].scope \in {current, NoScope} /\ task[Root].pc # "idle"
    BY <1>0, <1>5 DEF Serial, Works, OwnTurns
  <2> QED BY <1>5, <2>1 DEF TaskFits
<1>13. Placed'
  <2>1. \A m \in ToSet(task'[Root].batch) : Target(m) = Root
    BY <1>0, <1>5 DEF Serial, Works, Placed
  <2> QED BY <1>0, <1>5, <2>1, InboxPlaced DEF Serial, Works
<1>14. Covered'
  BY DEF Serial, Works, Covered
<1>15. Works'
  BY <1>0, <1>5, <1>11, <1>12, <1>13, <1>14, TaskWorks
<1> QED BY <1>9, <1>10, <1>15 DEF Serial, Places, Rest

LEMMA TurnSerial == ASSUME IInv, Serial, ~suspends, Turn PROVE Serial'
<1>1. CASE EndTurn
  <2>1. /\ Runs("task", Root) /\ task[Root].pc \in {"turn", "stale"} /\ ~snapshot
        /\ UNCHANGED <<current, client, cancel, decide, queue, work, tracks, running, pendingInput>>
    BY <1>1 DEF EndTurn, TaskFrame, inbox, tree, Serial, Works, TurnHasNoSnapshot
  <2>2. \E fact : Note(fact) /\ snapshot' \in BOOLEAN /\ (snapshot' => fact = "suspended")
    <3>1. snapshot = FALSE
      BY <2>1 DEF IInv, Typed, InboxTypes
    <3> QED BY <1>1, <3>1 DEF EndTurn
  <2> QED BY <2>1, <2>2, NoteSerial
<1> QED BY <1>1, AskSerial, FoldSerial, AnswerSerial DEF Turn

-----------------------------------------------------------------------------
(* The registrations of a serial tree *)

\* While a registration is written nobody is between two awaits, and it is the
\* only one.
LEMMA RegisterSerial == ASSUME IInv, Serial, ~suspends, Register PROVE Serial'
<1> DEFINE w == Head(writes)
<1>1. /\ writes # <<>> /\ writes' = Tail(writes) /\ AfterWrite(w)
      /\ UNCHANGED <<current, queue, work, tracks, snapshot, running, pendingInput, decide>>
  BY DEF Register, inbox
<1>2. NobodyMid /\ Len(writes) = 1
  <2>1. Len(writes) \in Nat \ {0}
    BY <1>1 DEF IInv, Typed, ScopeTypes
  <2>2. Len(writes) <= 1 /\ NobodyMid
    BY <1>1 DEF Serial, Places, Alone
  <2>3. \A n \in Nat \ {0} : n <= 1 => n = 1
    OBVIOUS
  <2> QED BY <2>1, <2>2, <2>3, Zenon
<1>3. writes' = <<>> /\ Pending = {w} /\ w \in Pending
  <2>1. /\ DOMAIN writes = {1} /\ writes[1] = w /\ Tail(writes) = <<>>
    BY <1>1, <1>2 DEF IInv, Typed, ScopeTypes
  <2> QED BY <1>1, <2>1 DEF Pending, ToSet
<1>4. Owner(w)
  BY <1>3 DEF IInv, Owned
<1> HIDE DEF w
<1>5. /\ rec \in [Scopes -> [state : States, fact : Facts, from : Scopes \union {NoScope}]]
      /\ client \in [Scopes -> Clients] /\ cancel \in [Scopes -> Cancels] /\ task \in [Sessions -> Tasks]
      /\ TaskTypes /\ Root \in Sessions
  BY TheSessions DEF IInv, Typed, ScopeTypes, ActorTypes, TaskTypes
<1>6. Alone'
  BY <1>3 DEF Alone
<1>7. ~Submitting
  BY <1>2 DEF Submitting, NobodyMid, MidClients
\* A settled request had its client or its cancel about to settle it.
<1>8. CASE w.by \in {"fail", "wait", "cancel"}
  <2>1. w.scope \in Scopes /\ w.state \in Terminal /\ rec' = [rec EXCEPT ![w.scope].state = w.state] /\ task' = task
    BY <1>1, <1>4, <1>8 DEF AfterWrite, Settled, Owner
  <2>2. /\ rec'[w.scope].state = w.state
        /\ \A t \in Scopes : rec'[t].from = rec[t].from
        /\ \A t \in Scopes \ {w.scope} : rec'[t] = rec[t]
    BY <2>1, StateMoves DEF IInv
  <2>3. /\ \A t \in Scopes : /\ client'[t] = client[t] \/ (t = w.scope /\ client'[t] = "done")
                             /\ cancel'[t] = cancel[t] \/ (t = w.scope /\ cancel'[t] = "done")
    <3>1. CASE w.by \in {"fail", "wait"}
      BY <1>1, <1>5, <2>1, <3>1 DEF AfterWrite, Goes
    <3>2. CASE w.by = "cancel"
      BY <1>1, <1>5, <2>1, <3>2 DEF AfterWrite
    <3> QED BY <1>8, <3>1, <3>2
  <2>4. current = w.scope => Calm /\ pendingInput = {}
    <3>1. client[w.scope] \in {"failing", "settling"} \/ cancel[w.scope] = "settling"
      BY <1>4, <1>8 DEF Owner
    <3> QED BY <1>7, <2>1, <3>1 DEF Serial, Places, Rest, Resting, Apart
  <2>5. current # w.scope => CurrentState' = CurrentState
    <3>1. current \in Scopes \union {NoScope}
      BY DEF IInv, Typed, ScopeTypes
    <3>2. current' = current
      BY <1>1
    <3>3. ASSUME current # w.scope, current # NoScope PROVE rec'[current] = rec[current]
      BY <2>2, <3>1, <3>3, Zenon
    <3> QED BY <3>2, <3>3, Zenon DEF CurrentState, State
  <2>6. Delivering' /\ Looked'
    BY <1>2, <1>1, <2>3 DEF NobodyMid, MidClients, Delivering, Looked
  <2>7. Activated' /\ OwnFacts'
    BY <2>1, <2>2, <2>3 DEF Serial, Places, Activated, OwnFacts, State, Terminal
  <2>8. Interrupted'
    <3>1. \A t \in Scopes : client[t] \notin {"interrupting", "interrupted"}
      BY <1>2, <1>3, <1>8 DEF Serial, Places, Interrupted, NobodyMid, MidClients
    <3> QED BY <2>3, <3>1 DEF Interrupted
  <2>9. Rest'
    <3>1. ASSUME Resting' PROVE Calm /\ pendingInput = {}
      <4>1. CASE current = w.scope
        BY <2>4, <4>1
      <4>2. CASE current # w.scope
        <5>1. Resting
          BY <1>1, <2>3, <2>5, <3>1, <4>2 DEF Resting, Apart
        <5> QED BY <1>7, <5>1 DEF Serial, Places, Rest
      <4> QED BY <4>1, <4>2
    <3> QED BY <1>1, <3>1 DEF Rest, Calm
  <2>10. Works'
    <3>1. SnapshotAwaited'
      BY <1>1, <2>4, <2>5 DEF Serial, Works, SnapshotAwaited, Calm
    <3>2. Draining'
      BY <1>1, <2>1, <2>3 DEF Serial, Works, Draining
    <3> QED BY <1>1, <2>1, <3>1, <3>2, WorksKept DEF Serial
  <2> QED BY <1>6, <2>6, <2>7, <2>8, <2>9, <2>10 DEF Serial, Places
\* The other registrations settle nothing.
<1>9. CASE w.by \notin {"fail", "wait", "cancel"}
  <2>1. rec' = rec /\ CurrentState' = CurrentState
    BY <1>1, <1>9 DEF AfterWrite, CurrentState, State
  <2>2. \A t \in Scopes :
           \/ client'[t] = client[t] /\ (client[t] = "interrupting" => w.by # "interrupt")
           \/ client[t] = "beginning" /\ client'[t] = "reserved"
           \/ client[t] = "interrupting" /\ client'[t] = "interrupted" /\ w.by = "interrupt"
           \/ client[t] = "releasing" /\ client'[t] = "done"
           \/ client[t] = "activating" /\ client'[t] = "submitting"
    <3>1. CASE w.by = "begin"
      BY <1>1, <1>4, <1>5, <3>1 DEF AfterWrite, Goes, Owner
    <3>2. CASE w.by = "interrupt"
      BY <1>1, <3>2 DEF AfterWrite
    <3>3. CASE w.by = "release"
      BY <1>1, <3>3 DEF AfterWrite
    <3>4. CASE w.by = "activate"
      BY <1>1, <1>4, <1>5, <3>4 DEF AfterWrite, Goes, Owner
    <3>5. CASE w.by \in {"note", "close"}
      BY <1>1, <3>5 DEF AfterWrite
    <3> QED BY <1>1, <1>9, <3>1, <3>2, <3>3, <3>4, <3>5 DEF AfterWrite
  <2>3. \A t \in Scopes : \/ cancel'[t] = cancel[t]
                          \/ /\ w.by = "close" /\ cancel[t] = "closing" /\ cancel'[t] \in {"draining", "drained"}
    <3>1. CASE w.by = "close"
      BY <1>1, <1>4, <1>5, <3>1 DEF AfterWrite, Owner
    <3>2. CASE w.by # "close"
      BY <1>1, <1>9, <3>2 DEF AfterWrite
    <3> QED BY <3>1, <3>2
  <2>4. \A x \in Sessions : /\ task'[x].batch = task[x].batch /\ task'[x].scope = task[x].scope
                            /\ \/ task'[x].pc = task[x].pc /\ task'[x].left = task[x].left
                               \/ task'[x].pc = "ack"
    <3>1. CASE w.by = "note"
      <4>1. Step(Root, "ack")
        BY <1>1, <3>1 DEF AfterWrite
      <4> QED BY <1>5, <4>1, TaskStep
    <3>2. CASE w.by = "close"
      <4>1. task' = [x \in Sessions |-> [task[x] EXCEPT !.cancelled = task[x].pc # "idle"]]
        BY <1>1, <3>2 DEF AfterWrite
      <4> QED BY <1>5, <4>1 DEF Tasks
    <3>3. CASE w.by \notin {"note", "close"}
      <4>1. task' = task
        BY <1>1, <1>9, <3>3 DEF AfterWrite
      <4> QED BY <4>1
    <3> QED BY <3>1, <3>2, <3>3
  <2>5. Delivering' /\ Looked'
    BY <1>2, <1>1, <2>2 DEF NobodyMid, MidClients, Delivering, Looked
  <2>6. Activated' /\ OwnFacts'
    BY <2>1, <2>2 DEF Serial, Places, Activated, OwnFacts, State
  <2>7. Interrupted'
    <3>1. \A t \in Scopes : client[t] = "interrupting" => w.by = "interrupt"
      BY <1>3 DEF Serial, Places, Interrupted
    <3>2. \A t \in Scopes : client[t] # "interrupted"
      BY <1>2 DEF NobodyMid, MidClients
    <3>3. ASSUME NEW t \in Scopes PROVE client'[t] # "interrupting" /\ (client'[t] = "interrupted" => client[t] = "interrupting")
      BY <2>2, <3>1, <3>2
    <3>4. \A t \in Scopes : client[t] = "interrupting" => CurrentState \in Terminal \union {"none"}
      BY DEF Serial, Places, Interrupted
    <3> QED BY <2>1, <3>3, <3>4 DEF Interrupted
  <2>8. Rest'
    <3>1. Resting' => Resting
      BY <1>1, <2>1, <2>2, <2>3 DEF Resting, Apart
    <3> QED BY <1>1, <1>7, <3>1 DEF Serial, Places, Rest, Calm
  <2>9. SnapshotAwaited'
    BY <1>1, <2>1 DEF Serial, Works, SnapshotAwaited
  <2>10. Draining'
    <3>1. CASE w.by = "close"
      <4>1. task' = [x \in Sessions |-> [task[x] EXCEPT !.cancelled = task[x].pc # "idle"]]
        BY <1>1, <3>1 DEF AfterWrite
      <4>2. \A x \in Sessions : task'[x].cancelled = (task[x].pc # "idle") /\ task'[x].pc = task[x].pc
        BY <1>5, <4>1 DEF Tasks
      <4> QED BY <4>2 DEF Draining
    <3>2. CASE w.by = "note"
      <4>1. Step(Root, "ack") /\ task[Root].pc = "noting"
        BY <1>1, <1>4, <3>2 DEF AfterWrite, Owner
      <4>2. /\ \A y \in Sessions \ {Root} : task'[y] = task[y]
            /\ task'[Root].cancelled = task[Root].cancelled
        BY <1>5, <4>1, TaskStep
      <4>3. \A x \in Sessions : task'[x].pc # "idle" => task[x].pc # "idle"
        BY <4>1, <4>2
      <4> QED BY <1>1, <2>3, <3>2, <4>2, <4>3 DEF Serial, Works, Draining
    <3>3. CASE w.by \notin {"note", "close"}
      <4>1. task' = task /\ \A t \in Scopes : cancel'[t] = cancel[t]
        BY <1>1, <1>9, <2>3, <3>3 DEF AfterWrite
      <4> QED BY <1>1, <4>1 DEF Serial, Works, Draining
    <3> QED BY <3>1, <3>2, <3>3
  <2>11. Works'
    BY <1>1, <2>4, <2>9, <2>10, WorksKept DEF Serial
  <2> QED BY <1>6, <2>5, <2>6, <2>7, <2>8, <2>11 DEF Serial, Places
<1> QED BY <1>8, <1>9

-----------------------------------------------------------------------------
(* The invariant of a serial tree *)

SerialInv == IInv /\ (~suspends => Serial)

LEMMA SerialStart == ASSUME Init PROVE SerialInv
<1>1. IInv
  BY Start
<1>2. /\ client = [s \in Scopes |-> "new"] /\ cancel = [s \in Scopes |-> "none"]
      /\ decide = [s \in Scopes |-> "none"] /\ rec = [s \in Scopes |-> NoRec]
      /\ current = NoScope /\ writes = <<>> /\ snapshot = FALSE
      /\ queue = [x \in Sessions |-> <<>>] /\ work = [x \in Sessions |-> <<>>]
      /\ tracks = {} /\ running = {} /\ pendingInput = {}
      /\ \A x \in Sessions : task[x] = NoTask
  BY DEF Init
<1>3. \A x \in Sessions : /\ task[x].pc = "idle" /\ task[x].batch = <<>> /\ task[x].scope = NoScope
  BY <1>2 DEF NoTask
<1>4. ToSet(<<>>) = {} /\ Len(<<>>) = 0
  BY DEF ToSet
<1>5. Alone /\ Rest
  <2>1. Calm
    BY <1>2 DEF Calm
  <2> QED BY <1>2, <1>4, <2>1 DEF Alone, Rest
<1>6. Delivering /\ Looked /\ Activated /\ Interrupted
  BY <1>2 DEF Delivering, Looked, Activated, Interrupted
<1>7. OwnFacts
  BY <1>2 DEF OwnFacts, NoRec
<1>8. Placed /\ OwnTurns
  BY <1>2, <1>3, <1>4 DEF Placed, OwnTurns
<1>9. Draining /\ Covered /\ Leaving
  BY <1>2, <1>3 DEF Draining, Covered, Leaving
<1>10. Tracked /\ SnapshotAwaited /\ TurnHasNoSnapshot
  BY <1>2, <1>3, TheSessions DEF Tracked, SnapshotAwaited, TurnHasNoSnapshot
<1> QED BY <1>1, <1>5, <1>6, <1>7, <1>8, <1>9, <1>10 DEF SerialInv, Serial, Places, Works

LEMMA StoresStay == ASSUME [Next]_vars PROVE suspends' = suspends
<1>1. ASSUME NEW s \in Scopes, Call(s) \/ Wait(s) PROVE suspends' = suspends
  BY <1>1 DEF Call, Begin, InterruptedBegin, Release, Activate, Submit, Deliver, DeliverFails,
              Wait, Look, LookAtRunning, LookAtTracks, LookAtRest, Joined, WaitFrame
<1>2. ASSUME NEW s \in Scopes, Approve(s) \/ CancelRequest(s) \/ Finalize(s) PROVE suspends' = suspends
  BY <1>2 DEF Approve, Decide, DeliverDecision, CancelRequest, Finalize, CloseScope, CleanUp,
              CancelSettles, CancelFrame
<1>3. ASSUME NEW x \in Sessions, Dispatch(x) PROVE suspends' = suspends
  BY <1>3 DEF Dispatch, StartDispatch, Consume, Admit, AckTurn, Unwind, CloseTracks, Peek, Mark,
              Leave, TaskFrame
<1>4. Turn \/ Register \/ Crash \/ UNCHANGED vars => suspends' = suspends
  BY DEF Turn, Ask, Asked, Fold, Answer, TrackAnswer, Answered, EndTurn, TaskFrame, Register,
         Crash, vars
<1> QED BY <1>1, <1>2, <1>3, <1>4 DEF Next

LEMMA SerialStep == ASSUME SerialInv, [Next]_vars PROVE SerialInv'
<1>1. IInv /\ IInv'
  BY Inductive DEF SerialInv
<1>2. suspends' = suspends
  BY StoresStay
<1>3. ASSUME ~suspends, Serial, Next PROVE Serial'
  <2>1. ~Crash
    BY <1>3 DEF Crash
  <2> QED BY <1>1, <1>3, <2>1, CallSerial, WaitSerial, ApproveSerial, FinalizeSerial, DispatchSerial,
             TurnSerial, RegisterSerial DEF Next
<1>4. ASSUME Serial, UNCHANGED vars PROVE Serial'
  <2>1. UNCHANGED <<current, rec, writes, queue, work, tracks, snapshot, running, pendingInput, client,
                    task, cancel, decide>>
    BY <1>4 DEF vars, scope, stores, inbox, tree
  <2>2. CurrentState' = CurrentState /\ \A s \in Scopes : State(s)' = State(s)
    BY <2>1 DEF CurrentState, State
  <2>3. Alone' /\ Rest'
    <3>1. NobodyMid' <=> NobodyMid
      BY <2>1 DEF NobodyMid
    <3>2. Resting' <=> Resting
      BY <2>1, <2>2 DEF Resting
    <3>3. (Calm' <=> Calm) /\ (Submitting' <=> Submitting)
      BY <2>1 DEF Calm, Submitting
    <3> QED BY <1>4, <2>1, <3>1, <3>2, <3>3 DEF Serial, Places, Alone, Rest
  <2>4. Delivering' /\ Looked' /\ Activated' /\ OwnFacts'
    BY <1>4, <2>1, <2>2 DEF Serial, Places, Delivering, Looked, Activated, OwnFacts
  <2>5. Interrupted'
    BY <1>4, <2>1, <2>2 DEF Serial, Places, Interrupted, Pending
  <2>6. Works'
    <3>1. Draining' /\ SnapshotAwaited'
      BY <1>4, <2>1, <2>2 DEF Serial, Works, Draining, SnapshotAwaited
    <3> QED BY <1>4, <2>1, <3>1, WorksKept DEF Serial
  <2> QED BY <2>3, <2>4, <2>5, <2>6 DEF Serial, Places
<1> QED BY <1>1, <1>2, <1>3, <1>4 DEF SerialInv

\* A settled request is the one whose tree is calm, or an earlier one.
LEMMA NothingIsBusy == ASSUME SerialInv PROVE NothingOutlives
<1> SUFFICES ASSUME ~suspends
             PROVE  /\ SettledIsQuiet
                    /\ \A s \in Scopes : State(s) \in Terminal =>
                          /\ \A x \in Sessions : ~Has(x, s)
                          /\ \A m \in tracks : m.scope # s
                    /\ snapshot => CurrentState \notin Terminal \union {"none"}
  BY DEF NothingOutlives
<1>1. IInv /\ Typed /\ Places /\ Works
  BY DEF SerialInv, Serial, IInv
<1>2. ASSUME NEW s \in Scopes, State(s) \in Terminal, s = current
      PROVE  Calm
  <2>1. CurrentState = State(s)
    BY <1>2, ScopeAssumption DEF CurrentState
  <2> QED BY <1>1, <1>2, <2>1 DEF Places, Rest, Resting, Terminal
<1>3. SettledIsQuiet
  <2>1. ASSUME NEW s \in Scopes, State(s) \in Terminal, NEW x \in Sessions, task[x].scope = s, task[x].pc # "idle"
        PROVE  FALSE
    <3>1. s = current
      BY <1>1, <2>1, ScopeAssumption DEF Works, OwnTurns
    <3> QED BY <1>1, <1>2, <2>1, <3>1, CalmIsIdle
  <2> QED BY <2>1 DEF SettledIsQuiet, TurnOf
<1>4. ASSUME NEW s \in Scopes, State(s) \in Terminal
      PROVE  /\ \A x \in Sessions : ~Has(x, s)
             /\ \A m \in tracks : m.scope # s
  <2>1. ASSUME NEW x \in Sessions, Has(x, s) PROVE FALSE
    <3>1. work[x] \in Seq(Messages) /\ queue[x] \in Seq(Messages)
      BY <1>1 DEF Typed, InboxTypes
    <3>2. \E m \in ToSet(work[x] \o queue[x]) : m.scope = s
      BY <2>1 DEF Has, ToSet
    <3>3. PICK m \in ToSet(work[x]) \union ToSet(queue[x]) : m.scope = s
      BY <3>1, <3>2, ConcatFacts
    <3>4. s = current
      BY <1>1, <3>3, ScopeAssumption DEF Works, Placed, Fits
    <3>5. work[x] = <<>> /\ queue[x] = <<>>
      BY <1>2, <1>4, <3>4 DEF Calm
    <3>6. ToSet(<<>>) = {}
      BY DEF ToSet
    <3> QED BY <3>3, <3>5, <3>6
  <2>2. ASSUME NEW m \in tracks, m.scope = s PROVE FALSE
    <3>1. s = current
      BY <1>1, <2>2 DEF Works, Placed
    <3> QED BY <1>2, <1>4, <2>2, <3>1 DEF Calm
  <2> QED BY <2>1, <2>2
<1>5. snapshot => CurrentState \notin Terminal \union {"none"}
  BY <1>1 DEF Works, SnapshotAwaited, Terminal
<1> QED BY <1>3, <1>4, <1>5

-----------------------------------------------------------------------------
(* Why nobody sleeps for ever where no query suspends *)

\* A scope is in CANCELLING exactly while its cancel is at work.
CancelsAgree == \A s \in Scopes : State(s) = "cancelling" <=> cancel[s] \in Closed

\* A cancel that waits for its registration has one,
CancelWrites ==
    \A s \in Scopes :
        /\ cancel[s] = "closing" => \E w \in Pending : w.by = "close" /\ w.scope = s
        /\ cancel[s] = "settling" => \E w \in Pending : w.by = "cancel" /\ w.scope = s

\* no client settles a scope that a cancel has closed,
SettlesOpen == \A w \in Pending : w.by \in {"fail", "wait"} => State(w.scope) # "cancelling"

\* only a cancel that finds turns awaits them,
DrainsTurns == \A s \in Scopes : cancel[s] = "draining" /\ current = s => client[s] \notin Apart

\* and it goes on awaiting those that it has cancelled.
CancelledIsAwaited ==
    (\E x \in Sessions : task[x].cancelled) => \E s \in Scopes : cancel[s] = "draining"

CancelsFit == CancelsAgree /\ CancelWrites /\ SettlesOpen /\ DrainsTurns /\ CancelledIsAwaited

\* A track has its message in the queue of a session, or the session runs, or
\* the message is about to be sent, or a cancel will close the track.
Held(m) ==
    \/ Target(m) \in running \/ m \in ToSet(queue[Target(m)])
    \/ m.kind = "task" /\ task[Root].pc = "asking"
    \/ m.kind = "result" /\ task[Child].pc = "tracking"
    \/ \E s \in Scopes : cancel[s] \in {"draining", "drained"}

HeldTracks == \A m \in tracks : Held(m)

\* A session that is about to stop has no track, and its receipts are known.
Stopping ==
    \A x \in Sessions :
        /\ task[x].pc \in {"peek", "mark", "leave"} => \A m \in tracks : Target(m) # x
        /\ task[x].pc = "mark" /\ ~task[x].left => work[x] = <<>>
        /\ task[x].pc = "leave" /\ x \notin pendingInput => work[x] = <<>>

KnownWork == \A x \in Sessions : work[x] # <<>> => x \in running \/ x \in pendingInput

WorkFits == HeldTracks /\ Stopping /\ KnownWork

\* Something goes on that ends with a signal, or a decision is awaited.
Stirring ==
    \/ CurrentState = "awaiting" \/ running # {} \/ pendingInput # {}
    \/ \E x \in Sessions : queue[x] # <<>>
    \/ \E s \in Scopes : cancel[s] \notin {"none", "done"}
    \/ \E w \in Pending : w.by \notin {"activate", "note"}

Sleeping == \A s \in Scopes : client[s] = "asleep" /\ s \notin event.woken => Stirring

Aware == CancelsFit /\ WorkFits /\ Sleeping

\* While its cancel is at work a scope stays in CANCELLING.
LEMMA CancelsGoOn ==
    ASSUME IInv, CancelsAgree, Moves,
           \A s \in Scopes : cancel[s] = "cleaned" => cancel'[s] # "done"
    PROVE  CancelsAgree'
<1> SUFFICES ASSUME NEW s \in Scopes PROVE rec'[s].state = "cancelling" <=> cancel'[s] \in Closed
  BY DEF CancelsAgree, State
<1>1. rec[s].state = "cancelling" <=> cancel[s] \in Closed
  BY DEF CancelsAgree, State
<1>2. \/ cancel'[s] = cancel[s]
      \/ cancel[s] = "none" /\ cancel'[s] = "starting" /\ client[s] \notin Untouched
      \/ cancel[s] = "starting" /\ cancel'[s] = "closing" /\ rec'[s].state = "cancelling"
      \/ cancel[s] \in {"draining", "drained"} /\ cancel'[s] = "cleaned"
      \/ cancel[s] = "cleaned" /\ cancel'[s] = "settling"
  BY DEF Moves, CancelMoves
<1>3. \/ rec'[s].state = rec[s].state
      \/ client[s] \in Untouched /\ rec'[s].state = "reserved"
      \/ rec[s].state # "cancelling" /\ rec'[s].state \in {"active", "awaiting"}
      \/ cancel[s] = "starting" /\ cancel'[s] = "closing" /\ rec'[s].state = "cancelling"
  BY DEF Moves, Recorded, State
<1>4. client[s] \in Untouched => cancel[s] = "none"
  BY DEF IInv, FreshScopes
<1> QED BY <1>1, <1>2, <1>3, <1>4 DEF Closed

\* Where somebody else runs, a cancel that is at work awaits turns.
LEMMA OpenOrDraining ==
    ASSUME CancelsFit, ~suspends, NEW actor, actor # "cancel", NEW name, Runs(actor, name),
           NEW s \in Scopes
    PROVE  State(s) = "cancelling" <=> cancel[s] = "draining"
<1>1. writes = <<>> /\ cancel[s] \notin MidCancels
  BY RunsAlone
<1>2. cancel[s] \notin {"closing", "settling"}
  BY <1>1 DEF CancelsFit, CancelWrites, Pending, ToSet
<1> QED BY <1>1, <1>2 DEF CancelsFit, CancelsAgree, Closed, MidCancels

\* A registration that nobody settles with.
LEMMA SettlesStayOpen ==
    ASSUME writes' = <<>> \/ \E w : Pending' = {w} /\ w.by \notin {"fail", "wait"}
    PROVE  SettlesOpen'
<1>1. writes' = <<>> => Pending' = {}
  BY DEF Pending, ToSet
<1> QED BY <1>1 DEF SettlesOpen

\* What a step that is nobody's cancel keeps of the cancels.
LEMMA CancelsStay ==
    ASSUME IInv, CancelsFit, ~suspends, NEW actor, NEW name, Runs(actor, name), Moves,
           cancel' = cancel, \A x \in Sessions : task'[x].cancelled => task[x].cancelled,
           SettlesOpen', DrainsTurns'
    PROVE  CancelsFit'
<1>1. CancelsAgree'
  <2>1. \A s \in Scopes : cancel[s] = "cleaned" => cancel'[s] # "done"
    OBVIOUS
  <2> QED BY <2>1, CancelsGoOn DEF CancelsFit
<1>2. CancelWrites'
  <2>1. \A s \in Scopes : cancel[s] \notin {"closing", "settling"}
    BY RunsAlone DEF CancelsFit, CancelWrites, Pending, ToSet
  <2> QED BY <2>1 DEF CancelWrites
<1>3. CancelledIsAwaited'
  BY DEF CancelsFit, CancelledIsAwaited
<1> QED BY <1>1, <1>2, <1>3 DEF CancelsFit

\* What stirs goes on where a step takes nothing away.
LEMMA StirringStays ==
    ASSUME Stirring, writes = <<>>, CurrentState = "awaiting" => CurrentState' = "awaiting",
           running \subseteq running', pendingInput \subseteq pendingInput',
           \A x \in Sessions : queue[x] # <<>> => queue'[x] # <<>>,
           cancel' = cancel
    PROVE  Stirring'
<1>1. Pending = {}
  BY DEF Pending, ToSet
<1> QED BY <1>1 DEF Stirring

-----------------------------------------------------------------------------
(* The clients *)

\* What a step of a client keeps, but for who sleeps.
LEMMA ClientFits ==
    ASSUME IInv, Aware, ~suspends, NEW s \in Scopes, Runs("client", s), Moves,
           NEW pc, client' = [client EXCEPT ![s] = pc], UNCHANGED <<task, cancel, running>>,
           current' \in {current, NoScope, s},
           pc \in Apart /\ current' = s => cancel[s] # "draining",
           SettlesOpen',
           \/ UNCHANGED <<tracks, queue>> \/ tracks' = {},
           \A x \in Sessions : \/ work'[x] = <<>>
                               \/ work'[x] = work[x] /\ (x \in pendingInput => x \in pendingInput')
    PROVE  CancelsFit' /\ WorkFits'
<1>1. client'[s] = pc /\ \A t \in Scopes \ {s} : client'[t] = client[t]
  BY DEF IInv, Typed, ActorTypes
<1>2. DrainsTurns'
  BY <1>1, ScopeAssumption DEF Aware, CancelsFit, DrainsTurns
<1>3. CancelsFit'
  BY <1>2, CancelsStay DEF Aware
<1>4. HeldTracks'
  BY DEF Aware, WorkFits, HeldTracks, Held
<1>5. Stopping'
  BY RunsAlone DEF Stopping, MidPcs
<1>6. KnownWork'
  BY DEF Aware, WorkFits, KnownWork
<1> QED BY <1>3, <1>4, <1>5, <1>6 DEF WorkFits

\* A client begins a registration that somebody waits for.
LEMMA WriteStirs ==
    ASSUME NEW w, Pending' = {w}, w.by \notin {"activate", "note"}
    PROVE  Stirring' /\ Sleeping'
<1>1. Stirring'
  BY DEF Stirring
<1> QED BY <1>1 DEF Sleeping

\* Who slept sleeps on where things go on stirring,
LEMMA SleepingStays ==
    ASSUME Sleeping, Stirring => Stirring',
           \A t \in Scopes : client'[t] = "asleep" =>
               Stirring' \/ (client[t] = "asleep" /\ (t \in event.woken => t \in event'.woken))
    PROVE  Sleeping'
  BY DEF Sleeping

\* and a signal wakes them all.
LEMMA SignalWakesAll ==
    ASSUME Signal, \A t \in Scopes : client'[t] = "asleep" => client[t] = "asleep"
    PROVE  Sleeping'
<1>1. \A t \in Scopes : client[t] = "asleep" => t \in event'.woken
  BY DEF Signal
<1> QED BY <1>1 DEF Sleeping

\* A client that takes nothing away.
LEMMA ClientStill ==
    ASSUME IInv, Aware, ~suspends, NEW s \in Scopes, Runs("client", s), Moves,
           NEW pc, client' = [client EXCEPT ![s] = pc], pc \notin Apart,
           UNCHANGED <<current, rec, writes, queue, work, tracks, running, pendingInput, task, cancel>>,
           \A t \in event.woken : t # s => t \in event'.woken,
           pc = "asleep" => Stirring
    PROVE  Aware'
<1>1. client'[s] = pc /\ \A t \in Scopes \ {s} : client'[t] = client[t]
  BY DEF IInv, Typed, ActorTypes
<1>2. writes = <<>>
  BY RunsAlone
<1>3. SettlesOpen'
  BY <1>2, SettlesStayOpen
<1>4. CancelsFit' /\ WorkFits'
  BY <1>3, ClientFits
<1>5. Stirring => Stirring'
  <2>1. CurrentState' = CurrentState
    BY DEF CurrentState, State
  <2> QED BY <1>2, <2>1, StirringStays
<1>6. Sleeping'
  BY <1>1, <1>5, SleepingStays DEF Aware
<1> QED BY <1>4, <1>6 DEF Aware

LEMMA InstallAware ==
    ASSUME IInv, Aware, ~suspends, NEW s \in Scopes, Runs("client", s), Moves,
           client[s] \in {"new", "interrupted"}, Install(s),
           UNCHANGED <<queue, work, tracks, running, pendingInput, task, cancel>>
    PROVE  Aware'
<1> DEFINE w == [by |-> "begin", scope |-> s, state |-> "reserved"]
<1>1. /\ client' = [client EXCEPT ![s] = "beginning"] /\ current' = s /\ writes' = Append(writes, w)
  BY DEF Install, Write
<1>2. w.by = "begin"
  OBVIOUS
<1> HIDE DEF w
<1>3. Pending' = {w}
  BY <1>1, RunsAlone, OneWrite
<1>4. SettlesOpen'
  BY <1>2, <1>3, SettlesStayOpen
<1>5. cancel[s] # "draining"
  BY DEF IInv, FreshScopes, Untouched
<1>6. CancelsFit' /\ WorkFits'
  BY <1>1, <1>4, <1>5, ClientFits
<1>7. Sleeping'
  BY <1>2, <1>3, WriteStirs
<1> QED BY <1>6, <1>7 DEF Aware

LEMMA BeginAware == ASSUME IInv, Aware, ~suspends, NEW s \in Scopes, Begin(s), Moves PROVE Aware'
<1>1. /\ client[s] = "new" /\ Runs("client", s) /\ UNCHANGED <<task, cancel>>
  BY DEF Begin
<1>2. CASE Install(s)
  <2>1. UNCHANGED <<queue, work, tracks, running, pendingInput>>
    BY <1>2, <1>1, RunsAlone, OneWrite DEF Begin, Install, Write, inbox, tree
  <2> QED BY <1>1, <1>2, <2>1, InstallAware
<1>3. CASE ~Install(s)
  <2> DEFINE w == [by |-> "interrupt", scope |-> disk.scope, state |-> "interrupted"]
  <2>1. /\ writes' = Append(writes, w) /\ client' = [client EXCEPT ![s] = "interrupting"]
        /\ work' = [x \in Sessions |-> <<>>] /\ tracks' = {} /\ UNCHANGED <<current, running>>
    BY <1>3 DEF Begin, Write
  <2>2. w.by = "interrupt" /\ "interrupting" \notin Apart
    BY DEF Apart
  <2> HIDE DEF w
  <2>3. Pending' = {w}
    BY <1>1, <2>1, RunsAlone, OneWrite
  <2>4. SettlesOpen'
    BY <2>2, <2>3, SettlesStayOpen
  <2>5. \A x \in Sessions : work'[x] = <<>>
    BY <2>1
  <2>6. CancelsFit' /\ WorkFits'
    BY <1>1, <2>1, <2>2, <2>4, <2>5, ClientFits
  <2>7. Sleeping'
    BY <2>2, <2>3, WriteStirs
  <2> QED BY <2>6, <2>7 DEF Aware
<1> QED BY <1>2, <1>3

LEMMA InterruptedBeginAware ==
    ASSUME IInv, Aware, ~suspends, NEW s \in Scopes, InterruptedBegin(s), Moves PROVE Aware'
  BY InstallAware DEF InterruptedBegin, inbox, tree

LEMMA ReleaseAware == ASSUME IInv, Aware, ~suspends, NEW s \in Scopes, Release(s), Moves PROVE Aware'
<1>1. /\ client[s] = "reserved" /\ Runs("client", s)
      /\ UNCHANGED <<rec, queue, work, tracks, running, pendingInput, event, task, cancel>>
  BY DEF Release, inbox, tree
<1>2. CASE current = s /\ State(s) = "reserved"
  <2> DEFINE w == [by |-> "release", scope |-> NoScope, state |-> "none"]
  <2>1. /\ client' = [client EXCEPT ![s] = "releasing"] /\ current' = NoScope
        /\ writes' = Append(writes, w)
    BY <1>2 DEF Release, Write
  <2>2. w.by = "release" /\ "releasing" \notin Apart
    BY DEF Apart
  <2> HIDE DEF w
  <2>3. Pending' = {w}
    BY <1>1, <2>1, RunsAlone, OneWrite
  <2>4. SettlesOpen'
    BY <2>2, <2>3, SettlesStayOpen
  <2>5. CancelsFit' /\ WorkFits'
    BY <1>1, <2>1, <2>2, <2>4, ClientFits
  <2>6. Sleeping'
    BY <2>2, <2>3, WriteStirs
  <2> QED BY <2>5, <2>6 DEF Aware
<1>3. CASE ~(current = s /\ State(s) = "reserved")
  <2>1. /\ client' = [client EXCEPT ![s] = "done"] /\ UNCHANGED <<current, writes>>
        /\ "done" \notin Apart
    BY <1>3 DEF Release, Apart
  <2> QED BY <1>1, <2>1, ClientStill
<1> QED BY <1>2, <1>3

\* The request that is activated was not waited for.
LEMMA ActivateAware == ASSUME IInv, Aware, ~suspends, NEW s \in Scopes, Activate(s), Moves PROVE Aware'
<1>1. /\ client[s] = "reserved" /\ Runs("client", s) /\ writes = <<>>
      /\ UNCHANGED <<current, queue, work, tracks, running, pendingInput, event, task, cancel>>
  BY RunsAlone DEF Activate, inbox, tree
<1>2. CASE current = s /\ State(s) = "reserved"
  <2> DEFINE w == [by |-> "activate", scope |-> s, state |-> "active"]
  <2>1. client' = [client EXCEPT ![s] = "activating"] /\ writes' = Append(writes, w)
    BY <1>2 DEF Activate, Transition, Write
  <2>2. w.by = "activate"
    OBVIOUS
  <2> HIDE DEF w
  <2>3. Pending' = {w}
    BY <1>1, <2>1, OneWrite
  <2>4. SettlesOpen'
    BY <2>2, <2>3, SettlesStayOpen
  <2>5. cancel[s] # "draining"
    BY <1>1, <1>2, OpenOrDraining DEF Aware
  <2>6. CancelsFit' /\ WorkFits'
    BY <1>1, <2>1, <2>4, <2>5, ClientFits
  <2>7. Stirring => Stirring'
    <3>1. CurrentState # "awaiting"
      BY <1>2, ScopeAssumption DEF CurrentState
    <3> QED BY <1>1, <3>1, StirringStays
  <2>8. client'[s] = "activating" /\ \A t \in Scopes \ {s} : client'[t] = client[t]
    BY <2>1 DEF IInv, Typed, ActorTypes
  <2>9. Sleeping'
    BY <1>1, <2>7, <2>8, SleepingStays DEF Aware
  <2> QED BY <2>6, <2>9 DEF Aware
<1>3. CASE ~(current = s /\ State(s) = "reserved")
  <2>1. /\ client' = [client EXCEPT ![s] = "done"] /\ UNCHANGED <<rec, writes>>
        /\ "done" \notin Apart
    BY <1>3 DEF Activate, Apart
  <2> QED BY <1>1, <2>1, ClientStill
<1> QED BY <1>2, <1>3

\* No prompt comes to a scope whose cancel is at work: nobody settles it twice.
LEMMA SubmitAware == ASSUME IInv, Aware, ~suspends, NEW s \in Scopes, Submit(s), Moves PROVE Aware'
<1>1. /\ client[s] = "submitting" /\ Runs("client", s) /\ writes = <<>>
      /\ UNCHANGED <<current, queue, work, tracks, running, event, task, cancel>>
  BY RunsAlone DEF Submit, inbox
<1>2. CASE Live(s) /\ State(s) # "cancelling"
  <2>1. /\ pendingInput' = pendingInput \union {Root} /\ client' = [client EXCEPT ![s] = "delivering"]
        /\ UNCHANGED <<rec, writes>>
    BY <1>2 DEF Submit
  <2>2. SettlesOpen'
    BY <1>1, <2>1, SettlesStayOpen
  <2>3. cancel[s] # "draining"
    BY <1>1, <1>2, OpenOrDraining DEF Aware
  <2>4. CancelsFit' /\ WorkFits'
    BY <1>1, <2>1, <2>2, <2>3, ClientFits
  <2>5. Sleeping'
    BY <2>1 DEF Sleeping, Stirring
  <2> QED BY <2>4, <2>5 DEF Aware
<1>3. ASSUME Live(s), State(s) = "cancelling" PROVE FALSE
  <2>1. cancel[s] = "draining"
    BY <1>1, <1>3, OpenOrDraining DEF Aware
  <2> QED BY <1>1, <1>3, <2>1 DEF Live, Aware, CancelsFit, DrainsTurns, Apart
<1>4. CASE ~Live(s)
  <2>1. /\ client' = [client EXCEPT ![s] = "done"] /\ UNCHANGED <<rec, writes, pendingInput>>
        /\ "done" \notin Apart
    BY <1>4 DEF Submit, Apart
  <2> QED BY <1>1, <2>1, ClientStill
<1> QED BY <1>2, <1>3, <1>4

\* A tree to which a prompt is delivered is calm.
LEMMA DeliveryIsCalm ==
    ASSUME Serial, NEW s \in Scopes, client[s] = "delivering"
    PROVE  Calm /\ current = s /\ State(s) \in {"active", "awaiting"} /\ Live(s)
  BY DEF Serial, Places, Delivering, Rest, Resting, Apart, Live, Terminal

LEMMA DeliverAware ==
    ASSUME IInv, Serial, Aware, ~suspends, NEW s \in Scopes, Deliver(s), Moves PROVE Aware'
<1>1. /\ client[s] = "delivering" /\ Runs("client", s) /\ writes = <<>> /\ writes' = writes
      /\ client' = [client EXCEPT ![s] = "waiting"] /\ Signal
      /\ UNCHANGED <<current, work, tracks, running, pendingInput, task, cancel>>
  BY RunsAlone DEF Deliver, scope, stores
<1>2. tracks = {} /\ \A x \in Sessions : work[x] = <<>>
  BY <1>1, DeliveryIsCalm DEF Calm
<1>3. SettlesOpen' /\ "waiting" \notin Apart
  BY <1>1, SettlesStayOpen DEF Apart
<1>4. CancelsFit' /\ WorkFits'
  BY <1>1, <1>2, <1>3, ClientFits
<1>5. Sleeping'
  <2>1. client'[s] = "waiting" /\ \A t \in Scopes \ {s} : client'[t] = client[t]
    BY <1>1 DEF IInv, Typed, ActorTypes
  <2> QED BY <1>1, <2>1, SignalWakesAll
<1> QED BY <1>4, <1>5 DEF Aware

\* A client that settles a scope which is open.
LEMMA SettleAware ==
    ASSUME IInv, Aware, ~suspends, NEW s \in Scopes, Runs("client", s), Moves,
           State(s) # "cancelling", NEW by \in {"fail", "wait"}, NEW state, Settle(by, s, state),
           NEW pc, client' = [client EXCEPT ![s] = pc],
           UNCHANGED <<current, queue, work, tracks, running, task, cancel>>,
           \A x \in Sessions : work[x] = <<>> \/ (x \in pendingInput => x \in pendingInput')
    PROVE  Aware'
<1> DEFINE w == [by |-> by, scope |-> s, state |-> state]
<1>1. writes' = Append(writes, w) /\ rec' = rec
  BY DEF Settle, Write
<1>2. w.by \in {"fail", "wait"} /\ w.scope = s
  OBVIOUS
<1> HIDE DEF w
<1>3. Pending' = {w}
  BY <1>1, RunsAlone, OneWrite
<1>4. SettlesOpen'
  BY <1>1, <1>2, <1>3 DEF SettlesOpen, State
<1>5. cancel[s] # "draining"
  BY OpenOrDraining DEF Aware
<1>6. CancelsFit' /\ WorkFits'
  BY <1>4, <1>5, ClientFits
<1>7. Sleeping'
  BY <1>2, <1>3, WriteStirs
<1> QED BY <1>6, <1>7 DEF Aware

LEMMA DeliverFailsAware ==
    ASSUME IInv, Serial, Aware, ~suspends, NEW s \in Scopes, DeliverFails(s), Moves PROVE Aware'
<1>1. /\ client[s] = "delivering" /\ Runs("client", s)
      /\ UNCHANGED <<current, queue, work, tracks, running, task, cancel>>
  BY DEF DeliverFails, inbox
<1>2. Calm /\ State(s) # "cancelling" /\ Live(s)
  BY <1>1, DeliveryIsCalm
<1>3. Settle("fail", s, "failed") /\ client' = [client EXCEPT ![s] = "failing"]
  BY <1>2 DEF DeliverFails
<1>4. \A x \in Sessions : work[x] = <<>>
  BY <1>2 DEF Calm
<1> QED BY <1>1, <1>2, <1>3, <1>4, SettleAware

LEMMA CallAware ==
    ASSUME IInv, Serial, Aware, ~suspends, NEW s \in Scopes, Call(s), Moves PROVE Aware'
  BY BeginAware, InterruptedBeginAware, ReleaseAware, ActivateAware, SubmitAware, DeliverAware,
     DeliverFailsAware DEF Call

\* The waiter goes to sleep only where it has seen what will wake it.
LEMMA WaitAware ==
    ASSUME IInv, Serial, Aware, ~suspends, NEW s \in Scopes, Wait(s), Moves PROVE Aware'
<1>1. Runs("client", s) /\ writes = <<>>
  BY RunsAlone DEF Wait, Look, LookAtRunning, LookAtTracks, LookAtRest, Joined
<1>2. \A pc \in {"waiting", "asleep", "running", "tracks", "rest", "joining", "done"} : pc \notin Apart
  BY DEF Apart
<1>3. ASSUME NEW pc \in {"waiting", "asleep", "running", "tracks", "rest", "joining", "done"}, Goes(s, pc),
             UNCHANGED <<current, rec, writes, queue, work, tracks, running, pendingInput, task, cancel>>,
             \A t \in event.woken : t # s => t \in event'.woken,
             pc = "asleep" => Stirring
      PROVE  Aware'
  <2>1. pc \notin Apart /\ client' = [client EXCEPT ![s] = pc]
    BY <1>2, <1>3 DEF Goes
  <2> QED BY <1>1, <1>3, <2>1, ClientStill
<1>4. ASSUME WaitFrame(s)
      PROVE  UNCHANGED <<current, rec, writes, queue, work, tracks, running, pendingInput, task, cancel>>
  BY <1>4 DEF WaitFrame, scope, stores, inbox
<1>5. CASE Look(s)
  <2>1. \A t \in event.woken : t # s => t \in event'.woken
    BY <1>5 DEF Look
  <2> QED BY <1>3, <1>4, <1>5, <2>1 DEF Look
<1>6. CASE LookAtRunning(s)
  <2>1. PICK pc \in {"waiting", "asleep", "tracks"} : Goes(s, pc) /\ (pc = "asleep" => running # {})
    BY <1>6, SleepIsNoWrite DEF LookAtRunning
  <2>2. event' = event /\ (pc = "asleep" => Stirring)
    BY <1>6, <2>1 DEF LookAtRunning, Stirring
  <2> QED BY <1>3, <1>4, <1>6, <2>1, <2>2 DEF LookAtRunning
<1>7. CASE LookAtTracks(s)
  <2>1. PICK pc \in {"waiting", "asleep", "rest"} : Goes(s, pc) /\ (pc = "asleep" => tracks # {})
    BY <1>7, SleepIsNoWrite DEF LookAtTracks
  <2>2. ASSUME tracks # {} PROVE Stirring
    <3>1. PICK m \in tracks : Held(m)
      BY <2>2 DEF Aware, WorkFits, HeldTracks
    <3>2. Target(m) \in Sessions /\ ToSet(<<>>) = {}
      BY TheSessions DEF Target, ToSet
    <3>3. m \in ToSet(queue[Target(m)]) => queue[Target(m)] # <<>>
      BY <3>2
    <3>4. \A x \in Sessions : task[x].pc \notin MidPcs
      BY <1>1, RunsAlone
    <3> QED BY <3>1, <3>2, <3>3, <3>4, TheSessions DEF Held, Stirring, MidPcs
  <2>3. event' = event /\ (pc = "asleep" => Stirring)
    BY <1>7, <2>1, <2>2 DEF LookAtTracks
  <2> QED BY <1>3, <1>4, <1>7, <2>1, <2>3 DEF LookAtTracks
<1>8. CASE Joined(s)
  BY <1>3, <1>4, <1>8 DEF Joined
<1>9. CASE LookAtRest(s)
  <2>1. UNCHANGED <<current, queue, work, tracks, running, pendingInput, event, task, cancel>>
    BY <1>9 DEF LookAtRest, inbox, tree
  <2>2. CASE PendingWork
    <3>1. Stirring
      BY <2>2 DEF PendingWork, Stirring, Aware, WorkFits, KnownWork
    <3>2. Sleep \in {"waiting", "asleep"} /\ Goes(s, Sleep) /\ UNCHANGED <<rec, writes>>
      BY <1>9, <2>2, SleepIsNoWrite DEF LookAtRest
    <3> QED BY <1>3, <2>1, <3>1, <3>2
  <2>3. CASE ~PendingWork /\ (~Live(s) \/ State(s) = "cancelling")
    <3>1. \E pc \in {"done", "joining"} : Goes(s, pc) /\ UNCHANGED <<rec, writes>>
      BY <1>9, <2>3 DEF LookAtRest
    <3> QED BY <1>3, <2>1, <3>1
  <2>4. CASE ~PendingWork /\ Live(s) /\ State(s) # "cancelling"
    <3>1. Settle("wait", s, OutcomeOf(s)) /\ client' = [client EXCEPT ![s] = "settling"]
      BY <1>9, <2>4 DEF LookAtRest, Goes
    <3> HIDE DEF Settle
    <3> QED BY <1>1, <2>1, <2>4, <3>1, SettleAware
  <2> QED BY <2>2, <2>3, <2>4
<1> QED BY <1>5, <1>6, <1>7, <1>8, <1>9 DEF Wait

-----------------------------------------------------------------------------
(* Decisions and cancels *)

\* A decision that is on its way is known, and one that has come wakes all.
LEMMA ApproveAware ==
    ASSUME IInv, Serial, Aware, ~suspends, NEW s \in Scopes, Approve(s), Moves PROVE Aware'
<1>1. /\ Runs("decide", s)
      /\ UNCHANGED <<current, rec, writes, work, tracks, running, client, task, cancel>>
  BY DEF Approve, Decide, DeliverDecision, scope, stores, inbox
<1>2. writes' = <<>> /\ \A x \in Sessions : task'[x].pc \notin MidPcs
  BY <1>1, RunsAlone
<1>3. CancelsFit'
  <2>1. SettlesOpen' /\ DrainsTurns'
    BY <1>1, <1>2, SettlesStayOpen DEF Aware, CancelsFit, DrainsTurns
  <2> QED BY <1>1, <2>1, CancelsStay DEF Aware
<1>4. Stopping'
  BY <1>2 DEF Stopping, MidPcs
<1>5. CASE Decide(s)
  <2>1. pendingInput' = pendingInput \union {Root} /\ queue' = queue
    BY <1>5 DEF Decide, inbox
  <2>2. HeldTracks'
    BY <1>1, <2>1 DEF Aware, WorkFits, HeldTracks, Held
  <2>3. KnownWork'
    BY <1>1, <2>1 DEF Aware, WorkFits, KnownWork
  <2>4. Sleeping'
    BY <2>1 DEF Sleeping, Stirring
  <2> QED BY <1>3, <1>4, <2>2, <2>3, <2>4 DEF Aware, WorkFits
<1>6. CASE DeliverDecision(s)
  <2> DEFINE m == Message("decision", NoScope)
  <2>1. queue' = [queue EXCEPT ![Root] = Append(@, m)] /\ pendingInput' = pendingInput /\ Signal
    BY <1>6 DEF DeliverDecision
  <2>2. m \in Messages /\ Fits(Root, m)
    BY MessageTypes DEF Fits, Message, Target
  <2> HIDE DEF m
  <2>3. \A x \in Sessions : ToSet(queue[x]) \subseteq ToSet(queue'[x])
    BY <1>1, <2>1, <2>2, TheSessions, AppendPlaced DEF IInv, Serial, Works
  <2>4. HeldTracks'
    <3>1. \A n \in tracks : Target(n) \in Sessions
      BY TheSessions DEF Target
    <3> QED BY <1>1, <2>3, <3>1 DEF Aware, WorkFits, HeldTracks, Held
  <2>5. KnownWork'
    BY <1>1, <2>1 DEF Aware, WorkFits, KnownWork
  <2>6. Sleeping'
    BY <1>1, <2>1, SignalWakesAll
  <2> QED BY <1>3, <1>4, <2>4, <2>5, <2>6 DEF Aware, WorkFits
<1> QED BY <1>5, <1>6 DEF Approve

\* A cancel that goes on will signal.
LEMMA CancelGoesOn ==
    ASSUME IInv, Aware, ~suspends, NEW s \in Scopes, Runs("cancel", s), Moves,
           cancel[s] \notin {"draining", "drained"},
           NEW c \in {"starting", "closing", "settling"}, cancel' = [cancel EXCEPT ![s] = c],
           UNCHANGED <<current, queue, work, tracks, running, pendingInput, client, task>>,
           \/ c = "starting" /\ writes' = <<>>
           \/ \E w : /\ Pending' = {w} /\ w.scope = s
                     /\ w.by = IF c = "closing" THEN "close" ELSE "cancel"
    PROVE  Aware'
<1>1. /\ Pending = {}
      /\ \A x \in Sessions : task[x].pc \notin MidPcs
  <2>1. writes = <<>>
    BY RunsAlone
  <2> QED BY <2>1, RunsAlone DEF Pending, ToSet
<1>2. cancel'[s] = c /\ \A t \in Scopes \ {s} : cancel'[t] = cancel[t]
  BY DEF IInv, Typed, ActorTypes
<1>3. CancelsAgree'
  <2>1. \A t \in Scopes : cancel[t] = "cleaned" => cancel'[t] # "done"
    BY <1>2
  <2> QED BY <2>1, CancelsGoOn DEF Aware, CancelsFit
<1>4. CancelWrites'
  <2>1. \A t \in Scopes : cancel[t] \notin {"closing", "settling"}
    BY <1>1 DEF Aware, CancelsFit, CancelWrites
  <2>2. c = "closing" => \E w \in Pending' : w.by = "close" /\ w.scope = s
    OBVIOUS
  <2>3. c = "settling" => \E w \in Pending' : w.by = "cancel" /\ w.scope = s
    OBVIOUS
  <2> QED BY <1>2, <2>1, <2>2, <2>3 DEF CancelWrites
<1>5. SettlesOpen'
  <2>1. writes' = <<>> \/ \E w : Pending' = {w} /\ w.by \notin {"fail", "wait"}
    OBVIOUS
  <2> QED BY <2>1, SettlesStayOpen
<1>6. DrainsTurns' /\ CancelledIsAwaited'
  BY <1>2 DEF Aware, CancelsFit, DrainsTurns, CancelledIsAwaited
<1>7. HeldTracks'
  BY <1>2 DEF Aware, WorkFits, HeldTracks, Held
<1>8. Stopping' /\ KnownWork'
  BY <1>1 DEF Stopping, MidPcs, Aware, WorkFits, KnownWork
<1>9. Sleeping'
  BY <1>2 DEF Sleeping, Stirring
<1> QED BY <1>3, <1>4, <1>5, <1>6, <1>7, <1>8, <1>9 DEF Aware, CancelsFit, WorkFits

LEMMA CleanUpAware ==
    ASSUME IInv, Aware, ~suspends, NEW s \in Scopes, CleanUp(s), Moves PROVE Aware'
<1>1. /\ Runs("cancel", s) /\ cancel[s] \in {"draining", "drained"} /\ Drained(s)
      /\ tracks' = {} /\ work' = [x \in Sessions |-> <<>>]
      /\ cancel' = [cancel EXCEPT ![s] = "cleaned"]
      /\ UNCHANGED <<current, writes, client, task>>
  BY DEF CleanUp, CancelFrame
<1>2. /\ writes' = <<>> /\ Pending = {}
      /\ \A x \in Sessions : task[x].pc \notin MidPcs
  <2>1. writes = <<>>
    BY <1>1, RunsAlone
  <2> QED BY <1>1, <2>1, RunsAlone DEF Pending, ToSet
<1>3. cancel'[s] = "cleaned" /\ \A t \in Scopes \ {s} : cancel'[t] = cancel[t]
  BY <1>1 DEF IInv, Typed, ActorTypes
<1>4. CancelsAgree'
  <2>1. \A t \in Scopes : cancel[t] = "cleaned" => cancel'[t] # "done"
    BY <1>3
  <2> QED BY <2>1, CancelsGoOn DEF Aware, CancelsFit
<1>5. CancelWrites'
  BY <1>2, <1>3 DEF Aware, CancelsFit, CancelWrites
<1>6. SettlesOpen'
  BY <1>2, SettlesStayOpen
<1>7. DrainsTurns' /\ CancelledIsAwaited'
  BY <1>1, <1>3 DEF Aware, CancelsFit, DrainsTurns, CancelledIsAwaited, Drained
<1>8. HeldTracks' /\ Stopping' /\ KnownWork'
  BY <1>1, <1>2 DEF HeldTracks, Stopping, MidPcs, KnownWork
<1>9. Sleeping'
  BY <1>3 DEF Sleeping, Stirring
<1> QED BY <1>4, <1>5, <1>6, <1>7, <1>8, <1>9 DEF Aware, CancelsFit, WorkFits

LEMMA FinalizeAware ==
    ASSUME IInv, Serial, Aware, ~suspends, NEW s \in Scopes, CancelRequest(s) \/ Finalize(s), Moves
    PROVE  Aware'
<1>1. CASE CancelRequest(s)
  <2>1. /\ Runs("cancel", s) /\ cancel[s] = "none" /\ cancel' = [cancel EXCEPT ![s] = "starting"]
        /\ UNCHANGED <<current, queue, work, tracks, running, pendingInput, client, task, writes>>
    BY <1>1 DEF CancelRequest, CancelFrame, inbox, tree
  <2>2. writes' = <<>>
    BY <2>1, RunsAlone
  <2> QED BY <2>1, <2>2, CancelGoesOn
<1>2. CASE CloseScope(s)
  <2> DEFINE w == [by |-> "close", scope |-> s, state |-> "cancelling"]
  <2>1. /\ Runs("cancel", s) /\ cancel[s] = "starting" /\ cancel' = [cancel EXCEPT ![s] = "closing"]
        /\ UNCHANGED <<current, queue, work, tracks, running, pendingInput, client, task>>
        /\ writes' = Append(writes, w)
    BY <1>2 DEF CloseScope, CancelFrame, inbox, tree, Transition, Write
  <2>2. w.by = "close" /\ w.scope = s
    OBVIOUS
  <2> HIDE DEF w
  <2>3. Pending' = {w}
    BY <2>1, RunsAlone, OneWrite
  <2>4. \E v : Pending' = {v} /\ v.scope = s /\ v.by = IF "closing" = "closing" THEN "close" ELSE "cancel"
    BY <2>2, <2>3
  <2> QED BY <2>1, <2>4, CancelGoesOn
<1>3. CASE CancelSettles(s)
  <2>1. State(s) \notin Terminal
    BY <1>3 DEF CancelSettles, Aware, CancelsFit, CancelsAgree, Closed, Terminal
  <2>2. PICK state : Settle("cancel", s, state)
    BY <1>3, <2>1 DEF CancelSettles
  <2> DEFINE w == [by |-> "cancel", scope |-> s, state |-> state]
  <2>3. /\ Runs("cancel", s) /\ cancel[s] = "cleaned" /\ cancel' = [cancel EXCEPT ![s] = "settling"]
        /\ UNCHANGED <<current, queue, work, tracks, running, pendingInput, client, task>>
        /\ writes' = Append(writes, w)
    BY <1>3, <2>1, <2>2 DEF CancelSettles, CancelFrame, inbox, tree, Settle, Write
  <2>4. w.by = "cancel" /\ w.scope = s
    OBVIOUS
  <2> HIDE DEF w
  <2>5. Pending' = {w}
    BY <2>3, RunsAlone, OneWrite
  <2>6. \E v : Pending' = {v} /\ v.scope = s /\ v.by = IF "settling" = "closing" THEN "close" ELSE "cancel"
    BY <2>4, <2>5
  <2> QED BY <2>3, <2>6, CancelGoesOn
<1> QED BY <1>1, <1>2, <1>3, CleanUpAware DEF Finalize

-----------------------------------------------------------------------------
(* The turns *)

\* A session that runs may take its own messages and close tracks.
LEMMA HeldWhileRunning ==
    ASSUME HeldTracks, NEW x \in Sessions, x \in running', cancel' = cancel,
           \A y \in Sessions \ {x} : /\ task'[y] = task[y] /\ (y \in running => y \in running')
                                     /\ ToSet(queue[y]) \subseteq ToSet(queue'[y]),
           task[x].pc \notin {"asking", "tracking"},
           \A m \in tracks' : m \in tracks \/ Held(m)'
    PROVE  HeldTracks'
<1> SUFFICES ASSUME NEW m \in tracks PROVE Held(m)'
  BY DEF HeldTracks
<1>1. Target(m) \in Sessions /\ Target(m)' = Target(m)
  BY TheSessions DEF Target
<1>2. Held(m)
  BY DEF HeldTracks
<1> QED BY <1>1, <1>2, TheSessions DEF Held

\* A message that is sent holds its track,
LEMMA HeldBySending ==
    ASSUME HeldTracks, NEW x \in Sessions, NEW m, UNCHANGED <<cancel, tracks, running>>, x \in running,
           \A y \in Sessions \ {x} : task'[y] = task[y],
           \A y \in Sessions : ToSet(queue[y]) \subseteq ToSet(queue'[y]),
           Target(m) \in Sessions, m \in ToSet(queue'[Target(m)]),
           \A n \in tracks : n.kind = m.kind => n = m,
           x = Root => m.kind = "task", x = Child => m.kind = "result"
    PROVE  HeldTracks'
<1> SUFFICES ASSUME NEW n \in tracks PROVE Held(n)'
  BY DEF HeldTracks
<1>1. Target(n) \in Sessions /\ Target(n)' = Target(n)
  BY TheSessions DEF Target
<1>2. Held(n)
  BY DEF HeldTracks
<1>3. n = m => Held(n)'
  BY <1>1 DEF Held
<1> QED BY <1>1, <1>2, <1>3, TheSessions DEF Held

\* and it is the only one of its kind.
LEMMA OneTrack ==
    ASSUME Typed, Placed, NEW kind, NEW n \in tracks, n.kind = kind
    PROVE  n = Message(kind, current)
<1>1. n \in Messages /\ n.scope = current
  BY DEF Typed, InboxTypes, Placed
<1> QED BY <1>1 DEF Messages, Message

\* What the task of a session must leave behind for its tracks and receipts.
StopFits(x) ==
    /\ task'[x].pc \in {"peek", "mark", "leave"} => \A m \in tracks' : Target(m) # x
    /\ task'[x].pc = "mark" /\ ~task'[x].left => work'[x] = <<>>
    /\ task'[x].pc = "leave" /\ x \notin pendingInput' => work'[x] = <<>>

\* Where a session runs on, nobody needs to be woken.
LEMMA TaskAware ==
    ASSUME IInv, Aware, ~suspends, NEW x \in Sessions, Runs("task", x), Moves,
           UNCHANGED <<current, client, cancel>>,
           \A y \in Sessions \ {x} : /\ task'[y] = task[y] /\ work'[y] = work[y]
                                     /\ y \in running => y \in running'
                                     /\ y \in pendingInput => y \in pendingInput',
           task'[x].cancelled => task[x].cancelled, x \in running',
           writes' = <<>> \/ \E w : Pending' = {w} /\ w.by \notin {"fail", "wait"},
           StopFits(x), HeldTracks'
    PROVE  Aware'
<1>1. CancelsFit'
  <2>1. SettlesOpen'
    BY SettlesStayOpen
  <2>2. DrainsTurns'
    BY DEF Aware, CancelsFit, DrainsTurns
  <2>3. \A y \in Sessions : task'[y].cancelled => task[y].cancelled
    OBVIOUS
  <2> QED BY <2>1, <2>2, <2>3, CancelsStay DEF Aware
<1>2. Stopping'
  <2>1. \A y \in Sessions \ {x} : task'[y].pc \notin MidPcs
    BY RunsAlone
  <2>2. \A m : Target(m)' = Target(m)
    BY DEF Target
  <2> QED BY <2>1, <2>2 DEF Stopping, StopFits, MidPcs
<1>3. KnownWork'
  BY DEF Aware, WorkFits, KnownWork
<1>4. Sleeping'
  BY DEF Sleeping, Stirring
<1> QED BY <1>1, <1>2, <1>3, <1>4 DEF Aware, WorkFits

\* A session that goes on, without a message to the other one.
LEMMA RunAware ==
    ASSUME IInv, Aware, ~suspends, NEW x \in Sessions, Runs("task", x), Moves,
           UNCHANGED <<current, client, cancel, writes>>,
           \A y \in Sessions \ {x} : /\ task'[y] = task[y] /\ work'[y] = work[y] /\ queue'[y] = queue[y]
                                     /\ y \in running => y \in running'
                                     /\ y \in pendingInput => y \in pendingInput',
           task'[x].cancelled => task[x].cancelled, x \in running',
           task[x].pc \notin {"asking", "tracking"}, StopFits(x),
           \A m \in tracks' : m \in tracks \/ Held(m)'
    PROVE  Aware'
<1>1. writes' = <<>>
  BY RunsAlone
<1>2. HeldTracks'
  BY HeldWhileRunning DEF Aware, WorkFits
<1> QED BY <1>1, <1>2, TaskAware

LEMMA StartAware ==
    ASSUME IInv, Serial, Aware, ~suspends, NEW x \in Sessions, StartDispatch(x), Moves PROVE Aware'
<1>1. /\ Runs("task", x) /\ task[x].pc = "idle" /\ Step(x, "start")
      /\ running' = running \union {x} /\ pendingInput' = pendingInput \ {x}
      /\ UNCHANGED <<current, writes, client, cancel, queue, work, tracks>>
  BY DEF StartDispatch, At, TaskFrame, inbox
<1>2. /\ \A y \in Sessions \ {x} : task'[y] = task[y]
      /\ task'[x].pc = "start" /\ task'[x].cancelled = task[x].cancelled
  BY <1>1, TaskStep DEF IInv, Typed
<1>3. StopFits(x)
  BY <1>2 DEF StopFits
<1> QED BY <1>1, <1>2, <1>3, RunAware

LEMMA ConsumeAware ==
    ASSUME IInv, Serial, Aware, ~suspends, NEW x \in Sessions, Consume(x), Moves PROVE Aware'
<1>1. /\ Runs("task", x) /\ task[x].pc = "start"
      /\ UNCHANGED <<current, writes, client, cancel, tracks, running, pendingInput>>
  BY DEF Consume, At, TaskFrame, tree
<1>2. PICK b, k, q : /\ task' = [task EXCEPT ![x].pc = "next", ![x].batch = b]
                     /\ work' = [work EXCEPT ![x] = k] /\ queue' = [queue EXCEPT ![x] = q]
  BY DEF Consume
<1>3. \A y \in Sessions \ {x} : work'[y] = work[y] /\ queue'[y] = queue[y]
  BY <1>2 DEF IInv, Typed, InboxTypes
<1>4. /\ \A y \in Sessions \ {x} : task'[y] = task[y]
      /\ task'[x].pc = "next" /\ task'[x].cancelled = task[x].cancelled
  BY <1>2, TaskBatch DEF IInv, Typed
<1>5. StopFits(x) /\ x \in running'
  BY <1>1, <1>4 DEF StopFits, IInv, Typed, TaskTypes
<1> QED BY <1>1, <1>3, <1>4, <1>5, RunAware

LEMMA AdmitAware ==
    ASSUME IInv, Serial, Aware, ~suspends, NEW x \in Sessions, Admit(x) \/ AckTurn(x), Moves
    PROVE  Aware'
<1> DEFINE m == Head(task[x].batch)
           b == Tail(task[x].batch)
<1>1. /\ Runs("task", x) /\ task[x].pc \in {"next", "ack"}
      /\ UNCHANGED <<current, writes, client, cancel, queue, running>>
  BY DEF Admit, AckTurn, At, TaskFrame
<1>2. /\ Acknowledge(x, m) \/ UNCHANGED <<work, tracks, pendingInput>>
      /\ \/ task' = [task EXCEPT ![x].batch = b]
         \/ task' = [task EXCEPT ![x].pc = "next", ![x].batch = b]
         \/ \E to \in {"turn", "stale"} : task' = [task EXCEPT ![x].scope = current, ![x].pc = to]
  <2>1. CASE Admit(x)
    <3> DEFINE to == IF m.kind = "decision" /\ ~snapshot THEN "stale" ELSE "turn"
    <3>1. \/ Acknowledge(x, m) /\ task' = [task EXCEPT ![x].batch = b]
          \/ /\ task' = [task EXCEPT ![x].batch = b] /\ UNCHANGED <<work, tracks, pendingInput>>
          \/ /\ task' = [task EXCEPT ![x].scope = current, ![x].pc = to]
             /\ UNCHANGED <<work, tracks, pendingInput>>
      BY <2>1, Zenon DEF Admit
    <3>2. to \in {"turn", "stale"}
      OBVIOUS
    <3> HIDE DEF to, m, b
    <3> QED BY <3>1, <3>2, Zenon
  <2>2. CASE AckTurn(x)
    BY <2>2 DEF AckTurn
  <2> QED BY <2>1, <2>2
<1> HIDE DEF m, b
<1>3. /\ \A y \in Sessions \ {x} : task'[y] = task[y]
      /\ task'[x].pc \in {"next", "ack", "turn", "stale"} /\ task'[x].cancelled = task[x].cancelled
  <2>1. task \in [Sessions -> Tasks] /\ task[x] \in Tasks
    BY DEF IInv, Typed, TaskTypes
  <2>2. CASE task' = [task EXCEPT ![x].batch = b]
    BY <1>1, <2>1, <2>2 DEF Tasks
  <2>3. CASE task' = [task EXCEPT ![x].pc = "next", ![x].batch = b]
    BY <1>1, <2>1, <2>3 DEF Tasks
  <2>4. CASE \E to \in {"turn", "stale"} : task' = [task EXCEPT ![x].scope = current, ![x].pc = to]
    BY <1>1, <2>1, <2>4 DEF Tasks
  <2> QED BY <1>2, <2>2, <2>3, <2>4
<1>4. /\ \A y \in Sessions \ {x} : work'[y] = work[y] /\ (y \in pendingInput => y \in pendingInput')
      /\ tracks' \subseteq tracks
  BY <1>2, AcknowledgeTakes DEF IInv
<1>5. StopFits(x) /\ x \in running'
  BY <1>1, <1>3 DEF StopFits, IInv, Typed, TaskTypes
<1> QED BY <1>1, <1>3, <1>4, <1>5, RunAware

\* A session that stops has seen its last receipts, or is marked.
LEMMA EndAware ==
    ASSUME IInv, Serial, Aware, ~suspends, NEW x \in Sessions,
           Unwind(x) \/ CloseTracks(x) \/ Peek(x) \/ Mark(x) \/ Leave(x), Moves
    PROVE  Aware'
<1>1. /\ Runs("task", x) /\ task[x].pc # "idle" /\ x \in running
      /\ UNCHANGED <<current, writes, client, cancel, queue, work>>
  BY DEF Unwind, CloseTracks, Peek, Mark, Leave, At, TaskFrame, inbox, IInv, Typed, TaskTypes
<1>2. task \in [Sessions -> Tasks] /\ task[x] \in Tasks
  BY DEF IInv, Typed, TaskTypes
<1>3. CASE Unwind(x)
  <2>1. /\ task' = [task EXCEPT ![x].pc = "end", ![x].batch = <<>>] /\ task[x].cancelled
        /\ UNCHANGED <<tracks, running, pendingInput>>
    BY <1>3 DEF Unwind, inbox, tree
  <2>2. /\ \A y \in Sessions \ {x} : task'[y] = task[y]
        /\ task'[x].pc = "end" /\ task'[x].cancelled = task[x].cancelled
    BY <2>1, TaskBatch DEF IInv, Typed
  <2>3. StopFits(x)
    BY <2>2 DEF StopFits
  <2>4. HeldTracks'
    <3>1. PICK s \in Scopes : cancel[s] = "draining"
      BY <2>1 DEF Aware, CancelsFit, CancelledIsAwaited
    <3> QED BY <1>1, <3>1 DEF HeldTracks, Held
  <2>5. writes' = <<>>
    BY <1>1, RunsAlone
  <2> QED BY <1>1, <2>1, <2>2, <2>3, <2>4, <2>5, TaskAware
<1>4. CASE CloseTracks(x)
  <2>1. /\ tracks' = {m \in tracks : Target(m) # x} /\ task[x].pc \in {"end", "next"}
        /\ task' = [task EXCEPT ![x].pc = "peek", ![x].scope = NoScope]
        /\ UNCHANGED <<running, pendingInput>>
    BY <1>4 DEF CloseTracks, tree
  <2>2. /\ \A y \in Sessions \ {x} : task'[y] = task[y]
        /\ task'[x].pc = "peek" /\ task'[x].cancelled = task[x].cancelled
    BY <1>2, <2>1 DEF Tasks
  <2>3. StopFits(x)
    BY <2>1, <2>2 DEF StopFits
  <2> QED BY <1>1, <2>1, <2>2, <2>3, RunAware
<1>5. CASE Peek(x)
  <2> DEFINE l == work[x] # <<>> \/ queue[x] # <<>>
  <2>1. /\ task' = [task EXCEPT ![x].pc = "mark", ![x].left = l] /\ task[x].pc = "peek"
        /\ UNCHANGED <<tracks, running, pendingInput>>
    BY <1>5 DEF Peek, At, inbox, tree
  <2>2. ~l => work[x] = <<>>
    OBVIOUS
  <2> HIDE DEF l
  <2>3. /\ \A y \in Sessions \ {x} : task'[y] = task[y]
        /\ task'[x].pc = "mark" /\ task'[x].cancelled = task[x].cancelled /\ task'[x].left = l
    BY <1>2, <2>1 DEF Tasks
  <2>4. StopFits(x)
    BY <1>1, <2>1, <2>2, <2>3 DEF StopFits, Aware, WorkFits, Stopping
  <2> QED BY <1>1, <2>1, <2>3, <2>4, RunAware
<1>6. CASE Mark(x)
  <2>1. /\ task[x].pc = "mark" /\ Step(x, "leave") /\ UNCHANGED <<tracks, running>>
        /\ task[x].left => pendingInput' = pendingInput \union {x}
        /\ ~task[x].left => pendingInput' = pendingInput \ {x}
    BY <1>6 DEF Mark, At, inbox
  <2>2. /\ \A y \in Sessions \ {x} : task'[y] = task[y]
        /\ task'[x].pc = "leave" /\ task'[x].cancelled = task[x].cancelled
    BY <2>1, TaskStep DEF IInv, Typed
  <2>3. StopFits(x)
    BY <1>1, <2>1, <2>2 DEF StopFits, Aware, WorkFits, Stopping
  <2>4. \A y \in Sessions \ {x} : y \in pendingInput => y \in pendingInput'
    BY <2>1
  <2> QED BY <1>1, <2>1, <2>2, <2>3, <2>4, RunAware
<1>7. CASE Leave(x)
  <2>1. /\ task[x].pc = "leave" /\ task' = [task EXCEPT ![x] = NoTask]
        /\ running' = running \ {x} /\ Signal /\ UNCHANGED <<tracks, pendingInput>>
    BY <1>7 DEF Leave, At, inbox
  <2>2. task'[x] = NoTask /\ \A y \in Sessions \ {x} : task'[y] = task[y]
    BY <1>2, <2>1
  <2>3. task'[x].pc = "idle" /\ ~task'[x].cancelled
    BY <2>2 DEF NoTask
  <2>4. /\ \A m \in tracks : Target(m) # x
        /\ x \notin pendingInput => work[x] = <<>>
    BY <2>1 DEF Aware, WorkFits, Stopping
  <2>5. writes' = <<>> /\ \A y \in Sessions \ {x} : task'[y].pc \notin MidPcs
    BY <1>1, <2>2, RunsAlone
  <2>6. CancelsFit'
    <3>1. SettlesOpen' /\ DrainsTurns'
      BY <1>1, <2>5, SettlesStayOpen DEF Aware, CancelsFit, DrainsTurns
    <3>2. \A y \in Sessions : task'[y].cancelled => task[y].cancelled
      BY <2>2, <2>3
    <3> QED BY <1>1, <3>1, <3>2, CancelsStay DEF Aware
  <2>7. HeldTracks'
    <3> SUFFICES ASSUME NEW m \in tracks PROVE Held(m)'
      BY <2>1 DEF HeldTracks
    <3>1. Held(m) /\ Target(m) # x /\ Target(m)' = Target(m)
      BY <2>4 DEF Aware, WorkFits, HeldTracks, Target
    <3> QED BY <1>1, <2>1, <2>2, <3>1, TheSessions DEF Held
  <2>8. Stopping'
    BY <2>3, <2>5 DEF Stopping, MidPcs
  <2>9. KnownWork'
    BY <1>1, <2>1, <2>4 DEF Aware, WorkFits, KnownWork
  <2>10. Sleeping'
    BY <1>1, <2>1, SignalWakesAll
  <2> QED BY <2>6, <2>7, <2>8, <2>9, <2>10 DEF Aware, WorkFits
<1> QED BY <1>3, <1>4, <1>5, <1>6, <1>7

LEMMA DispatchAware ==
    ASSUME IInv, Serial, Aware, ~suspends, NEW x \in Sessions, Dispatch(x), Moves PROVE Aware'
  BY StartAware, ConsumeAware, AdmitAware, EndAware DEF Dispatch

LEMMA AskAware ==
    ASSUME IInv, Serial, Aware, ~suspends, Ask \/ Asked, Moves PROVE Aware'
<1> DEFINE own == Message("task", task[Root].scope)
<1>9. PICK m : m = own
  OBVIOUS
<1>0. Root \in Sessions /\ Child \in Sessions /\ Root # Child
  BY TheSessions
<1>1. /\ Runs("task", Root) /\ task[Root].pc # "idle" /\ Root \in running
      /\ UNCHANGED <<current, writes, client, cancel, work, running, pendingInput>>
  BY <1>0 DEF Ask, Asked, At, TaskFrame, tree, IInv, Typed, TaskTypes
<1>2. m.kind = "task" /\ Target(m) = Child
  BY <1>9 DEF Message, Target
<1>3. CASE Ask
  <2>1. /\ task[Root].pc = "turn" /\ queue' = queue
        /\ \/ tracks' = tracks \union {m} /\ Step(Root, "asking")
           \/ UNCHANGED <<tracks, task>>
    BY <1>3, <1>9 DEF Ask, At
  <2>2. CASE tracks' = tracks \union {m} /\ Step(Root, "asking")
    <3>1. /\ \A y \in Sessions \ {Root} : task'[y] = task[y]
          /\ task'[Root].pc = "asking" /\ task'[Root].cancelled = task[Root].cancelled
      BY <1>0, <2>2, TaskStep DEF IInv, Typed
    <3>2. StopFits(Root)
      BY <3>1 DEF StopFits
    <3>3. Held(m)'
      BY <1>2, <3>1 DEF Held
    <3>4. \A n \in tracks' : n \in tracks \/ Held(n)'
      BY <2>2, <3>3
    <3> QED BY <1>0, <1>1, <2>1, <3>1, <3>2, <3>4, RunAware
  <2>3. CASE UNCHANGED <<tracks, task>>
    <3>1. StopFits(Root)
      BY <2>1, <2>3 DEF StopFits
    <3> QED BY <1>0, <1>1, <2>1, <2>3, <3>1, RunAware
  <2> QED BY <2>1, <2>2, <2>3
<1>4. CASE Asked
  <2>1. /\ task[Root].pc = "asking" /\ Step(Root, "turn") /\ tracks' = tracks
        /\ queue' = [queue EXCEPT ![Child] = Append(@, m)]
    BY <1>4, <1>9 DEF Asked, At
  <2>2. task[Root].scope = current /\ m \in Messages /\ Fits(Child, m)
    <3>1. task[Root].scope \in Scopes /\ task[Root].scope = current
      BY <1>0, <2>1, ScopeAssumption DEF IInv, Typed, TaskTypes, Serial, Works, OwnTurns
    <3>2. m.scope = current
      BY <1>9, <3>1 DEF Message
    <3> QED BY <1>2, <1>9, <3>1, <3>2, MessageTypes DEF Fits
  <2>3. \A n \in tracks : n.kind = "task" => n = m
    BY <1>9, <2>2, OneTrack DEF IInv, Serial, Works
  <2>4. /\ \A y \in Sessions \ {Root} : task'[y] = task[y]
        /\ task'[Root].pc = "turn" /\ task'[Root].cancelled = task[Root].cancelled
        /\ task'[Root].batch = task[Root].batch
    BY <1>0, <2>1, TaskStep DEF IInv, Typed
  <2>5. \A y \in Sessions : task'[y].batch = task[y].batch
    BY <2>4
  <2>6. /\ ToSet(queue'[Child]) = ToSet(queue[Child]) \union {m}
        /\ \A y \in Sessions \ {Child} : queue'[y] = queue[y]
    BY <1>0, <1>1, <2>1, <2>2, <2>5, AppendPlaced DEF IInv, Serial, Works
  <2>7. \A y \in Sessions : ToSet(queue[y]) \subseteq ToSet(queue'[y])
    BY <2>6
  <2>8. HeldTracks'
    BY <1>0, <1>1, <1>2, <2>1, <2>3, <2>4, <2>6, <2>7, HeldBySending DEF Aware, WorkFits
  <2>9. StopFits(Root) /\ writes' = <<>>
    BY <1>1, <2>4, RunsAlone DEF StopFits
  <2> QED BY <1>0, <1>1, <2>4, <2>8, <2>9, TaskAware
<1> QED BY <1>3, <1>4

LEMMA FoldAware ==
    ASSUME IInv, Serial, Aware, ~suspends, Fold, Moves PROVE Aware'
<1>0. Root \in Sessions
  BY TheSessions
<1>1. PICK q, m : queue' = [queue EXCEPT ![Root] = q] /\ tracks' = tracks \ {m}
  BY DEF Fold
<1>2. /\ Runs("task", Root) /\ task[Root].pc = "turn"
      /\ UNCHANGED <<current, writes, client, cancel, work, running, pendingInput, task>>
  BY DEF Fold, At, TaskFrame
<1>3. \A y \in Sessions \ {Root} : queue'[y] = queue[y]
  BY <1>1 DEF IInv, Typed, InboxTypes
<1>4. StopFits(Root) /\ Root \in running'
  BY <1>0, <1>2 DEF StopFits, IInv, Typed, TaskTypes
<1> QED BY <1>0, <1>1, <1>2, <1>3, <1>4, RunAware

LEMMA AnswerAware ==
    ASSUME IInv, Serial, Aware, ~suspends, Answer \/ TrackAnswer \/ Answered, Moves PROVE Aware'
<1> DEFINE own == Message("result", task[Child].scope)
<1>9. PICK m : m = own
  OBVIOUS
<1>0. Root \in Sessions /\ Child \in Sessions /\ Root # Child
  BY TheSessions
<1>1. /\ Runs("task", Child) /\ task[Child].pc # "idle" /\ Child \in running
      /\ UNCHANGED <<current, writes, client, cancel, work, running, pendingInput>>
  BY <1>0 DEF Answer, TrackAnswer, Answered, At, TaskFrame, tree, IInv, Typed, TaskTypes
<1>2. m.kind = "result" /\ Target(m) = Root
  BY <1>9 DEF Message, Target
<1>3. CASE Answer \/ TrackAnswer
  <2>1. PICK to \in {"answering", "ack", "tracking"} :
           /\ Step(Child, to) /\ task[Child].pc \in {"turn", "answering"} /\ queue' = queue
           /\ tracks' \subseteq tracks \/ (to = "tracking" /\ tracks' = tracks \union {m})
    BY <1>3, <1>9 DEF Answer, TrackAnswer, At
  <2>2. /\ \A y \in Sessions \ {Child} : task'[y] = task[y]
        /\ task'[Child].pc = to /\ task'[Child].cancelled = task[Child].cancelled
    BY <1>0, <2>1, TaskStep DEF IInv, Typed
  <2>3. StopFits(Child)
    BY <2>1, <2>2 DEF StopFits
  <2>4. to = "tracking" => Held(m)'
    BY <1>2, <2>2 DEF Held
  <2>5. \A n \in tracks' : n \in tracks \/ Held(n)'
    BY <2>1, <2>4
  <2>6. task[Child].pc \notin {"asking", "tracking"}
    BY <2>1
  <2> QED BY <1>0, <1>1, <2>1, <2>2, <2>3, <2>5, <2>6, RunAware
<1>4. CASE Answered
  <2>1. /\ task[Child].pc = "tracking" /\ Step(Child, "ack") /\ tracks' = tracks
        /\ queue' = [queue EXCEPT ![Root] = Append(@, m)]
    BY <1>4, <1>9 DEF Answered, At
  <2>2. task[Child].scope = current /\ m \in Messages /\ Fits(Root, m)
    <3>1. task[Child].scope \in Scopes /\ task[Child].scope = current
      BY <1>0, <2>1, ScopeAssumption DEF IInv, Typed, TaskTypes, Serial, Works, OwnTurns
    <3>2. m.scope = current
      BY <1>9, <3>1 DEF Message
    <3> QED BY <1>2, <1>9, <3>1, <3>2, MessageTypes DEF Fits
  <2>3. \A n \in tracks : n.kind = "result" => n = m
    BY <1>9, <2>2, OneTrack DEF IInv, Serial, Works
  <2>4. /\ \A y \in Sessions \ {Child} : task'[y] = task[y]
        /\ task'[Child].pc = "ack" /\ task'[Child].cancelled = task[Child].cancelled
        /\ task'[Child].batch = task[Child].batch
    BY <1>0, <2>1, TaskStep DEF IInv, Typed
  <2>5. \A y \in Sessions : task'[y].batch = task[y].batch
    BY <2>4
  <2>6. /\ ToSet(queue'[Root]) = ToSet(queue[Root]) \union {m}
        /\ \A y \in Sessions \ {Root} : queue'[y] = queue[y]
    BY <1>0, <1>1, <2>1, <2>2, <2>5, AppendPlaced DEF IInv, Serial, Works
  <2>7. \A y \in Sessions : ToSet(queue[y]) \subseteq ToSet(queue'[y])
    BY <2>6
  <2>8. HeldTracks'
    BY <1>0, <1>1, <1>2, <2>1, <2>3, <2>4, <2>6, <2>7, HeldBySending DEF Aware, WorkFits
  <2>9. StopFits(Child) /\ writes' = <<>>
    BY <1>1, <2>4, RunsAlone DEF StopFits
  <2> QED BY <1>0, <1>1, <2>4, <2>8, <2>9, TaskAware
<1> QED BY <1>3, <1>4

LEMMA EndTurnAware ==
    ASSUME IInv, Serial, Aware, ~suspends, EndTurn, Moves PROVE Aware'
<1>0. Root \in Sessions
  BY TheSessions
<1>1. /\ Runs("task", Root) /\ task[Root].pc \in {"turn", "stale"} /\ Root \in running
      /\ UNCHANGED <<current, client, cancel, queue, work, tracks, running, pendingInput>>
  BY <1>0 DEF EndTurn, TaskFrame, inbox, tree, IInv, Typed, TaskTypes
<1>2. PICK fact : Note(fact)
  BY DEF EndTurn
<1>3. PICK to \in {"ack", "noting"} : Step(Root, to)
  BY <1>2 DEF Note
<1>4. /\ \A y \in Sessions \ {Root} : task'[y] = task[y]
      /\ task'[Root].pc = to /\ task'[Root].cancelled = task[Root].cancelled
  BY <1>0, <1>3, TaskStep DEF IInv, Typed
<1>5. writes' = <<>> \/ \E w : Pending' = {w} /\ w.by \notin {"fail", "wait"}
  <2>1. writes = <<>>
    BY <1>1, RunsAlone
  <2>2. writes' = writes \/ \E state : Write("note", current, state)
    BY <1>2 DEF Note, Transition
  <2>3. ASSUME NEW state, Write("note", current, state)
        PROVE  \E w : Pending' = {w} /\ w.by \notin {"fail", "wait"}
    <3> DEFINE w == [by |-> "note", scope |-> current, state |-> state]
    <3>1. writes' = Append(writes, w) /\ w.by = "note"
      BY <2>3 DEF Write
    <3> HIDE DEF w
    <3>2. Pending' = {w}
      BY <2>1, <3>1, OneWrite
    <3> QED BY <3>1, <3>2
  <2> QED BY <2>1, <2>2, <2>3
<1>6. StopFits(Root)
  BY <1>4 DEF StopFits
<1>7. HeldTracks'
  BY <1>0, <1>1, <1>4, HeldWhileRunning DEF Aware, WorkFits
<1> QED BY <1>0, <1>1, <1>4, <1>5, <1>6, <1>7, TaskAware

LEMMA TurnAware ==
    ASSUME IInv, Serial, Aware, ~suspends, Turn, Moves PROVE Aware'
  BY AskAware, FoldAware, AnswerAware, EndTurnAware DEF Turn

-----------------------------------------------------------------------------
(* The registrations *)

\* Every registration that somebody waits for ends with a signal.
LEMMA RegisterAware == ASSUME IInv, Serial, Aware, ~suspends, Register PROVE Aware'
<1> DEFINE w == Head(writes)
<1>1. /\ writes # <<>> /\ writes' = Tail(writes) /\ AfterWrite(w)
      /\ UNCHANGED <<current, queue, work, tracks, running, pendingInput>>
  BY DEF Register, inbox
<1>2. NobodyMid /\ Len(writes) = 1
  <2>1. Len(writes) \in Nat \ {0}
    BY <1>1 DEF IInv, Typed, ScopeTypes
  <2>2. Len(writes) <= 1 /\ NobodyMid
    BY <1>1 DEF Serial, Places, Alone
  <2>3. \A n \in Nat \ {0} : n <= 1 => n = 1
    OBVIOUS
  <2> QED BY <2>1, <2>2, <2>3, Zenon
<1>3. writes' = <<>> /\ Pending = {w} /\ Pending' = {}
  <2>1. /\ DOMAIN writes = {1} /\ writes[1] = w /\ Tail(writes) = <<>>
    BY <1>1, <1>2 DEF IInv, Typed, ScopeTypes
  <2> QED BY <1>1, <2>1 DEF Pending, ToSet
<1>4. Owner(w) /\ w.by \in Writers
  <2>1. w \in Writes
    BY <1>1 DEF IInv, Typed, ScopeTypes
  <2> QED BY <1>3, <2>1 DEF IInv, Owned, Writes
<1> HIDE DEF w
<1>5. /\ rec \in [Scopes -> [state : States, fact : Facts, from : Scopes \union {NoScope}]]
      /\ client \in [Scopes -> Clients] /\ cancel \in [Scopes -> Cancels] /\ task \in [Sessions -> Tasks]
      /\ TaskTypes /\ Root \in Sessions
  BY TheSessions DEF IInv, Typed, ScopeTypes, ActorTypes, TaskTypes
<1>6. \A t \in Scopes :
         \/ client'[t] = client[t]
         \/ client[t] = "beginning" /\ client'[t] = "reserved"
         \/ client[t] = "activating" /\ client'[t] = "submitting"
         \/ client'[t] \in {"interrupted", "done"}
  <2>1. CASE w.by \in {"begin", "activate"}
    BY <1>1, <1>4, <1>5, <2>1 DEF AfterWrite, Goes, Owner
  <2>2. CASE w.by \in {"interrupt", "release"}
    BY <1>1, <2>2 DEF AfterWrite
  <2>3. CASE w.by \in {"fail", "wait"}
    BY <1>1, <1>5, <2>3 DEF AfterWrite, Goes
  <2>4. CASE w.by \in {"note", "close", "cancel"}
    BY <1>1, <2>4 DEF AfterWrite
  <2> QED BY <1>4, <2>1, <2>2, <2>3, <2>4 DEF Writers
<1> DEFINE drains == IF \E x \in Sessions : task[x].pc # "idle" THEN "draining" ELSE "drained"
<1>7. \A t \in Scopes :
         \/ cancel'[t] = cancel[t] /\ ~(w.by \in {"close", "cancel"} /\ w.scope = t)
         \/ w.by = "close" /\ w.scope = t /\ cancel[t] = "closing" /\ cancel'[t] = drains
         \/ w.by = "cancel" /\ w.scope = t /\ cancel[t] = "settling" /\ cancel'[t] = "done"
  <2>1. CASE w.by = "close"
    <3>1. cancel' = [cancel EXCEPT ![w.scope] = drains]
      BY <1>1, <2>1 DEF AfterWrite
    <3> HIDE DEF drains
    <3> QED BY <1>4, <1>5, <2>1, <3>1 DEF Owner
  <2>2. CASE w.by = "cancel"
    BY <1>1, <1>4, <1>5, <2>2 DEF AfterWrite, Owner
  <2>3. CASE w.by \notin {"close", "cancel"}
    BY <1>1, <2>3 DEF AfterWrite
  <2> QED BY <2>1, <2>2, <2>3
<1>8. drains \in {"draining", "drained"} /\ (drains = "draining" <=> \E x \in Sessions : task[x].pc # "idle")
  OBVIOUS
<1> HIDE DEF drains
<1>9. \A x \in Sessions : /\ task'[x].pc = task[x].pc \/ task'[x].pc = "ack"
                          /\ w.by = "close" => task'[x].cancelled = (task[x].pc # "idle")
                          /\ w.by # "close" => task'[x].cancelled = task[x].cancelled
  <2>1. CASE w.by = "note"
    <3>1. Step(Root, "ack")
      BY <1>1, <2>1 DEF AfterWrite
    <3> QED BY <1>5, <2>1, <3>1, TaskStep
  <2>2. CASE w.by = "close"
    <3>1. task' = [x \in Sessions |-> [task[x] EXCEPT !.cancelled = task[x].pc # "idle"]]
      BY <1>1, <2>2 DEF AfterWrite
    <3> QED BY <1>5, <2>2, <3>1 DEF Tasks
  <2>3. CASE w.by \notin {"note", "close"}
    <3>1. task' = task
      BY <1>1, <2>3 DEF AfterWrite
    <3> QED BY <2>3, <3>1
  <2> QED BY <2>1, <2>2, <2>3
<1>10. \A t \in Scopes : \/ rec'[t].state = rec[t].state /\ ~(w.by = "cancel" /\ t = w.scope)
                         \/ w.by \in {"fail", "wait", "cancel"} /\ t = w.scope /\ rec'[t].state \in Terminal
  <2>1. CASE w.by \in {"fail", "wait", "cancel"}
    <3>1. w.scope \in Scopes /\ w.state \in Terminal /\ rec' = [rec EXCEPT ![w.scope].state = w.state]
      BY <1>1, <1>4, <2>1 DEF AfterWrite, Settled, Owner
    <3>2. rec'[w.scope].state = w.state /\ \A t \in Scopes \ {w.scope} : rec'[t] = rec[t]
      BY <3>1, StateMoves DEF IInv
    <3> QED BY <2>1, <3>1, <3>2
  <2>2. CASE w.by \notin {"fail", "wait", "cancel"}
    BY <1>1, <2>2 DEF AfterWrite
  <2> QED BY <2>1, <2>2
<1>11. CancelsAgree'
  <2> SUFFICES ASSUME NEW t \in Scopes PROVE rec'[t].state = "cancelling" <=> cancel'[t] \in Closed
    BY DEF CancelsAgree, State
  <2>1. rec[t].state = "cancelling" <=> cancel[t] \in Closed
    BY DEF Aware, CancelsFit, CancelsAgree, State
  <2>2. w.by \in {"fail", "wait"} /\ w.scope = t => rec[t].state # "cancelling"
    BY <1>3 DEF Aware, CancelsFit, SettlesOpen, State
  <2> QED BY <1>7, <1>8, <1>10, <2>1, <2>2 DEF Closed, Terminal
<1>12. CancelWrites'
  <2>1. \A t \in Scopes : /\ cancel[t] = "closing" => w.by = "close" /\ w.scope = t
                          /\ cancel[t] = "settling" => w.by = "cancel" /\ w.scope = t
    BY <1>3 DEF Aware, CancelsFit, CancelWrites
  <2>2. \A t \in Scopes : cancel'[t] \notin {"closing", "settling"}
    BY <1>7, <1>8, <2>1
  <2> QED BY <2>2 DEF CancelWrites
<1>13. SettlesOpen'
  BY <1>3 DEF SettlesOpen
<1>14. DrainsTurns'
  <2> SUFFICES ASSUME NEW t \in Scopes, cancel'[t] = "draining", current = t, client'[t] \in Apart
               PROVE  FALSE
    BY <1>1 DEF DrainsTurns
  <2>1. client[t] \in Apart
    BY <1>6 DEF Apart
  <2>2. cancel[t] = "draining" \/ drains = "draining"
    BY <1>7
  <2>3. drains = "draining" => ~Resting
    BY <1>8, RunningIsNoRest DEF IInv, Serial, Places
  <2> QED BY <2>1, <2>2, <2>3 DEF Aware, CancelsFit, DrainsTurns, Resting
<1>15. CancelledIsAwaited'
  <2>1. CASE w.by = "close"
    BY <1>4, <1>7, <1>8, <1>9, <2>1 DEF CancelledIsAwaited, Owner
  <2>2. CASE w.by # "close"
    BY <1>7, <1>9, <2>2 DEF Aware, CancelsFit, CancelledIsAwaited
  <2> QED BY <2>1, <2>2
<1>16. HeldTracks'
  <2> SUFFICES ASSUME NEW m \in tracks PROVE Held(m)'
    BY <1>1 DEF HeldTracks
  <2>1. Held(m) /\ Target(m)' = Target(m)
    BY DEF Aware, WorkFits, HeldTracks, Target
  <2>2. task[Root].pc # "asking" /\ task[Child].pc # "tracking"
    BY <1>2, TheSessions DEF NobodyMid, MidPcs
  <2>3. \A s \in Scopes : cancel[s] \in {"draining", "drained"} => cancel'[s] = cancel[s]
    BY <1>7
  <2> QED BY <1>1, <2>1, <2>2, <2>3 DEF Held
<1>17. Stopping' /\ KnownWork'
  <2>1. \A x \in Sessions : task'[x].pc \notin {"peek", "mark", "leave"}
    BY <1>2, <1>9 DEF NobodyMid, MidPcs
  <2> QED BY <1>1, <2>1 DEF Stopping, Aware, WorkFits, KnownWork
<1>18. Sleeping'
  <2>1. \A t \in Scopes : client'[t] = "asleep" => client[t] = "asleep"
    BY <1>6
  <2>2. CASE w.by = "activate"
    <3>1. UNCHANGED <<rec, event, cancel>>
      BY <1>1, <2>2 DEF AfterWrite
    <3>2. CurrentState' = CurrentState
      BY <1>1, <3>1 DEF CurrentState, State
    <3>3. Stirring => Stirring'
      BY <1>1, <1>3, <2>2, <3>1, <3>2 DEF Stirring
    <3> QED BY <2>1, <3>1, <3>3, SleepingStays DEF Aware
  <2>3. CASE w.by = "note"
    <3>1. Root \in running
      BY <1>4, <1>5, <2>3 DEF Owner, TaskTypes
    <3> QED BY <1>1, <3>1 DEF Sleeping, Stirring
  <2>4. CASE w.by \notin {"activate", "note"}
    <3>1. Signal
      BY <1>1, <1>4, <2>4 DEF AfterWrite, Settled, Writers
    <3> QED BY <2>1, <3>1, SignalWakesAll
  <2> QED BY <2>2, <2>3, <2>4
<1> QED BY <1>11, <1>12, <1>13, <1>14, <1>15, <1>16, <1>17, <1>18 DEF Aware, CancelsFit, WorkFits

-----------------------------------------------------------------------------
(* The invariant of the sleepers *)

WatchedInv == SerialInv /\ (~suspends => Aware)

LEMMA AwareStart == ASSUME Init PROVE Aware
<1>1. /\ client = [s \in Scopes |-> "new"] /\ cancel = [s \in Scopes |-> "none"]
      /\ rec = [s \in Scopes |-> NoRec] /\ writes = <<>> /\ tracks = {}
      /\ work = [x \in Sessions |-> <<>>]
      /\ \A x \in Sessions : task[x] = NoTask
  BY DEF Init
<1>2. \A x \in Sessions : task[x].pc = "idle" /\ ~task[x].cancelled
  BY <1>1 DEF NoTask
<1>3. Pending = {}
  BY <1>1 DEF Pending, ToSet
<1>4. CancelsAgree
  BY <1>1 DEF CancelsAgree, State, NoRec, Closed
<1>5. CancelWrites /\ SettlesOpen /\ DrainsTurns
  BY <1>1, <1>3 DEF CancelWrites, SettlesOpen, DrainsTurns
<1>6. CancelledIsAwaited
  BY <1>2 DEF CancelledIsAwaited
<1>7. HeldTracks /\ Stopping /\ KnownWork
  BY <1>1, <1>2 DEF HeldTracks, Stopping, KnownWork
<1>8. Sleeping
  BY <1>1 DEF Sleeping
<1> QED BY <1>4, <1>5, <1>6, <1>7, <1>8 DEF Aware, CancelsFit, WorkFits

LEMMA AwareStutter == ASSUME Aware, UNCHANGED vars PROVE Aware'
<1>1. UNCHANGED <<current, rec, writes, queue, work, tracks, running, pendingInput, event, client,
                  task, cancel>>
  BY DEF vars, scope, stores, inbox, tree
<1>2. CurrentState' = CurrentState /\ Pending' = Pending
  BY <1>1 DEF CurrentState, State, Pending
<1>3. CancelsAgree' /\ CancelWrites' /\ SettlesOpen' /\ DrainsTurns' /\ CancelledIsAwaited'
  BY <1>1, <1>2 DEF Aware, CancelsFit, CancelsAgree, State, CancelWrites, SettlesOpen, DrainsTurns,
                    CancelledIsAwaited
<1>4. HeldTracks' /\ Stopping' /\ KnownWork'
  BY <1>1 DEF Aware, WorkFits, HeldTracks, Held, Target, Stopping, KnownWork
<1>5. Sleeping'
  BY <1>1, <1>2 DEF Aware, Sleeping, Stirring
<1> QED BY <1>3, <1>4, <1>5 DEF Aware, CancelsFit, WorkFits

LEMMA WatchedStep == ASSUME WatchedInv, [Next]_vars PROVE WatchedInv'
<1>1. SerialInv'
  BY SerialStep DEF WatchedInv
<1>2. suspends' = suspends
  BY StoresStay
<1>3. IInv
  BY DEF WatchedInv, SerialInv
<1>4. ASSUME ~suspends, Next PROVE Aware'
  <2>1. Serial /\ Aware /\ ~Crash
    BY <1>4 DEF WatchedInv, SerialInv, Crash
  <2>2. ~Register => Moves
    BY <1>3, <1>4, <2>1, NextMoves
  <2> QED BY <1>3, <1>4, <2>1, <2>2, CallAware, WaitAware, ApproveAware, FinalizeAware, DispatchAware,
             TurnAware, RegisterAware DEF Next
<1>5. ASSUME ~suspends, UNCHANGED vars PROVE Aware'
  BY <1>5, AwareStutter DEF WatchedInv
<1> QED BY <1>1, <1>2, <1>4, <1>5 DEF WatchedInv

\* What stirs is a cause of the wait: work that is known may be dispatched, or
\* its client or a cancel goes on.
LEMMA StirringIsCause ==
    ASSUME WatchedInv, ~suspends
    PROVE  SleeperHasCause
<1>1. IInv /\ Serial /\ Aware
  BY DEF WatchedInv, SerialInv
<1> SUFFICES ASSUME Stirring
             PROVE  \/ CurrentState = "awaiting" \/ writes # <<>>
                    \/ \E x \in Sessions : task[x].pc # "idle"
                    \/ CanDispatch /\ \E x \in Sessions : queue[x] # <<>> \/ x \in pendingInput
                    \/ \E t \in Scopes : \/ client[t] \notin {"new", "asleep", "done", "joining"}
                                         \/ cancel[t] \notin {"none", "done"} \/ decide[t] = "delivering"
  BY <1>1 DEF SleeperHasCause, Aware, Sleeping
<1>2. CASE running # {}
  BY <1>1, <1>2 DEF IInv, Typed, TaskTypes
<1>3. CASE \E x \in Sessions : queue[x] # <<>> \/ x \in pendingInput
  <2>1. CASE Resting
    <3>1. Submitting
      BY <1>1, <1>3, <2>1 DEF Serial, Places, Rest, Calm
    <3> QED BY <3>1 DEF Submitting
  <2>2. CASE ~Resting
    <3>1. CurrentState \in {"active", "awaiting", "cancelling"}
      BY <2>2 DEF Resting
    <3>2. current \in Scopes /\ current # NoScope /\ CurrentState = State(current)
      BY <1>1, <3>1, ScopeAssumption DEF CurrentState, IInv, Typed, ScopeTypes
    <3>3. CASE CurrentState = "cancelling"
      BY <1>1, <3>2, <3>3 DEF Aware, CancelsFit, CancelsAgree, Closed
    <3>4. CASE CurrentState \in {"active", "awaiting"}
      BY <1>3, <3>2, <3>4 DEF CanDispatch
    <3> QED BY <3>1, <3>3, <3>4
  <2> QED BY <2>1, <2>2
<1>4. CASE \E w \in Pending : w.by \notin {"activate", "note"}
  BY <1>4 DEF Pending, ToSet
<1>5. pendingInput \subseteq Sessions
  BY <1>1 DEF IInv, Typed, ActorTypes
<1> QED BY <1>2, <1>3, <1>4, <1>5 DEF Stirring

-----------------------------------------------------------------------------
(* The theorems *)

\* With stores whose queries do not suspend a settled request leaves nothing
\* behind: no turn, no message, no track and no resumable batch of it, whatever
\* its waiter, its cancel, its turns and the next request do (wait_request and
\* _cancel_scope, manager.py).
THEOREM NothingIsLeft == Spec => []NothingOutlives
<1>1. Init => SerialInv
  BY SerialStart
<1>2. SerialInv /\ [Next]_vars => SerialInv'
  BY SerialStep
<1>3. SerialInv => NothingOutlives
  BY NothingIsBusy
<1> QED BY <1>1, <1>2, <1>3, PTL DEF Spec

\* With such stores no turn of one request decides the outcome of another: the
\* fact that note_scope_turn records comes from a turn of the request itself.
THEOREM FactsAreOwn == Spec => []FactIsOwn
<1>1. Init => SerialInv
  BY SerialStart
<1>2. SerialInv /\ [Next]_vars => SerialInv'
  BY SerialStep
<1>3. SerialInv => FactIsOwn
  BY DEF SerialInv, Serial, Places, OwnFacts, FactIsOwn
<1> QED BY <1>1, <1>2, <1>3, PTL DEF Spec

\* With such stores no waiter of any request is forgotten: while one sleeps on
\* the quiesce event, an approval is awaited or something goes on that will
\* signal the event, whatever the requests and cancels before it did
\* (wait_quiesce, on_dispatch_end and _signal, manager.py).
THEOREM NoSleeperIsForgotten == Spec => [](~suspends => SleeperHasCause)
<1>1. Init => WatchedInv
  BY SerialStart, AwareStart DEF WatchedInv
<1>2. WatchedInv /\ [Next]_vars => WatchedInv'
  BY WatchedStep
<1>3. WatchedInv => (~suspends => SleeperHasCause)
  BY StirringIsCause
<1> QED BY <1>1, <1>2, <1>3, PTL DEF Spec

=============================================================================
