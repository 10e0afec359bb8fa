---------------------------- MODULE RequestScope ----------------------------
(* The request scopes of one session tree                                    *)
(* (multi_agent/session_tree/manager.py): a client opens a scope, submits a  *)
(* prompt and waits until the tree is quiet (run_input of                    *)
(* multi_agent/pool.py); the poller dispatches turns of the root and of one  *)
(* child (multi_agent/inbox_poller.py); anybody may cancel; the process may  *)
(* die.  The inboxes are reduced to what the tree asks of them: module Inbox *)
(* has the rest.                                                             *)
(*                                                                           *)
(* suspends tells the stores apart: with SQLite every query lets others run, *)
(* with the in-memory stores a handler runs through to its next real wait.   *)
EXTENDS Selection

CONSTANTS
    Scopes,      \* bound: the requests that are made
    NoScope,
    Asking,      \* bound: the requests whose root may ask the child
    Suspending,  \* bound: the requests whose root may need an approval
    Root, Child, \* the sessions of the tree
    MaxCrashes,  \* bound
    MaxFailures  \* bound: submissions that do not reach the inbox

ASSUME ScopeAssumption ==
    /\ NoScope \notin Scopes /\ Root # Child
    /\ Asking \subseteq Scopes /\ Suspending \subseteq Scopes
    /\ MaxCrashes \in Nat /\ MaxFailures \in Nat

Sessions == {Root, Child}

VARIABLES
    suspends,   \* a query of the stores lets other tasks run
    current,    \* _scopes of the tree: the scope installed last
    rec,        \* the live record of every scope and the fact of its root
    disk,       \* durable: the record in the registry of the root session
    writes,     \* the registrations that wait for the lock of the registry
    queue,      \* durable: the rows pending in the inbox of a session
    work,       \* durable: its receipts
    tracks,     \* durable: the messages whose track is DISPATCHED
    snapshot,   \* durable: the root has a pending approval batch
    running, pendingInput,
    event,      \* the quiesce event of the tree: its flag, the waiters it woke
    client,     \* where the caller of run_input is
    task,       \* the dispatch task of a session
    cancel,     \* where the cancel task of a scope is
    decide,     \* the approval decision of a scope
    asked,      \* the scopes whose root has asked the child
    suspended,  \* the scopes whose root has asked for an approval
    crashes, failures

stores == <<disk, writes>>
inbox == <<queue, work, tracks>>
tree == <<running, pendingInput, event>>
scope == <<current, rec>>
bounds == <<asked, suspended, crashes, failures>>
vars == <<suspends, scope, stores, inbox, snapshot, tree, client, task, cancel, decide, bounds>>

Terminal == {"completed", "cancelled", "failed", "interrupted"}
States == {"none", "reserved", "active", "awaiting", "cancelling"} \union Terminal
NoRec == [state |-> "none", fact |-> "none", from |-> NoScope]
NoTask == [pc |-> "idle", batch |-> <<>>, scope |-> NoScope, cancelled |-> FALSE, left |-> FALSE]

NoEvent == [flag |-> FALSE, woken |-> {}]

Message(kind, s) == [kind |-> kind, scope |-> s]
Messages == [kind : {"prompt", "task", "result"}, scope : Scopes]
                \union {Message("decision", NoScope)}
Target(m) == IF m.kind = "task" THEN Child ELSE Root
PendingTypes == {"prompt", "decision"}

Init ==
    /\ suspends \in BOOLEAN
    /\ current = NoScope /\ rec = [s \in Scopes |-> NoRec]
    /\ disk = [scope |-> NoScope, state |-> "none"] /\ writes = <<>>
    /\ queue = [x \in Sessions |-> <<>>] /\ work = [x \in Sessions |-> <<>>]
    /\ tracks = {} /\ snapshot = FALSE
    /\ running = {} /\ pendingInput = {} /\ event = NoEvent
    /\ client = [s \in Scopes |-> "new"]
    /\ task = [x \in Sessions |-> NoTask]
    /\ cancel = [s \in Scopes |-> "none"]
    /\ decide = [s \in Scopes |-> "none"]
    /\ asked = {} /\ suspended = {} /\ crashes = 0 /\ failures = 0

-----------------------------------------------------------------------------
(* Who may run *)

\* The actors between two awaits that need not suspend.
MidHandler ==
    {<<"client", s>> : s \in {s \in Scopes : client[s] \in {"interrupted", "delivering", "running", "tracks", "rest"}}}
    \union {<<"decide", s>> : s \in {s \in Scopes : decide[s] = "delivering"}}
    \union {<<"task", x>> : x \in {x \in Sessions :
                task[x].pc \in {"start", "next", "asking", "answering", "tracking", "ack",
                                "peek", "mark", "leave"}}}
    \union {<<"cancel", s>> : s \in {s \in Scopes : cancel[s] \in {"drained", "cleaned"}}}

\* A cancel task that was created runs before what becomes ready after it;
\* what was ready before it commutes with its creation, except the clients.
Runs(actor, name) ==
    \/ suspends
    \/ /\ writes = <<>> /\ MidHandler \subseteq {<<actor, name>>}
       /\ actor \in {"client", "cancel"} \/ \A s \in Scopes : cancel[s] # "starting"

-----------------------------------------------------------------------------
(* The record of a scope *)

State(s) == rec[s].state
Live(s) == current = s /\ State(s) \notin Terminal
CurrentState == IF current = NoScope THEN "none" ELSE State(current)

Write(by, s, state) == writes' = Append(writes, [by |-> by, scope |-> s, state |-> state])

\* _transition_scope: the record changes before it is persisted.
Transition(by, s, state) ==
    /\ rec' = [rec EXCEPT ![s].state = state]
    /\ Write(by, s, state)

\* _settle_scope up to the write: the record changes after it is persisted.
Settle(by, s, state) == State(s) \notin Terminal /\ Write(by, s, state) /\ UNCHANGED rec

\* _signal: the event is set, who waits for it is woken.
Signal == event' = [flag |-> TRUE,
                    woken |-> event.woken \union {s \in Scopes : client[s] = "asleep"}]

\* The scope admission lock of the tree is free.
AdmissionFree == \A s \in Scopes : client[s] \notin {"interrupting", "interrupted", "beginning", "activating", "releasing"}

-----------------------------------------------------------------------------
(* The client: begin_request, release_reservation, run_input *)

\* The reservation is installed before it is persisted.
Install(s) ==
    /\ current' = s
    /\ rec' = [rec EXCEPT ![s].state = "reserved"]
    /\ client' = [client EXCEPT ![s] = "beginning"]
    /\ Write("begin", s, "reserved")

\* begin_request.  A persisted scope that nobody owns is interrupted first:
\* its batch, tracks and messages are dropped.
Begin(s) ==
    /\ Runs("client", s) /\ client[s] = "new" /\ AdmissionFree
    /\ CurrentState \in Terminal \union {"none"}
    /\ \/ /\ disk.state \in Terminal \union {"none"} /\ Install(s)
          /\ UNCHANGED <<inbox, snapshot, tree>>
       \/ /\ disk.state \notin Terminal \union {"none"}
          /\ Write("interrupt", disk.scope, "interrupted")
          /\ client' = [client EXCEPT ![s] = "interrupting"]
          /\ queue' = [x \in Sessions |-> <<>>] /\ work' = [x \in Sessions |-> <<>>]
          /\ tracks' = {} /\ snapshot' = FALSE /\ pendingInput' = {}
          /\ UNCHANGED <<current, rec, running, event>>
    /\ UNCHANGED <<suspends, disk, task, cancel, decide, bounds>>

\* The lost scope is settled: begin_request goes on.
InterruptedBegin(s) ==
    /\ Runs("client", s) /\ client[s] = "interrupted" /\ Install(s)
    /\ UNCHANGED <<suspends, disk, inbox, snapshot, tree, task, cancel, decide, bounds>>

\* release_reservation of a scope that was not submitted.
Release(s) ==
    /\ Runs("client", s) /\ client[s] = "reserved" /\ AdmissionFree
    /\ IF current = s /\ State(s) = "reserved"
       THEN /\ current' = NoScope /\ client' = [client EXCEPT ![s] = "releasing"]
            /\ Write("release", NoScope, "none")
       ELSE client' = [client EXCEPT ![s] = "done"] /\ UNCHANGED <<current, writes>>
    /\ UNCHANGED <<suspends, rec, disk, inbox, snapshot, tree, task, cancel, decide, bounds>>

\* activate_reservation: it raises ReservationLostError when the scope was
\* cancelled meanwhile.
Activate(s) ==
    /\ Runs("client", s) /\ client[s] = "reserved" /\ AdmissionFree
    /\ IF current = s /\ State(s) = "reserved"
       THEN Transition("activate", s, "active") /\ client' = [client EXCEPT ![s] = "activating"]
       ELSE client' = [client EXCEPT ![s] = "done"] /\ UNCHANGED <<rec, writes>>
    /\ UNCHANGED <<suspends, current, disk, inbox, snapshot, tree, task, cancel, decide, bounds>>

\* The deliver gate for the prompt of s: then the session is marked.  Where
\* it raises, fail_scope settles what is not settled.
Submit(s) ==
    /\ Runs("client", s) /\ client[s] = "submitting"
    /\ IF Live(s) /\ State(s) # "cancelling"
       THEN /\ pendingInput' = pendingInput \union {Root}
            /\ client' = [client EXCEPT ![s] = "delivering"]
            /\ UNCHANGED <<rec, writes>>
       ELSE /\ IF Live(s) THEN Settle("fail", s, "failed") /\ client' = [client EXCEPT ![s] = "failing"]
               ELSE client' = [client EXCEPT ![s] = "done"] /\ UNCHANGED <<rec, writes>>
            /\ UNCHANGED pendingInput
    /\ UNCHANGED <<suspends, current, disk, inbox, snapshot, running, event, task, cancel, decide, bounds>>

\* The prompt is in the inbox: the client starts to wait.
Deliver(s) ==
    /\ Runs("client", s) /\ client[s] = "delivering"
    /\ queue' = [queue EXCEPT ![Root] = Append(@, Message("prompt", s))]
    /\ Signal
    /\ client' = [client EXCEPT ![s] = "waiting"]
    /\ UNCHANGED <<suspends, scope, stores, work, tracks, snapshot, running, pendingInput, task, cancel, decide, bounds>>

\* The bus refuses the prompt: a scope that is not settled fails.
DeliverFails(s) ==
    /\ Runs("client", s) /\ client[s] = "delivering"
    /\ failures < MaxFailures /\ failures' = failures + 1
    /\ pendingInput' = pendingInput \ {Root}
    /\ IF Live(s)
       THEN Settle("fail", s, "failed") /\ client' = [client EXCEPT ![s] = "failing"]
            /\ UNCHANGED event
       ELSE /\ client' = [client EXCEPT ![s] = "waiting"]
            /\ Signal /\ UNCHANGED <<rec, writes>>
    /\ UNCHANGED <<suspends, current, disk, inbox, snapshot, running, task, cancel, decide,
                   asked, suspended, crashes>>

-----------------------------------------------------------------------------
(* The client: wait_quiesce and wait_request *)

Goes(s, pc) == client' = [client EXCEPT ![s] = pc]
WaitFrame(s) == UNCHANGED <<suspends, scope, stores, inbox, snapshot, running, pendingInput, task, cancel, decide, bounds>>

\* event.wait(): it returns at once when the event was set meanwhile.
Sleep == IF event.flag THEN "waiting" ELSE "asleep"

\* The event is cleared, then is_quiesced looks.
Look(s) ==
    /\ Runs("client", s)
    /\ client[s] = "waiting" \/ s \in event.woken
    /\ event' = [flag |-> FALSE, woken |-> event.woken \ {s}] /\ Goes(s, "running") /\ WaitFrame(s)

LookAtRunning(s) ==
    /\ Runs("client", s) /\ client[s] = "running"
    /\ Goes(s, IF running # {} THEN Sleep ELSE "tracks")
    /\ UNCHANGED event /\ WaitFrame(s)

LookAtTracks(s) ==
    /\ Runs("client", s) /\ client[s] = "tracks"
    /\ Goes(s, IF tracks # {} THEN Sleep ELSE "rest")
    /\ UNCHANGED event /\ WaitFrame(s)

\* Mutant: the pending set is not asked.
PendingWork_QueueOnly == (\E x \in Sessions : work[x] # <<>>) \/ CurrentState = "awaiting"

\* What is_quiesced asks last: receipts, the pending set, an approval.
PendingWork ==
    (\E x \in Sessions : work[x] # <<>>) \/ pendingInput # {} \/ CurrentState = "awaiting"

\* The outcome _settle_from_root_fact reads off the facts.
OutcomeOf(s) == IF rec[s].fact \in {"finished", "handled"} THEN "completed" ELSE "failed"

\* The end of is_quiesced, and of wait_request when the tree is quiet: a
\* scope in CANCELLING is left to its task, any other one is settled.
LookAtRest(s) ==
    /\ Runs("client", s) /\ client[s] = "rest"
    /\ IF PendingWork THEN Goes(s, Sleep) /\ UNCHANGED <<rec, writes>>
       ELSE IF ~Live(s) THEN Goes(s, "done") /\ UNCHANGED <<rec, writes>>
       ELSE IF State(s) = "cancelling" THEN Goes(s, "joining") /\ UNCHANGED <<rec, writes>>
       ELSE Settle("wait", s, OutcomeOf(s)) /\ Goes(s, "settling")
    /\ UNCHANGED <<suspends, current, disk, inbox, snapshot, tree, task, cancel, decide, bounds>>

\* The cancel task that the waiter joined is over.
Joined(s) ==
    /\ Runs("client", s) /\ client[s] = "joining" /\ cancel[s] = "done"
    /\ Goes(s, "waiting") /\ UNCHANGED event /\ WaitFrame(s)

-----------------------------------------------------------------------------
(* The approval decision *)

\* The user answers the batch: the gate lets a decision in while the scope
\* runs, and the session is marked.
Decide(s) ==
    /\ Runs("decide", s) /\ decide[s] = "none"
    /\ snapshot /\ Live(s) /\ State(s) \in {"active", "awaiting"} /\ s \in suspended
    /\ pendingInput' = pendingInput \union {Root}
    /\ decide' = [decide EXCEPT ![s] = "delivering"]
    /\ UNCHANGED <<suspends, scope, stores, inbox, snapshot, running, event, client, task, cancel, bounds>>

DeliverDecision(s) ==
    /\ Runs("decide", s) /\ decide[s] = "delivering"
    /\ queue' = [queue EXCEPT ![Root] = Append(@, Message("decision", NoScope))]
    /\ Signal
    /\ decide' = [decide EXCEPT ![s] = "done"]
    /\ UNCHANGED <<suspends, scope, stores, work, tracks, snapshot, running, pendingInput, client, task, cancel, bounds>>

-----------------------------------------------------------------------------
(* The dispatch of a session *)

TaskFrame == UNCHANGED <<suspends, current, disk, client, cancel, decide, crashes, failures>>
At(x, pc) == Runs("task", x) /\ task[x].pc = pc
Step(x, pc) == task' = [task EXCEPT ![x].pc = pc]

\* can_dispatch: a tree without a live scope waits until the record of a
\* lost one is settled.
CanDispatch ==
    IF current = NoScope THEN disk.state \in Terminal \union {"none"}
    ELSE CurrentState \in {"active", "awaiting"}

\* Mutant: the session is not marked as running.
StartDispatch_NotRunning(x) ==
    /\ At(x, "idle") /\ CanDispatch /\ (queue[x] # <<>> \/ x \in pendingInput)
    /\ Step(x, "start")
    /\ pendingInput' = pendingInput \ {x}
    /\ UNCHANGED <<rec, writes, inbox, snapshot, running, event, asked, suspended>> /\ TaskFrame

\* The last look of can_dispatch and the start of on_dispatch_start.
StartDispatch(x) ==
    /\ At(x, "idle") /\ CanDispatch /\ (queue[x] # <<>> \/ x \in pendingInput)
    /\ Step(x, "start")
    /\ running' = running \union {x} /\ pendingInput' = pendingInput \ {x}
    /\ UNCHANGED <<rec, writes, inbox, snapshot, event, asked, suspended>> /\ TaskFrame

\* consume_inbox: while the scope awaits an approval only EXTERNAL_INPUT.
Consume(x) ==
    /\ At(x, "start")
    /\ LET open == {m \in Messages : CurrentState = "awaiting" => m.kind \in PendingTypes}
       IN  /\ task' = [task EXCEPT ![x].pc = "next", ![x].batch = Only(work[x] \o queue[x], open)]
           /\ work' = [work EXCEPT ![x] = @ \o Only(queue[x], open)]
           /\ queue' = [queue EXCEPT ![x] = Only(@, Messages \ open)]
    /\ UNCHANGED <<rec, writes, tracks, snapshot, tree, asked, suspended>> /\ TaskFrame

Without(seq, m) == Only(seq, Messages \ {m})

\* acknowledge and on_consumed.
Acknowledge(x, m) ==
    /\ work' = [work EXCEPT ![x] = Without(@, m)]
    /\ pendingInput' = IF m.kind \in PendingTypes THEN pendingInput \ {x} ELSE pendingInput
    /\ IF m.kind = "result" THEN tracks' = tracks \ {m} /\ Signal
       ELSE UNCHANGED <<tracks, event>>

\* A message that carries another scope than the current one.
Stale(m) == current # NoScope /\ m.scope \notin {NoScope, current}

MayDispatch(m) ==
    \/ current = NoScope
    \/ CurrentState = "awaiting" /\ m.kind = "decision"
    \/ CurrentState = "active" /\ (m.scope = current \/ m.kind = "decision")

\* admit_scoped_dispatch: archive, dispatch or hold the next message.  A
\* decision resumes the turn whose batch is pending; without one it is stale.
Admit(x) ==
    /\ At(x, "next") /\ task[x].batch # <<>>
    /\ LET m == Head(task[x].batch)
       IN  \/ /\ Stale(m) /\ Acknowledge(x, m)
              /\ task' = [task EXCEPT ![x].batch = Tail(@)]
              /\ UNCHANGED snapshot
           \/ /\ ~Stale(m) /\ MayDispatch(m)
              /\ task' = [task EXCEPT ![x].scope = current,
                            ![x].pc = IF m.kind = "decision" /\ ~snapshot THEN "stale" ELSE "turn"]
              /\ snapshot' = (snapshot /\ m.kind # "decision")
              /\ UNCHANGED <<work, tracks, pendingInput, event>>
           \/ /\ ~Stale(m) /\ ~MayDispatch(m)
              /\ task' = [task EXCEPT ![x].batch = Tail(@)]
              /\ UNCHANGED <<work, tracks, pendingInput, event, snapshot>>
    /\ UNCHANGED <<rec, writes, queue, running, asked, suspended>> /\ TaskFrame

\* The gate for the causal messages of a turn: the stamp of its own scope.
Vouched(s) == current = s /\ State(s) \in {"active", "awaiting"}

\* The root asks the child: gate and track.
Ask ==
    LET s == task[Root].scope
    IN  /\ At(Root, "turn") /\ s \in Asking \ asked
        /\ asked' = asked \union {s}
        /\ IF Vouched(s)
           THEN tracks' = tracks \union {Message("task", s)} /\ Step(Root, "asking")
           ELSE UNCHANGED <<tracks, task>>
        /\ UNCHANGED <<rec, writes, queue, work, snapshot, tree, suspended>> /\ TaskFrame

\* The request of the root is in the inbox of the child.
Asked ==
    /\ At(Root, "asking")
    /\ queue' = [queue EXCEPT ![Child] = Append(@, Message("task", task[Root].scope))]
    /\ Signal /\ Step(Root, "turn")
    /\ UNCHANGED <<rec, writes, work, tracks, snapshot, running, pendingInput, asked, suspended>> /\ TaskFrame

\* The hook folds a result into the turn of the root.
Fold ==
    /\ At(Root, "turn")
    /\ \E i \in DOMAIN queue[Root] :
        LET m == queue[Root][i]
        IN  /\ m.kind = "result"
            /\ queue' = [queue EXCEPT ![Root] = Without(@, m)]
            /\ tracks' = tracks \ {m} /\ Signal
    /\ UNCHANGED <<rec, writes, work, snapshot, running, pendingInput, task, asked, suspended>> /\ TaskFrame

\* The child answers: gate, then the track of its task is closed.
Answer ==
    LET s == task[Child].scope
    IN  /\ At(Child, "turn")
        /\ IF s # NoScope /\ Vouched(s)
           THEN tracks' = tracks \ {Message("task", s)} /\ Step(Child, "answering")
           ELSE UNCHANGED tracks /\ Step(Child, "ack")
        /\ UNCHANGED <<rec, writes, queue, work, snapshot, tree, asked, suspended>> /\ TaskFrame

\* The track of the result.
TrackAnswer ==
    /\ At(Child, "answering")
    /\ tracks' = tracks \union {Message("result", task[Child].scope)}
    /\ Step(Child, "tracking")
    /\ UNCHANGED <<rec, writes, queue, work, snapshot, tree, asked, suspended>> /\ TaskFrame

\* The result is in the inbox of the root.
Answered ==
    /\ At(Child, "tracking")
    /\ queue' = [queue EXCEPT ![Root] = Append(@, Message("result", task[Child].scope))]
    /\ Signal /\ Step(Child, "ack")
    /\ UNCHANGED <<rec, writes, work, tracks, snapshot, running, pendingInput, asked, suspended>> /\ TaskFrame

FactAfter(old, fact) ==
    CASE fact = "finished" -> "finished"
      [] fact = "failed" -> IF old = "finished" THEN old ELSE "failed"
      [] fact = "handled" -> IF old = "none" THEN "handled" ELSE old

\* Mutant: a scope that is settled is not left alone.
Note_Revives(fact) ==
    IF current = NoScope \/ CurrentState = "cancelling"
    THEN UNCHANGED <<rec, writes>> /\ Step(Root, "ack")
    ELSE IF fact = "suspended"
    THEN Transition("note", current, "awaiting") /\ Step(Root, "noting")
    ELSE /\ rec' = [rec EXCEPT ![current].fact = FactAfter(@, fact),
                               ![current].from = task[Root].scope]
         /\ UNCHANGED writes /\ Step(Root, "ack")

\* note_scope_turn of a turn of the root, for the scope that is live now.
Note(fact) ==
    IF current = NoScope \/ CurrentState \in Terminal \union {"cancelling"}
    THEN UNCHANGED <<rec, writes>> /\ Step(Root, "ack")
    ELSE IF fact = "suspended"
    THEN Transition("note", current, "awaiting") /\ Step(Root, "noting")
    ELSE LET noted == [rec EXCEPT ![current].fact = FactAfter(@, fact),
                                  ![current].from = task[Root].scope]
         IN  IF CurrentState = "awaiting"
             THEN /\ rec' = [noted EXCEPT ![current].state = "active"]
                  /\ Write("note", current, "active") /\ Step(Root, "noting")
             ELSE rec' = noted /\ UNCHANGED writes /\ Step(Root, "ack")

\* A turn of the root ends: with a result, an error, or a batch of tool
\* calls that need an approval.
EndTurn ==
    /\ Runs("task", Root)
    /\ \/ /\ task[Root].pc = "stale" /\ Note("handled") /\ UNCHANGED <<snapshot, suspended>>
       \/ /\ task[Root].pc = "turn"
          /\ \E fact \in {"finished", "failed"} : Note(fact)
          /\ UNCHANGED <<snapshot, suspended>>
       \/ /\ task[Root].pc = "turn" /\ task[Root].scope \in Suspending \ suspended
          /\ suspended' = suspended \union {task[Root].scope}
          /\ snapshot' = TRUE /\ Note("suspended")
    /\ UNCHANGED <<inbox, tree, asked>> /\ TaskFrame

\* acknowledge_inbox after the turn.
AckTurn(x) ==
    /\ At(x, "ack") /\ Acknowledge(x, Head(task[x].batch))
    /\ task' = [task EXCEPT ![x].pc = "next", ![x].batch = Tail(@)]
    /\ UNCHANGED <<rec, writes, queue, snapshot, running, asked, suspended>> /\ TaskFrame

\* A cancelled task goes to its end from wherever it is.
Unwind(x) ==
    /\ Runs("task", x) /\ task[x].cancelled
    /\ task[x].pc \notin {"idle", "noting", "end", "peek", "mark", "leave"}
    /\ task' = [task EXCEPT ![x].pc = "end", ![x].batch = <<>>]
    /\ UNCHANGED <<rec, writes, inbox, snapshot, tree, asked, suspended>> /\ TaskFrame

\* on_dispatch_end: the tracks of the session are closed ...
CloseTracks(x) ==
    /\ Runs("task", x)
    /\ task[x].pc = "end" \/ (task[x].pc = "next" /\ task[x].batch = <<>>)
    /\ tracks' = {m \in tracks : Target(m) # x}
    /\ task' = [task EXCEPT ![x].pc = "peek", ![x].scope = NoScope]
    /\ UNCHANGED <<rec, writes, queue, work, snapshot, tree, asked, suspended>> /\ TaskFrame

\* ... it looks for unfinished work ...
Peek(x) ==
    /\ At(x, "peek")
    /\ task' = [task EXCEPT ![x].pc = "mark", ![x].left = work[x] # <<>> \/ queue[x] # <<>>]
    /\ UNCHANGED <<rec, writes, inbox, snapshot, tree, asked, suspended>> /\ TaskFrame

\* ... the session is marked by what it saw ...
Mark(x) ==
    /\ At(x, "mark")
    /\ pendingInput' = IF task[x].left THEN pendingInput \union {x} ELSE pendingInput \ {x}
    /\ Step(x, "leave")
    /\ UNCHANGED <<rec, writes, inbox, snapshot, running, event, asked, suspended>> /\ TaskFrame

\* Mutant: the end of a dispatch wakes nobody.
Leave_Silent(x) ==
    /\ At(x, "leave")
    /\ running' = running \ {x}
    /\ task' = [task EXCEPT ![x] = NoTask]
    /\ UNCHANGED <<rec, writes, inbox, snapshot, pendingInput, event, asked, suspended>> /\ TaskFrame

\* ... and it runs no more.
Leave(x) ==
    /\ At(x, "leave")
    /\ running' = running \ {x} /\ Signal
    /\ task' = [task EXCEPT ![x] = NoTask]
    /\ UNCHANGED <<rec, writes, inbox, snapshot, pendingInput, asked, suspended>> /\ TaskFrame

-----------------------------------------------------------------------------
(* Cancellation *)

CancelFrame == UNCHANGED <<suspends, current, disk, client, decide, asked, suspended, crashes>>

\* cancel_request: one cancel task per tree, for the scope that is live.
CancelRequest(s) ==
    /\ Runs("cancel", s) /\ cancel[s] = "none" /\ Live(s)
    /\ \A t \in Scopes : cancel[t] \in {"none", "done"}
    /\ cancel' = [cancel EXCEPT ![s] = "starting"]
    /\ UNCHANGED <<rec, writes, inbox, snapshot, tree, task, failures>> /\ CancelFrame

\* _cancel_scope when its task first runs: the gates close.
CloseScope(s) ==
    /\ Runs("cancel", s) /\ cancel[s] = "starting"
    /\ Transition("close", s, "cancelling")
    /\ cancel' = [cancel EXCEPT ![s] = "closing"]
    /\ UNCHANGED <<inbox, snapshot, tree, task, failures>> /\ CancelFrame

\* Mutant: the tasks are not awaited.
Drained_AtOnce(s) == TRUE

\* cancel_sessions: the tasks it cancelled are over.
Drained(s) == \A x \in Sessions : ~task[x].cancelled

\* The batch is terminated, the tracks are closed, the inboxes are drained.
CleanUp(s) ==
    /\ Runs("cancel", s) /\ cancel[s] \in {"draining", "drained"} /\ Drained(s)
    /\ snapshot' = FALSE /\ tracks' = {}
    /\ pendingInput' = {}
    /\ queue' = [x \in Sessions |-> <<>>] /\ work' = [x \in Sessions |-> <<>>]
    /\ IF \E x \in Sessions : \E i \in DOMAIN queue[x] : queue[x][i].kind = "result"
       THEN Signal ELSE UNCHANGED event
    /\ cancel' = [cancel EXCEPT ![s] = "cleaned"]
    /\ UNCHANGED <<rec, writes, running, task, failures>> /\ CancelFrame

\* The scope is settled: FAILED when the batch could not be terminated.
CancelSettles(s) ==
    /\ Runs("cancel", s) /\ cancel[s] = "cleaned"
    /\ IF State(s) \in Terminal
       THEN cancel' = [cancel EXCEPT ![s] = "done"] /\ UNCHANGED <<rec, writes, failures>>
       ELSE /\ \/ Settle("cancel", s, "cancelled") /\ UNCHANGED failures
               \/ /\ failures < MaxFailures /\ failures' = failures + 1
                  /\ Settle("cancel", s, "failed")
            /\ cancel' = [cancel EXCEPT ![s] = "settling"]
    /\ UNCHANGED <<inbox, snapshot, tree, task>> /\ CancelFrame

-----------------------------------------------------------------------------
(* The registry *)

\* A settled record and its signal.
Settled(w) == rec' = [rec EXCEPT ![w.scope].state = w.state] /\ Signal

\* What follows a registration, by the handler that waited for it.
AfterWrite(w) ==
    \/ /\ w.by = "begin" /\ Goes(w.scope, "reserved")
       /\ Signal /\ UNCHANGED <<rec, task, cancel>>
    \/ /\ w.by = "interrupt" /\ Signal
       /\ client' = [s \in Scopes |-> IF client[s] = "interrupting" THEN "interrupted" ELSE client[s]]
       /\ UNCHANGED <<rec, task, cancel>>
    \/ /\ w.by = "release" /\ Signal
       /\ client' = [s \in Scopes |-> IF client[s] = "releasing" THEN "done" ELSE client[s]]
       /\ UNCHANGED <<rec, task, cancel>>
    \/ /\ w.by = "activate" /\ Goes(w.scope, "submitting")
       /\ UNCHANGED <<rec, event, task, cancel>>
    \/ /\ w.by \in {"fail", "wait"} /\ Settled(w) /\ Goes(w.scope, "done")
       /\ UNCHANGED <<task, cancel>>
    \/ /\ w.by = "note" /\ Step(Root, "ack") /\ UNCHANGED <<rec, event, client, cancel>>
    \/ /\ w.by = "close" /\ Signal
       /\ cancel' = [cancel EXCEPT ![w.scope] =
                         IF \E x \in Sessions : task[x].pc # "idle" THEN "draining" ELSE "drained"]
       /\ task' = [x \in Sessions |-> [task[x] EXCEPT !.cancelled = task[x].pc # "idle"]]
       /\ UNCHANGED <<rec, client>>
    \/ /\ w.by = "cancel" /\ Settled(w)
       /\ cancel' = [cancel EXCEPT ![w.scope] = "done"]
       /\ UNCHANGED <<client, task>>

\* register: one at a time, in the order of arrival.
Register ==
    /\ writes # <<>>
    /\ disk' = [scope |-> Head(writes).scope, state |-> Head(writes).state]
    /\ writes' = Tail(writes)
    /\ AfterWrite(Head(writes))
    /\ UNCHANGED <<suspends, current, inbox, snapshot, running, pendingInput, decide, bounds>>

\* The process dies and starts again: settle_interrupted_scopes drops what a
\* lost scope left behind, before the poller runs.  (The in-memory stores end
\* with the process.)
Crash ==
    /\ suspends /\ crashes < MaxCrashes /\ crashes' = crashes + 1
    /\ current' = NoScope /\ rec' = [s \in Scopes |-> NoRec] /\ writes' = <<>>
    /\ running' = {} /\ event' = NoEvent
    /\ client' = [s \in Scopes |-> IF client[s] = "new" THEN "new" ELSE "done"]
    /\ task' = [x \in Sessions |-> NoTask]
    /\ cancel' = [s \in Scopes |-> IF cancel[s] = "none" THEN "none" ELSE "done"]
    /\ decide' = [s \in Scopes |-> "done"]
    /\ IF disk.state \in Terminal \union {"none"}
       THEN /\ tracks' = {m \in tracks : \E i \in DOMAIN queue[Target(m)] : queue[Target(m)][i] = m}
            /\ pendingInput' = {x \in Sessions : work[x] # <<>> \/
                                    \E i \in DOMAIN queue[x] : queue[x][i].kind \in PendingTypes}
            /\ UNCHANGED <<disk, queue, work, snapshot>>
       ELSE /\ disk' = [disk EXCEPT !.state = "interrupted"]
            /\ queue' = [x \in Sessions |-> <<>>] /\ work' = [x \in Sessions |-> <<>>]
            /\ tracks' = {} /\ pendingInput' = {} /\ snapshot' = FALSE
    /\ UNCHANGED <<suspends, asked, suspended, failures>>

-----------------------------------------------------------------------------

Call(s) ==
    \/ Begin(s) \/ InterruptedBegin(s) \/ Release(s) \/ Activate(s) \/ Submit(s) \/ Deliver(s) \/ DeliverFails(s)
Wait(s) ==
    \/ Look(s) \/ LookAtRunning(s) \/ LookAtTracks(s) \/ LookAtRest(s) \/ Joined(s)
Approve(s) == Decide(s) \/ DeliverDecision(s)
Dispatch(x) ==
    \/ StartDispatch(x) \/ Consume(x) \/ Admit(x) \/ AckTurn(x) \/ Unwind(x)
    \/ CloseTracks(x) \/ Peek(x) \/ Mark(x) \/ Leave(x)
Turn == Ask \/ Asked \/ Fold \/ Answer \/ TrackAnswer \/ Answered \/ EndTurn
Finalize(s) == CloseScope(s) \/ CleanUp(s) \/ CancelSettles(s)

Next ==
    \/ \E s \in Scopes : Call(s) \/ Wait(s) \/ Approve(s) \/ CancelRequest(s) \/ Finalize(s)
    \/ \E x \in Sessions : Dispatch(x)
    \/ Turn \/ Register \/ Crash

Spec == Init /\ [][Next]_vars

-----------------------------------------------------------------------------
(* Properties *)

\* Every variable has its type.
TypeOK ==
    /\ suspends \in BOOLEAN /\ current \in Scopes \union {NoScope}
    /\ rec \in [Scopes -> [state : States, fact : {"none", "finished", "failed", "handled"},
                           from : Scopes \union {NoScope}]]
    /\ disk \in [scope : Scopes \union {NoScope}, state : States]
    /\ writes \in Seq([by : {"begin", "interrupt", "release", "activate", "fail", "wait", "note",
                             "close", "cancel"},
                       scope : Scopes \union {NoScope}, state : States])
    /\ queue \in [Sessions -> Seq(Messages)] /\ work \in [Sessions -> Seq(Messages)]
    /\ tracks \subseteq Messages /\ snapshot \in BOOLEAN
    /\ running \subseteq Sessions /\ pendingInput \subseteq Sessions /\ event \in [flag : BOOLEAN, woken : SUBSET Scopes]
    /\ \A x \in Sessions : (x \in running) = (task[x].pc # "idle")
    /\ asked \subseteq Scopes /\ suspended \subseteq Scopes

TurnOf(s) == \E x \in Sessions : task[x].scope = s /\ task[x].pc # "idle"

Has(x, s) == \E i \in DOMAIN (work[x] \o queue[x]) : (work[x] \o queue[x])[i].scope = s

\* "Only the full child/track settlement lets the root's own last fact become
\* the scope outcome" (manager.py:432): once a scope is settled no turn of it
\* runs.
SettledIsQuiet == \A s \in Scopes : State(s) \in Terminal => ~TurnOf(s)

\* Nothing of a settled scope is left: no turn, no message, no track, no
\* resumable batch.  (Where a query suspends the waiter can overtake a turn
\* that starts, see SettledIsQuiet.)
NothingOutlives ==
    ~suspends =>
        /\ SettledIsQuiet
        /\ \A s \in Scopes : State(s) \in Terminal =>
              /\ \A x \in Sessions : ~Has(x, s)
              /\ \A m \in tracks : m.scope # s
        /\ snapshot => CurrentState \notin Terminal \union {"none"}

\* The fact that becomes the outcome of a scope is a fact of its own turns,
\* never of a turn of the request before it (with the same exception).
FactIsOwn == ~suspends => \A s \in Scopes : rec[s].from \in {s, NoScope}

\* When a cancel has settled a scope, its turns are over, wherever they were.
CancelledIsQuiet == \A s \in Scopes : State(s) = "cancelled" => ~TurnOf(s)

\* No waiter sleeps for ever: while one sleeps, an approval is awaited or
\* somebody will signal the event (a turn, work that may be dispatched, a
\* cancel, another client, a write).  (Where a query suspends, only of a single
\* request: a late cancel may drop the prompt of the next one and not signal.)
SleeperHasCause ==
    \A s \in Scopes : client[s] = "asleep" /\ s \notin event.woken =>
        \/ CurrentState = "awaiting" \/ writes # <<>>
        \/ \E x \in Sessions : task[x].pc # "idle"
        \/ CanDispatch /\ \E x \in Sessions : queue[x] # <<>> \/ x \in pendingInput
        \/ \E t \in Scopes : \/ client[t] \notin {"new", "asleep", "done", "joining"}
                            \/ cancel[t] \notin {"none", "done"} \/ decide[t] = "delivering"

\* "The terminal outcome is frozen" (manager.py:476): no late turn, decision
\* or failure replaces the outcome of a settled scope.  A cancel accepted
\* before may: its task does not look whether the scope has settled.
OutcomeIsFrozen ==
    [][\A s \in Scopes : State(s) \in Terminal /\ State(s)' # State(s) =>
          State(s)' = "none" \/ cancel[s] # "none"]_vars

=============================================================================
