------------------------------- MODULE Inbox -------------------------------
(* The inbox of one session: the producer that stores messages               *)
(* (multi_agent/inbox/producer.py), the SQLite queue                         *)
(* (persistence/adapters/inbox_mq.py), the consumer that reserves them       *)
(* (multi_agent/inbox/consumer.py), and its two receivers: the poller, which *)
(* dispatches a batch one turn per message (multi_agent/inbox_poller.py),    *)
(* and the hook, which folds messages into the history of the turn that runs *)
(* (hook/builtin/inbox_flush.py).                                            *)
(*                                                                           *)
(* Both receivers of a session are the same task, so one operation of the    *)
(* consumer runs at a time; senders, the reaper, cancellations and crashes   *)
(* come between any two awaits.  A message is its id; its type is in the     *)
(* constants.                                                                *)
EXTENDS FiniteSets, Selection

CONSTANTS
    Messages,
    Foldable,   \* messages of a type the hook folds: all but EXTERNAL_INPUT
    Prompts,    \* messages of a type in _PENDING_TYPES
    Limit,      \* _DRAIN_BATCH_LIMIT of the pool, max_messages_per_flush of the hook
    MaxSends,   \* bound: calls of send and deliver
    MaxFaults   \* bound: failures, cancellations and crashes

ASSUME InboxAssumption ==
    /\ Foldable \subseteq Messages /\ Prompts \subseteq Messages
    /\ Limit \in Nat \ {0} /\ MaxSends \in Nat /\ MaxFaults \in Nat

VARIABLES
    queue,      \* durable: the rows in state 'pending', by seq
    taken,      \* durable: the rows in state 'consumed'
    delivered,  \* durable: inbox_delivered_ids
    work,       \* durable: SessionWork.pending, the receipts not yet acknowledged
    sent,       \* memory: the producer's cache
    storing,    \* messages whose send waits for the store
    seen,       \* memory: the consumer's cache
    claimed,    \* memory: the consumer's claims
    pendingInput, \* memory: the session is in _pending_input of the tree
    turn,       \* the task of the poller for this session
    fold,       \* the flush of the hook inside it
    op,         \* the consume in progress
    accepts,    \* how often a message was accepted
    starts,     \* how often a message was handed to the agent
    acked,      \* the messages that were acknowledged
    sends, faults

store == <<queue, taken, delivered>>
producer == <<sent, storing, accepts, sends>>
receivers == <<turn, fold, op>>
vars == <<store, work, producer, seen, claimed, pendingInput, receivers,
          starts, acked, faults>>

Batch(phase, messages) == [phase |-> phase, messages |-> messages, next |-> 1]
NoOp == [by |-> "none", messages |-> <<>>, stage |-> "none", count |-> 0]
Idle == Batch("idle", <<>>)
NoFold == Batch("none", <<>>)

Init ==
    /\ queue = <<>> /\ taken = {} /\ delivered = {} /\ work = <<>>
    /\ sent = {} /\ storing = {} /\ seen = {} /\ claimed = {}
    /\ pendingInput = FALSE
    /\ turn = Idle /\ fold = NoFold /\ op = NoOp
    /\ accepts = [m \in Messages |-> 0] /\ starts = [m \in Messages |-> 0]
    /\ acked = {} /\ sends = 0 /\ faults = 0

Pending == ToSet(queue)
Work == ToSet(work)
Rows == Pending \union taken

Fault == faults < MaxFaults /\ faults' = faults + 1

-----------------------------------------------------------------------------
(* Sending *)

\* The tree marks the session before it sends a prompt, and unmarks it when
\* the bus answers False.
Marked(m, answer) ==
    IF m \notin Prompts THEN pendingInput ELSE answer

\* send: the cache knows a message before it is stored.
Send(m) ==
    /\ sends < MaxSends /\ m \notin storing
    /\ sends' = sends + 1
    /\ sent' = sent \union {m}
    /\ IF m \in sent
       THEN /\ pendingInput' = Marked(m, FALSE)
            /\ UNCHANGED storing
       ELSE /\ pendingInput' = Marked(m, TRUE)
            /\ storing' = storing \union {m}
    /\ UNCHANGED <<store, work, seen, claimed, receivers, accepts, starts, acked, faults>>

\* Mutant: the insertion looks at the delivered ids alone.
Insert_DeliveredOnly(m) ==
    IF m \in delivered \union Pending
    THEN UNCHANGED <<store, accepts>>
    ELSE /\ queue' = Append(queue, m)
         /\ taken' = taken \ {m}
         /\ accepts' = [accepts EXCEPT ![m] = @ + 1]
         /\ UNCHANGED delivered

\* The transaction of receive and of deliver: a message is known by its
\* delivered id or by its row, whatever the state of that row.
Insert(m) ==
    IF m \in delivered \union Rows
    THEN UNCHANGED <<store, accepts>>
    ELSE /\ queue' = Append(queue, m)
         /\ accepts' = [accepts EXCEPT ![m] = @ + 1]
         /\ UNCHANGED <<taken, delivered>>

\* receive commits and send returns.
Store(m) ==
    /\ m \in storing
    /\ Insert(m)
    /\ pendingInput' = Marked(m, accepts' # accepts)
    /\ storing' = storing \ {m}
    /\ UNCHANGED <<work, sent, sends, seen, claimed, receivers, starts, acked, faults>>

\* receive fails: the message stays in the producer's cache.
StoreFails(m) ==
    /\ m \in storing /\ Fault
    /\ pendingInput' = Marked(m, FALSE)
    /\ storing' = storing \ {m}
    /\ UNCHANGED <<store, work, sent, sends, accepts, seen, claimed, receivers, starts, acked>>

\* deliver of another process: no cache, and nobody is told.
Deliver(m) ==
    /\ sends < MaxSends /\ sends' = sends + 1
    /\ Insert(m)
    /\ UNCHANGED <<work, sent, storing, seen, claimed, pendingInput, receivers, starts, acked,
                   faults>>

\* reap_expired: the ids expire, the rows stay.
Reap ==
    /\ delivered # {} /\ delivered' = {}
    /\ UNCHANGED <<queue, taken, work, producer, seen, claimed, pendingInput, receivers, starts,
                   acked, faults>>

-----------------------------------------------------------------------------
(* The consumer *)

OfTypes(by) == IF by = "fold" THEN Foldable ELSE Messages

\* Saved receipts first, then the queue, each message once.
Authoritative == work \o Only(queue, Messages \ Work)

\* Mutant: the consumer forgets its claims.
Reservable_Unclaimed(by) ==
    FirstOf(Limit, Only(Authoritative, OfTypes(by) \ seen))

\* What a consume reserves.
Reservable(by) ==
    FirstOf(Limit, Only(Authoritative, OfTypes(by) \ (claimed \union seen)))

\* Mutant: the rows that have a receipt already are not counted.
Reserve_CountsNew(by, batch) ==
    /\ claimed' = claimed \union ToSet(batch)
    /\ op' = [by |-> by, messages |-> batch, stage |-> "save",
              count |-> Cardinality((Pending \intersect ToSet(batch)) \ Work)]

\* consume claims what it chose and counts its rows.
Reserve(by, batch) ==
    /\ claimed' = claimed \union ToSet(batch)
    /\ op' = [by |-> by, messages |-> batch, stage |-> "save",
              count |-> Cardinality(Pending \intersect ToSet(batch))]

\* consume returns to its receiver.
Hand ==
    /\ op' = NoOp
    /\ IF op.by = "turn"
       THEN turn' = Batch("next", op.messages) /\ UNCHANGED fold
       ELSE fold' = Batch("append", op.messages) /\ UNCHANGED turn

\* Mutant: the receipts replace those that are there.
SaveWork_Replaces ==
    /\ op.stage = "save"
    /\ work' = op.messages
    /\ IF op.count = 0 THEN Hand
       ELSE op' = [op EXCEPT !.stage = "take"] /\ UNCHANGED <<turn, fold>>
    /\ UNCHANGED <<store, producer, seen, claimed, pendingInput, starts, acked, faults>>

\* _save_work: the receipts are durable before the queue lets go of them.
SaveWork ==
    /\ op.stage = "save"
    /\ work' = work \o Only(op.messages, Messages \ Work)
    /\ IF op.count = 0 THEN Hand
       ELSE op' = [op EXCEPT !.stage = "take"] /\ UNCHANGED <<turn, fold>>
    /\ UNCHANGED <<store, producer, seen, claimed, pendingInput, starts, acked, faults>>

\* InboxMQ.consume: the first rows of these types, however many were counted.
TakeRows ==
    /\ op.stage = "take"
    /\ LET rows == ToSet(FirstOf(op.count, Only(queue, OfTypes(op.by))))
       IN  /\ queue' = Only(queue, Messages \ rows)
           /\ taken' = taken \union rows
           /\ delivered' = delivered \union rows
    /\ Hand
    /\ UNCHANGED <<work, producer, seen, claimed, pendingInput, starts, acked, faults>>

\* acknowledge: retire the receipt, remember it, let go of the claim, tell
\* the tree.  Nothing happens to a message without a receipt.
Acknowledge(m) ==
    IF m \in Work
    THEN /\ work' = Only(work, Messages \ {m})
         /\ seen' = seen \union {m}
         /\ claimed' = claimed \ {m}
         /\ acked' = acked \union {m}
         /\ pendingInput' = (pendingInput /\ m \notin Prompts)
    ELSE UNCHANGED <<work, seen, claimed, acked, pendingInput>>

-----------------------------------------------------------------------------
(* The poller *)

Now(r) == r.messages[r.next]
More(r) == r.next <= Len(r.messages)
HandsOver(m) == starts' = [starts EXCEPT ![m] = @ + 1]

\* Mutant: the poller looks at the queue alone.
StartTurn_QueueOnly ==
    /\ turn.phase = "idle" /\ queue # <<>>
    /\ turn' = [turn EXCEPT !.phase = "start"]
    /\ pendingInput' = FALSE
    /\ UNCHANGED <<store, work, producer, seen, claimed, fold, op, starts, acked, faults>>

\* _tick and _maybe_start, up to on_dispatch_start: a session with rows in
\* the queue or work in the tree has a task, and never two.
StartTurn ==
    /\ turn.phase = "idle" /\ (queue # <<>> \/ pendingInput)
    /\ turn' = [turn EXCEPT !.phase = "start"]
    /\ pendingInput' = FALSE
    /\ UNCHANGED <<store, work, producer, seen, claimed, fold, op, starts, acked, faults>>

\* consume_inbox of the poller.
ConsumeBatch ==
    /\ turn.phase = "start"
    /\ \E batch \in {Reservable("turn")} :
           IF batch = <<>>
           THEN turn' = [turn EXCEPT !.phase = "end"] /\ UNCHANGED <<claimed, op>>
           ELSE Reserve("turn", batch) /\ turn' = [turn EXCEPT !.phase = "consume"]
    /\ UNCHANGED <<store, work, producer, seen, pendingInput, fold, starts, acked, faults>>

\* dispatch_envelope of the next message.
Dispatch ==
    /\ turn.phase = "next" /\ More(turn)
    /\ HandsOver(Now(turn))
    /\ turn' = [turn EXCEPT !.phase = "flush"]
    /\ UNCHANGED <<store, work, producer, seen, claimed, pendingInput, fold, op, acked, faults>>

\* The turn ended, well or in an error or a timeout that _run_dispatch keeps
\* to itself: from the start of the turn on, or between two iterations.
Finish ==
    /\ turn.phase \in {"flush", "run"}
    /\ turn' = [turn EXCEPT !.phase = "ran"]
    /\ UNCHANGED <<store, work, producer, seen, claimed, pendingInput, fold, op, starts, acked, faults>>

\* acknowledge_inbox after the turn.
AckTurn ==
    /\ turn.phase = "ran" /\ Acknowledge(Now(turn))
    /\ turn' = [turn EXCEPT !.phase = "next", !.next = @ + 1]
    /\ UNCHANGED <<store, producer, fold, op, starts, faults>>

\* The batch is over: its claims are released.
EndBatch ==
    /\ turn.phase = "next" /\ ~More(turn)
    /\ claimed' = claimed \ ToSet(turn.messages)
    /\ turn' = [turn EXCEPT !.phase = "end"]
    /\ UNCHANGED <<store, work, producer, seen, pendingInput, fold, op, starts, acked, faults>>

\* _end_dispatch and on_dispatch_end: the session is marked while it has
\* unfinished work.
EndDispatch ==
    /\ turn.phase = "end"
    /\ turn' = Idle
    /\ pendingInput' = (work \o queue # <<>>)
    /\ UNCHANGED <<store, work, producer, seen, claimed, fold, op, starts, acked, faults>>

-----------------------------------------------------------------------------
(* The hook *)

\* _flush at the start of the turn and before an iteration.
Flush ==
    /\ turn.phase = "flush" /\ fold = NoFold /\ op = NoOp
    /\ \E batch \in {Reservable("fold")} :
           IF batch = <<>>
           THEN turn' = [turn EXCEPT !.phase = "run"] /\ UNCHANGED <<claimed, op, fold>>
           ELSE /\ Reserve("fold", batch) /\ fold' = [fold EXCEPT !.phase = "consume"]
                /\ turn' = [turn EXCEPT !.phase = "folding"]
    /\ UNCHANGED <<store, work, producer, seen, pendingInput, starts, acked, faults>>

\* The next iteration of the agent flushes again.
Iterate ==
    /\ turn.phase = "run" /\ Reservable("fold") # <<>>
    /\ turn' = [turn EXCEPT !.phase = "flush"]
    /\ UNCHANGED <<store, work, producer, seen, claimed, pendingInput, fold, op, starts, acked, faults>>

\* history.append of the next message.
AppendToHistory ==
    /\ fold.phase = "append" /\ More(fold)
    /\ HandsOver(Now(fold))
    /\ fold' = [fold EXCEPT !.phase = "ack"]
    /\ UNCHANGED <<store, work, producer, seen, claimed, pendingInput, turn, op, acked, faults>>

\* acknowledge after the append.
AckFold ==
    /\ fold.phase = "ack" /\ Acknowledge(Now(fold))
    /\ fold' = [fold EXCEPT !.phase = "append", !.next = @ + 1]
    /\ UNCHANGED <<store, producer, turn, op, starts, faults>>

\* The flush is over: its claims are released and the turn goes on.
EndFlush ==
    /\ fold.phase = "append" /\ ~More(fold)
    /\ claimed' = claimed \ ToSet(fold.messages)
    /\ fold' = NoFold
    /\ turn' = [turn EXCEPT !.phase = "run"]
    /\ UNCHANGED <<store, work, producer, seen, pendingInput, op, starts, acked, faults>>

-----------------------------------------------------------------------------
(* Faults *)

\* A cancellation, or an error that leaves the dispatch: wherever the task
\* is, the consume, the flush and the batch it is in let go of their claims.
Interrupt ==
    /\ turn.phase \notin {"idle", "end"} /\ Fault
    /\ claimed' = claimed \ (ToSet(turn.messages) \union ToSet(fold.messages)
                                \union ToSet(op.messages))
    /\ turn' = Batch("end", <<>>) /\ fold' = NoFold /\ op' = NoOp
    /\ UNCHANGED <<store, work, producer, seen, pendingInput, starts, acked>>

\* Mutant: recovery does not mark the sessions with saved work.
Crash_Unmarked ==
    /\ Fault
    /\ sent' = {} /\ storing' = {} /\ seen' = {} /\ claimed' = {}
    /\ turn' = Idle /\ fold' = NoFold /\ op' = NoOp
    /\ pendingInput' = FALSE
    /\ UNCHANGED <<store, work, accepts, sends, starts, acked>>

\* The process dies and starts again: recover_tree marks the session for
\* saved work and for a prompt in the queue.
Crash ==
    /\ Fault
    /\ sent' = {} /\ storing' = {} /\ seen' = {} /\ claimed' = {}
    /\ turn' = Idle /\ fold' = NoFold /\ op' = NoOp
    /\ pendingInput' = (work # <<>> \/ Pending \intersect Prompts # {})
    /\ UNCHANGED <<store, work, accepts, sends, starts, acked>>

-----------------------------------------------------------------------------

Produce == \E m \in Messages : Send(m) \/ Store(m) \/ StoreFails(m) \/ Deliver(m)
Consume == SaveWork \/ TakeRows
Poll == StartTurn \/ ConsumeBatch \/ Dispatch \/ Finish \/ AckTurn \/ EndBatch \/ EndDispatch
Hook == Flush \/ Iterate \/ AppendToHistory \/ AckFold \/ EndFlush

Next == Produce \/ Reap \/ Consume \/ Poll \/ Hook \/ Interrupt \/ Crash

Spec == Init /\ [][Next]_vars

\* The poller ticks again and again, its task runs, and a turn ends.
FairSpec ==
    /\ Spec
    /\ WF_vars(Consume) /\ WF_vars(Poll)
    /\ WF_vars(Flush \/ AppendToHistory \/ AckFold \/ EndFlush)

-----------------------------------------------------------------------------
(* Properties *)

Turns == [phase : {"idle", "start", "consume", "next", "flush", "folding", "run", "ran", "end"},
          messages : Seq(Messages), next : Nat \ {0}]
Folds == [phase : {"none", "consume", "append", "ack"},
          messages : Seq(Messages), next : Nat \ {0}]
Ops == [by : {"none", "turn", "fold"}, messages : Seq(Messages),
        stage : {"none", "save", "take"}, count : Nat]

\* Every variable has its type.
TypeOK ==
    /\ queue \in Seq(Messages) /\ taken \subseteq Messages /\ delivered \subseteq taken
    /\ work \in Seq(Messages)
    /\ sent \subseteq Messages /\ storing \subseteq sent
    /\ seen \subseteq Messages /\ claimed \subseteq Messages
    /\ pendingInput \in BOOLEAN
    /\ turn \in Turns /\ fold \in Folds /\ op \in Ops
    /\ accepts \in [Messages -> Nat] /\ starts \in [Messages -> Nat]
    /\ acked \subseteq Messages
    /\ sends \in 0..MaxSends /\ faults \in 0..MaxFaults

\* "Messages are never lost": an accepted message is in the queue or among
\* the receipts until it is acknowledged, whatever fails and whenever.
NothingLost == \A m \in Messages : accepts[m] > 0 => m \in Pending \union Work \union acked

\* A message is accepted once, whatever is sent again, by whom, after a
\* restart or after its delivered id expired.
AcceptedOnce == \A m \in Messages : accepts[m] <= 1

\* An acknowledged message is done with: it is nowhere left to be consumed.
AckedIsGone == acked \intersect (Pending \union Work) = {}

\* Where a message is.  An accepted one that is nowhere is lost.
Life ==
    [m \in Messages |->
        CASE m \in Work                         -> "reserved"
          [] m \in Pending \ Work               -> "queued"
          [] m \in acked \ (Pending \union Work) -> "done"
          [] OTHER -> IF accepts[m] > 0 THEN "lost" ELSE "unknown"]

\* The queue, the receipts and the acknowledgements together are one message's life of
\* MessageLife: a fault, a repeated send or a nested flush never takes a message back
\* from one to the other, and what was acknowledged is nowhere.
Lives == INSTANCE MessageLife WITH life <- Life
ImplementsMessageLife == Lives!Spec

\* A message is handed to the agent again only for a failure, a cancellation
\* or a crash: once for each of them.
StartedOncePerFault == \A m \in Messages : starts[m] <= 1 + faults

\* A message is claimed by the batch, the flush or the consume that holds it
\* and by nobody else, so that it can be consumed again after they are gone.
ClaimsAreHeld ==
    claimed \subseteq ToSet(turn.messages) \union ToSet(fold.messages) \union ToSet(op.messages)

\* What pending_sessions is for: the poller will look at an idle session
\* that has reserved work, although the queue no longer names it.
ReservedIsPending == turn.phase = "idle" /\ work # <<>> => queue # <<>> \/ pendingInput

\* Nothing else than a send the bus refuses makes the poller forget a
\* session with reserved work.
OnlyRefusalForgets ==
    [][ReservedIsPending /\ ~ReservedIsPending' => sends' # sends \/ storing' # storing]_vars

\* An accepted message is acknowledged after any number of faults, or the
\* poller was made to forget its session.
AcceptedIsAcked == \A m \in Messages : accepts[m] > 0 ~> m \in acked \/ ~ReservedIsPending
=============================================================================
