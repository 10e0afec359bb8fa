---------------------------- MODULE Inbox_proofs ----------------------------
(* Theorems about Inbox for any messages, types, limit of a consume and      *)
(* bounds: the type of the state, acceptance, repetition and the mark of the *)
(* session; that no claim is left behind; then, while no row has a receipt   *)
(* or one consume can reserve all that is outstanding, that nothing is lost, *)
(* that what is acknowledged is gone and that MessageLife is implemented.    *)
EXTENDS Inbox, Selection_proofs

-----------------------------------------------------------------------------
(* The types *)

\* A consume asks for types of messages.
LEMMA OfTypesType == ASSUME NEW by PROVE OfTypes(by) \subseteq Messages
  BY InboxAssumption DEF OfTypes

\* What a consume may reserve: messages of its types from the receipts and the
\* queue, none claimed or acknowledged, each once.
LEMMA ReservableFacts ==
  ASSUME queue \in Seq(Messages), work \in Seq(Messages), NEW by
  PROVE  /\ Reservable(by) \in Seq(Messages)
         /\ ToSet(Reservable(by)) \subseteq (Work \union Pending) \intersect OfTypes(by)
         /\ ToSet(Reservable(by)) \intersect (claimed \union seen) = {}
         /\ IsInjective(work) /\ IsInjective(queue) => IsInjective(Reservable(by))
<1> DEFINE rest == Only(queue, Messages \ Work)
           mine == Only(Authoritative, OfTypes(by) \ (claimed \union seen))
<1>1. /\ rest \in Seq(Messages) /\ ToSet(rest) = Pending \ Work
      /\ IsInjective(queue) => IsInjective(rest)
  <2>1. Pending \subseteq Messages
    BY DEF Pending, ToSet
  <2> QED BY <2>1, OnlyFacts DEF Pending
<1>a. Authoritative = work \o rest
  BY DEF Authoritative
<1> HIDE DEF rest
<1>2. /\ Authoritative \in Seq(Messages) /\ ToSet(Authoritative) = Work \union Pending
      /\ IsInjective(work) /\ IsInjective(queue) => IsInjective(Authoritative)
  <2>1. ToSet(work) = Work /\ Work \intersect (Pending \ Work) = {}
    BY DEF Work
  <2> QED BY <1>1, <1>a, <2>1, ConcatFacts
<1>3. /\ mine \in Seq(Messages)
      /\ ToSet(mine) = ToSet(Authoritative) \intersect (OfTypes(by) \ (claimed \union seen))
      /\ IsInjective(Authoritative) => IsInjective(mine)
  BY <1>2, OnlyFacts
<1>4. Limit \in Nat /\ Reservable(by) = FirstOf(Limit, mine)
  BY InboxAssumption DEF Reservable
<1> HIDE DEF mine
<1>5. /\ FirstOf(Limit, mine) \in Seq(Messages)
      /\ ToSet(FirstOf(Limit, mine)) \subseteq ToSet(mine)
      /\ IsInjective(mine) => IsInjective(FirstOf(Limit, mine))
  BY <1>3, <1>4, FirstFacts
<1> QED BY <1>2, <1>3, <1>4, <1>5

\* A reservation has the type of an operation.
LEMMA ReserveType ==
  ASSUME TypeOK, NEW by \in {"turn", "fold"}, Reserve(by, Reservable(by))
  PROVE  /\ claimed' \subseteq Messages
         /\ op' \in Ops
<1> DEFINE batch == Reservable(by)
<1>1. batch \in Seq(Messages)
  BY ReservableFacts DEF TypeOK
<1>2. ToSet(batch) \subseteq Messages
  BY <1>1 DEF ToSet
<1>3. Cardinality(Pending \intersect ToSet(batch)) \in Nat
  <2>1. IsFiniteSet(Pending)
    BY SeqRangeFinite DEF Pending, TypeOK
  <2>2. IsFiniteSet(Pending \intersect ToSet(batch))
    BY <2>1, FS_Intersection
  <2> QED BY <2>2, FS_CardinalityType
<1> HIDE DEF batch
<1> QED BY <1>1, <1>2, <1>3 DEF Reserve, TypeOK, batch, Ops

\* The transaction of receive and deliver keeps the types.
LEMMA InsertType ==
  ASSUME TypeOK, NEW m \in Messages, Insert(m)
  PROVE  /\ queue' \in Seq(Messages) /\ taken' \subseteq Messages
    /\ delivered' \subseteq taken'
         /\ accepts' \in [Messages -> Nat]
<1>1. CASE m \in delivered \union Rows
  BY <1>1 DEF Insert, TypeOK, store
<1>2. CASE m \notin delivered \union Rows
  <2>1. queue' = Append(queue, m) /\ accepts' = [accepts EXCEPT ![m] = @ + 1]
        /\ UNCHANGED <<taken, delivered>>
    BY <1>2 DEF Insert
  <2>2. queue' \in Seq(Messages)
    BY <2>1 DEF TypeOK
  <2>3. accepts' \in [Messages -> Nat]
    BY <2>1 DEF TypeOK
  <2> QED BY <2>1, <2>2, <2>3 DEF TypeOK
<1> QED BY <1>1, <1>2

\* An acknowledgement keeps the types.
LEMMA AcknowledgeType ==
  ASSUME TypeOK, NEW m, Acknowledge(m)
  PROVE  /\ work' \in Seq(Messages) /\ seen' \subseteq Messages
         /\ claimed' \subseteq Messages /\ acked' \subseteq Messages
         /\ pendingInput' \in BOOLEAN
<1>1. Work \subseteq Messages
  BY DEF Work, ToSet, TypeOK
<1>2. Only(work, Messages \ {m}) \in Seq(Messages)
  BY OnlyFacts DEF TypeOK
<1> QED BY <1>1, <1>2 DEF Acknowledge, TypeOK

\* The next message of a batch is a message.
LEMMA NowType ==
  ASSUME NEW r, r.messages \in Seq(Messages), r.next \in Nat \ {0}, More(r)
  PROVE  Now(r) \in Messages
  BY DEF Now, More

\* A fault keeps its counter within the bound.
LEMMA FaultType == ASSUME TypeOK, Fault PROVE faults' \in 0..MaxFaults
<1>1. /\ faults < MaxFaults /\ faults' = faults + 1 /\ faults \in 0..MaxFaults
      /\ MaxFaults \in Nat
  BY InboxAssumption DEF Fault, TypeOK
<1> QED BY <1>1

\* The mark of the tree is a Boolean.
LEMMA MarkedType ==
  ASSUME pendingInput \in BOOLEAN, NEW m, NEW answer \in BOOLEAN
  PROVE  Marked(m, answer) \in BOOLEAN
  BY Zenon DEF Marked

\* A message handed over keeps the counters' type.
LEMMA HandsOverType ==
  ASSUME TypeOK, NEW m \in Messages, HandsOver(m) PROVE starts' \in [Messages -> Nat]
<1>1. starts \in [Messages -> Nat] /\ starts' = [starts EXCEPT ![m] = @ + 1]
  BY DEF HandsOver, TypeOK
<1> QED BY <1>1

\* The batches of an idle task have their types.
LEMMA EmptyBatches ==
  /\ Idle \in Turns /\ Batch("end", <<>>) \in Turns /\ NoFold \in Folds /\ NoOp \in Ops
<1>1. <<>> \in Seq(Messages)
  OBVIOUS
<1> QED BY <1>1, SMT DEF Idle, NoFold, NoOp, Batch, Turns, Folds, Ops

\* A turn in another phase is a turn.
LEMMA TurnTypes ==
  ASSUME turn \in Turns, NEW p \in {"start", "next", "flush", "folding", "run", "ran", "end"}
  PROVE  [turn EXCEPT !.phase = p] \in Turns
  BY DEF Turns

\* The return of a consume keeps the types of its receivers.
LEMMA HandType ==
  ASSUME TypeOK, Hand
  PROVE  turn' \in Turns /\ fold' \in Folds /\ op' \in Ops
  BY EmptyBatches DEF Hand, TypeOK, Batch, Turns, Folds, Ops

\* Every step keeps the types.
LEMMA TypeStep == ASSUME TypeOK, [Next]_vars PROVE TypeOK'
<1>1. CASE UNCHANGED vars
  BY <1>1 DEF TypeOK, vars, store, producer, receivers
<1>2. ASSUME NEW m \in Messages, Send(m) PROVE TypeOK'
  <2>1. pendingInput' \in BOOLEAN
    BY <1>2, MarkedType, Zenon DEF Send, TypeOK
  <2>2. sent' \subseteq Messages /\ storing' \subseteq sent' /\ sends' \in 0..MaxSends
    <3>1. sends < MaxSends /\ sends' = sends + 1 /\ sends \in 0..MaxSends
      /\ MaxSends \in Nat
      BY <1>2, InboxAssumption DEF Send, TypeOK
    <3>2. sends' \in 0..MaxSends
      BY <3>1
    <3> QED BY <1>2, <3>2 DEF Send, TypeOK
  <2> QED BY <1>2, <2>1, <2>2 DEF Send, TypeOK, vars, store, producer, receivers
<1>3. ASSUME NEW m \in Messages, Store(m) PROVE TypeOK'
  BY <1>3, InsertType DEF Store, Marked, TypeOK, vars, store, producer, receivers
<1>4. ASSUME NEW m \in Messages, StoreFails(m) PROVE TypeOK'
  <2>1. pendingInput' \in BOOLEAN
    BY <1>4, MarkedType, Zenon DEF StoreFails, TypeOK
  <2>2. faults' \in 0..MaxFaults
    BY <1>4, FaultType DEF StoreFails
  <2> QED BY <1>4, <2>1, <2>2 DEF StoreFails, TypeOK, vars, store, producer, receivers
<1>5. ASSUME NEW m \in Messages, Deliver(m) PROVE TypeOK'
  BY <1>5, InsertType, InboxAssumption DEF Deliver, TypeOK, vars, store, producer, receivers
<1>6. CASE Reap
  BY <1>6 DEF Reap, TypeOK, vars, store, producer, receivers
<1>7. CASE SaveWork
  <2>1. work' \in Seq(Messages)
    <3>1. Only(op.messages, Messages \ Work) \in Seq(Messages)
      BY OnlyFacts DEF TypeOK, Ops
    <3> QED BY <1>7, <3>1, ConcatFacts DEF SaveWork, TypeOK
  <2>2. turn' \in Turns /\ fold' \in Folds /\ op' \in Ops
    <3>1. CASE op.count = 0
      BY <1>7, <3>1, HandType DEF SaveWork
    <3>2. CASE op.count # 0
      BY <1>7, <3>2 DEF SaveWork, TypeOK, Turns, Folds, Ops
    <3> QED BY <3>1, <3>2
  <2> QED BY <1>7, <2>1, <2>2 DEF SaveWork, TypeOK, vars, store, producer, receivers
<1>8. CASE TakeRows
  <2> DEFINE types == OfTypes(op.by)
             rows == ToSet(FirstOf(op.count, Only(queue, types)))
  <2>1. rows \subseteq Messages
    <3>1. Only(queue, types) \in Seq(Messages)
      BY OnlyFacts DEF TypeOK
    <3>2. FirstOf(op.count, Only(queue, types)) \in Seq(Messages)
      BY <3>1, FirstFacts DEF TypeOK, Ops
    <3> QED BY <3>2 DEF ToSet
  <2>2. /\ queue' = Only(queue, Messages \ rows)
        /\ taken' = taken \union rows /\ delivered' = delivered \union rows
    BY <1>8 DEF TakeRows
  <2> HIDE DEF rows
  <2>3. queue' \in Seq(Messages)
    BY <2>2, OnlyFacts DEF TypeOK
  <2>4. turn' \in Turns /\ fold' \in Folds /\ op' \in Ops
    BY <1>8, HandType DEF TakeRows
  <2>5. UNCHANGED <<work, producer, seen, claimed, pendingInput, starts, acked, faults>>
    BY <1>8 DEF TakeRows
  <2> QED BY <2>1, <2>2, <2>3, <2>4, <2>5 DEF TypeOK, vars, store, producer, receivers
<1>9. CASE StartTurn
  BY <1>9 DEF StartTurn, Turns, Folds, TypeOK, vars, store, producer, receivers
<1>10. CASE ConsumeBatch
  <2>1. CASE Reservable("turn") = <<>>
    BY <1>10, <2>1 DEF ConsumeBatch, Turns, Folds, TypeOK, vars, store, producer, receivers
  <2>2. CASE Reservable("turn") # <<>>
    <3>1. Reserve("turn", Reservable("turn"))
      BY <1>10, <2>2 DEF ConsumeBatch
    <3>2. claimed' \subseteq Messages /\ op' \in Ops
      BY <3>1, ReserveType DEF Ops
    <3>3. turn' \in Turns /\ fold' \in Folds
      BY <1>10, <2>2 DEF ConsumeBatch, Turns, Folds, TypeOK, Turns, Folds, receivers
    <3>4. UNCHANGED <<store, work, producer, seen, pendingInput, starts, acked, faults>>
      BY <1>10 DEF ConsumeBatch
    <3> QED BY <3>2, <3>3, <3>4 DEF TypeOK, vars, store, producer, receivers
  <2> QED BY <2>1, <2>2
<1>11. CASE Dispatch
  <2>1. Now(turn) \in Messages
    BY <1>11, NowType DEF Dispatch, Turns, TypeOK
  <2>2. starts' \in [Messages -> Nat]
    BY <1>11, <2>1, HandsOverType DEF Dispatch
  <2>3. turn' \in Turns
    BY <1>11 DEF Dispatch, Turns, TypeOK
  <2> QED BY <1>11, <2>2, <2>3 DEF Dispatch, TypeOK, vars, store, producer, receivers
<1>12. CASE Finish
  BY <1>12 DEF Finish, Turns, Folds, TypeOK, vars, store, producer, receivers
<1>13. CASE AckTurn
  <2>1. Acknowledge(Now(turn))
    BY <1>13 DEF AckTurn
  <2>2. /\ work' \in Seq(Messages) /\ seen' \subseteq Messages
        /\ claimed' \subseteq Messages /\ acked' \subseteq Messages
        /\ pendingInput' \in BOOLEAN
    BY <2>1, AcknowledgeType
  <2>3. turn' \in Turns
    <3>1. turn' = [turn EXCEPT !.phase = "next", !.next = @ + 1] /\ turn \in Turns
      BY <1>13 DEF AckTurn, TypeOK
    <3>2. turn' = [phase |-> "next", messages |-> turn.messages, next |-> turn.next + 1]
      BY <3>1 DEF Turns
    <3>3. turn.messages \in Seq(Messages) /\ turn.next + 1 \in Nat \ {0}
      BY <3>1 DEF Turns
    <3> QED BY <3>2, <3>3 DEF Turns
  <2> QED BY <1>13, <2>2, <2>3 DEF AckTurn, TypeOK, vars, store, producer, receivers
<1>14. CASE EndBatch
  BY <1>14 DEF EndBatch, Turns, Folds, TypeOK, vars, store, producer, receivers
<1>15. CASE EndDispatch
  BY <1>15, EmptyBatches DEF EndDispatch, TypeOK, vars, store, producer, receivers
<1>16. CASE Flush
  <2>1. CASE Reservable("fold") = <<>>
    BY <1>16, <2>1 DEF Flush, Turns, TypeOK, vars, store, producer, receivers
  <2>2. CASE Reservable("fold") # <<>>
    <3>1. Reserve("fold", Reservable("fold"))
      BY <1>16, <2>2 DEF Flush
    <3>2. claimed' \subseteq Messages /\ op' \in Ops
      BY <3>1, ReserveType DEF Ops
    <3>3. turn' \in Turns /\ fold' \in Folds
      BY <1>16, <2>2 DEF Flush, TypeOK, Turns, Folds, receivers
    <3>4. UNCHANGED <<store, work, producer, seen, pendingInput, starts, acked, faults>>
      BY <1>16 DEF Flush
    <3> QED BY <3>2, <3>3, <3>4 DEF TypeOK, vars, store, producer, receivers
  <2> QED BY <2>1, <2>2
<1>17. CASE Iterate
  BY <1>17 DEF Iterate, Turns, Folds, TypeOK, vars, store, producer, receivers
<1>18. CASE AppendToHistory
  <2>1. Now(fold) \in Messages
    BY <1>18, NowType DEF AppendToHistory, Folds, TypeOK
  <2>2. starts' \in [Messages -> Nat]
    BY <1>18, <2>1, HandsOverType DEF AppendToHistory
  <2>3. fold' \in Folds
    BY <1>18 DEF AppendToHistory, Folds, TypeOK
  <2> QED BY <1>18, <2>2, <2>3 DEF AppendToHistory, TypeOK, vars, store, producer, receivers
<1>19. CASE AckFold
  <2>1. Acknowledge(Now(fold))
    BY <1>19 DEF AckFold
  <2>2. /\ work' \in Seq(Messages) /\ seen' \subseteq Messages
        /\ claimed' \subseteq Messages /\ acked' \subseteq Messages
        /\ pendingInput' \in BOOLEAN
    BY <2>1, AcknowledgeType
  <2>3. fold' \in Folds
    <3>1. fold' = [fold EXCEPT !.phase = "append", !.next = @ + 1] /\ fold \in Folds
      BY <1>19 DEF AckFold, TypeOK
    <3>2. fold' = [phase |-> "append", messages |-> fold.messages, next |-> fold.next + 1]
      BY <3>1 DEF Folds
    <3>3. fold.messages \in Seq(Messages) /\ fold.next + 1 \in Nat \ {0}
      BY <3>1 DEF Folds
    <3> QED BY <3>2, <3>3 DEF Folds
  <2> QED BY <1>19, <2>2, <2>3 DEF AckFold, TypeOK, vars, store, producer, receivers
<1>20. CASE EndFlush
  BY <1>20, EmptyBatches DEF EndFlush, Turns, TypeOK, vars, store, producer, receivers
<1>21. CASE Interrupt
  BY <1>21, EmptyBatches, FaultType DEF Interrupt, TypeOK, vars, store, producer, receivers
<1>22. CASE Crash
  BY <1>22, EmptyBatches, FaultType DEF Crash, TypeOK, vars, store, producer, receivers
<1> QED BY <1>1, <1>2, <1>3, <1>4, <1>5, <1>6, <1>7, <1>8, <1>9, <1>10, <1>11, <1>12,
  <1>13, <1>14, <1>15, <1>16, <1>17, <1>18, <1>19, <1>20, <1>21, <1>22 DEF Next, Produce,
  Consume, Poll, Hook

-----------------------------------------------------------------------------
(* The inductive invariant: the phases of the two receivers fit each other,
   and what they hold has a receipt *)

\* The phases of a turn that has a batch.
Holding == {"next", "flush", "folding", "run", "ran"}

\* The messages of a batch that are not acknowledged yet.
Left(r) == {r.messages[i] : i \in r.next..Len(r.messages)}

\* The phases of the turn, of the flush inside it and of the consume inside
\* either of them fit each other.
Phases ==
    /\ op.stage = "none" => op = NoOp
    /\ op.stage # "none" =>
          \/ op.by = "turn" /\ turn.phase = "consume" /\ fold = NoFold
          \/ op.by = "fold" /\ turn.phase = "folding" /\ fold.phase = "consume"
    /\ turn.phase = "idle" => turn = Idle
    /\ turn.phase \in {"start", "consume"} => turn.messages = <<>>
    /\ turn.phase \in Holding \ {"next"} => More(turn)
    /\ fold.phase = "none" => fold = NoFold
    /\ fold.phase = "consume" => fold.messages = <<>>
    /\ fold.phase = "ack" => More(fold)
    /\ fold.phase # "none" => turn.phase = "folding"

\* No message is twice in the queue, among the receipts or in a batch.
Distinct ==
    /\ IsInjective(queue) /\ IsInjective(work)
    /\ IsInjective(turn.messages) /\ IsInjective(fold.messages) /\ IsInjective(op.messages)

\* What a batch still has to handle has a receipt and is not acknowledged; for
\* the turn it is claimed too, so that the flush inside it reserves other messages.
Reserved ==
    /\ turn.phase \in Holding => Left(turn) \subseteq (claimed \intersect Work) \ seen
    /\ fold.phase \in {"append", "ack"} => Left(fold) \subseteq Work \ seen
    /\ turn.phase = "folding" => Left(turn) \intersect ToSet(fold.messages) = {}
    /\ op.stage # "none" => ToSet(op.messages) \intersect seen = {}
    /\ op.by = "turn" => ToSet(op.messages) \subseteq claimed
    /\ op.by = "fold" => ToSet(op.messages) \intersect Left(turn) = {}
    /\ op.stage = "take" => ToSet(op.messages) \subseteq Work

\* The messages being handled, which are handed over but not acknowledged.
Current ==
    {m \in Messages : \/ turn.phase \in Holding \ {"next"} /\ m = Now(turn)
                      \/ fold.phase = "ack" /\ m = Now(fold)}

\* A message was handed over once per fault, and once more if this process has
\* acknowledged it or is handling it.
Counted == \A m \in Messages :
    starts[m] <= faults + IF m \in seen \union Current THEN 1 ELSE 0

\* An accepted message has a row for ever, and so is not accepted again.
Known == \A m \in Messages : accepts[m] <= 1 /\ (accepts[m] > 0 => m \in Rows)

-----------------------------------------------------------------------------
(* Acceptance *)

\* What InboxMQ.consume does to the rows.
LEMMA TakenRows ==
  ASSUME TypeOK, TakeRows
  PROVE  \E rows \in SUBSET Messages :
           /\ rows = ToSet(FirstOf(op.count, Only(queue, OfTypes(op.by))))
           /\ rows \subseteq Pending /\ rows \subseteq OfTypes(op.by)
           /\ Pending' = Pending \ rows /\ taken' = taken \union rows
           /\ IsInjective(queue) => IsInjective(queue')
<1> DEFINE types == OfTypes(op.by)
           rows == ToSet(FirstOf(op.count, Only(queue, types)))
<1>1. queue \in Seq(Messages) /\ op.count \in Nat
  BY DEF TypeOK, Ops
<1>2. Only(queue, types) \in Seq(Messages)
  /\ ToSet(Only(queue, types)) = Pending \intersect types
  BY <1>1, OnlyFacts DEF Pending
<1>3. rows \subseteq Pending \intersect types
  BY <1>1, <1>2, FirstFacts
<1>4. Pending \subseteq Messages
  BY <1>1 DEF Pending, ToSet
<1>5. queue' = Only(queue, Messages \ rows) /\ taken' = taken \union rows
  BY DEF TakeRows
<1> HIDE DEF rows
<1>6. ToSet(queue') = Pending \intersect (Messages \ rows)
      /\ (IsInjective(queue) => IsInjective(queue'))
  BY <1>1, <1>5, OnlyFacts DEF Pending
<1>7. Pending' = Pending \ rows
  BY <1>4, <1>6 DEF Pending
<1> QED BY <1>3, <1>4, <1>5, <1>6, <1>7 DEF rows

\* An accepted message is a new row.
LEMMA InsertedRow ==
  ASSUME TypeOK, NEW m \in Messages, Insert(m), m \notin delivered \union Rows
  PROVE  /\ m \notin Rows /\ queue' = Append(queue, m)
         /\ Pending' = Pending \union {m} /\ taken' = taken
         /\ IsInjective(queue) => IsInjective(queue')
<1>1. queue \in Seq(Messages) /\ m \notin ToSet(queue)
  BY DEF TypeOK, Rows, Pending
<1>2. queue' = Append(queue, m) /\ taken' = taken
  BY DEF Insert
<1> QED BY <1>1, <1>2, AppendFacts DEF Pending, Rows

\* The transaction of receive and deliver accepts no message twice.
LEMMA InsertKnown ==
  ASSUME TypeOK, Known, NEW m \in Messages, Insert(m) PROVE Known'
<1>1. CASE m \in delivered \union Rows
  BY <1>1 DEF Insert, Known, store, Rows, Pending
<1>2. CASE m \notin delivered \union Rows
  <2>1. m \notin Rows /\ Rows' = Rows \union {m}
    BY <1>2, InsertedRow DEF Rows
  <2>2. accepts' = [accepts EXCEPT ![m] = @ + 1] /\ accepts \in [Messages -> Nat]
    BY <1>2 DEF Insert, TypeOK
  <2>3. accepts[m] = 0 /\ accepts'[m] = 1
    BY <2>1, <2>2 DEF Known
  <2> QED BY <2>1, <2>2, <2>3 DEF Known
<1> QED BY <1>1, <1>2

\* Every step keeps Known.
LEMMA KnownStep == ASSUME TypeOK, Known, [Next]_vars PROVE Known'
<1>1. CASE UNCHANGED vars
  BY <1>1 DEF vars, store, producer, receivers, Known, Rows, Pending
<1>2. ASSUME NEW m \in Messages, Send(m) PROVE Known'
  BY <1>2 DEF Send, vars, store, producer, receivers, Known, Rows, Pending
<1>3. ASSUME NEW m \in Messages, Store(m) PROVE Known'
  BY <1>3, InsertKnown DEF Store
<1>4. ASSUME NEW m \in Messages, StoreFails(m) PROVE Known'
  BY <1>4 DEF StoreFails, vars, store, producer, receivers, Known, Rows, Pending
<1>5. ASSUME NEW m \in Messages, Deliver(m) PROVE Known'
  BY <1>5, InsertKnown DEF Deliver
<1>6. CASE Reap
  BY <1>6 DEF Reap, vars, store, producer, receivers, Known, Rows, Pending
<1>7. CASE SaveWork
  BY <1>7 DEF SaveWork, vars, store, producer, receivers, Known, Rows, Pending
<1>8. CASE TakeRows
  <2>1. Rows' = Rows
    BY <1>8, TakenRows DEF Rows
  <2> QED BY <1>8, <2>1 DEF TakeRows, producer, Known
<1>9. CASE StartTurn
  BY <1>9 DEF StartTurn, vars, store, producer, receivers, Known, Rows, Pending
<1>10. CASE ConsumeBatch
  BY <1>10 DEF ConsumeBatch, vars, store, producer, receivers, Known, Rows, Pending
<1>11. CASE Dispatch
  BY <1>11 DEF Dispatch, vars, store, producer, receivers, Known, Rows, Pending
<1>12. CASE Finish
  BY <1>12 DEF Finish, vars, store, producer, receivers, Known, Rows, Pending
<1>13. CASE AckTurn
  BY <1>13 DEF AckTurn, vars, store, producer, receivers, Known, Rows, Pending
<1>14. CASE EndBatch
  BY <1>14 DEF EndBatch, vars, store, producer, receivers, Known, Rows, Pending
<1>15. CASE EndDispatch
  BY <1>15 DEF EndDispatch, vars, store, producer, receivers, Known, Rows, Pending
<1>16. CASE Flush
  BY <1>16 DEF Flush, vars, store, producer, receivers, Known, Rows, Pending
<1>17. CASE Iterate
  BY <1>17 DEF Iterate, vars, store, producer, receivers, Known, Rows, Pending
<1>18. CASE AppendToHistory
  BY <1>18 DEF AppendToHistory, vars, store, producer, receivers, Known, Rows, Pending
<1>19. CASE AckFold
  BY <1>19 DEF AckFold, vars, store, producer, receivers, Known, Rows, Pending
<1>20. CASE EndFlush
  BY <1>20 DEF EndFlush, vars, store, producer, receivers, Known, Rows, Pending
<1>21. CASE Interrupt
  BY <1>21 DEF Interrupt, vars, store, producer, receivers, Known, Rows, Pending
<1>22. CASE Crash
  BY <1>22 DEF Crash, vars, store, producer, receivers, Known, Rows, Pending
<1> QED
  BY <1>1, <1>2, <1>3, <1>4, <1>5, <1>6, <1>7, <1>8, <1>9, <1>10, <1>11,
     <1>12, <1>13, <1>14, <1>15, <1>16, <1>17, <1>18, <1>19, <1>20, <1>21, <1>22
  DEF Next, Produce, Consume, Poll, Hook

-----------------------------------------------------------------------------
(* The phases *)

\* Every step keeps Phases.
LEMMA PhasesStep == ASSUME TypeOK, Phases, [Next]_vars PROVE Phases'
<1>1. CASE UNCHANGED vars
  BY <1>1 DEF vars, store, producer, receivers, Phases, More, Idle, NoFold, NoOp, Batch,
    Holding
<1>2. ASSUME NEW m \in Messages, Send(m) PROVE Phases'
  BY <1>2 DEF Send, vars, store, producer, receivers, Phases, More, Idle, NoFold, NoOp,
    Batch, Holding
<1>3. ASSUME NEW m \in Messages, Store(m) PROVE Phases'
  BY <1>3 DEF Store, vars, store, producer, receivers, Phases, More, Idle, NoFold, NoOp,
    Batch, Holding
<1>4. ASSUME NEW m \in Messages, StoreFails(m) PROVE Phases'
  BY <1>4 DEF StoreFails, vars, store, producer, receivers, Phases, More, Idle, NoFold,
    NoOp, Batch, Holding
<1>5. ASSUME NEW m \in Messages, Deliver(m) PROVE Phases'
  BY <1>5 DEF Deliver, vars, store, producer, receivers, Phases, More, Idle, NoFold, NoOp,
    Batch, Holding
<1>6. CASE Reap
  BY <1>6 DEF Reap, vars, store, producer, receivers, Phases, More, Idle, NoFold, NoOp,
    Batch, Holding
<1>7. CASE SaveWork
  <2>0. turn \in Turns /\ fold \in Folds /\ op \in Ops
    BY DEF TypeOK
  <2>1. CASE op.count = 0
    BY <1>7, <2>0, <2>1 DEF SaveWork, Hand, Phases, More, Idle, NoFold, NoOp, Batch,
      Holding, Turns, Folds, Ops
  <2>2. CASE op.count # 0
    <3>1. turn' = turn /\ fold' = fold /\ op' = [op EXCEPT !.stage = "take"]
      /\ op.stage = "save"
      BY <1>7, <2>2 DEF SaveWork
    <3> QED BY <2>0, <3>1 DEF Phases, More, Idle, NoFold, NoOp, Batch, Holding, Ops
  <2> QED BY <2>1, <2>2
<1>8. CASE TakeRows
  BY <1>8 DEF TakeRows, vars, store, producer, receivers, Phases, More, Idle, NoFold, NoOp,
    Batch, Holding, Hand
<1>9. CASE StartTurn
  BY <1>9 DEF StartTurn, vars, store, producer, receivers, Phases, More, Idle, NoFold,
    NoOp, Batch, Holding
<1>10. CASE ConsumeBatch
  <2>0. turn \in Turns
    BY DEF TypeOK
  <2>1. CASE Reservable("turn") = <<>>
    BY <1>10, <2>0, <2>1 DEF ConsumeBatch, vars, store, producer, receivers, Phases, More,
      Idle, NoFold, NoOp, Batch, Holding, Turns
  <2>2. CASE Reservable("turn") # <<>>
    <3>1. /\ op'.stage = "save" /\ op'.by = "turn" /\ fold' = fold
          /\ turn' = [turn EXCEPT !.phase = "consume"] /\ turn.phase = "start"
      BY <1>10, <2>2 DEF ConsumeBatch, Reserve
    <3> QED BY <2>0, <3>1 DEF Phases, More, Idle, NoFold, NoOp, Batch, Holding, Turns
  <2> QED BY <2>1, <2>2
<1>11. CASE Dispatch
  BY <1>11 DEF Dispatch, vars, store, producer, receivers, Phases, More, Idle, NoFold,
    NoOp, Batch, Holding
<1>12. CASE Finish
  BY <1>12 DEF Finish, vars, store, producer, receivers, Phases, More, Idle, NoFold, NoOp,
    Batch, Holding
<1>13. CASE AckTurn
  BY <1>13 DEF AckTurn, vars, store, producer, receivers, Phases, More, Idle, NoFold, NoOp,
    Batch, Holding
<1>14. CASE EndBatch
  BY <1>14 DEF EndBatch, vars, store, producer, receivers, Phases, More, Idle, NoFold,
    NoOp, Batch, Holding
<1>15. CASE EndDispatch
  BY <1>15 DEF EndDispatch, vars, store, producer, receivers, Phases, More, Idle, NoFold,
    NoOp, Batch, Holding
<1>16. CASE Flush
  <2>0. turn \in Turns /\ fold \in Folds
    BY DEF TypeOK
  <2>1. CASE Reservable("fold") = <<>>
    BY <1>16, <2>0, <2>1 DEF Flush, vars, store, producer, receivers, Phases, More, Idle,
      NoFold, NoOp, Batch, Holding, Turns
  <2>2. CASE Reservable("fold") # <<>>
    <3>1. /\ op'.stage = "save" /\ op'.by = "fold"
      /\ fold' = [fold EXCEPT !.phase = "consume"]
          /\ turn' = [turn EXCEPT !.phase = "folding"] /\ turn.phase = "flush"
            /\ fold = NoFold
      BY <1>16, <2>2 DEF Flush, Reserve
    <3> QED BY <2>0, <3>1 DEF Phases, More, Idle, NoFold, NoOp, Batch, Holding, Turns, Folds
  <2> QED BY <2>1, <2>2
<1>17. CASE Iterate
  BY <1>17 DEF Iterate, vars, store, producer, receivers, Phases, More, Idle, NoFold, NoOp,
    Batch, Holding
<1>18. CASE AppendToHistory
  BY <1>18 DEF AppendToHistory, vars, store, producer, receivers, Phases, More, Idle,
    NoFold, NoOp, Batch, Holding
<1>19. CASE AckFold
  BY <1>19 DEF AckFold, vars, store, producer, receivers, Phases, More, Idle, NoFold, NoOp,
    Batch, Holding
<1>20. CASE EndFlush
  BY <1>20 DEF EndFlush, vars, store, producer, receivers, Phases, More, Idle, NoFold,
    NoOp, Batch, Holding
<1>21. CASE Interrupt
  BY <1>21 DEF Interrupt, vars, store, producer, receivers, Phases, More, Idle, NoFold,
    NoOp, Batch, Holding
<1>22. CASE Crash
  BY <1>22 DEF Crash, vars, store, producer, receivers, Phases, More, Idle, NoFold, NoOp,
    Batch, Holding
<1> QED
  BY <1>1, <1>2, <1>3, <1>4, <1>5, <1>6, <1>7, <1>8, <1>9, <1>10, <1>11,
     <1>12, <1>13, <1>14, <1>15, <1>16, <1>17, <1>18, <1>19, <1>20, <1>21, <1>22
  DEF Next, Produce, Consume, Poll, Hook

-----------------------------------------------------------------------------
(* Batches, receipts and repetitions *)

\* The empty sequence.
LEMMA EmptyFacts == IsInjective(<<>>) /\ ToSet(<<>>) = {}
  BY DEF IsInjective, ToSet

\* Nothing is left of an empty batch,
LEMMA EmptyLeft ==
  ASSUME NEW r, r.messages = <<>>, r.next \in Nat \ {0} PROVE Left(r) = {}
<1>1. Len(<<>>) = 0 /\ r.next..0 = {}
  OBVIOUS
<1> QED BY <1>1 DEF Left

\* all of a new one,
LEMMA FreshLeft ==
  ASSUME NEW r, r.messages \in Seq(Messages), r.next = 1 PROVE Left(r) = ToSet(r.messages)
<1>1. DOMAIN r.messages = 1..Len(r.messages)
  OBVIOUS
<1> QED BY <1>1 DEF Left, ToSet

\* and never more than its messages.
LEMMA LeftIsPart ==
  ASSUME NEW r, r.messages \in Seq(Messages), r.next \in Nat \ {0}
  PROVE  Left(r) \subseteq ToSet(r.messages)
<1>1. DOMAIN r.messages = 1..Len(r.messages)
      /\ \A i \in r.next..Len(r.messages) : i \in 1..Len(r.messages)
  OBVIOUS
<1> QED BY <1>1 DEF Left, ToSet

\* Past its next message, exactly that message is no longer left.
LEMMA NextOfLeft ==
  ASSUME NEW r, r.messages \in Seq(Messages), r.next \in Nat \ {0}, IsInjective(r.messages),
         More(r), NEW q, q.messages = r.messages, q.next = r.next + 1
  PROVE  Now(r) \in Left(r) /\ Left(q) = Left(r) \ {Now(r)}
<1> DEFINE s == r.messages
           k == r.next
           n == Len(s)
<1>1. /\ s \in Seq(Messages) /\ k \in Nat \ {0} /\ n \in Nat /\ k <= n /\ DOMAIN s = 1..n
      /\ \A i, j \in 1..n : s[i] = s[j] => i = j
  BY DEF More, IsInjective
<1>2. Left(r) = {s[i] : i \in k..n} /\ Left(q) = {s[i] : i \in (k + 1)..n} /\ Now(r) = s[k]
  BY DEF Left, Now
<1> HIDE DEF s, k, n
<1>3. k \in k..n /\ k..n = (k + 1)..n \union {k}
  BY <1>1
<1>4. \A i \in (k + 1)..n : i \in 1..n /\ k \in 1..n /\ i # k
  BY <1>1
<1> QED BY <1>1, <1>2, <1>3, <1>4

\* The receipts of a consume are added to those there are.
LEMMA SavedWork ==
  ASSUME TypeOK, SaveWork
  PROVE  /\ Work' = Work \union ToSet(op.messages)
         /\ IsInjective(work) /\ IsInjective(op.messages) => IsInjective(work')
<1> DEFINE new == Only(op.messages, Messages \ Work)
<1>1. op.messages \in Seq(Messages) /\ work \in Seq(Messages)
  BY DEF TypeOK, Ops
<1>2. ToSet(op.messages) \subseteq Messages
  BY <1>1 DEF ToSet
<1>3. /\ new \in Seq(Messages) /\ ToSet(new) = ToSet(op.messages) \ Work
      /\ IsInjective(op.messages) => IsInjective(new)
  BY <1>1, <1>2, OnlyFacts
<1>4. work' = work \o new
  BY DEF SaveWork
<1> HIDE DEF new
<1>5. ToSet(work) \intersect ToSet(new) = {}
  BY <1>3 DEF Work
<1> QED BY <1>1, <1>3, <1>4, <1>5, ConcatFacts DEF Work

\* What an acknowledgement does to the receipts, the cache and the claims.
LEMMA Acknowledged ==
  ASSUME TypeOK, NEW m, Acknowledge(m)
  PROVE  /\ IsInjective(work) => IsInjective(work')
         /\ m \in Work => /\ Work' = Work \ {m} /\ seen' = seen \union {m}
                          /\ claimed' = claimed \ {m} /\ acked' = acked \union {m}
<1>1. work \in Seq(Messages) /\ Work \subseteq Messages
  BY DEF TypeOK, Work, ToSet
<1>2. CASE m \in Work
  <2>1. work' = Only(work, Messages \ {m})
        /\ seen' = seen \union {m} /\ claimed' = claimed \ {m} /\ acked' = acked \union {m}
    BY <1>2 DEF Acknowledge
  <2>2. /\ ToSet(Only(work, Messages \ {m})) = ToSet(work) \intersect (Messages \ {m})
        /\ IsInjective(work) => IsInjective(Only(work, Messages \ {m}))
    BY <1>1, OnlyFacts
  <2> QED BY <1>1, <2>1, <2>2 DEF Work
<1>3. CASE m \notin Work
  BY <1>3 DEF Acknowledge
<1> QED BY <1>2, <1>3

\* A new row repeats none.
LEMMA InsertDistinct ==
  ASSUME TypeOK, NEW m \in Messages, Insert(m), IsInjective(queue) PROVE IsInjective(queue')
  BY InsertedRow DEF Insert, store

\* A receiver gets the messages of the consume, the other one keeps its own.
LEMMA HandMessages ==
  ASSUME Hand
  PROVE  /\ turn'.messages \in {turn.messages, op.messages}
         /\ fold'.messages \in {fold.messages, op.messages} /\ op'.messages = <<>>
  BY DEF Hand, Batch, NoOp

\* Every step keeps Distinct.
LEMMA DistinctStep == ASSUME TypeOK, Distinct, [Next]_vars PROVE Distinct'
<1>1. CASE UNCHANGED vars
  BY <1>1 DEF vars, store, producer, receivers, Distinct
<1>2. ASSUME NEW m \in Messages, Send(m) PROVE Distinct'
  BY <1>2 DEF Send, vars, store, producer, receivers, Distinct, TypeOK, Turns, Folds, Ops
<1>3. ASSUME NEW m \in Messages, Store(m) PROVE Distinct'
  <2>1. IsInjective(queue')
    BY <1>3, InsertDistinct DEF Store, Distinct
  <2> QED BY <1>3, <2>1 DEF Store, receivers, Distinct
<1>4. ASSUME NEW m \in Messages, StoreFails(m) PROVE Distinct'
  BY <1>4 DEF StoreFails, vars, store, producer, receivers, Distinct, TypeOK, Turns, Folds,
    Ops
<1>5. ASSUME NEW m \in Messages, Deliver(m) PROVE Distinct'
  <2>1. IsInjective(queue')
    BY <1>5, InsertDistinct DEF Deliver, Distinct
  <2> QED BY <1>5, <2>1 DEF Deliver, receivers, Distinct
<1>6. CASE Reap
  BY <1>6 DEF Reap, vars, store, producer, receivers, Distinct, TypeOK, Turns, Folds, Ops
<1>7. CASE SaveWork
  <2>1. IsInjective(work') /\ IsInjective(queue')
    BY <1>7, SavedWork DEF SaveWork, store, Distinct
  <2>2. turn'.messages \in {turn.messages, op.messages}
        /\ fold'.messages \in {fold.messages, op.messages}
          /\ op'.messages \in {op.messages, <<>>}
    BY <1>7, HandMessages DEF SaveWork, TypeOK, Ops
  <2> QED BY <2>1, <2>2, EmptyFacts DEF Distinct
<1>8. CASE TakeRows
  <2>1. IsInjective(work') /\ IsInjective(queue')
    BY <1>8, TakenRows DEF TakeRows, store, Distinct
  <2>2. turn'.messages \in {turn.messages, op.messages}
        /\ fold'.messages \in {fold.messages, op.messages}
          /\ op'.messages \in {op.messages, <<>>}
    BY <1>8, HandMessages DEF TakeRows, TypeOK, Ops
  <2> QED BY <2>1, <2>2, EmptyFacts DEF Distinct
<1>9. CASE StartTurn
  BY <1>9 DEF StartTurn, vars, store, producer, receivers, Distinct, TypeOK, Turns, Folds,
    Ops
<1>10. CASE ConsumeBatch
  <2>1. CASE Reservable("turn") = <<>>
    BY <1>10, <2>1 DEF ConsumeBatch, receivers, store, Distinct, TypeOK, Turns, Folds
  <2>2. CASE Reservable("turn") # <<>>
    <3>1. op'.messages = Reservable("turn") /\ UNCHANGED <<queue, work>>
          /\ turn'.messages = turn.messages /\ fold'.messages = fold.messages
      BY <1>10, <2>2 DEF ConsumeBatch, Reserve, store, TypeOK, Turns, Folds
    <3>2. IsInjective(op'.messages)
      BY <3>1, ReservableFacts DEF Distinct, TypeOK
    <3> QED BY <3>1, <3>2 DEF Distinct
  <2> QED BY <2>1, <2>2
<1>11. CASE Dispatch
  BY <1>11 DEF Dispatch, vars, store, producer, receivers, Distinct, TypeOK, Turns, Folds,
    Ops
<1>12. CASE Finish
  BY <1>12 DEF Finish, vars, store, producer, receivers, Distinct, TypeOK, Turns, Folds, Ops
<1>13. CASE AckTurn
  <2>1. IsInjective(work')
    BY <1>13, Acknowledged DEF AckTurn, Distinct
  <2>2. queue' = queue /\ op' = op /\ turn'.messages = turn.messages
    /\ fold'.messages = fold.messages
    BY <1>13 DEF AckTurn, store, TypeOK, Turns, Folds
  <2> QED BY <2>1, <2>2 DEF Distinct
<1>14. CASE EndBatch
  BY <1>14 DEF EndBatch, vars, store, producer, receivers, Distinct, TypeOK, Turns, Folds,
    Ops
<1>15. CASE EndDispatch
  BY <1>15, EmptyFacts DEF EndDispatch, vars, store, producer, receivers, Distinct, Idle,
    Batch
<1>16. CASE Flush
  <2>1. CASE Reservable("fold") = <<>>
    BY <1>16, <2>1 DEF Flush, receivers, store, Distinct, TypeOK, Turns, Folds
  <2>2. CASE Reservable("fold") # <<>>
    <3>1. op'.messages = Reservable("fold") /\ UNCHANGED <<queue, work>>
          /\ turn'.messages = turn.messages /\ fold'.messages = fold.messages
      BY <1>16, <2>2 DEF Flush, Reserve, store, TypeOK, Turns, Folds
    <3>2. IsInjective(op'.messages)
      BY <3>1, ReservableFacts DEF Distinct, TypeOK
    <3> QED BY <3>1, <3>2 DEF Distinct
  <2> QED BY <2>1, <2>2
<1>17. CASE Iterate
  BY <1>17 DEF Iterate, vars, store, producer, receivers, Distinct, TypeOK, Turns, Folds,
    Ops
<1>18. CASE AppendToHistory
  BY <1>18 DEF AppendToHistory, vars, store, producer, receivers, Distinct, TypeOK, Turns,
    Folds, Ops
<1>19. CASE AckFold
  <2>1. IsInjective(work')
    BY <1>19, Acknowledged DEF AckFold, Distinct
  <2>2. queue' = queue /\ op' = op /\ turn'.messages = turn.messages
    /\ fold'.messages = fold.messages
    BY <1>19 DEF AckFold, store, TypeOK, Turns, Folds
  <2> QED BY <2>1, <2>2 DEF Distinct
<1>20. CASE EndFlush
  BY <1>20, EmptyFacts DEF EndFlush, vars, store, producer, receivers, Distinct, TypeOK,
    Turns, Folds, Ops, NoFold, Batch
<1>21. CASE Interrupt
  BY <1>21, EmptyFacts DEF Interrupt, vars, store, producer, receivers, Distinct, NoFold,
    NoOp, Batch
<1>22. CASE Crash
  BY <1>22, EmptyFacts DEF Crash, vars, store, producer, receivers, Distinct, Idle, NoFold,
    NoOp, Batch
<1> QED
  BY <1>1, <1>2, <1>3, <1>4, <1>5, <1>6, <1>7, <1>8, <1>9, <1>10, <1>11,
     <1>12, <1>13, <1>14, <1>15, <1>16, <1>17, <1>18, <1>19, <1>20, <1>21, <1>22
  DEF Next, Produce, Consume, Poll, Hook

-----------------------------------------------------------------------------
(* Reservations, and how often a message is handed over *)

\* The types of the batches, unfolded.
LEMMA BatchTypes ==
  ASSUME TypeOK
  PROVE  /\ turn.messages \in Seq(Messages) /\ turn.next \in Nat \ {0}
         /\ fold.messages \in Seq(Messages) /\ fold.next \in Nat \ {0}
         /\ op.messages \in Seq(Messages) /\ op.count \in Nat
         /\ op.by \in {"none", "turn", "fold"} /\ op.stage \in {"none", "save", "take"}
  BY DEF TypeOK, Turns, Folds, Ops

\* A consume whose receipts are saved may return.
LEMMA HandReserved ==
  ASSUME TypeOK, Phases, Reserved, Hand, op.stage # "none",
         ToSet(op.messages) \subseteq Work', Work \subseteq Work', UNCHANGED <<claimed, seen>>
  PROVE  Reserved'
<1> USE BatchTypes
<1>1. CASE op.by = "turn" /\ turn.phase = "consume" /\ fold = NoFold
  <2>1. /\ turn'.phase = "next" /\ turn'.messages = op.messages /\ turn'.next = 1
        /\ fold' = NoFold /\ op' = NoOp
    BY <1>1 DEF Hand, Batch
  <2>2. Left(turn') = ToSet(op.messages)
    BY <2>1, FreshLeft
  <2>3. ToSet(op.messages) \subseteq (claimed' \intersect Work') \ seen'
    BY <1>1 DEF Reserved
  <2> QED BY <2>1, <2>2, <2>3 DEF Reserved, NoFold, NoOp, Batch, Left
<1>2. CASE op.by = "fold" /\ turn.phase = "folding" /\ fold.phase = "consume"
  <2>1. /\ fold'.phase = "append" /\ fold'.messages = op.messages /\ fold'.next = 1
        /\ turn' = turn /\ op' = NoOp
    BY <1>2 DEF Hand, Batch
  <2>2. Left(fold') = ToSet(op.messages)
    BY <2>1, FreshLeft
  <2>3. ToSet(op.messages) \subseteq Work' \ seen'
    /\ ToSet(op.messages) \intersect Left(turn) = {}
    BY <1>2 DEF Reserved
  <2>4. Left(turn) \subseteq (claimed' \intersect Work') \ seen'
    BY <1>2 DEF Reserved, Holding
  <2>5. Left(turn') = Left(turn)
    BY <2>1
  <2> QED BY <2>1, <2>2, <2>3, <2>4, <2>5 DEF Reserved, NoOp
<1> QED BY <1>1, <1>2 DEF Phases

\* Counted survives a step that hands nothing over and forgets nothing,
LEMMA CountedKept ==
  ASSUME Counted, UNCHANGED <<starts, faults>>, seen \union Current \subseteq seen' \union Current',
         TypeOK
  PROVE  Counted'
<1>1. faults \in Nat
  BY DEF TypeOK
<1>2. SUFFICES ASSUME NEW m \in Messages
               PROVE  starts[m] <= faults + IF m \in seen' \union Current' THEN 1 ELSE 0
  BY DEF Counted
<1>3. starts[m] <= faults + IF m \in seen \union Current THEN 1 ELSE 0
  BY DEF Counted
<1>4. starts[m] \in Nat
  BY DEF TypeOK
<1> QED BY <1>1, <1>3, <1>4

\* a step that forgets, because it is a fault,
LEMMA CountedFault ==
  ASSUME Counted, starts' = starts, Fault, TypeOK PROVE Counted'
<1>1. faults \in Nat /\ faults' = faults + 1
  BY DEF TypeOK, Fault
<1>2. SUFFICES ASSUME NEW m \in Messages
               PROVE  starts[m] <= faults' + IF m \in seen' \union Current' THEN 1 ELSE 0
  BY DEF Counted
<1>3. starts[m] <= faults + IF m \in seen \union Current THEN 1 ELSE 0
  BY DEF Counted
<1>4. starts[m] \in Nat
  BY DEF TypeOK
<1> QED BY <1>1, <1>3, <1>4

\* and the handing over of a message that was not counted yet.
LEMMA CountedStart ==
  ASSUME Counted, TypeOK, NEW n \in Messages, HandsOver(n), faults' = faults,
         n \notin seen \union Current,
         (seen \union Current) \union {n} \subseteq seen' \union Current'
  PROVE  Counted'
<1>1. faults \in Nat /\ starts \in [Messages -> Nat]
  /\ starts' = [starts EXCEPT ![n] = @ + 1]
  BY DEF TypeOK, HandsOver
<1>2. SUFFICES ASSUME NEW m \in Messages
               PROVE  starts'[m] <= faults + IF m \in seen' \union Current' THEN 1 ELSE 0
  BY DEF Counted
<1>3. starts[m] <= faults + IF m \in seen \union Current THEN 1 ELSE 0
  BY DEF Counted
<1>4. CASE m = n
  BY <1>1, <1>3, <1>4
<1>5. CASE m # n
  BY <1>1, <1>3, <1>5
<1> QED BY <1>4, <1>5

\* Every step keeps Reserved.
LEMMA ReservedStep == ASSUME TypeOK, Phases, Distinct, Reserved, [Next]_vars PROVE Reserved'
<1>1. CASE UNCHANGED vars
  BY <1>1 DEF vars, store, producer, receivers, Reserved, Work
<1>2. ASSUME NEW m \in Messages, Send(m) PROVE Reserved'
  <2>1. turn' = turn /\ fold' = fold /\ op' = op /\ UNCHANGED <<claimed, work, seen>>
    BY <1>2 DEF Send, receivers
  <2> QED BY <2>1 DEF Reserved, Work
<1>3. ASSUME NEW m \in Messages, Store(m) PROVE Reserved'
  <2>1. turn' = turn /\ fold' = fold /\ op' = op /\ UNCHANGED <<claimed, work, seen>>
    BY <1>3 DEF Store, receivers
  <2> QED BY <2>1 DEF Reserved, Work
<1>4. ASSUME NEW m \in Messages, StoreFails(m) PROVE Reserved'
  <2>1. turn' = turn /\ fold' = fold /\ op' = op /\ UNCHANGED <<claimed, work, seen>>
    BY <1>4 DEF StoreFails, receivers
  <2> QED BY <2>1 DEF Reserved, Work
<1>5. ASSUME NEW m \in Messages, Deliver(m) PROVE Reserved'
  <2>1. turn' = turn /\ fold' = fold /\ op' = op /\ UNCHANGED <<claimed, work, seen>>
    BY <1>5 DEF Deliver, receivers
  <2> QED BY <2>1 DEF Reserved, Work
<1>6. CASE Reap
  <2>1. turn' = turn /\ fold' = fold /\ op' = op /\ UNCHANGED <<claimed, work, seen>>
    BY <1>6 DEF Reap, receivers
  <2> QED BY <2>1 DEF Reserved, Work
<1>7. CASE SaveWork
  <2>1. /\ op.stage = "save" /\ UNCHANGED <<claimed, seen>>
        /\ Work' = Work \union ToSet(op.messages)
    BY <1>7, SavedWork DEF SaveWork
  <2>2. CASE op.count = 0
    <3>1. Hand
      BY <1>7, <2>2 DEF SaveWork
    <3> QED BY <2>1, <3>1, HandReserved
  <2>3. CASE op.count # 0
    <3>1. /\ turn' = turn /\ fold' = fold /\ op'.stage = "take"
          /\ op'.by = op.by /\ op'.messages = op.messages
      BY <1>7, <2>3 DEF SaveWork, TypeOK, Ops
    <3> QED BY <2>1, <3>1 DEF Reserved
  <2> QED BY <2>2, <2>3
<1>8. CASE TakeRows
  <2>1. op.stage = "take" /\ UNCHANGED <<claimed, seen, work>> /\ Hand
    BY <1>8 DEF TakeRows
  <2>2. ToSet(op.messages) \subseteq Work' /\ Work' = Work
    BY <2>1 DEF Reserved, Work
  <2> QED BY <2>1, <2>2, HandReserved
<1>9. CASE StartTurn
  <2>1. /\ turn.phase \in {"idle"} /\ turn'.phase = "start"
        /\ turn'.messages = turn.messages /\ turn'.next = turn.next
        /\ UNCHANGED <<claimed, work, seen, fold, op>>
    BY <1>9 DEF StartTurn, receivers, TypeOK, Turns
  <2>2. Left(turn') = Left(turn) /\ Work' = Work
    BY <2>1 DEF Left, Work
  <2>3. op = NoOp /\ fold = NoFold
    BY <2>1 DEF Phases
  <2> QED BY <2>1, <2>2, <2>3 DEF Reserved, Holding, NoOp, NoFold, Batch
<1>10. CASE ConsumeBatch
  <2>1. turn.phase = "start" /\ UNCHANGED <<work, seen, fold>> /\ op = NoOp /\ fold = NoFold
    BY <1>10 DEF ConsumeBatch, Phases
  <2>2. CASE Reservable("turn") = <<>>
    <3>1. turn'.phase = "end" /\ op' = op
      BY <1>10, <2>2 DEF ConsumeBatch, TypeOK, Turns
    <3> QED BY <2>1, <3>1 DEF Reserved, Holding, NoOp, NoFold, Batch
  <2>3. CASE Reservable("turn") # <<>>
    <3>1. /\ turn'.phase = "consume" /\ op'.by = "turn" /\ op'.stage = "save"
          /\ op'.messages = Reservable("turn")
          /\ claimed' = claimed \union ToSet(Reservable("turn"))
      BY <1>10, <2>3 DEF ConsumeBatch, Reserve, TypeOK, Turns
    <3>2. ToSet(Reservable("turn")) \intersect seen = {}
      BY ReservableFacts DEF TypeOK
    <3> QED BY <2>1, <3>1, <3>2 DEF Reserved, Holding, NoFold, Batch
  <2> QED BY <2>2, <2>3
<1>11. CASE Dispatch
  <2>1. /\ turn.phase \in {"next"} /\ turn'.phase = "flush"
        /\ turn'.messages = turn.messages /\ turn'.next = turn.next
        /\ UNCHANGED <<claimed, work, seen, fold, op>>
    BY <1>11 DEF Dispatch, receivers, TypeOK, Turns
  <2>2. Left(turn') = Left(turn) /\ Work' = Work
    BY <2>1 DEF Left, Work
  <2>3. op = NoOp /\ fold = NoFold
    BY <2>1 DEF Phases
  <2> QED BY <2>1, <2>2, <2>3 DEF Reserved, Holding, NoOp, NoFold, Batch
<1>12. CASE Finish
  <2>1. /\ turn.phase \in {"flush", "run"} /\ turn'.phase = "ran"
        /\ turn'.messages = turn.messages /\ turn'.next = turn.next
        /\ UNCHANGED <<claimed, work, seen, fold, op>>
    BY <1>12 DEF Finish, receivers, TypeOK, Turns
  <2>2. Left(turn') = Left(turn) /\ Work' = Work
    BY <2>1 DEF Left, Work
  <2>3. op = NoOp /\ fold = NoFold
    BY <2>1 DEF Phases
  <2> QED BY <2>1, <2>2, <2>3 DEF Reserved, Holding, NoOp, NoFold, Batch
<1>13. CASE AckTurn
  <2>1. /\ turn.phase = "ran" /\ turn'.phase = "next" /\ turn'.messages = turn.messages
        /\ turn'.next = turn.next + 1 /\ fold' = fold /\ op' = op
        /\ Acknowledge(Now(turn))
    BY <1>13 DEF AckTurn, TypeOK, Turns
  <2>2. op = NoOp /\ fold = NoFold /\ More(turn)
    BY <2>1 DEF Phases, Holding
  <2>3. Now(turn) \in Left(turn) /\ Left(turn') = Left(turn) \ {Now(turn)}
    BY <2>1, <2>2, BatchTypes, NextOfLeft DEF Distinct
  <2>4. Left(turn) \subseteq (claimed \intersect Work) \ seen
    BY <2>1 DEF Reserved, Holding
  <2>5. /\ Work' = Work \ {Now(turn)} /\ seen' = seen \union {Now(turn)}
        /\ claimed' = claimed \ {Now(turn)}
    BY <2>1, <2>3, <2>4, Acknowledged
  <2> QED BY <2>1, <2>2, <2>3, <2>4, <2>5 DEF Reserved, NoOp, NoFold, Batch
<1>14. CASE EndBatch
  <2>1. /\ turn.phase \in {"next", "end"} /\ turn'.phase = "end" /\ fold' = fold /\ op' = op
    BY <1>14 DEF EndBatch, TypeOK, Turns, Idle, Batch
  <2>2. op = NoOp /\ fold = NoFold
    BY <2>1 DEF Phases
  <2> QED BY <2>1, <2>2 DEF Reserved, Holding, NoOp, NoFold, Batch
<1>15. CASE EndDispatch
  <2>1. /\ turn.phase \in {"next", "end"} /\ turn'.phase = "idle" /\ fold' = fold
    /\ op' = op
    BY <1>15 DEF EndDispatch, TypeOK, Turns, Idle, Batch
  <2>2. op = NoOp /\ fold = NoFold
    BY <2>1 DEF Phases
  <2> QED BY <2>1, <2>2 DEF Reserved, Holding, NoOp, NoFold, Batch
<1>16. CASE Flush
  <2>1. /\ turn.phase = "flush" /\ fold = NoFold /\ op = NoOp /\ UNCHANGED <<work, seen>>
        /\ turn'.messages = turn.messages /\ turn'.next = turn.next
    BY <1>16 DEF Flush, TypeOK, Turns
  <2>2. Left(turn') = Left(turn) /\ Work' = Work
    BY <2>1 DEF Left, Work
  <2>3. Left(turn) \subseteq (claimed \intersect Work) \ seen
    BY <2>1 DEF Reserved, Holding
  <2>4. CASE Reservable("fold") = <<>>
    <3>1. turn'.phase = "run" /\ UNCHANGED <<claimed, fold, op>>
      BY <1>16, <2>4 DEF Flush, TypeOK, Turns
    <3> QED BY <2>1, <2>2, <2>3, <3>1 DEF Reserved, Holding, NoOp, NoFold, Batch
  <2>5. CASE Reservable("fold") # <<>>
    <3>1. /\ turn'.phase = "folding" /\ fold'.phase = "consume" /\ fold'.messages = <<>>
          /\ op'.by = "fold" /\ op'.stage = "save" /\ op'.messages = Reservable("fold")
          /\ claimed' = claimed \union ToSet(Reservable("fold"))
      BY <1>16, <2>5 DEF Flush, Reserve, TypeOK, Turns, Folds, NoFold, Batch
    <3>2. ToSet(Reservable("fold")) \intersect (claimed \union seen) = {}
      BY ReservableFacts DEF TypeOK
    <3> QED BY <2>1, <2>2, <2>3, <3>1, <3>2, EmptyFacts DEF Reserved, Holding
  <2> QED BY <2>4, <2>5
<1>17. CASE Iterate
  <2>1. /\ turn.phase \in {"run"} /\ turn'.phase = "flush"
        /\ turn'.messages = turn.messages /\ turn'.next = turn.next
        /\ UNCHANGED <<claimed, work, seen, fold, op>>
    BY <1>17 DEF Iterate, receivers, TypeOK, Turns
  <2>2. Left(turn') = Left(turn) /\ Work' = Work
    BY <2>1 DEF Left, Work
  <2>3. op = NoOp /\ fold = NoFold
    BY <2>1 DEF Phases
  <2> QED BY <2>1, <2>2, <2>3 DEF Reserved, Holding, NoOp, NoFold, Batch
<1>18. CASE AppendToHistory
  <2>1. /\ fold.phase = "append" /\ fold'.phase = "ack" /\ fold'.messages = fold.messages
        /\ fold'.next = fold.next /\ turn' = turn /\ op' = op
          /\ UNCHANGED <<claimed, work, seen>>
    BY <1>18 DEF AppendToHistory, TypeOK, Folds
  <2>2. Left(fold') = Left(fold) /\ Left(turn') = Left(turn) /\ Work' = Work
    BY <2>1 DEF Left, Work
  <2> QED BY <2>1, <2>2 DEF Reserved
<1>19. CASE AckFold
  <2>1. /\ fold.phase = "ack" /\ fold'.phase = "append" /\ fold'.messages = fold.messages
        /\ fold'.next = fold.next + 1 /\ turn' = turn /\ op' = op
        /\ Acknowledge(Now(fold))
    BY <1>19 DEF AckFold, TypeOK, Folds
  <2>2. op = NoOp /\ turn.phase = "folding" /\ More(fold)
    BY <2>1 DEF Phases, NoFold, Batch
  <2>3. Now(fold) \in Left(fold) /\ Left(fold') = Left(fold) \ {Now(fold)}
    BY <2>1, <2>2, BatchTypes, NextOfLeft DEF Distinct
  <2>4. /\ Left(fold) \subseteq Work \ seen
    /\ Left(turn) \subseteq (claimed \intersect Work) \ seen
        /\ Left(turn) \intersect ToSet(fold.messages) = {}
    BY <2>1, <2>2 DEF Reserved, Holding
  <2>5. /\ Work' = Work \ {Now(fold)} /\ seen' = seen \union {Now(fold)}
        /\ claimed' = claimed \ {Now(fold)}
    BY <2>1, <2>3, <2>4, Acknowledged
  <2>6. Left(fold) \subseteq ToSet(fold.messages)
    BY BatchTypes, LeftIsPart
  <2>7. Left(turn') = Left(turn)
    BY <2>1
  <2> QED BY <2>1, <2>2, <2>3, <2>4, <2>5, <2>6, <2>7 DEF Reserved, NoOp
<1>20. CASE EndFlush
  <2>1. /\ fold.phase = "append" /\ fold' = NoFold /\ turn'.phase = "run"
        /\ turn'.messages = turn.messages /\ turn'.next = turn.next /\ op' = op
        /\ claimed' = claimed \ ToSet(fold.messages) /\ UNCHANGED <<work, seen>>
    BY <1>20 DEF EndFlush, TypeOK, Turns
  <2>2. op = NoOp /\ turn.phase = "folding"
    BY <2>1 DEF Phases
  <2>3. Left(turn') = Left(turn) /\ Work' = Work
    BY <2>1 DEF Left, Work
  <2> QED BY <2>1, <2>2, <2>3 DEF Reserved, Holding, NoOp, NoFold, Batch
<1>21. CASE Interrupt
  <2>1. turn'.phase \in {"end", "idle"} /\ fold' = NoFold /\ op' = NoOp
    BY <1>21 DEF Interrupt, Idle, Batch
  <2> QED BY <2>1 DEF Reserved, Holding, NoOp, NoFold, Batch
<1>22. CASE Crash
  <2>1. turn'.phase \in {"end", "idle"} /\ fold' = NoFold /\ op' = NoOp
    BY <1>22 DEF Crash, Idle, Batch
  <2> QED BY <2>1 DEF Reserved, Holding, NoOp, NoFold, Batch
<1> QED
  BY <1>1, <1>2, <1>3, <1>4, <1>5, <1>6, <1>7, <1>8, <1>9, <1>10, <1>11,
     <1>12, <1>13, <1>14, <1>15, <1>16, <1>17, <1>18, <1>19, <1>20, <1>21, <1>22
  DEF Next, Produce, Consume, Poll, Hook

\* The next message of a batch is left.
LEMMA NowIsLeft ==
  ASSUME NEW r, r.messages \in Seq(Messages), r.next \in Nat \ {0}, More(r)
  PROVE  Now(r) \in Left(r)
<1>1. r.next \in r.next..Len(r.messages)
  BY DEF More
<1> QED BY <1>1 DEF Left, Now

\* Every step keeps Counted.
LEMMA CountedStep == ASSUME TypeOK, Phases, Reserved, Counted, [Next]_vars PROVE Counted'
<1>1. CASE UNCHANGED vars
  BY <1>1, CountedKept DEF vars, store, producer, receivers, Counted, Current, Now, Holding
<1>2. ASSUME NEW m \in Messages, Send(m) PROVE Counted'
  <2>1. UNCHANGED <<starts, faults, seen>> /\ turn' = turn /\ fold' = fold
    BY <1>2 DEF Send, receivers
  <2>2. Current' = Current
    BY <2>1 DEF Current
  <2> QED BY <2>1, <2>2, CountedKept
<1>3. ASSUME NEW m \in Messages, Store(m) PROVE Counted'
  <2>1. UNCHANGED <<starts, faults, seen>> /\ turn' = turn /\ fold' = fold
    BY <1>3 DEF Store, receivers
  <2>2. Current' = Current
    BY <2>1 DEF Current
  <2> QED BY <2>1, <2>2, CountedKept
<1>4. ASSUME NEW m \in Messages, StoreFails(m) PROVE Counted'
  BY <1>4, CountedFault DEF StoreFails
<1>5. ASSUME NEW m \in Messages, Deliver(m) PROVE Counted'
  <2>1. UNCHANGED <<starts, faults, seen>> /\ turn' = turn /\ fold' = fold
    BY <1>5 DEF Deliver, receivers
  <2>2. Current' = Current
    BY <2>1 DEF Current
  <2> QED BY <2>1, <2>2, CountedKept
<1>6. CASE Reap
  <2>1. UNCHANGED <<starts, faults, seen>> /\ turn' = turn /\ fold' = fold
    BY <1>6 DEF Reap, receivers
  <2>2. Current' = Current
    BY <2>1 DEF Current
  <2> QED BY <2>1, <2>2, CountedKept
<1>7. CASE SaveWork
  <2>1. /\ UNCHANGED <<starts, faults, seen>> /\ op.stage # "none"
        /\ (Hand \/ UNCHANGED <<turn, fold>>)
    BY <1>7 DEF SaveWork
  <2>2. Current \subseteq Current'
    <3>1. CASE Hand
      BY <2>1, <3>1 DEF Phases, Hand, Batch, Current, Holding, NoFold
    <3>2. CASE UNCHANGED <<turn, fold>>
      BY <3>2 DEF Current
    <3> QED BY <2>1, <3>1, <3>2
  <2> QED BY <2>1, <2>2, CountedKept
<1>8. CASE TakeRows
  <2>1. /\ UNCHANGED <<starts, faults, seen>> /\ op.stage # "none"
        /\ (Hand \/ UNCHANGED <<turn, fold>>)
    BY <1>8 DEF TakeRows
  <2>2. Current \subseteq Current'
    <3>1. CASE Hand
      BY <2>1, <3>1 DEF Phases, Hand, Batch, Current, Holding, NoFold
    <3>2. CASE UNCHANGED <<turn, fold>>
      BY <3>2 DEF Current
    <3> QED BY <2>1, <3>1, <3>2
  <2> QED BY <2>1, <2>2, CountedKept
<1>9. CASE StartTurn
  <2>1. UNCHANGED <<starts, faults, seen>>
    /\ turn.phase \in {"idle", "start", "next", "end"}
    BY <1>9 DEF StartTurn
  <2>2. Current = {}
    BY <2>1 DEF Current, Phases, Holding
  <2> QED BY <2>1, <2>2, CountedKept
<1>10. CASE ConsumeBatch
  <2>1. UNCHANGED <<starts, faults, seen>>
    /\ turn.phase \in {"idle", "start", "next", "end"}
    BY <1>10 DEF ConsumeBatch
  <2>2. Current = {}
    BY <2>1 DEF Current, Phases, Holding
  <2> QED BY <2>1, <2>2, CountedKept
<1>11. CASE Dispatch
  <2>1. /\ turn.phase = "next" /\ More(turn) /\ HandsOver(Now(turn))
    /\ UNCHANGED <<faults, seen>>
        /\ turn'.phase = "flush" /\ turn'.messages = turn.messages /\ turn'.next = turn.next
    BY <1>11 DEF Dispatch, TypeOK, Turns
  <2>2. Now(turn) \in Left(turn)
    BY <2>1, BatchTypes, NowIsLeft
  <2>3. Now(turn) \notin seen /\ Now(turn) \in Messages
    BY <2>1, <2>2, BatchTypes, NowType DEF Reserved, Holding
  <2>4. Current = {}
    BY <2>1 DEF Current, Phases, Holding
  <2>5. Now(turn) \in Current'
    BY <2>1, <2>3 DEF Current, Holding, Now
  <2> QED BY <2>1, <2>3, <2>4, <2>5, CountedStart
<1>12. CASE Finish
  <2>1. /\ UNCHANGED <<starts, faults, seen>> /\ turn.phase \in {"flush", "run", "folding"}
        /\ turn'.phase \in {"flush", "run", "folding", "ran"}
        /\ turn'.messages = turn.messages /\ turn'.next = turn.next /\ fold.phase # "ack"
    BY <1>12 DEF Finish, Phases, TypeOK, Turns
  <2>2. Current \subseteq Current'
    BY <2>1 DEF Current, Holding, Now
  <2> QED BY <2>1, <2>2, CountedKept
<1>13. CASE AckTurn
  <2>1. /\ turn.phase = "ran" /\ Acknowledge(Now(turn))
    /\ UNCHANGED <<starts, faults, fold>>
    BY <1>13 DEF AckTurn
  <2>2. More(turn) /\ ("ran" = "ran" => fold.phase = "none")
    BY <2>1 DEF Phases, Holding
  <2>3. Now(turn) \in Left(turn)
    BY <2>2, BatchTypes, NowIsLeft
  <2>4. Now(turn) \in Work
    BY <2>1, <2>3 DEF Reserved, Holding
  <2>5. seen' = seen \union {Now(turn)}
    BY <2>1, <2>4, Acknowledged
  <2>6. Current \subseteq Current' \union {Now(turn)}
    BY <2>1, <2>2 DEF Current, Holding
  <2> QED BY <2>1, <2>5, <2>6, CountedKept
<1>14. CASE EndBatch
  <2>1. UNCHANGED <<starts, faults, seen>>
    /\ turn.phase \in {"idle", "start", "next", "end"}
    BY <1>14 DEF EndBatch
  <2>2. Current = {}
    BY <2>1 DEF Current, Phases, Holding
  <2> QED BY <2>1, <2>2, CountedKept
<1>15. CASE EndDispatch
  <2>1. UNCHANGED <<starts, faults, seen>>
    /\ turn.phase \in {"idle", "start", "next", "end"}
    BY <1>15 DEF EndDispatch
  <2>2. Current = {}
    BY <2>1 DEF Current, Phases, Holding
  <2> QED BY <2>1, <2>2, CountedKept
<1>16. CASE Flush
  <2>1. /\ UNCHANGED <<starts, faults, seen>> /\ turn.phase \in {"flush", "run", "folding"}
        /\ turn'.phase \in {"flush", "run", "folding", "ran"}
        /\ turn'.messages = turn.messages /\ turn'.next = turn.next /\ fold.phase # "ack"
    BY <1>16 DEF Flush, Phases, TypeOK, Turns
  <2>2. Current \subseteq Current'
    BY <2>1 DEF Current, Holding, Now
  <2> QED BY <2>1, <2>2, CountedKept
<1>17. CASE Iterate
  <2>1. /\ UNCHANGED <<starts, faults, seen>> /\ turn.phase \in {"flush", "run", "folding"}
        /\ turn'.phase \in {"flush", "run", "folding", "ran"}
        /\ turn'.messages = turn.messages /\ turn'.next = turn.next /\ fold.phase # "ack"
    BY <1>17 DEF Iterate, Phases, TypeOK, Turns
  <2>2. Current \subseteq Current'
    BY <2>1 DEF Current, Holding, Now
  <2> QED BY <2>1, <2>2, CountedKept
<1>18. CASE AppendToHistory
  <2>1. /\ fold.phase = "append" /\ More(fold) /\ HandsOver(Now(fold))
    /\ UNCHANGED <<faults, seen>>
        /\ fold'.phase = "ack" /\ fold'.messages = fold.messages /\ fold'.next = fold.next
        /\ turn' = turn
    BY <1>18 DEF AppendToHistory, TypeOK, Folds
  <2>2. turn.phase = "folding" /\ More(turn)
    BY <2>1 DEF Phases, Holding
  <2>3. /\ Now(fold) \in Left(fold) /\ Now(turn) \in Left(turn)
        /\ Left(fold) \subseteq ToSet(fold.messages)
    BY <2>1, <2>2, BatchTypes, NowIsLeft, LeftIsPart
  <2>4. Now(fold) \notin seen /\ Now(fold) # Now(turn)
    BY <2>1, <2>2, <2>3 DEF Reserved
  <2>5. Now(fold) \in Messages
    BY <2>1, BatchTypes, NowType
  <2>6. Current \subseteq {Now(turn)} /\ Current \subseteq Current'
    /\ Now(fold) \in Current'
    BY <2>1, <2>2, <2>5 DEF Current, Holding, Now
  <2> QED BY <2>1, <2>4, <2>5, <2>6, CountedStart
<1>19. CASE AckFold
  <2>1. /\ fold.phase = "ack" /\ Acknowledge(Now(fold))
    /\ UNCHANGED <<starts, faults, turn>>
    BY <1>19 DEF AckFold
  <2>2. More(fold) /\ ("ack" = "ran" => fold.phase = "none")
    BY <2>1 DEF Phases, Holding
  <2>3. Now(fold) \in Left(fold)
    BY <2>2, BatchTypes, NowIsLeft
  <2>4. Now(fold) \in Work
    BY <2>1, <2>3 DEF Reserved, Holding
  <2>5. seen' = seen \union {Now(fold)}
    BY <2>1, <2>4, Acknowledged
  <2>6. Current \subseteq Current' \union {Now(fold)}
    BY <2>1, <2>2 DEF Current, Holding
  <2> QED BY <2>1, <2>5, <2>6, CountedKept
<1>20. CASE EndFlush
  <2>1. /\ UNCHANGED <<starts, faults, seen>> /\ turn.phase \in {"flush", "run", "folding"}
        /\ turn'.phase \in {"flush", "run", "folding", "ran"}
        /\ turn'.messages = turn.messages /\ turn'.next = turn.next /\ fold.phase # "ack"
    BY <1>20 DEF EndFlush, Phases, TypeOK, Turns
  <2>2. Current \subseteq Current'
    BY <2>1 DEF Current, Holding, Now
  <2> QED BY <2>1, <2>2, CountedKept
<1>21. CASE Interrupt
  BY <1>21, CountedFault DEF Interrupt
<1>22. CASE Crash
  BY <1>22, CountedFault DEF Crash
<1> QED
  BY <1>1, <1>2, <1>3, <1>4, <1>5, <1>6, <1>7, <1>8, <1>9, <1>10, <1>11,
     <1>12, <1>13, <1>14, <1>15, <1>16, <1>17, <1>18, <1>19, <1>20, <1>21, <1>22
  DEF Next, Produce, Consume, Poll, Hook

-----------------------------------------------------------------------------
(* What nobody may forget *)

\* A step that makes the poller forget a session with reserved work.
Forgets == ReservedIsPending /\ ~ReservedIsPending'

\* A step of a send: the bus may refuse it.
Refused == sends' # sends \/ storing' # storing

\* Only a step of a send forgets.
LEMMA ForgetsStep == ASSUME TypeOK, Phases, [Next]_vars, Forgets PROVE Refused
<1>1. CASE UNCHANGED vars
  BY <1>1 DEF vars, store, producer, receivers, ReservedIsPending, Forgets, Refused
<1>2. ASSUME NEW m \in Messages, Send(m) PROVE Refused
  BY <1>2 DEF Send, TypeOK, Refused
<1>3. ASSUME NEW m \in Messages, Store(m) PROVE Refused
  BY <1>3 DEF Store, Refused
<1>4. ASSUME NEW m \in Messages, StoreFails(m) PROVE Refused
  BY <1>4 DEF StoreFails, Refused
<1>5. ASSUME NEW m \in Messages, Deliver(m) PROVE Refused
  BY <1>5 DEF Deliver, TypeOK, Refused
<1>6. CASE Reap
  BY <1>6 DEF Reap, receivers, Forgets, ReservedIsPending, store
<1>7. CASE SaveWork
  <2>1. turn.phase # "idle" /\ (turn' = turn \/ turn'.phase = "next")
    BY <1>7 DEF SaveWork, Hand, Phases, Batch
  <2> QED BY <2>1 DEF Forgets, ReservedIsPending
<1>8. CASE TakeRows
  <2>1. turn.phase # "idle" /\ (turn' = turn \/ turn'.phase = "next")
    BY <1>8 DEF TakeRows, Hand, Phases, Batch
  <2> QED BY <2>1 DEF Forgets, ReservedIsPending
<1>9. CASE StartTurn
  <2>1. turn'.phase # "idle"
    BY <1>9 DEF StartTurn, TypeOK, Turns, Batch
  <2> QED BY <2>1 DEF Forgets, ReservedIsPending
<1>10. CASE ConsumeBatch
  <2>1. turn'.phase # "idle"
    BY <1>10 DEF ConsumeBatch, TypeOK, Turns, Batch
  <2> QED BY <2>1 DEF Forgets, ReservedIsPending
<1>11. CASE Dispatch
  <2>1. turn'.phase # "idle"
    BY <1>11 DEF Dispatch, TypeOK, Turns, Batch
  <2> QED BY <2>1 DEF Forgets, ReservedIsPending
<1>12. CASE Finish
  <2>1. turn'.phase # "idle"
    BY <1>12 DEF Finish, TypeOK, Turns, Batch
  <2> QED BY <2>1 DEF Forgets, ReservedIsPending
<1>13. CASE AckTurn
  <2>1. turn'.phase # "idle"
    BY <1>13 DEF AckTurn, TypeOK, Turns, Batch
  <2> QED BY <2>1 DEF Forgets, ReservedIsPending
<1>14. CASE EndBatch
  <2>1. turn'.phase # "idle"
    BY <1>14 DEF EndBatch, TypeOK, Turns, Batch
  <2> QED BY <2>1 DEF Forgets, ReservedIsPending
<1>15. CASE EndDispatch
  <2>1. work' = work /\ pendingInput' = (work \o queue # <<>>)
    BY <1>15 DEF EndDispatch
  <2>2. Len(work \o queue) = Len(work) + Len(queue) /\ Len(work) \in Nat
    /\ Len(queue) \in Nat
    BY SMT DEF TypeOK
  <2>3. work # <<>> => Len(work) # 0
    BY SMT DEF TypeOK
  <2>4. work # <<>> => work \o queue # <<>>
    BY <2>2, <2>3
  <2> QED BY <2>1, <2>4 DEF Forgets, ReservedIsPending
<1>16. CASE Flush
  <2>1. turn'.phase # "idle"
    BY <1>16 DEF Flush, TypeOK, Turns, Batch
  <2> QED BY <2>1 DEF Forgets, ReservedIsPending
<1>17. CASE Iterate
  <2>1. turn'.phase # "idle"
    BY <1>17 DEF Iterate, TypeOK, Turns, Batch
  <2> QED BY <2>1 DEF Forgets, ReservedIsPending
<1>18. CASE AppendToHistory
  BY <1>18 DEF AppendToHistory, receivers, Forgets, ReservedIsPending, store
<1>19. CASE AckFold
  <2>1. turn'.phase # "idle"
    BY <1>19 DEF AckFold, Phases
  <2> QED BY <2>1 DEF Forgets, ReservedIsPending
<1>20. CASE EndFlush
  <2>1. turn'.phase # "idle"
    BY <1>20 DEF EndFlush, TypeOK, Turns, Batch
  <2> QED BY <2>1 DEF Forgets, ReservedIsPending
<1>21. CASE Interrupt
  <2>1. turn'.phase # "idle"
    BY <1>21 DEF Interrupt, TypeOK, Turns, Batch
  <2> QED BY <2>1 DEF Forgets, ReservedIsPending
<1>22. CASE Crash
  <2>1. work' = work /\ (work # <<>> => pendingInput')
    BY <1>22 DEF Crash
  <2> QED BY <2>1 DEF Forgets, ReservedIsPending
<1> QED
  BY <1>1, <1>2, <1>3, <1>4, <1>5, <1>6, <1>7, <1>8, <1>9, <1>10, <1>11,
     <1>12, <1>13, <1>14, <1>15, <1>16, <1>17, <1>18, <1>19, <1>20, <1>21, <1>22
  DEF Next, Produce, Consume, Poll, Hook

-----------------------------------------------------------------------------
(* The theorems *)

\* The inductive invariant.
Safe == TypeOK /\ Phases /\ Distinct /\ Reserved /\ Counted /\ Known

\* It holds at the start,
LEMMA InitSafe == ASSUME Init PROVE Safe
<1>1. <<>> \in Seq(Messages) /\ Len(<<>>) = 0
  OBVIOUS
<1>2. turn = Idle /\ fold = NoFold /\ op = NoOp
  BY DEF Init
<1>3. Left(turn) = {} /\ Left(fold) = {}
  BY <1>2, EmptyLeft DEF Idle, NoFold, Batch
<1>4. TypeOK
  <2>1. turn \in Turns /\ fold \in Folds /\ op \in Ops
    BY <1>1, <1>2 DEF Turns, Folds, Ops, Idle, NoFold, NoOp, Batch
  <2>2. accepts \in [Messages -> Nat] /\ starts \in [Messages -> Nat]
    BY DEF Init
  <2>3. sends \in 0..MaxSends /\ faults \in 0..MaxFaults
    BY InboxAssumption DEF Init
  <2> QED BY <1>1, <2>1, <2>2, <2>3 DEF Init, TypeOK
<1>5. Phases
  BY <1>2 DEF Phases, Idle, NoFold, NoOp, Batch, Holding
<1>6. Distinct
  BY <1>2, EmptyFacts DEF Init, Distinct, Idle, NoFold, NoOp, Batch
<1>7. Reserved
  BY <1>2, <1>3, EmptyFacts DEF Reserved, Idle, NoFold, NoOp, Batch, Holding
<1>8. Counted
  BY DEF Init, Counted
<1>9. Known
  BY DEF Init, Known
<1> QED BY <1>4, <1>5, <1>6, <1>7, <1>8, <1>9 DEF Safe

\* every step keeps it,
LEMMA SafeStep == ASSUME Safe, [Next]_vars PROVE Safe'
  BY TypeStep, PhasesStep, DistinctStep, ReservedStep, CountedStep, KnownStep DEF Safe

\* and so it holds always.
LEMMA Invariant == Spec => []Safe
<1>1. Init => Safe
  BY InitSafe
<1>2. Safe /\ [Next]_vars => Safe'
  BY SafeStep
<1> QED BY <1>1, <1>2, PTL DEF Spec

\* Every variable of the inbox keeps its type.
THEOREM TypeCorrect == Spec => []TypeOK
<1>1. Safe => TypeOK
  BY DEF Safe
<1> QED BY <1>1, Invariant, PTL

\* The transaction of receive and deliver accepts a message once, whoever sends
\* it again, after a restart or after its delivered id expired.
THEOREM AcceptedAtMostOnce == Spec => []AcceptedOnce
<1>1. Safe => AcceptedOnce
  BY DEF Safe, Known, AcceptedOnce
<1> QED BY <1>1, Invariant, PTL

\* The poller and the hook hand a message to the agent once, and once more for
\* each failure, cancellation or crash: consume never reserves what a batch that
\* is still there holds.
THEOREM HandedOverOncePerFault == Spec => []StartedOncePerFault
<1>1. ASSUME Safe, NEW m \in Messages PROVE starts[m] <= 1 + faults
  <2>1. starts[m] \in Nat /\ faults \in Nat
    BY <1>1 DEF Safe, TypeOK
  <2>2. starts[m] <= faults + IF m \in seen \union Current THEN 1 ELSE 0
    BY <1>1 DEF Safe, Counted
  <2> QED BY <2>1, <2>2
<1>2. Safe => StartedOncePerFault
  BY <1>1 DEF StartedOncePerFault
<1> QED BY <1>2, Invariant, PTL

\* No step but a send, which the bus may refuse, makes the poller forget a
\* session with reserved work: the end of a dispatch and recovery mark it.
THEOREM OnlyRefusal == Spec => OnlyRefusalForgets
<1>1. Safe /\ [Next]_vars => [Forgets => Refused]_vars
  BY ForgetsStep DEF Safe
<1>2. [Forgets => Refused]_vars =>
        [ReservedIsPending
          /\ ~ReservedIsPending' => sends' # sends \/ storing' # storing]_vars
  BY DEF Forgets, Refused
<1> QED BY <1>1, <1>2, Invariant, PTL DEF Spec, OnlyRefusalForgets

-----------------------------------------------------------------------------
(* The condition and the inductive invariant: the rows taken are the rows
   reserved *)

\* One consume can reserve all that is outstanding,
Fits == Len(Authoritative) <= Limit

\* or no earlier consume was cut between its two writes: no row has a receipt.
Untorn == Work \intersect Pending = {}

\* The condition at the moment a consume may begin.
Repairable == op.stage = "none" => Fits \/ Untorn

\* A message is claimed for a batch that is there.
Owned ==
    /\ ClaimsAreHeld
    /\ turn.phase \in {"idle", "start", "end"} => claimed = {}

\* Receipts and acknowledgements have rows, and what is acknowledged is neither
\* in the queue, nor among the receipts, nor reserved again.
Settled ==
    /\ seen \subseteq acked /\ acked \subseteq Rows /\ Work \subseteq Rows
    /\ AckedIsGone
    /\ ToSet(op.messages) \subseteq Rows \ acked

\* The queue has let go of what a batch holds.
Removed ==
    ToSet(turn.messages) \union ToSet(fold.messages) \subseteq Rows \ Pending

\* The first rows that InboxMQ.consume will take, as many as were counted, are
\* the rows of the messages reserved, whatever was sent in the meantime.
Exact ==
    op.stage # "none" =>
        LET rows == Only(queue, OfTypes(op.by))
        IN  /\ op.count <= Len(rows)
            /\ ToSet(FirstOf(op.count, rows)) = Pending \intersect ToSet(op.messages)

\* The inductive invariant, beside Safe.
Drained == Owned /\ Settled /\ Removed /\ Exact /\ NothingLost

-----------------------------------------------------------------------------
(* What a reservation counts *)

\* What one consume can choose from: the saved receipts, then the rows without.
LEMMA AuthoritativeFacts ==
  ASSUME TypeOK, Distinct
  PROVE  /\ Only(queue, Messages \ Work) \in Seq(Messages)
         /\ ToSet(Only(queue, Messages \ Work)) = Pending \ Work
         /\ Authoritative = work \o Only(queue, Messages \ Work)
         /\ Authoritative \in Seq(Messages) /\ ToSet(Authoritative) = Work \union Pending
         /\ IsInjective(Authoritative)
<1> DEFINE rest == Only(queue, Messages \ Work)
<1>1. rest \in Seq(Messages) /\ ToSet(rest) = Pending \ Work /\ IsInjective(rest)
  <2>1. Pending \subseteq Messages
    BY DEF Pending, ToSet, TypeOK
  <2> QED BY <2>1, OnlyFacts DEF Pending, TypeOK, Distinct
<1>2. Authoritative = work \o rest /\ ToSet(work) = Work
  BY DEF Authoritative, Work
<1> HIDE DEF rest
<1>3. ToSet(work) \intersect ToSet(rest) = {}
  BY <1>1, <1>2
<1>4. /\ Authoritative \in Seq(Messages) /\ ToSet(Authoritative) = Work \union Pending
      /\ IsInjective(Authoritative)
  BY <1>1, <1>2, <1>3, ConcatFacts DEF TypeOK, Distinct
<1> QED BY <1>1, <1>2, <1>4 DEF rest

\* The rows that a consume of these types may take: those of the queue.
LEMMA RowsFacts ==
  ASSUME TypeOK, Distinct, NEW by
  PROVE  /\ Only(queue, OfTypes(by)) \in Seq(Messages)
         /\ ToSet(Only(queue, OfTypes(by))) = Pending \intersect OfTypes(by)
         /\ IsInjective(Only(queue, OfTypes(by)))
  BY OnlyFacts DEF Pending, TypeOK, Distinct

\* When it can reserve all that is outstanding, it reserves everything of its
\* types that is neither claimed nor acknowledged.
LEMMA ReservableAll ==
  ASSUME Fits, TypeOK, Distinct, NEW by
  PROVE  ToSet(Reservable(by)) = ((Work \union Pending) \intersect OfTypes(by)) \ (claimed \union seen)
<1> DEFINE types == OfTypes(by) \ (claimed \union seen)
           mine == Only(Authoritative, types)
<1>1. /\ Authoritative \in Seq(Messages) /\ ToSet(Authoritative) = Work \union Pending
      /\ IsInjective(Authoritative)
  BY AuthoritativeFacts
<1>2. /\ mine \in Seq(Messages) /\ ToSet(mine) = (Work \union Pending) \intersect types
      /\ IsInjective(mine)
  BY <1>1, OnlyFacts
<1>3. Limit \in Nat /\ Reservable(by) = FirstOf(Limit, mine)
  BY InboxAssumption DEF Reservable
<1> HIDE DEF mine
<1>4. /\ Cardinality(ToSet(mine)) = Len(mine)
      /\ Cardinality(ToSet(Authoritative)) = Len(Authoritative)
      /\ IsFiniteSet(ToSet(Authoritative))
  <2>1. mine \in Seq(Messages) /\ IsInjective(mine)
    BY <1>2, Zenon
  <2>2. Authoritative \in Seq(Messages) /\ IsInjective(Authoritative)
    BY <1>1, Zenon
  <2> QED BY <2>1, <2>2, InjectiveLength, Zenon
<1>5. Len(mine) <= Len(Authoritative)
  <2>1. ToSet(mine) \subseteq ToSet(Authoritative)
    BY <1>1, <1>2
  <2> QED BY <2>1, <1>4, FS_Subset
<1>6. Len(mine) <= Limit
  <2>1. Len(mine) \in Nat /\ Len(Authoritative) \in Nat
    BY <1>1, <1>2
  <2> QED BY <2>1, <1>3, <1>5 DEF Fits
<1> QED BY <1>2, <1>3, <1>6, FirstFacts

\* When no row has a receipt, it reserves receipts and then first rows.
LEMMA ReservableFirst ==
  ASSUME Untorn, TypeOK, Distinct, NEW by, Pending \intersect (claimed \union seen) = {}
  PROVE  \E k \in Nat : Pending \intersect ToSet(Reservable(by))
                          = ToSet(FirstOf(k, Only(queue, OfTypes(by))))
<1> DEFINE types == OfTypes(by) \ (claimed \union seen)
           rows == Only(queue, OfTypes(by))
           rest == Only(queue, Messages \ Work)
           saved == Only(work, types)
<1>1. /\ rest \in Seq(Messages) /\ Authoritative = work \o rest
      /\ work \in Seq(Messages) /\ queue \in Seq(Messages) /\ Pending \subseteq Messages
  <2>1. Pending \subseteq Messages
    BY DEF Pending, ToSet, TypeOK
  <2> QED BY <2>1, AuthoritativeFacts DEF TypeOK
<1>2. Only(rest, types) = rows
  <2>1. ToSet(queue) \intersect (Messages \ Work) \intersect types = ToSet(queue) \intersect OfTypes(by)
    BY <1>1 DEF Untorn, Pending
  <2> QED BY <1>1, <2>1, OnlyAgrees
<1>3. Only(Authoritative, types) = saved \o rows
  <2> HIDE DEF rest, rows, types
  <2>1. Only(work \o rest, types) = Only(work, types) \o Only(rest, types)
    BY <1>1, OnlyConcat
  <2> QED BY <2>1, <1>1, <1>2
<1>4. saved \in Seq(Messages) /\ ToSet(saved) \subseteq Work
  BY <1>1, OnlyFacts DEF Work
<1>5. rows \in Seq(Messages) /\ ToSet(rows) \subseteq Pending
  BY RowsFacts
<1>6. Limit \in Nat /\ Reservable(by) = FirstOf(Limit, saved \o rows)
  BY <1>3, InboxAssumption DEF Reservable
<1> HIDE DEF types, rows, rest, saved
<1>7. CASE Limit <= Len(saved)
  <2>1. Reservable(by) = FirstOf(Limit, saved)
    BY <1>4, <1>5, <1>6, <1>7, FirstOfConcat
  <2>2. ToSet(Reservable(by)) \subseteq Work
    BY <2>1, <1>4, <1>6, FirstFacts
  <2>3. FirstOf(0, rows) = <<>>
    BY <1>5, SMT DEF FirstOf
  <2>4. Pending \intersect ToSet(Reservable(by)) = ToSet(FirstOf(0, rows))
    BY <2>2, <2>3, EmptyFacts DEF Untorn
  <2> QED BY <2>4 DEF rows
<1>8. CASE Limit > Len(saved)
  <2> DEFINE k == Limit - Len(saved)
  <2>1. k \in Nat /\ Reservable(by) = saved \o FirstOf(k, rows)
    <3>1. Len(saved) \in Nat
      BY <1>4
    <3> QED BY <3>1, <1>4, <1>5, <1>6, <1>8, FirstOfConcat
  <2> HIDE DEF k
  <2>2. FirstOf(k, rows) \in Seq(Messages) /\ ToSet(FirstOf(k, rows)) \subseteq Pending
    BY <2>1, <1>5, FirstFacts
  <2>3. ToSet(Reservable(by)) = ToSet(saved) \union ToSet(FirstOf(k, rows))
    BY <2>1, <2>2, <1>4, ConcatFacts
  <2>4. Pending \intersect ToSet(Reservable(by)) = ToSet(FirstOf(k, rows))
    BY <2>2, <2>3, <1>4 DEF Untorn
  <2> QED BY <2>1, <2>4 DEF rows
<1>9. Len(saved) \in Nat
  BY <1>4
<1> QED BY <1>6, <1>7, <1>8, <1>9

\* So the rows it reserves are first rows of its types, either way.
LEMMA ReservedRows ==
  ASSUME Fits \/ Untorn, TypeOK, Distinct, NEW by, Pending \intersect (claimed \union seen) = {}
  PROVE  \E k \in Nat : Pending \intersect ToSet(Reservable(by))
                          = ToSet(FirstOf(k, Only(queue, OfTypes(by))))
<1>1. CASE Fits
  <2> DEFINE rows == Only(queue, OfTypes(by))
  <2>1. rows \in Seq(Messages) /\ ToSet(rows) = Pending \intersect OfTypes(by)
    BY RowsFacts
  <2> HIDE DEF rows
  <2>2. ToSet(Reservable(by))
          = ((Work \union Pending) \intersect OfTypes(by)) \ (claimed \union seen)
    BY <1>1, ReservableAll
  <2>4. Pending \intersect ToSet(Reservable(by)) = ToSet(rows)
    BY <2>1, <2>2
  <2>3. Len(rows) \in Nat /\ FirstOf(Len(rows), rows) = rows
    <3>1. Len(rows) \in Nat /\ Len(rows) <= Len(rows)
      BY <2>1
    <3> QED BY <2>1, <3>1, FirstFacts
  <2> QED BY <2>4, <2>3 DEF rows
<1>2. CASE Untorn
  BY <1>2, ReservableFirst
<1> QED BY <1>1, <1>2

\* Such a reservation counts as many rows as there are first ones.
LEMMA ExactReserve ==
  ASSUME TypeOK, Distinct, NEW by, Reserve(by, Reservable(by)), queue' = queue,
         NEW k \in Nat,
         Pending \intersect ToSet(Reservable(by)) = ToSet(FirstOf(k, Only(queue, OfTypes(by))))
  PROVE  Exact'
<1> DEFINE rows == Only(queue, OfTypes(by))
           first == FirstOf(k, rows)
<1>1. rows \in Seq(Messages) /\ IsInjective(rows)
  BY RowsFacts
<1>2. /\ op'.by = by /\ op'.messages = Reservable(by)
      /\ op'.count = Cardinality(Pending \intersect ToSet(Reservable(by)))
  BY DEF Reserve
<1> HIDE DEF rows
<1>3. first \in Seq(Messages) /\ IsInjective(first)
  BY <1>1, FirstFacts
<1>4. Len(first) \in Nat /\ Len(first) <= Len(rows) /\ FirstOf(Len(first), rows) = first
  BY <1>1, FirstLength
<1>5. Pending \intersect ToSet(Reservable(by)) = ToSet(first)
  BY DEF rows
<1> HIDE DEF first
<1>6. op'.count = Len(first)
  <2>1. Cardinality(ToSet(first)) = Len(first)
    BY <1>3, InjectiveLength, Zenon
  <2> QED BY <2>1, <1>2, <1>5
<1>7. Pending' = Pending
  BY DEF Pending
<1>8. Only(queue', OfTypes(op'.by)) = rows
  BY <1>2 DEF rows
<1>9. op'.count <= Len(rows)
  BY <1>4, <1>6
<1>10. ToSet(FirstOf(op'.count, rows)) = Pending' \intersect ToSet(op'.messages)
  BY <1>2, <1>4, <1>5, <1>6, <1>7
<1> QED BY <1>8, <1>9, <1>10 DEF Exact, OfTypes

\* A new row comes after those that were counted.
LEMMA ExactInsert ==
  ASSUME TypeOK, Exact, Settled, NEW m \in Messages, Insert(m), op' = op
  PROVE  Exact'
<1>1. CASE m \in delivered \union Rows
  BY <1>1 DEF Insert, Exact, store, Pending, OfTypes
<1>2. CASE m \notin delivered \union Rows
  <2>1. SUFFICES ASSUME op.stage # "none" PROVE Exact'
    BY DEF Exact
  <2> DEFINE types == OfTypes(op.by)
             rows == Only(queue, types)
  <2>2. queue' = Append(queue, m) /\ m \notin Rows /\ Pending' = Pending \union {m}
    BY <1>2, InsertedRow
  <2>3. m \notin ToSet(op.messages)
    BY <2>2 DEF Settled
  <2>4. rows \in Seq(Messages) /\ queue \in Seq(Messages) /\ op.count \in Nat
    BY OnlyFacts, BatchTypes DEF TypeOK
  <2>5. Only(queue', types) = IF m \in types THEN Append(rows, m) ELSE rows
    BY <2>2, <2>4, OnlyAppend
  <2>6. op.count <= Len(rows)
    /\ ToSet(FirstOf(op.count, rows)) = Pending \intersect ToSet(op.messages)
    BY <2>1 DEF Exact
  <2> HIDE DEF rows, types
  <2>7. Len(rows) \in Nat /\ Len(Append(rows, m)) = Len(rows) + 1
    BY <2>4
  <2>8. op.count <= Len(Only(queue', types))
    /\ FirstOf(op.count, Only(queue', types)) = FirstOf(op.count, rows)
    BY <2>4, <2>5, <2>6, <2>7, FirstFacts
  <2>9. types' = types
    BY DEF types, OfTypes
  <2> QED BY <2>2, <2>3, <2>6, <2>8, <2>9 DEF Exact, types
<1> QED BY <1>1, <1>2

-----------------------------------------------------------------------------
(* Claims *)

\* The receiver of a consume takes over its claims.
LEMMA HandOwned ==
  ASSUME Phases, Owned, Hand, op.stage # "none", claimed' = claimed PROVE Owned'
<1>1. CASE op.by = "turn" /\ turn.phase = "consume" /\ fold = NoFold
  <2>1. turn'.messages = op.messages /\ turn'.phase = "next" /\ fold' = fold
    /\ op'.messages = <<>>
        /\ turn.messages = <<>>
    BY <1>1 DEF Hand, Phases, Batch, NoOp
  <2> QED BY <2>1, EmptyFacts DEF Owned, ClaimsAreHeld
<1>2. CASE op.by = "fold" /\ turn.phase = "folding" /\ fold.phase = "consume"
  <2>1. fold'.messages = op.messages /\ turn' = turn /\ op'.messages = <<>>
    /\ fold.messages = <<>>
    BY <1>2 DEF Hand, Phases, Batch, NoOp
  <2> QED BY <1>2, <2>1, EmptyFacts DEF Owned, ClaimsAreHeld
<1> QED BY <1>1, <1>2 DEF Phases

\* Every step keeps Owned.
LEMMA OwnedStep == ASSUME TypeOK, Phases, Owned, [Next]_vars PROVE Owned'
<1>1. CASE UNCHANGED vars
  BY <1>1 DEF vars, store, producer, receivers, Owned, ClaimsAreHeld
<1>2. ASSUME NEW m \in Messages, Send(m) PROVE Owned'
  BY <1>2 DEF Send, receivers, Owned, ClaimsAreHeld
<1>3. ASSUME NEW m \in Messages, Store(m) PROVE Owned'
  BY <1>3 DEF Store, receivers, Owned, ClaimsAreHeld
<1>4. ASSUME NEW m \in Messages, StoreFails(m) PROVE Owned'
  BY <1>4 DEF StoreFails, receivers, Owned, ClaimsAreHeld
<1>5. ASSUME NEW m \in Messages, Deliver(m) PROVE Owned'
  BY <1>5 DEF Deliver, receivers, Owned, ClaimsAreHeld
<1>6. CASE Reap
  BY <1>6 DEF Reap, receivers, Owned, ClaimsAreHeld
<1>7. CASE SaveWork
  <2>1. op.stage = "save" /\ claimed' = claimed
    BY <1>7 DEF SaveWork
  <2>2. CASE op.count = 0
    BY <1>7, <2>1, <2>2, HandOwned DEF SaveWork
  <2>3. CASE op.count # 0
    <3>1. turn' = turn /\ fold' = fold /\ op'.messages = op.messages
      BY <1>7, <2>3 DEF SaveWork, TypeOK, Ops
    <3> QED BY <2>1, <3>1 DEF Owned, ClaimsAreHeld
  <2> QED BY <2>2, <2>3
<1>8. CASE TakeRows
  BY <1>8, HandOwned DEF TakeRows
<1>9. CASE StartTurn
  <2>1. /\ turn'.messages = turn.messages /\ UNCHANGED <<fold, op, claimed>>
        /\ turn'.phase \in {"idle", "start", "end"} => turn.phase \in {"idle", "start", "end"}
    BY <1>9 DEF StartTurn, TypeOK, Turns
  <2> QED BY <2>1 DEF Owned, ClaimsAreHeld
<1>10. CASE ConsumeBatch
  <2>1. turn.phase = "start" /\ claimed = {}
    BY <1>10 DEF ConsumeBatch, Owned
  <2>2. CASE Reservable("turn") = <<>>
    BY <1>10, <2>1, <2>2 DEF ConsumeBatch, Owned, ClaimsAreHeld
  <2>3. CASE Reservable("turn") # <<>>
    <3>1. claimed' = ToSet(op'.messages) /\ turn'.phase = "consume"
      BY <1>10, <2>1, <2>3 DEF ConsumeBatch, Reserve, TypeOK, Turns
    <3> QED BY <3>1 DEF Owned, ClaimsAreHeld
  <2> QED BY <2>2, <2>3
<1>11. CASE Dispatch
  <2>1. /\ turn'.messages = turn.messages /\ UNCHANGED <<fold, op, claimed>>
        /\ turn'.phase \in {"idle", "start", "end"} => turn.phase \in {"idle", "start", "end"}
    BY <1>11 DEF Dispatch, TypeOK, Turns
  <2> QED BY <2>1 DEF Owned, ClaimsAreHeld
<1>12. CASE Finish
  <2>1. /\ turn'.messages = turn.messages /\ UNCHANGED <<fold, op, claimed>>
        /\ turn'.phase \in {"idle", "start", "end"} => turn.phase \in {"idle", "start", "end"}
    BY <1>12 DEF Finish, TypeOK, Turns
  <2> QED BY <2>1 DEF Owned, ClaimsAreHeld
<1>13. CASE AckTurn
  <2>1. /\ turn'.messages = turn.messages /\ fold'.messages = fold.messages /\ op' = op
        /\ turn'.phase \in {"idle", "start", "end"} => turn.phase \in {"idle", "start", "end"}
        /\ Acknowledge(Now(turn))
    BY <1>13 DEF AckTurn, TypeOK, Turns, Folds
  <2>2. claimed' \subseteq claimed
    BY <2>1 DEF Acknowledge
  <2> QED BY <2>1, <2>2 DEF Owned, ClaimsAreHeld
<1>14. CASE EndBatch
  <2>1. op = NoOp /\ fold = NoFold /\ claimed' = claimed \ ToSet(turn.messages)
    BY <1>14 DEF EndBatch, Phases
  <2> QED BY <2>1, EmptyFacts DEF Owned, ClaimsAreHeld, NoOp, NoFold, Batch
<1>15. CASE EndDispatch
  <2>1. claimed' = {}
    BY <1>15 DEF EndDispatch, Owned
  <2> QED BY <2>1 DEF Owned, ClaimsAreHeld
<1>16. CASE Flush
  <2>1. turn.phase = "flush" /\ turn'.messages = turn.messages /\ fold = NoFold /\ op = NoOp
        /\ turn'.phase \in {"run", "folding"}
    BY <1>16 DEF Flush, TypeOK, Turns
  <2>2. claimed \subseteq ToSet(turn.messages)
    BY <2>1, EmptyFacts DEF Owned, ClaimsAreHeld, NoFold, NoOp, Batch
  <2>3. CASE Reservable("fold") = <<>>
    BY <1>16, <2>1, <2>2, <2>3 DEF Flush, Owned, ClaimsAreHeld
  <2>4. CASE Reservable("fold") # <<>>
    <3>1. claimed' = claimed \union ToSet(op'.messages)
      BY <1>16, <2>4 DEF Flush, Reserve
    <3> QED BY <2>1, <2>2, <3>1 DEF Owned, ClaimsAreHeld
  <2> QED BY <2>3, <2>4
<1>17. CASE Iterate
  <2>1. /\ turn'.messages = turn.messages /\ UNCHANGED <<fold, op, claimed>>
        /\ turn'.phase \in {"idle", "start", "end"} => turn.phase \in {"idle", "start", "end"}
    BY <1>17 DEF Iterate, TypeOK, Turns
  <2> QED BY <2>1 DEF Owned, ClaimsAreHeld
<1>18. CASE AppendToHistory
  <2>1. turn' = turn /\ op' = op /\ claimed' = claimed /\ fold'.messages = fold.messages
    BY <1>18 DEF AppendToHistory, TypeOK, Folds
  <2> QED BY <2>1 DEF Owned, ClaimsAreHeld
<1>19. CASE AckFold
  <2>1. /\ turn'.messages = turn.messages /\ fold'.messages = fold.messages /\ op' = op
        /\ turn'.phase \in {"idle", "start", "end"} => turn.phase \in {"idle", "start", "end"}
        /\ Acknowledge(Now(fold))
    BY <1>19 DEF AckFold, TypeOK, Turns, Folds
  <2>2. claimed' \subseteq claimed
    BY <2>1 DEF Acknowledge
  <2> QED BY <2>1, <2>2 DEF Owned, ClaimsAreHeld
<1>20. CASE EndFlush
  <2>1. /\ turn'.messages = turn.messages /\ turn'.phase = "run" /\ op' = op
    /\ fold' = NoFold
        /\ claimed' = claimed \ ToSet(fold.messages)
    BY <1>20 DEF EndFlush, TypeOK, Turns
  <2> QED BY <2>1 DEF Owned, ClaimsAreHeld
<1>21. CASE Interrupt
  <2>1. claimed' = {}
    BY <1>21 DEF Interrupt, Owned, ClaimsAreHeld
  <2> QED BY <2>1 DEF Owned, ClaimsAreHeld
<1>22. CASE Crash
  <2>1. claimed' = {}
    BY <1>22 DEF Crash, Owned, ClaimsAreHeld
  <2> QED BY <2>1 DEF Owned, ClaimsAreHeld
<1> QED
  BY <1>1, <1>2, <1>3, <1>4, <1>5, <1>6, <1>7, <1>8, <1>9, <1>10, <1>11,
     <1>12, <1>13, <1>14, <1>15, <1>16, <1>17, <1>18, <1>19, <1>20, <1>21, <1>22
  DEF Next, Produce, Consume, Poll, Hook

-----------------------------------------------------------------------------
(* Receipts and acknowledgements *)

\* A new row was neither acknowledged nor reserved.
LEMMA InsertSettled ==
  ASSUME TypeOK, Settled, NEW m \in Messages, Insert(m), UNCHANGED <<seen, acked, work, op>>
  PROVE  Settled'
<1>1. CASE m \in delivered \union Rows
  BY <1>1 DEF Insert, Settled, AckedIsGone, store, Rows, Pending, Work
<1>2. CASE m \notin delivered \union Rows
  <2>1. m \notin Rows /\ Pending' = Pending \union {m} /\ Rows' = Rows \union {m}
    /\ Work' = Work
    BY <1>2, InsertedRow DEF Rows, Work
  <2> QED BY <2>1 DEF Settled, AckedIsGone
<1> QED BY <1>1, <1>2

\* A new row is in no batch.
LEMMA InsertRemoved ==
  ASSUME TypeOK, Removed, NEW m \in Messages, Insert(m), UNCHANGED <<turn, fold>>
  PROVE  Removed'
<1>1. CASE m \in delivered \union Rows
  BY <1>1 DEF Insert, Removed, store, Rows, Pending
<1>2. CASE m \notin delivered \union Rows
  <2>1. m \notin Rows /\ Pending' = Pending \union {m} /\ Rows' = Rows \union {m}
    BY <1>2, InsertedRow DEF Rows
  <2> QED BY <2>1 DEF Removed
<1> QED BY <1>1, <1>2

\* What is acknowledged has left the queue and loses its receipt.
LEMMA AcknowledgeSettled ==
  ASSUME TypeOK, Settled, NEW m, Acknowledge(m), m \notin Pending, op = NoOp,
         UNCHANGED <<store, op>>
  PROVE  Settled'
<1>1. Pending' = Pending /\ Rows' = Rows
  BY DEF Pending, Rows, store
<1>2. ToSet(op'.messages) = {}
  BY EmptyFacts DEF NoOp
<1>3. CASE m \in Work
  BY <1>1, <1>2, <1>3, Acknowledged DEF Settled, AckedIsGone
<1>4. CASE m \notin Work
  BY <1>1, <1>2, <1>4 DEF Acknowledge, Settled, AckedIsGone, Work
<1> QED BY <1>3, <1>4

\* Every step keeps Settled.
LEMMA SettledStep == ASSUME TypeOK, Phases, Settled, Removed, [Next]_vars PROVE Settled'
<1>1. CASE UNCHANGED vars
  BY <1>1 DEF vars, store, producer, receivers, Settled, AckedIsGone, Rows, Pending, Work
<1>2. ASSUME NEW m \in Messages, Send(m) PROVE Settled'
  <2>1. UNCHANGED <<store, work, acked, op>> /\ seen' \in {seen, {}}
    BY <1>2 DEF Send, receivers, TypeOK
  <2>2. Pending' = Pending /\ Rows' = Rows /\ Work' = Work
    BY <2>1 DEF Pending, Rows, Work, store
  <2> QED BY <2>1, <2>2 DEF Settled, AckedIsGone
<1>3. ASSUME NEW m \in Messages, Store(m) PROVE Settled'
  BY <1>3, InsertSettled DEF Store, receivers
<1>4. ASSUME NEW m \in Messages, StoreFails(m) PROVE Settled'
  <2>1. UNCHANGED <<store, work, acked, op>> /\ seen' \in {seen, {}}
    BY <1>4 DEF StoreFails, receivers, TypeOK
  <2>2. Pending' = Pending /\ Rows' = Rows /\ Work' = Work
    BY <2>1 DEF Pending, Rows, Work, store
  <2> QED BY <2>1, <2>2 DEF Settled, AckedIsGone
<1>5. ASSUME NEW m \in Messages, Deliver(m) PROVE Settled'
  BY <1>5, InsertSettled DEF Deliver, receivers
<1>6. CASE Reap
  <2>1. UNCHANGED <<queue, taken, work, acked, op, seen>>
    BY <1>6 DEF Reap, receivers
  <2>2. Pending' = Pending /\ Rows' = Rows /\ Work' = Work
    BY <2>1 DEF Pending, Rows, Work
  <2> QED BY <2>1, <2>2 DEF Settled, AckedIsGone
<1>7. CASE SaveWork
  <2>1. UNCHANGED <<store, seen, acked>> /\ Work' = Work \union ToSet(op.messages)
    BY <1>7, SavedWork DEF SaveWork
  <2>2. ToSet(op'.messages) \subseteq ToSet(op.messages)
    <3>1. op'.messages \in {op.messages, <<>>}
      BY <1>7 DEF SaveWork, Hand, NoOp, TypeOK, Ops
    <3> QED BY <3>1, EmptyFacts
  <2>3. Pending' = Pending /\ Rows' = Rows
    BY <2>1 DEF Pending, Rows, store
  <2> QED BY <2>1, <2>2, <2>3 DEF Settled, AckedIsGone
<1>8. CASE TakeRows
  <2>1. UNCHANGED <<work, seen, acked>> /\ op' = NoOp
    BY <1>8 DEF TakeRows, Hand
  <2>2. Pending' \subseteq Pending /\ Rows' = Rows /\ Work' = Work
    BY <1>8, <2>1, TakenRows DEF Rows, Work
  <2> QED BY <2>1, <2>2, EmptyFacts DEF Settled, AckedIsGone, NoOp
<1>9. CASE StartTurn
  <2>1. UNCHANGED <<store, work, acked, op>> /\ seen' \in {seen, {}}
    BY <1>9 DEF StartTurn, receivers, TypeOK
  <2>2. Pending' = Pending /\ Rows' = Rows /\ Work' = Work
    BY <2>1 DEF Pending, Rows, Work, store
  <2> QED BY <2>1, <2>2 DEF Settled, AckedIsGone
<1>10. CASE ConsumeBatch
  <2>1. UNCHANGED <<store, work, seen, acked>>
    BY <1>10 DEF ConsumeBatch
  <2>2. Pending' = Pending /\ Rows' = Rows /\ Work' = Work
    BY <2>1 DEF Pending, Rows, Work, store
  <2>3. op'.messages \in {op.messages, Reservable("turn")}
    BY <1>10 DEF ConsumeBatch, Reserve
  <2>4. ToSet(Reservable("turn")) \subseteq Rows \ acked
    BY ReservableFacts DEF Settled, AckedIsGone, TypeOK, Rows
  <2> QED BY <2>1, <2>2, <2>3, <2>4 DEF Settled, AckedIsGone
<1>11. CASE Dispatch
  <2>1. UNCHANGED <<store, work, acked, op>> /\ seen' \in {seen, {}}
    BY <1>11 DEF Dispatch, receivers, TypeOK
  <2>2. Pending' = Pending /\ Rows' = Rows /\ Work' = Work
    BY <2>1 DEF Pending, Rows, Work, store
  <2> QED BY <2>1, <2>2 DEF Settled, AckedIsGone
<1>12. CASE Finish
  <2>1. UNCHANGED <<store, work, acked, op>> /\ seen' \in {seen, {}}
    BY <1>12 DEF Finish, receivers, TypeOK
  <2>2. Pending' = Pending /\ Rows' = Rows /\ Work' = Work
    BY <2>1 DEF Pending, Rows, Work, store
  <2> QED BY <2>1, <2>2 DEF Settled, AckedIsGone
<1>13. CASE AckTurn
  <2>1. /\ turn.phase = "ran" /\ Acknowledge(Now(turn)) /\ UNCHANGED <<store, op>>
    BY <1>13 DEF AckTurn
  <2>2. op = NoOp /\ More(turn)
    BY <2>1 DEF Phases, Holding, NoFold, Batch
  <2>3. Now(turn) \in ToSet(turn.messages)
    BY <2>2, BatchTypes, NowIsLeft, LeftIsPart
  <2>4. Now(turn) \notin Pending
    BY <2>3 DEF Removed
  <2> QED BY <2>1, <2>2, <2>4, AcknowledgeSettled
<1>14. CASE EndBatch
  <2>1. UNCHANGED <<store, work, acked, op>> /\ seen' \in {seen, {}}
    BY <1>14 DEF EndBatch, receivers, TypeOK
  <2>2. Pending' = Pending /\ Rows' = Rows /\ Work' = Work
    BY <2>1 DEF Pending, Rows, Work, store
  <2> QED BY <2>1, <2>2 DEF Settled, AckedIsGone
<1>15. CASE EndDispatch
  <2>1. UNCHANGED <<store, work, acked, op>> /\ seen' \in {seen, {}}
    BY <1>15 DEF EndDispatch, receivers, TypeOK
  <2>2. Pending' = Pending /\ Rows' = Rows /\ Work' = Work
    BY <2>1 DEF Pending, Rows, Work, store
  <2> QED BY <2>1, <2>2 DEF Settled, AckedIsGone
<1>16. CASE Flush
  <2>1. UNCHANGED <<store, work, seen, acked>>
    BY <1>16 DEF Flush
  <2>2. Pending' = Pending /\ Rows' = Rows /\ Work' = Work
    BY <2>1 DEF Pending, Rows, Work, store
  <2>3. op'.messages \in {op.messages, Reservable("fold")}
    BY <1>16 DEF Flush, Reserve
  <2>4. ToSet(Reservable("fold")) \subseteq Rows \ acked
    BY ReservableFacts DEF Settled, AckedIsGone, TypeOK, Rows
  <2> QED BY <2>1, <2>2, <2>3, <2>4 DEF Settled, AckedIsGone
<1>17. CASE Iterate
  <2>1. UNCHANGED <<store, work, acked, op>> /\ seen' \in {seen, {}}
    BY <1>17 DEF Iterate, receivers, TypeOK
  <2>2. Pending' = Pending /\ Rows' = Rows /\ Work' = Work
    BY <2>1 DEF Pending, Rows, Work, store
  <2> QED BY <2>1, <2>2 DEF Settled, AckedIsGone
<1>18. CASE AppendToHistory
  <2>1. UNCHANGED <<store, work, acked, op>> /\ seen' \in {seen, {}}
    BY <1>18 DEF AppendToHistory, receivers, TypeOK
  <2>2. Pending' = Pending /\ Rows' = Rows /\ Work' = Work
    BY <2>1 DEF Pending, Rows, Work, store
  <2> QED BY <2>1, <2>2 DEF Settled, AckedIsGone
<1>19. CASE AckFold
  <2>1. /\ fold.phase = "ack" /\ Acknowledge(Now(fold)) /\ UNCHANGED <<store, op>>
    BY <1>19 DEF AckFold
  <2>2. op = NoOp /\ More(fold)
    BY <2>1 DEF Phases, Holding, NoFold, Batch
  <2>3. Now(fold) \in ToSet(fold.messages)
    BY <2>2, BatchTypes, NowIsLeft, LeftIsPart
  <2>4. Now(fold) \notin Pending
    BY <2>3 DEF Removed
  <2> QED BY <2>1, <2>2, <2>4, AcknowledgeSettled
<1>20. CASE EndFlush
  <2>1. UNCHANGED <<store, work, acked, op>> /\ seen' \in {seen, {}}
    BY <1>20 DEF EndFlush, receivers, TypeOK
  <2>2. Pending' = Pending /\ Rows' = Rows /\ Work' = Work
    BY <2>1 DEF Pending, Rows, Work, store
  <2> QED BY <2>1, <2>2 DEF Settled, AckedIsGone
<1>21. CASE Interrupt
  <2>1. UNCHANGED <<store, work, acked>> /\ seen' \in {seen, {}} /\ op' = NoOp
    BY <1>21 DEF Interrupt
  <2>2. Pending' = Pending /\ Rows' = Rows /\ Work' = Work
    BY <2>1 DEF Pending, Rows, Work, store
  <2> QED BY <2>1, <2>2, EmptyFacts DEF Settled, AckedIsGone, NoOp
<1>22. CASE Crash
  <2>1. UNCHANGED <<store, work, acked>> /\ seen' \in {seen, {}} /\ op' = NoOp
    BY <1>22 DEF Crash
  <2>2. Pending' = Pending /\ Rows' = Rows /\ Work' = Work
    BY <2>1 DEF Pending, Rows, Work, store
  <2> QED BY <2>1, <2>2, EmptyFacts DEF Settled, AckedIsGone, NoOp
<1> QED
  BY <1>1, <1>2, <1>3, <1>4, <1>5, <1>6, <1>7, <1>8, <1>9, <1>10, <1>11,
     <1>12, <1>13, <1>14, <1>15, <1>16, <1>17, <1>18, <1>19, <1>20, <1>21, <1>22
  DEF Next, Produce, Consume, Poll, Hook

-----------------------------------------------------------------------------
(* Rows *)

\* No row is taken when none was counted.
LEMMA FirstOfNone == ASSUME NEW s \in Seq(Messages) PROVE ToSet(FirstOf(0, s)) = {}
<1>1. FirstOf(0, s) = <<>>
  BY SMT DEF FirstOf
<1> QED BY <1>1, EmptyFacts

\* Every step keeps Removed.
LEMMA RemovedStep == ASSUME TypeOK, Settled, Removed, Exact, [Next]_vars PROVE Removed'
<1>1. CASE UNCHANGED vars
  BY <1>1 DEF vars, store, producer, receivers, Removed, Rows, Pending
<1>2. ASSUME NEW m \in Messages, Send(m) PROVE Removed'
  <2>1. /\ UNCHANGED <<queue, taken>> /\ turn'.messages \in {turn.messages, <<>>}
        /\ fold'.messages \in {fold.messages, <<>>}
    BY <1>2 DEF Send, receivers, store, TypeOK, Turns, Folds, Idle, NoFold, Batch
  <2>2. Pending' = Pending /\ Rows' = Rows
    BY <2>1 DEF Pending, Rows
  <2> QED BY <2>1, <2>2, EmptyFacts DEF Removed
<1>3. ASSUME NEW m \in Messages, Store(m) PROVE Removed'
  BY <1>3, InsertRemoved DEF Store, receivers
<1>4. ASSUME NEW m \in Messages, StoreFails(m) PROVE Removed'
  <2>1. /\ UNCHANGED <<queue, taken>> /\ turn'.messages \in {turn.messages, <<>>}
        /\ fold'.messages \in {fold.messages, <<>>}
    BY <1>4 DEF StoreFails, receivers, store, TypeOK, Turns, Folds, Idle, NoFold, Batch
  <2>2. Pending' = Pending /\ Rows' = Rows
    BY <2>1 DEF Pending, Rows
  <2> QED BY <2>1, <2>2, EmptyFacts DEF Removed
<1>5. ASSUME NEW m \in Messages, Deliver(m) PROVE Removed'
  BY <1>5, InsertRemoved DEF Deliver, receivers
<1>6. CASE Reap
  <2>1. /\ UNCHANGED <<queue, taken>> /\ turn'.messages \in {turn.messages, <<>>}
        /\ fold'.messages \in {fold.messages, <<>>}
    BY <1>6 DEF Reap, receivers, store, TypeOK, Turns, Folds, Idle, NoFold, Batch
  <2>2. Pending' = Pending /\ Rows' = Rows
    BY <2>1 DEF Pending, Rows
  <2> QED BY <2>1, <2>2, EmptyFacts DEF Removed
<1>7. CASE SaveWork
  <2>1. UNCHANGED <<queue, taken>> /\ op.stage = "save"
    BY <1>7 DEF SaveWork, store
  <2>2. Pending' = Pending /\ Rows' = Rows
    BY <2>1 DEF Pending, Rows
  <2>3. CASE op.count # 0
    BY <1>7, <2>2, <2>3 DEF SaveWork, Removed
  <2>4. CASE op.count = 0
    <3>1. Pending \intersect ToSet(op.messages) = {}
      <4>1. Only(queue, OfTypes(op.by)) \in Seq(Messages)
        BY OnlyFacts DEF TypeOK
      <4>2. ToSet(FirstOf(0, Only(queue, OfTypes(op.by)))) = {}
        BY <4>1, FirstOfNone
      <4> QED BY <2>1, <2>4, <4>2 DEF Exact
    <3>2. turn'.messages \in {turn.messages, op.messages}
      /\ fold'.messages \in {fold.messages, op.messages}
      BY <1>7, <2>4, HandMessages DEF SaveWork
    <3> QED BY <2>2, <3>1, <3>2 DEF Removed, Settled
  <2> QED BY <2>3, <2>4
<1>8. CASE TakeRows
  <2>1. op.stage = "take" /\ Hand
    BY <1>8 DEF TakeRows
  <2>2. Pending' = Pending \ ToSet(op.messages) /\ Rows' = Rows
    BY <1>8, <2>1, TakenRows DEF Exact, Rows
  <2>3. turn'.messages \in {turn.messages, op.messages}
    /\ fold'.messages \in {fold.messages, op.messages}
    BY <2>1, HandMessages
  <2> QED BY <2>2, <2>3 DEF Removed, Settled
<1>9. CASE StartTurn
  <2>1. /\ UNCHANGED <<queue, taken>> /\ turn'.messages \in {turn.messages, <<>>}
        /\ fold'.messages \in {fold.messages, <<>>}
    BY <1>9 DEF StartTurn, receivers, store, TypeOK, Turns, Folds, Idle, NoFold, Batch
  <2>2. Pending' = Pending /\ Rows' = Rows
    BY <2>1 DEF Pending, Rows
  <2> QED BY <2>1, <2>2, EmptyFacts DEF Removed
<1>10. CASE ConsumeBatch
  <2>1. /\ UNCHANGED <<queue, taken>> /\ turn'.messages \in {turn.messages, <<>>}
        /\ fold'.messages \in {fold.messages, <<>>}
    BY <1>10 DEF ConsumeBatch, receivers, store, TypeOK, Turns, Folds, Idle, NoFold, Batch
  <2>2. Pending' = Pending /\ Rows' = Rows
    BY <2>1 DEF Pending, Rows
  <2> QED BY <2>1, <2>2, EmptyFacts DEF Removed
<1>11. CASE Dispatch
  <2>1. /\ UNCHANGED <<queue, taken>> /\ turn'.messages \in {turn.messages, <<>>}
        /\ fold'.messages \in {fold.messages, <<>>}
    BY <1>11 DEF Dispatch, receivers, store, TypeOK, Turns, Folds, Idle, NoFold, Batch
  <2>2. Pending' = Pending /\ Rows' = Rows
    BY <2>1 DEF Pending, Rows
  <2> QED BY <2>1, <2>2, EmptyFacts DEF Removed
<1>12. CASE Finish
  <2>1. /\ UNCHANGED <<queue, taken>> /\ turn'.messages \in {turn.messages, <<>>}
        /\ fold'.messages \in {fold.messages, <<>>}
    BY <1>12 DEF Finish, receivers, store, TypeOK, Turns, Folds, Idle, NoFold, Batch
  <2>2. Pending' = Pending /\ Rows' = Rows
    BY <2>1 DEF Pending, Rows
  <2> QED BY <2>1, <2>2, EmptyFacts DEF Removed
<1>13. CASE AckTurn
  <2>1. /\ UNCHANGED <<queue, taken>> /\ turn'.messages \in {turn.messages, <<>>}
        /\ fold'.messages \in {fold.messages, <<>>}
    BY <1>13 DEF AckTurn, receivers, store, TypeOK, Turns, Folds, Idle, NoFold, Batch
  <2>2. Pending' = Pending /\ Rows' = Rows
    BY <2>1 DEF Pending, Rows
  <2> QED BY <2>1, <2>2, EmptyFacts DEF Removed
<1>14. CASE EndBatch
  <2>1. /\ UNCHANGED <<queue, taken>> /\ turn'.messages \in {turn.messages, <<>>}
        /\ fold'.messages \in {fold.messages, <<>>}
    BY <1>14 DEF EndBatch, receivers, store, TypeOK, Turns, Folds, Idle, NoFold, Batch
  <2>2. Pending' = Pending /\ Rows' = Rows
    BY <2>1 DEF Pending, Rows
  <2> QED BY <2>1, <2>2, EmptyFacts DEF Removed
<1>15. CASE EndDispatch
  <2>1. /\ UNCHANGED <<queue, taken>> /\ turn'.messages \in {turn.messages, <<>>}
        /\ fold'.messages \in {fold.messages, <<>>}
    BY <1>15 DEF EndDispatch, receivers, store, TypeOK, Turns, Folds, Idle, NoFold, Batch
  <2>2. Pending' = Pending /\ Rows' = Rows
    BY <2>1 DEF Pending, Rows
  <2> QED BY <2>1, <2>2, EmptyFacts DEF Removed
<1>16. CASE Flush
  <2>1. /\ UNCHANGED <<queue, taken>> /\ turn'.messages \in {turn.messages, <<>>}
        /\ fold'.messages \in {fold.messages, <<>>}
    BY <1>16 DEF Flush, receivers, store, TypeOK, Turns, Folds, Idle, NoFold, Batch
  <2>2. Pending' = Pending /\ Rows' = Rows
    BY <2>1 DEF Pending, Rows
  <2> QED BY <2>1, <2>2, EmptyFacts DEF Removed
<1>17. CASE Iterate
  <2>1. /\ UNCHANGED <<queue, taken>> /\ turn'.messages \in {turn.messages, <<>>}
        /\ fold'.messages \in {fold.messages, <<>>}
    BY <1>17 DEF Iterate, receivers, store, TypeOK, Turns, Folds, Idle, NoFold, Batch
  <2>2. Pending' = Pending /\ Rows' = Rows
    BY <2>1 DEF Pending, Rows
  <2> QED BY <2>1, <2>2, EmptyFacts DEF Removed
<1>18. CASE AppendToHistory
  <2>1. /\ UNCHANGED <<queue, taken>> /\ turn'.messages \in {turn.messages, <<>>}
        /\ fold'.messages \in {fold.messages, <<>>}
    BY <1>18 DEF AppendToHistory, receivers, store, TypeOK, Turns, Folds, Idle, NoFold,
      Batch
  <2>2. Pending' = Pending /\ Rows' = Rows
    BY <2>1 DEF Pending, Rows
  <2> QED BY <2>1, <2>2, EmptyFacts DEF Removed
<1>19. CASE AckFold
  <2>1. /\ UNCHANGED <<queue, taken>> /\ turn'.messages \in {turn.messages, <<>>}
        /\ fold'.messages \in {fold.messages, <<>>}
    BY <1>19 DEF AckFold, receivers, store, TypeOK, Turns, Folds, Idle, NoFold, Batch
  <2>2. Pending' = Pending /\ Rows' = Rows
    BY <2>1 DEF Pending, Rows
  <2> QED BY <2>1, <2>2, EmptyFacts DEF Removed
<1>20. CASE EndFlush
  <2>1. /\ UNCHANGED <<queue, taken>> /\ turn'.messages \in {turn.messages, <<>>}
        /\ fold'.messages \in {fold.messages, <<>>}
    BY <1>20 DEF EndFlush, receivers, store, TypeOK, Turns, Folds, Idle, NoFold, Batch
  <2>2. Pending' = Pending /\ Rows' = Rows
    BY <2>1 DEF Pending, Rows
  <2> QED BY <2>1, <2>2, EmptyFacts DEF Removed
<1>21. CASE Interrupt
  <2>1. /\ UNCHANGED <<queue, taken>> /\ turn'.messages \in {turn.messages, <<>>}
        /\ fold'.messages \in {fold.messages, <<>>}
    BY <1>21 DEF Interrupt, receivers, store, TypeOK, Turns, Folds, Idle, NoFold, Batch
  <2>2. Pending' = Pending /\ Rows' = Rows
    BY <2>1 DEF Pending, Rows
  <2> QED BY <2>1, <2>2, EmptyFacts DEF Removed
<1>22. CASE Crash
  <2>1. /\ UNCHANGED <<queue, taken>> /\ turn'.messages \in {turn.messages, <<>>}
        /\ fold'.messages \in {fold.messages, <<>>}
    BY <1>22 DEF Crash, receivers, store, TypeOK, Turns, Folds, Idle, NoFold, Batch
  <2>2. Pending' = Pending /\ Rows' = Rows
    BY <2>1 DEF Pending, Rows
  <2> QED BY <2>1, <2>2, EmptyFacts DEF Removed
<1> QED
  BY <1>1, <1>2, <1>3, <1>4, <1>5, <1>6, <1>7, <1>8, <1>9, <1>10, <1>11,
     <1>12, <1>13, <1>14, <1>15, <1>16, <1>17, <1>18, <1>19, <1>20, <1>21, <1>22
  DEF Next, Produce, Consume, Poll, Hook

\* Every step keeps Exact.
LEMMA ExactStep ==
  ASSUME Repairable, TypeOK, Phases, Distinct, Owned, Settled, Removed, Exact, [Next]_vars
  PROVE  Exact'
<1>1. CASE UNCHANGED vars
  BY <1>1 DEF vars, store, producer, receivers, Exact, Pending, OfTypes
<1>2. ASSUME NEW m \in Messages, Send(m) PROVE Exact'
  <2>1. queue' = queue /\ op' = op
    BY <1>2 DEF Send, receivers, store
  <2> QED BY <2>1 DEF Exact, Pending, OfTypes
<1>3. ASSUME NEW m \in Messages, Store(m) PROVE Exact'
  BY <1>3, ExactInsert DEF Store, receivers
<1>4. ASSUME NEW m \in Messages, StoreFails(m) PROVE Exact'
  <2>1. queue' = queue /\ op' = op
    BY <1>4 DEF StoreFails, receivers, store
  <2> QED BY <2>1 DEF Exact, Pending, OfTypes
<1>5. ASSUME NEW m \in Messages, Deliver(m) PROVE Exact'
  BY <1>5, ExactInsert DEF Deliver, receivers
<1>6. CASE Reap
  <2>1. queue' = queue /\ op' = op
    BY <1>6 DEF Reap, receivers, store
  <2> QED BY <2>1 DEF Exact, Pending, OfTypes
<1>7. CASE SaveWork
  <2>1. queue' = queue
    BY <1>7 DEF SaveWork, store
  <2>2. CASE op.count = 0
    BY <1>7, <2>2 DEF SaveWork, Hand, Exact, NoOp
  <2>3. CASE op.count # 0
    <3>1. op.stage = "save" /\ op'.by = op.by /\ op'.messages = op.messages
      /\ op'.count = op.count
      BY <1>7, <2>3 DEF SaveWork, TypeOK, Ops
    <3> QED BY <2>1, <3>1 DEF Exact, Pending, OfTypes
  <2> QED BY <2>2, <2>3
<1>8. CASE TakeRows
  <2>1. op' = NoOp
    BY <1>8 DEF TakeRows, Hand
  <2> QED BY <2>1 DEF Exact, NoOp
<1>9. CASE StartTurn
  <2>1. queue' = queue /\ op' = op
    BY <1>9 DEF StartTurn, receivers, store
  <2> QED BY <2>1 DEF Exact, Pending, OfTypes
<1>10. CASE ConsumeBatch
  <2>1. queue' = queue
    BY <1>10 DEF ConsumeBatch, store
  <2>2. CASE Reservable("turn") = <<>>
    BY <1>10, <2>1, <2>2 DEF ConsumeBatch, Exact, Pending, OfTypes
  <2>3. CASE Reservable("turn") # <<>>
    <3>1. Reserve("turn", Reservable("turn"))
      BY <1>10, <2>3 DEF ConsumeBatch
    <3>2. claimed = {}
      BY <1>10 DEF ConsumeBatch, Owned
    <3>3. seen \intersect Pending = {}
      BY DEF Settled, AckedIsGone
    <3>4. Fits \/ Untorn
      BY <1>10 DEF ConsumeBatch, Phases, NoOp, Repairable
    <3>5. Pending \intersect (claimed \union seen) = {}
      BY <3>2, <3>3
    <3>6. PICK k \in Nat : Pending \intersect ToSet(Reservable("turn"))
                              = ToSet(FirstOf(k, Only(queue, OfTypes("turn"))))
      BY <3>4, <3>5, ReservedRows
    <3> QED BY <2>1, <3>1, <3>6, ExactReserve
  <2> QED BY <2>2, <2>3
<1>11. CASE Dispatch
  <2>1. queue' = queue /\ op' = op
    BY <1>11 DEF Dispatch, receivers, store
  <2> QED BY <2>1 DEF Exact, Pending, OfTypes
<1>12. CASE Finish
  <2>1. queue' = queue /\ op' = op
    BY <1>12 DEF Finish, receivers, store
  <2> QED BY <2>1 DEF Exact, Pending, OfTypes
<1>13. CASE AckTurn
  <2>1. queue' = queue /\ op' = op
    BY <1>13 DEF AckTurn, receivers, store
  <2> QED BY <2>1 DEF Exact, Pending, OfTypes
<1>14. CASE EndBatch
  <2>1. queue' = queue /\ op' = op
    BY <1>14 DEF EndBatch, receivers, store
  <2> QED BY <2>1 DEF Exact, Pending, OfTypes
<1>15. CASE EndDispatch
  <2>1. queue' = queue /\ op' = op
    BY <1>15 DEF EndDispatch, receivers, store
  <2> QED BY <2>1 DEF Exact, Pending, OfTypes
<1>16. CASE Flush
  <2>1. queue' = queue
    BY <1>16 DEF Flush, store
  <2>2. CASE Reservable("fold") = <<>>
    BY <1>16, <2>1, <2>2 DEF Flush, Exact, Pending, OfTypes
  <2>3. CASE Reservable("fold") # <<>>
    <3>1. Reserve("fold", Reservable("fold"))
      BY <1>16, <2>3 DEF Flush
    <3>2. claimed \intersect Pending = {}
      <4>1. fold = NoFold /\ op = NoOp
        BY <1>16 DEF Flush
      <4> QED BY <4>1, EmptyFacts DEF Owned, ClaimsAreHeld, Removed, NoFold, NoOp, Batch
    <3>3. seen \intersect Pending = {}
      BY DEF Settled, AckedIsGone
    <3>4. Fits \/ Untorn
      BY <1>16 DEF Flush, NoOp, Repairable
    <3>5. Pending \intersect (claimed \union seen) = {}
      BY <3>2, <3>3
    <3>6. PICK k \in Nat : Pending \intersect ToSet(Reservable("fold"))
                              = ToSet(FirstOf(k, Only(queue, OfTypes("fold"))))
      BY <3>4, <3>5, ReservedRows
    <3> QED BY <2>1, <3>1, <3>6, ExactReserve
  <2> QED BY <2>2, <2>3
<1>17. CASE Iterate
  <2>1. queue' = queue /\ op' = op
    BY <1>17 DEF Iterate, receivers, store
  <2> QED BY <2>1 DEF Exact, Pending, OfTypes
<1>18. CASE AppendToHistory
  <2>1. queue' = queue /\ op' = op
    BY <1>18 DEF AppendToHistory, receivers, store
  <2> QED BY <2>1 DEF Exact, Pending, OfTypes
<1>19. CASE AckFold
  <2>1. queue' = queue /\ op' = op
    BY <1>19 DEF AckFold, receivers, store
  <2> QED BY <2>1 DEF Exact, Pending, OfTypes
<1>20. CASE EndFlush
  <2>1. queue' = queue /\ op' = op
    BY <1>20 DEF EndFlush, receivers, store
  <2> QED BY <2>1 DEF Exact, Pending, OfTypes
<1>21. CASE Interrupt
  <2>1. op' = NoOp
    BY <1>21 DEF Interrupt, Hand
  <2> QED BY <2>1 DEF Exact, NoOp
<1>22. CASE Crash
  <2>1. op' = NoOp
    BY <1>22 DEF Crash, Hand
  <2> QED BY <2>1 DEF Exact, NoOp
<1> QED
  BY <1>1, <1>2, <1>3, <1>4, <1>5, <1>6, <1>7, <1>8, <1>9, <1>10, <1>11,
     <1>12, <1>13, <1>14, <1>15, <1>16, <1>17, <1>18, <1>19, <1>20, <1>21, <1>22
  DEF Next, Produce, Consume, Poll, Hook

-----------------------------------------------------------------------------
(* Losses *)

\* A message that is accepted is in the queue.
LEMMA InsertLost ==
  ASSUME TypeOK, NothingLost, NEW m \in Messages, Insert(m), UNCHANGED <<work, acked>>
  PROVE  NothingLost'
<1>1. CASE m \in delivered \union Rows
  BY <1>1 DEF Insert, NothingLost, store, Pending, Work
<1>2. CASE m \notin delivered \union Rows
  <2>1. Pending' = Pending \union {m} /\ Work' = Work
    BY <1>2, InsertedRow DEF Work
  <2>2. accepts' = [accepts EXCEPT ![m] = @ + 1] /\ accepts \in [Messages -> Nat]
    BY <1>2 DEF Insert, TypeOK
  <2> QED BY <2>1, <2>2 DEF NothingLost
<1> QED BY <1>1, <1>2

\* Every step keeps NothingLost.
LEMMA NothingLostStep ==
  ASSUME TypeOK, Reserved, Exact, NothingLost, [Next]_vars
  PROVE  NothingLost'
<1>1. CASE UNCHANGED vars
  BY <1>1 DEF vars, store, producer, receivers, NothingLost, Pending, Work
<1>2. ASSUME NEW m \in Messages, Send(m) PROVE NothingLost'
  <2>1. UNCHANGED <<queue, work, accepts, acked>>
    BY <1>2 DEF Send, store, producer
  <2> QED BY <2>1 DEF NothingLost, Pending, Work
<1>3. ASSUME NEW m \in Messages, Store(m) PROVE NothingLost'
  BY <1>3, InsertLost DEF Store
<1>4. ASSUME NEW m \in Messages, StoreFails(m) PROVE NothingLost'
  <2>1. UNCHANGED <<queue, work, accepts, acked>>
    BY <1>4 DEF StoreFails, store, producer
  <2> QED BY <2>1 DEF NothingLost, Pending, Work
<1>5. ASSUME NEW m \in Messages, Deliver(m) PROVE NothingLost'
  BY <1>5, InsertLost DEF Deliver
<1>6. CASE Reap
  <2>1. UNCHANGED <<queue, work, accepts, acked>>
    BY <1>6 DEF Reap, store, producer
  <2> QED BY <2>1 DEF NothingLost, Pending, Work
<1>7. CASE SaveWork
  <2>1. UNCHANGED <<queue, accepts, acked>> /\ Work \subseteq Work'
    BY <1>7, SavedWork DEF SaveWork, store, producer
  <2> QED BY <2>1 DEF NothingLost, Pending
<1>8. CASE TakeRows
  <2>1. UNCHANGED <<work, accepts, acked>> /\ op.stage = "take"
    BY <1>8 DEF TakeRows, producer
  <2>2. Pending \ Pending' \subseteq ToSet(op.messages)
    BY <1>8, <2>1, TakenRows DEF Exact
  <2>3. ToSet(op.messages) \subseteq Work /\ Work' = Work
    BY <2>1 DEF Reserved, Work
  <2> QED BY <2>1, <2>2, <2>3 DEF NothingLost
<1>9. CASE StartTurn
  <2>1. UNCHANGED <<queue, work, accepts, acked>>
    BY <1>9 DEF StartTurn, store, producer
  <2> QED BY <2>1 DEF NothingLost, Pending, Work
<1>10. CASE ConsumeBatch
  <2>1. UNCHANGED <<queue, work, accepts, acked>>
    BY <1>10 DEF ConsumeBatch, store, producer
  <2> QED BY <2>1 DEF NothingLost, Pending, Work
<1>11. CASE Dispatch
  <2>1. UNCHANGED <<queue, work, accepts, acked>>
    BY <1>11 DEF Dispatch, store, producer
  <2> QED BY <2>1 DEF NothingLost, Pending, Work
<1>12. CASE Finish
  <2>1. UNCHANGED <<queue, work, accepts, acked>>
    BY <1>12 DEF Finish, store, producer
  <2> QED BY <2>1 DEF NothingLost, Pending, Work
<1>13. CASE AckTurn
  <2>1. Acknowledge(Now(turn)) /\ UNCHANGED <<queue, accepts>>
    BY <1>13 DEF AckTurn, store, producer
  <2>2. Work \union acked \subseteq Work' \union acked'
    <3>1. CASE Now(turn) \in Work
      BY <2>1, <3>1, Acknowledged
    <3>2. CASE Now(turn) \notin Work
      BY <2>1, <3>2 DEF Acknowledge, Work
    <3> QED BY <3>1, <3>2
  <2> QED BY <2>1, <2>2 DEF NothingLost, Pending
<1>14. CASE EndBatch
  <2>1. UNCHANGED <<queue, work, accepts, acked>>
    BY <1>14 DEF EndBatch, store, producer
  <2> QED BY <2>1 DEF NothingLost, Pending, Work
<1>15. CASE EndDispatch
  <2>1. UNCHANGED <<queue, work, accepts, acked>>
    BY <1>15 DEF EndDispatch, store, producer
  <2> QED BY <2>1 DEF NothingLost, Pending, Work
<1>16. CASE Flush
  <2>1. UNCHANGED <<queue, work, accepts, acked>>
    BY <1>16 DEF Flush, store, producer
  <2> QED BY <2>1 DEF NothingLost, Pending, Work
<1>17. CASE Iterate
  <2>1. UNCHANGED <<queue, work, accepts, acked>>
    BY <1>17 DEF Iterate, store, producer
  <2> QED BY <2>1 DEF NothingLost, Pending, Work
<1>18. CASE AppendToHistory
  <2>1. UNCHANGED <<queue, work, accepts, acked>>
    BY <1>18 DEF AppendToHistory, store, producer
  <2> QED BY <2>1 DEF NothingLost, Pending, Work
<1>19. CASE AckFold
  <2>1. Acknowledge(Now(fold)) /\ UNCHANGED <<queue, accepts>>
    BY <1>19 DEF AckFold, store, producer
  <2>2. Work \union acked \subseteq Work' \union acked'
    <3>1. CASE Now(fold) \in Work
      BY <2>1, <3>1, Acknowledged
    <3>2. CASE Now(fold) \notin Work
      BY <2>1, <3>2 DEF Acknowledge, Work
    <3> QED BY <3>1, <3>2
  <2> QED BY <2>1, <2>2 DEF NothingLost, Pending
<1>20. CASE EndFlush
  <2>1. UNCHANGED <<queue, work, accepts, acked>>
    BY <1>20 DEF EndFlush, store, producer
  <2> QED BY <2>1 DEF NothingLost, Pending, Work
<1>21. CASE Interrupt
  <2>1. UNCHANGED <<queue, work, accepts, acked>>
    BY <1>21 DEF Interrupt, store, producer
  <2> QED BY <2>1 DEF NothingLost, Pending, Work
<1>22. CASE Crash
  <2>1. UNCHANGED <<queue, work, accepts, acked>>
    BY <1>22 DEF Crash, store, producer
  <2> QED BY <2>1 DEF NothingLost, Pending, Work
<1> QED
  BY <1>1, <1>2, <1>3, <1>4, <1>5, <1>6, <1>7, <1>8, <1>9, <1>10, <1>11,
     <1>12, <1>13, <1>14, <1>15, <1>16, <1>17, <1>18, <1>19, <1>20, <1>21, <1>22
  DEF Next, Produce, Consume, Poll, Hook

-----------------------------------------------------------------------------
(* The theorems *)

\* It holds at the start,
LEMMA InitDrained == ASSUME Init PROVE Drained
<1>1. turn.messages = <<>> /\ fold.messages = <<>> /\ op = NoOp /\ op.messages = <<>>
  BY DEF Init, Idle, NoFold, NoOp, Batch
<1>2. Pending = {} /\ Work = {} /\ acked = {} /\ claimed = {} /\ seen = {}
  BY EmptyFacts DEF Init, Pending, Work
<1>3. Owned
  BY <1>2 DEF Owned, ClaimsAreHeld
<1>4. Settled
  BY <1>1, <1>2, EmptyFacts DEF Settled, AckedIsGone
<1>5. Removed
  BY <1>1, EmptyFacts DEF Removed
<1>6. Exact
  BY <1>1 DEF Exact, NoOp
<1>7. NothingLost
  BY DEF Init, NothingLost
<1> QED BY <1>3, <1>4, <1>5, <1>6, <1>7 DEF Drained

\* every step keeps it while the condition holds,
LEMMA DrainedStep == ASSUME Repairable, Safe, Drained, [Next]_vars PROVE Drained'
  BY OwnedStep, SettledStep, RemovedStep, ExactStep, NothingLostStep DEF Safe, Drained

\* and so it holds always.
LEMMA DrainedInvariant == Spec /\ []Repairable => []Drained
<1>1. Init => Drained
  BY InitDrained
<1>2. Safe /\ Drained /\ Repairable /\ [Next]_vars => Drained'
  BY DrainedStep
<1> QED BY <1>1, <1>2, Invariant, PTL DEF Spec

\* While every consume that begins can reserve all that is outstanding, or finds
\* no row that has a receipt already, an accepted message is in the queue or among
\* the receipts of the session until it is acknowledged, whatever fails between
\* two steps of send, consume, dispatch and acknowledge.
THEOREM NoMessageIsLost == Spec /\ []Repairable => []NothingLost
<1>1. Drained => NothingLost
  BY DEF Drained
<1> QED BY <1>1, DrainedInvariant, PTL

\* Under the same condition acknowledge leaves a message neither in the queue nor
\* among the receipts: nobody consumes it again.
THEOREM AcknowledgedIsDone == Spec /\ []Repairable => []AckedIsGone
<1>1. Drained => AckedIsGone
  BY DEF Drained, Settled
<1> QED BY <1>1, DrainedInvariant, PTL

\* The consumer's claims are those of a batch that is there: release gives up all
\* the others, and after a cancellation every message can be consumed again.
THEOREM NoStrayClaim == Spec => []ClaimsAreHeld
<1>1. Init => Owned
  BY EmptyFacts DEF Init, Owned, ClaimsAreHeld
<1>2. Safe /\ Owned /\ [Next]_vars => Owned'
  BY OwnedStep DEF Safe
<1>3. Owned => ClaimsAreHeld
  BY DEF Owned
<1> QED BY <1>1, <1>2, <1>3, Invariant, PTL DEF Spec

-----------------------------------------------------------------------------
(* The inbox keeps the promise of MessageLife *)

\* A row is one of an accepted message.
Stored == \A m \in Rows : accepts[m] > 0

\* The transaction of receive and deliver stores what it accepts.
LEMMA InsertStored ==
  ASSUME TypeOK, Stored, NEW m \in Messages, Insert(m) PROVE Stored'
<1>1. CASE m \in delivered \union Rows
  BY <1>1 DEF Insert, Stored, store, Rows, Pending
<1>2. CASE m \notin delivered \union Rows
  <2>1. Rows' = Rows \union {m} /\ Rows \subseteq Messages
    <3>1. Rows' = Rows \union {m}
      BY <1>2, InsertedRow DEF Rows
    <3>2. Rows \subseteq Messages
      BY DEF Rows, Pending, ToSet, TypeOK
    <3> QED BY <3>1, <3>2
  <2>2. accepts' = [accepts EXCEPT ![m] = @ + 1] /\ accepts \in [Messages -> Nat]
    BY <1>2 DEF Insert, TypeOK
  <2>3. \A n \in Messages : accepts'[n] >= accepts[n] /\ accepts'[m] > 0
    BY <2>2
  <2> QED BY <2>1, <2>2, <2>3 DEF Stored
<1> QED BY <1>1, <1>2

\* Every step keeps Stored.
LEMMA StoredStep == ASSUME TypeOK, Stored, [Next]_vars PROVE Stored'
<1>1. CASE UNCHANGED vars
  BY <1>1 DEF vars, store, producer, Stored, Rows, Pending
<1>2. ASSUME NEW m \in Messages, Send(m) PROVE Stored'
  BY <1>2 DEF Send, store, Stored, Rows, Pending
<1>3. ASSUME NEW m \in Messages, Store(m) PROVE Stored'
  BY <1>3, InsertStored DEF Store
<1>4. ASSUME NEW m \in Messages, StoreFails(m) PROVE Stored'
  BY <1>4 DEF StoreFails, store, Stored, Rows, Pending
<1>5. ASSUME NEW m \in Messages, Deliver(m) PROVE Stored'
  BY <1>5, InsertStored DEF Deliver
<1>6. CASE Reap
  BY <1>6 DEF Reap, producer, Stored, Rows, Pending
<1>7. CASE SaveWork
  BY <1>7 DEF SaveWork, store, producer, Stored, Rows, Pending
<1>8. CASE TakeRows
  <2>1. Rows' = Rows
    BY <1>8, TakenRows DEF Rows
  <2> QED BY <1>8, <2>1 DEF TakeRows, producer, Stored
<1>9. CASE StartTurn
  BY <1>9 DEF StartTurn, store, producer, Stored, Rows, Pending
<1>10. CASE ConsumeBatch
  BY <1>10 DEF ConsumeBatch, store, producer, Stored, Rows, Pending
<1>11. CASE Dispatch
  BY <1>11 DEF Dispatch, store, producer, Stored, Rows, Pending
<1>12. CASE Finish
  BY <1>12 DEF Finish, store, producer, Stored, Rows, Pending
<1>13. CASE AckTurn
  BY <1>13 DEF AckTurn, store, producer, Stored, Rows, Pending
<1>14. CASE EndBatch
  BY <1>14 DEF EndBatch, store, producer, Stored, Rows, Pending
<1>15. CASE EndDispatch
  BY <1>15 DEF EndDispatch, store, producer, Stored, Rows, Pending
<1>16. CASE Flush
  BY <1>16 DEF Flush, store, producer, Stored, Rows, Pending
<1>17. CASE Iterate
  BY <1>17 DEF Iterate, store, producer, Stored, Rows, Pending
<1>18. CASE AppendToHistory
  BY <1>18 DEF AppendToHistory, store, producer, Stored, Rows, Pending
<1>19. CASE AckFold
  BY <1>19 DEF AckFold, store, producer, Stored, Rows, Pending
<1>20. CASE EndFlush
  BY <1>20 DEF EndFlush, store, producer, Stored, Rows, Pending
<1>21. CASE Interrupt
  BY <1>21 DEF Interrupt, store, producer, Stored, Rows, Pending
<1>22. CASE Crash
  BY <1>22 DEF Crash, store, producer, Stored, Rows, Pending
<1> QED
  BY <1>1, <1>2, <1>3, <1>4, <1>5, <1>6, <1>7, <1>8, <1>9, <1>10, <1>11,
     <1>12, <1>13, <1>14, <1>15, <1>16, <1>17, <1>18, <1>19, <1>20, <1>21, <1>22
  DEF Next, Produce, Consume, Poll, Hook

\* What the refinement is read from: where a message is, and what was counted.
LifeKept == UNCHANGED <<queue, work, acked, accepts>>

\* Nothing that is accepted is lost, so that a message is in one of the four places,
LEMMA LifeStages ==
  ASSUME TypeOK, Drained
  PROVE  Life = [m \in Messages |-> IF m \in Work THEN "reserved"
                                   ELSE IF m \in Pending THEN "queued"
                                   ELSE IF m \in acked THEN "done" ELSE "unknown"]
  BY DEF Life, Drained, Settled, AckedIsGone, NothingLost, TypeOK

\* before a step and after it.
LEMMA NextStages ==
  ASSUME TypeOK', Drained'
  PROVE  Life' = [m \in Messages |-> IF m \in Work' THEN "reserved"
                                    ELSE IF m \in Pending' THEN "queued"
                                    ELSE IF m \in acked' THEN "done" ELSE "unknown"]
  BY DEF Life, Drained, Settled, AckedIsGone, NothingLost, TypeOK

\* A step that moves no message is a stutter of MessageLife.
LEMMA LifeStutter == ASSUME LifeKept PROVE [Lives!Next]_Life
<1>1. Pending' = Pending /\ Work' = Work /\ acked' = acked /\ accepts' = accepts
  BY DEF LifeKept, Pending, Work
<1>2. Life' = Life
  BY <1>1 DEF Life
<1> QED BY <1>2

\* receive and deliver accept a message that was never seen.
LEMMA InsertLife ==
  ASSUME TypeOK, Drained, TypeOK', Drained', NEW m \in Messages, Insert(m),
         UNCHANGED <<work, acked>>
  PROVE  [Lives!Next]_Life
<1>1. CASE m \in delivered \union Rows
  <2>1. LifeKept
    BY <1>1 DEF Insert, store, LifeKept
  <2> QED BY <2>1, LifeStutter
<1>2. CASE m \notin delivered \union Rows
  <2>1. /\ m \notin Rows /\ Pending' = Pending \union {m}
        /\ Work' = Work /\ acked' = acked
    BY <1>2, InsertedRow DEF Work
  <2>2. m \notin Pending \union Work \union acked
    BY <2>1 DEF Drained, Settled, Rows
  <2>3. Life[m] = "unknown"
    BY <2>2, LifeStages
  <2>4. Life' = [Life EXCEPT ![m] = "queued"]
    BY <2>1, <2>2, LifeStages, NextStages
  <2>5. Lives!Accept(m)
    BY <2>3, <2>4 DEF Lives!Accept
  <2> QED BY <2>5 DEF Lives!Next
<1> QED BY <1>1, <1>2

\* _save_work reserves the messages that had no receipt.
LEMMA SaveLife ==
  ASSUME TypeOK, Drained, Stored, TypeOK', Drained', SaveWork
  PROVE  [Lives!Next]_Life
<1> DEFINE new == ToSet(op.messages) \ Work
<1>1. /\ Work' = Work \union new /\ Pending' = Pending /\ acked' = acked
      /\ new \subseteq Messages
  <2>1. Work' = Work \union ToSet(op.messages)
    BY SavedWork
  <2>2. Pending' = Pending /\ acked' = acked
    BY DEF SaveWork, store, Pending
  <2>3. ToSet(op.messages) \subseteq Messages
    BY DEF TypeOK, Ops, ToSet
  <2> QED BY <2>1, <2>2, <2>3
<1>2. \A m \in new : m \in Pending /\ m \notin Work
  <2>1. \A m \in new : m \in Messages /\ m \in Rows /\ m \notin acked /\ m \notin Work
    BY <1>1 DEF Drained, Settled
  <2> QED BY <2>1 DEF Stored, Drained, NothingLost
<1> HIDE DEF new
<1>3. \A m \in new : Life[m] = "queued"
  BY <1>1, <1>2, LifeStages
<1>4. Life' = [m \in Messages |-> IF m \in new THEN "reserved" ELSE Life[m]]
  <2>1. \A m \in Messages : Life'[m] = IF m \in new THEN "reserved" ELSE Life[m]
    BY <1>1, <1>2, LifeStages, NextStages
  <2>2. Life' = [m \in Messages |-> Life'[m]]
    BY NextStages
  <2> QED BY <2>1, <2>2
<1>5. Lives!Reserve(new)
  BY <1>3, <1>4 DEF Lives!Reserve
<1> QED BY <1>1, <1>5 DEF Lives!Next

\* The rows that a consume takes have their receipts.
LEMMA TakeLife ==
  ASSUME TypeOK, Reserved, Drained, TypeOK', Drained', TakeRows
  PROVE  [Lives!Next]_Life
<1>1. op.stage = "take" /\ Work' = Work /\ acked' = acked
  BY DEF TakeRows, Work
<1>2. Pending' = Pending \ ToSet(op.messages)
  BY <1>1, TakenRows DEF Drained, Exact
<1>3. ToSet(op.messages) \subseteq Work
  BY <1>1 DEF Reserved
<1>4. Life' = Life
  BY <1>1, <1>2, <1>3, LifeStages, NextStages
<1> QED BY <1>4

\* acknowledge ends the life of a message that has a receipt.
LEMMA AcknowledgeLife ==
  ASSUME TypeOK, Drained, TypeOK', Drained', NEW m, Acknowledge(m), UNCHANGED <<queue, accepts>>
  PROVE  [Lives!Next]_Life
<1>1. CASE m \in Work
  <2>1. Work' = Work \ {m} /\ acked' = acked \union {m} /\ Pending' = Pending
    BY <1>1, Acknowledged DEF Pending
  <2>2. m \in Messages
    BY <1>1 DEF Work, ToSet, TypeOK
  <2>3. m \notin Pending'
    BY <2>1 DEF Drained, Settled, AckedIsGone
  <2>4. Life[m] = "reserved"
    BY <1>1, <2>2, LifeStages
  <2>5. Life' = [Life EXCEPT ![m] = "done"]
    BY <2>1, <2>2, <2>3, LifeStages, NextStages
  <2>6. Lives!Acknowledge(m)
    BY <2>4, <2>5 DEF Lives!Acknowledge
  <2> QED BY <2>2, <2>6 DEF Lives!Next
<1>2. CASE m \notin Work
  <2>1. LifeKept
    BY <1>2 DEF Acknowledge, LifeKept
  <2> QED BY <2>1, LifeStutter
<1> QED BY <1>1, <1>2

\* Every step of the inbox is one of MessageLife, or moves no message.
LEMMA LifeStep ==
  ASSUME Safe, Drained, Stored, Safe', Drained', [Next]_vars
  PROVE  [Lives!Next]_Life
<1>a. TypeOK /\ TypeOK' /\ Reserved
  BY DEF Safe
<1>1. CASE UNCHANGED vars
  <2>1. LifeKept
    BY <1>1 DEF vars, store, producer, LifeKept
  <2> QED BY <2>1, LifeStutter
<1>2. ASSUME NEW m \in Messages, Send(m) PROVE [Lives!Next]_Life
  <2>1. LifeKept
    BY <1>2 DEF Send, store, LifeKept
  <2> QED BY <2>1, LifeStutter
<1>3. ASSUME NEW m \in Messages, Store(m) PROVE [Lives!Next]_Life
  BY <1>3, <1>a, InsertLife DEF Store
<1>4. ASSUME NEW m \in Messages, StoreFails(m) PROVE [Lives!Next]_Life
  <2>1. LifeKept
    BY <1>4 DEF StoreFails, store, LifeKept
  <2> QED BY <2>1, LifeStutter
<1>5. ASSUME NEW m \in Messages, Deliver(m) PROVE [Lives!Next]_Life
  BY <1>5, <1>a, InsertLife DEF Deliver
<1>6. CASE Reap
  <2>1. LifeKept
    BY <1>6 DEF Reap, producer, LifeKept
  <2> QED BY <2>1, LifeStutter
<1>7. CASE SaveWork
  BY <1>7, <1>a, SaveLife
<1>8. CASE TakeRows
  BY <1>8, <1>a, TakeLife
<1>9. CASE StartTurn
  <2>1. LifeKept
    BY <1>9 DEF StartTurn, store, producer, LifeKept
  <2> QED BY <2>1, LifeStutter
<1>10. CASE ConsumeBatch
  <2>1. LifeKept
    BY <1>10 DEF ConsumeBatch, store, producer, LifeKept
  <2> QED BY <2>1, LifeStutter
<1>11. CASE Dispatch
  <2>1. LifeKept
    BY <1>11 DEF Dispatch, store, producer, LifeKept
  <2> QED BY <2>1, LifeStutter
<1>12. CASE Finish
  <2>1. LifeKept
    BY <1>12 DEF Finish, store, producer, LifeKept
  <2> QED BY <2>1, LifeStutter
<1>13. CASE AckTurn
  BY <1>13, <1>a, AcknowledgeLife DEF AckTurn, store, producer
<1>14. CASE EndBatch
  <2>1. LifeKept
    BY <1>14 DEF EndBatch, store, producer, LifeKept
  <2> QED BY <2>1, LifeStutter
<1>15. CASE EndDispatch
  <2>1. LifeKept
    BY <1>15 DEF EndDispatch, store, producer, LifeKept
  <2> QED BY <2>1, LifeStutter
<1>16. CASE Flush
  <2>1. LifeKept
    BY <1>16 DEF Flush, store, producer, LifeKept
  <2> QED BY <2>1, LifeStutter
<1>17. CASE Iterate
  <2>1. LifeKept
    BY <1>17 DEF Iterate, store, producer, LifeKept
  <2> QED BY <2>1, LifeStutter
<1>18. CASE AppendToHistory
  <2>1. LifeKept
    BY <1>18 DEF AppendToHistory, store, producer, LifeKept
  <2> QED BY <2>1, LifeStutter
<1>19. CASE AckFold
  BY <1>19, <1>a, AcknowledgeLife DEF AckFold, store, producer
<1>20. CASE EndFlush
  <2>1. LifeKept
    BY <1>20 DEF EndFlush, store, producer, LifeKept
  <2> QED BY <2>1, LifeStutter
<1>21. CASE Interrupt
  <2>1. LifeKept
    BY <1>21 DEF Interrupt, store, producer, LifeKept
  <2> QED BY <2>1, LifeStutter
<1>22. CASE Crash
  <2>1. LifeKept
    BY <1>22 DEF Crash, store, producer, LifeKept
  <2> QED BY <2>1, LifeStutter
<1> QED
  BY <1>1, <1>2, <1>3, <1>4, <1>5, <1>6, <1>7, <1>8, <1>9, <1>10, <1>11,
     <1>12, <1>13, <1>14, <1>15, <1>16, <1>17, <1>18, <1>19, <1>20, <1>21, <1>22
  DEF Next, Produce, Consume, Poll, Hook

\* At the start no message is known.
LEMMA InitLife == ASSUME Init PROVE Stored /\ Lives!Init
<1>1. Pending = {} /\ Work = {} /\ Rows = {} /\ acked = {}
  BY EmptyFacts DEF Init, Pending, Work, Rows
<1>2. Life = [m \in Messages |-> "unknown"]
  BY <1>1 DEF Life, Init
<1> QED BY <1>1, <1>2 DEF Stored, Lives!Init

\* Under the same condition the inbox implements MessageLife: whatever a send, a
\* consume, a flush inside a turn, a reaper, a cancellation and a crash do between
\* one another, a message is accepted once, is reserved once, from the queue, and
\* keeps its receipt until it is acknowledged, once, and is never seen again.
THEOREM InboxKeepsMessages == Spec /\ []Repairable => ImplementsMessageLife
<1>1. Init => Stored /\ Lives!Init
  BY InitLife
<1>2. Safe /\ Stored /\ [Next]_vars => Stored'
  BY StoredStep DEF Safe
<1>3. Safe /\ Drained /\ Stored /\ Safe' /\ Drained' /\ [Next]_vars => [Lives!Next]_Life
  BY LifeStep
<1> QED
  BY <1>1, <1>2, <1>3, Invariant, DrainedInvariant, PTL
  DEF Spec, ImplementsMessageLife, Lives!Spec

-----------------------------------------------------------------------------
(* When nothing can be lost *)

\* No task is cut between the two writes of a consume.
WholeConsume == Interrupt \/ Crash => op.stage # "take"

\* A row has a receipt only between the two writes of the consume that made it.
TornByTake ==
    Work \intersect Pending \subseteq (IF op.stage = "take" THEN ToSet(op.messages) ELSE {})

\* A message that is inserted has no receipt.
LEMMA InsertTorn ==
  ASSUME TypeOK, Settled, TornByTake, NEW m \in Messages, Insert(m), UNCHANGED <<work, op>>
  PROVE  TornByTake'
<1>1. CASE m \in delivered \union Rows
  BY <1>1 DEF Insert, TornByTake, store, Pending, Work
<1>2. CASE m \notin delivered \union Rows
  <2>1. Pending' = Pending \union {m} /\ Work' = Work /\ m \notin Rows
    BY <1>2, InsertedRow DEF Work
  <2>2. m \notin Work
    BY <2>1 DEF Settled
  <2> QED BY <2>1, <2>2 DEF TornByTake
<1> QED BY <1>1, <1>2

\* While no consume is cut, every step keeps this.
LEMMA TornStep ==
  ASSUME TypeOK, Phases, Distinct, Settled, Exact, TornByTake, [Next]_vars, [WholeConsume]_vars
  PROVE  TornByTake'
<1>1. CASE UNCHANGED vars
  <2>1. UNCHANGED <<queue, work, op>>
    BY <1>1 DEF vars, store, producer, receivers
  <2> QED BY <2>1 DEF TornByTake, Pending, Work
<1>2. ASSUME NEW m \in Messages, Send(m) PROVE TornByTake'
  <2>1. UNCHANGED <<queue, work, op>>
    BY <1>2 DEF Send, store, producer, receivers
  <2> QED BY <2>1 DEF TornByTake, Pending, Work
<1>3. ASSUME NEW m \in Messages, Store(m) PROVE TornByTake'
  BY <1>3, InsertTorn DEF Store, producer, receivers
<1>4. ASSUME NEW m \in Messages, StoreFails(m) PROVE TornByTake'
  <2>1. UNCHANGED <<queue, work, op>>
    BY <1>4 DEF StoreFails, store, producer, receivers
  <2> QED BY <2>1 DEF TornByTake, Pending, Work
<1>5. ASSUME NEW m \in Messages, Deliver(m) PROVE TornByTake'
  BY <1>5, InsertTorn DEF Deliver, producer, receivers
<1>6. CASE Reap
  <2>1. UNCHANGED <<queue, work, op>>
    BY <1>6 DEF Reap, store, producer, receivers
  <2> QED BY <2>1 DEF TornByTake, Pending, Work
<1>7. CASE SaveWork
  <2>1. queue' = queue /\ op.stage = "save" /\ Work' = Work \union ToSet(op.messages)
    BY <1>7, SavedWork DEF SaveWork, store
  <2>2. Work \intersect Pending = {}
    BY <2>1 DEF TornByTake
  <2>3. CASE op.count = 0
    <3>1. Pending \intersect ToSet(op.messages) = {}
      BY <2>1, <2>3, RowsFacts, FirstOfNone DEF Exact
    <3> QED BY <2>1, <2>2, <3>1 DEF TornByTake, Pending
  <2>4. CASE op.count # 0
    <3>1. op'.stage = "take" /\ op'.messages = op.messages
      BY <1>7, <2>4 DEF SaveWork, TypeOK, Ops
    <3> QED BY <2>1, <2>2, <3>1 DEF TornByTake, Pending
  <2> QED BY <2>3, <2>4
<1>8. CASE TakeRows
  <2>1. work' = work /\ op.stage = "take" /\ op'.stage # "take"
    BY <1>8 DEF TakeRows, Hand, NoOp
  <2>2. Pending' = Pending \ ToSet(op.messages)
    BY <1>8, <2>1, TakenRows DEF Exact
  <2>3. Work' = Work /\ Work \intersect Pending \subseteq ToSet(op.messages)
    BY <2>1 DEF TornByTake, Work
  <2> QED BY <2>1, <2>2, <2>3 DEF TornByTake
<1>9. CASE StartTurn
  <2>1. UNCHANGED <<queue, work, op>>
    BY <1>9 DEF StartTurn, store, producer, receivers
  <2> QED BY <2>1 DEF TornByTake, Pending, Work
<1>10. CASE ConsumeBatch
  <2>1. UNCHANGED <<queue, work>> /\ op.stage # "take" /\ op'.stage # "take"
    BY <1>10 DEF ConsumeBatch, store, Phases, NoOp, Batch, Reserve
  <2> QED BY <2>1 DEF TornByTake, Pending, Work
<1>11. CASE Dispatch
  <2>1. UNCHANGED <<queue, work, op>>
    BY <1>11 DEF Dispatch, store, producer, receivers
  <2> QED BY <2>1 DEF TornByTake, Pending, Work
<1>12. CASE Finish
  <2>1. UNCHANGED <<queue, work, op>>
    BY <1>12 DEF Finish, store, producer, receivers
  <2> QED BY <2>1 DEF TornByTake, Pending, Work
<1>13. CASE AckTurn
  <2>1. Acknowledge(Now(turn)) /\ UNCHANGED <<queue, op>>
    BY <1>13 DEF AckTurn, store, producer
  <2>2. Work' \subseteq Work
    <3>1. CASE Now(turn) \in Work
      BY <2>1, <3>1, Acknowledged
    <3>2. CASE Now(turn) \notin Work
      BY <2>1, <3>2 DEF Acknowledge, Work
    <3> QED BY <3>1, <3>2
  <2> QED BY <2>1, <2>2 DEF TornByTake, Pending
<1>14. CASE EndBatch
  <2>1. UNCHANGED <<queue, work, op>>
    BY <1>14 DEF EndBatch, store, producer, receivers
  <2> QED BY <2>1 DEF TornByTake, Pending, Work
<1>15. CASE EndDispatch
  <2>1. UNCHANGED <<queue, work, op>>
    BY <1>15 DEF EndDispatch, store, producer, receivers
  <2> QED BY <2>1 DEF TornByTake, Pending, Work
<1>16. CASE Flush
  <2>1. UNCHANGED <<queue, work>> /\ op.stage # "take" /\ op'.stage # "take"
    BY <1>16 DEF Flush, store, Phases, NoOp, Batch, Reserve
  <2> QED BY <2>1 DEF TornByTake, Pending, Work
<1>17. CASE Iterate
  <2>1. UNCHANGED <<queue, work, op>>
    BY <1>17 DEF Iterate, store, producer, receivers
  <2> QED BY <2>1 DEF TornByTake, Pending, Work
<1>18. CASE AppendToHistory
  <2>1. UNCHANGED <<queue, work, op>>
    BY <1>18 DEF AppendToHistory, store, producer, receivers
  <2> QED BY <2>1 DEF TornByTake, Pending, Work
<1>19. CASE AckFold
  <2>1. Acknowledge(Now(fold)) /\ UNCHANGED <<queue, op>>
    BY <1>19 DEF AckFold, store, producer
  <2>2. Work' \subseteq Work
    <3>1. CASE Now(fold) \in Work
      BY <2>1, <3>1, Acknowledged
    <3>2. CASE Now(fold) \notin Work
      BY <2>1, <3>2 DEF Acknowledge, Work
    <3> QED BY <3>1, <3>2
  <2> QED BY <2>1, <2>2 DEF TornByTake, Pending
<1>20. CASE EndFlush
  <2>1. UNCHANGED <<queue, work, op>>
    BY <1>20 DEF EndFlush, store, producer, receivers
  <2> QED BY <2>1 DEF TornByTake, Pending, Work
<1>21. CASE Interrupt
  <2>1. UNCHANGED <<queue, work>> /\ op' = NoOp
    BY <1>21 DEF Interrupt, store, producer
  <2>2. CASE WholeConsume
    <3>1. op.stage # "take" /\ op'.stage # "take"
      BY <1>21, <2>1, <2>2 DEF WholeConsume, NoOp
    <3> QED BY <2>1, <3>1 DEF TornByTake, Pending, Work
  <2>3. CASE UNCHANGED vars
    BY <1>1, <2>3
  <2> QED BY <2>2, <2>3
<1>22. CASE Crash
  <2>1. UNCHANGED <<queue, work>> /\ op' = NoOp
    BY <1>22 DEF Crash, store, producer
  <2>2. CASE WholeConsume
    <3>1. op.stage # "take" /\ op'.stage # "take"
      BY <1>22, <2>1, <2>2 DEF WholeConsume, NoOp
    <3> QED BY <2>1, <3>1 DEF TornByTake, Pending, Work
  <2>3. CASE UNCHANGED vars
    BY <1>1, <2>3
  <2> QED BY <2>2, <2>3
<1> QED
  BY <1>1, <1>2, <1>3, <1>4, <1>5, <1>6, <1>7, <1>8, <1>9, <1>10, <1>11,
     <1>12, <1>13, <1>14, <1>15, <1>16, <1>17, <1>18, <1>19, <1>20, <1>21, <1>22
  DEF Next, Produce, Consume, Poll, Hook

\* Whatever the limit and however many messages are outstanding: as long as no
\* cancellation and no crash falls between the two writes of a consume, no accepted
\* message is lost, no acknowledged one comes back, and MessageLife is implemented.
THEOREM LossNeedsTornConsume ==
  Spec /\ [][WholeConsume]_vars => []NothingLost /\ []AckedIsGone /\ ImplementsMessageLife
<1>1. Init => TornByTake
  BY EmptyFacts DEF Init, TornByTake, Work
<1>2. TornByTake => Repairable
  BY DEF TornByTake, Repairable, Untorn
<1>3. Safe /\ Drained /\ TornByTake /\ [Next]_vars /\ [WholeConsume]_vars => TornByTake'
  BY TornStep DEF Safe, Drained
<1>4. Safe /\ Drained /\ TornByTake /\ [Next]_vars => Drained'
  BY <1>2, DrainedStep
<1>5. Drained => NothingLost /\ AckedIsGone
  BY DEF Drained, Settled
<1> QED
  BY <1>1, <1>2, <1>3, <1>4, <1>5, InitDrained, Invariant, InboxKeepsMessages, PTL DEF Spec

\* One consume can reserve every message there is.
LimitCovers == IsFiniteSet(Messages) /\ Cardinality(Messages) <= Limit

\* With no more messages than one consume reserves, nothing is lost and MessageLife
\* is implemented, wherever a cancellation or a crash falls.
THEOREM FewMessagesAreSafe ==
  ASSUME LimitCovers
  PROVE  Spec => []NothingLost /\ []AckedIsGone /\ ImplementsMessageLife
<1>1. Safe => Repairable
  <2> SUFFICES ASSUME Safe PROVE Fits
    BY DEF Repairable
  <2>1. /\ Authoritative \in Seq(Messages) /\ ToSet(Authoritative) = Work \union Pending
        /\ IsInjective(Authoritative)
    BY AuthoritativeFacts DEF Safe
  <2>2. ToSet(Authoritative) \subseteq Messages
    BY <2>1 DEF ToSet
  <2>3. Cardinality(ToSet(Authoritative)) = Len(Authoritative)
    BY <2>1, InjectiveLength, Zenon
  <2>4. Cardinality(ToSet(Authoritative)) <= Cardinality(Messages)
    BY <2>2, FS_Subset DEF LimitCovers
  <2>5. Cardinality(Messages) \in Nat /\ Limit \in Nat /\ Len(Authoritative) \in Nat
    BY <2>1, FS_CardinalityType, InboxAssumption DEF LimitCovers
  <2> QED BY <2>3, <2>4, <2>5 DEF Fits, LimitCovers
<1> QED BY <1>1, Invariant, NoMessageIsLost, AcknowledgedIsDone, InboxKeepsMessages, PTL

=============================================================================
