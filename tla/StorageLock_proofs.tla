------------------------- MODULE StorageLock_proofs -------------------------
(* Theorems about StorageLock, for any tasks and any nesting: the type of    *)
(* the state, mutual exclusion, legal releases, no lost wakeup, and that the *)
(* lock implements RWLock.                                                   *)
EXTENDS StorageLock, FiniteSetTheorems, SequenceTheorems, TLAPS

-----------------------------------------------------------------------------
(* The inductive invariant: the counters of the lock count what the tasks    *)
(* hold and wait for.                                                        *)

\* The read sections that the lock has recorded, each as a task and a depth.
ReadSlots == {x \in Tasks \X (1..MaxDepth) : x[2] <= readerDepths[x[1]]}

Writers == {t \in Tasks : wait[t].for = "write"}

\* The write sections of a task that is in the sections s.
WriteSections(s) == {i \in 1..Len(s) : s[i] = "write"}

ReadersCounted == activeReaders = Cardinality(ReadSlots)

WritersCounted == waitingWriters = Cardinality(Writers)

\* A task that nests or waits has room for what it enters.
DepthBounded ==
    \A t \in Tasks : /\ Len(held[t]) <= MaxDepth
                     /\ wait[t].for # "none" => Len(held[t]) < MaxDepth /\ writerTask # t

\* All that the others hold is recorded in readerDepths.
ReadersHeld ==
    \A t \in Tasks : writerTask # t =>
        Len(held[t]) = readerDepths[t] /\ \A i \in 1..Len(held[t]) : held[t][i] = "read"

\* The writer entered with a write section, and nobody reads.
WriterHeld ==
    IF writerTask = NoTask THEN writerDepth = 0
    ELSE /\ activeReaders = 0
         /\ held[writerTask] # <<>> /\ held[writerTask][1] = "write"
         /\ writerDepth = Cardinality(WriteSections(held[writerTask]))

\* A waiting reader holds nothing yet.
WaitingReads == \A t \in Tasks : wait[t].for = "read" => readerDepths[t] = 0

IInv ==
    /\ TypeOK /\ ReadersCounted /\ WritersCounted /\ DepthBounded
    /\ ReadersHeld /\ WriterHeld /\ WaitingReads

-----------------------------------------------------------------------------
(* The sections of a task *)

Waits == [for : Kinds \union {"none"}, woken : BOOLEAN]

LEMMA SectionsFinite ==
    ASSUME NEW s \in Seq(Kinds)
    PROVE  /\ IsFiniteSet(WriteSections(s))
           /\ Cardinality(WriteSections(s)) \in 0..Len(s)
           /\ Cardinality(WriteSections(s)) = 0 => \A i \in 1..Len(s) : s[i] # "write"
<1>1. Len(s) \in Nat
  OBVIOUS
<1>2. IsFiniteSet(1..Len(s)) /\ Cardinality(1..Len(s)) = Len(s)
  BY <1>1, FS_Interval
<1>3. WriteSections(s) \in SUBSET (1..Len(s))
  BY DEF WriteSections
<1>4. IsFiniteSet(WriteSections(s)) /\ Cardinality(WriteSections(s)) <= Len(s)
  BY <1>2, <1>3, FS_Subset
<1>5. Cardinality(WriteSections(s)) \in Nat
  BY <1>4, FS_CardinalityType
<1>6. Cardinality(WriteSections(s)) = 0 => WriteSections(s) = {}
  BY <1>4, FS_EmptySet
<1> QED
  BY <1>1, <1>4, <1>5, <1>6 DEF WriteSections

LEMMA SectionEntered ==
    ASSUME NEW s \in Seq(Kinds), NEW k \in Kinds
    PROVE  /\ Append(s, k) \in Seq(Kinds) /\ Append(s, k) # <<>>
           /\ Len(Append(s, k)) = Len(s) + 1
           /\ \A i \in 1..Len(s) : Append(s, k)[i] = s[i]
           /\ Append(s, k)[Len(s) + 1] = k
           /\ Cardinality(WriteSections(Append(s, k))) =
                  IF k = "write" THEN Cardinality(WriteSections(s)) + 1
                  ELSE Cardinality(WriteSections(s))
<1>1. /\ Append(s, k) \in Seq(Kinds) /\ Append(s, k) # <<>>
      /\ Len(Append(s, k)) = Len(s) + 1
      /\ \A i \in 1..Len(s) : Append(s, k)[i] = s[i]
      /\ Append(s, k)[Len(s) + 1] = k
  BY AppendProperties
<1>2. Len(s) \in Nat
  OBVIOUS
<1>3. WriteSections(Append(s, k)) =
          IF k = "write" THEN WriteSections(s) \union {Len(s) + 1} ELSE WriteSections(s)
  BY <1>1, <1>2 DEF WriteSections
<1>4. Len(s) + 1 \notin WriteSections(s)
  BY <1>2 DEF WriteSections
<1> QED
  BY <1>1, <1>3, <1>4, SectionsFinite, FS_AddElement

LEMMA ShorterSections ==
    ASSUME NEW s \in Seq(Kinds), NEW n \in Nat, n > 0, n = Len(s)
    PROVE  /\ SubSeq(s, 1, n - 1) \in Seq(Kinds)
           /\ Len(SubSeq(s, 1, n - 1)) = n - 1
           /\ \A i \in 1..n - 1 : SubSeq(s, 1, n - 1)[i] = s[i]
OBVIOUS

LEMMA SectionLeft ==
    ASSUME NEW s \in Seq(Kinds), s # <<>>
    PROVE  LET r == SubSeq(s, 1, Len(s) - 1)
           IN  /\ r \in Seq(Kinds) /\ Len(r) = Len(s) - 1
               /\ \A i \in 1..Len(r) : r[i] = s[i]
               /\ Len(s) \in 1..Len(s)
               /\ Cardinality(WriteSections(r)) =
                      IF s[Len(s)] = "write" THEN Cardinality(WriteSections(s)) - 1
                      ELSE Cardinality(WriteSections(s))
<1> DEFINE r == SubSeq(s, 1, Len(s) - 1)
<1>1. Len(s) \in Nat /\ Len(s) > 0
  BY EmptySeq
<1>2. SubSeq(s, 1, Len(s) - 1) \in Seq(Kinds)
  BY <1>1, ShorterSections
<1>3. Len(SubSeq(s, 1, Len(s) - 1)) = Len(s) - 1
  BY <1>1, ShorterSections
<1>4. \A i \in 1..Len(s) - 1 : SubSeq(s, 1, Len(s) - 1)[i] = s[i]
  BY <1>1, ShorterSections
<1>5. WriteSections(r) = WriteSections(s) \ {Len(s)}
  BY <1>1, <1>3, <1>4 DEF WriteSections
<1>6. Len(s) \in WriteSections(s) <=> s[Len(s)] = "write"
  BY <1>1 DEF WriteSections
<1> QED
  BY <1>1, <1>2, <1>3, <1>4, <1>5, <1>6, SectionsFinite, FS_RemoveElement

-----------------------------------------------------------------------------
(* The counters *)

LEMMA ReadSlotsFinite == IsFiniteSet(ReadSlots)
<1>1. IsFiniteSet(Tasks) /\ IsFiniteSet(1..MaxDepth)
  BY LockAssumption, FS_Interval
<1>2. IsFiniteSet(Tasks \X (1..MaxDepth))
  BY <1>1, FS_Product
<1>3. ReadSlots \in SUBSET (Tasks \X (1..MaxDepth))
  BY DEF ReadSlots
<1> QED
  BY <1>2, <1>3, FS_Subset

LEMMA NoReaders ==
    ASSUME TypeOK, ReadersCounted
    PROVE  (activeReaders = 0) <=> \A t \in Tasks : readerDepths[t] = 0
<1>1. activeReaders = 0 <=> ReadSlots = {}
  BY ReadSlotsFinite, FS_EmptySet DEF ReadersCounted
<1>2. ReadSlots = {} => \A t \in Tasks : readerDepths[t] = 0
  <2> SUFFICES ASSUME NEW t \in Tasks, readerDepths[t] # 0 PROVE <<t, 1>> \in ReadSlots
    OBVIOUS
  <2>1. readerDepths[t] \in 1..MaxDepth
    BY DEF TypeOK
  <2> QED
    BY <2>1, LockAssumption DEF ReadSlots
<1>3. (\A t \in Tasks : readerDepths[t] = 0) => ReadSlots = {}
  BY DEF ReadSlots
<1> QED
  BY <1>1, <1>2, <1>3

LEMMA ReaderAdded ==
    ASSUME TypeOK, ReadersCounted, NEW t \in Tasks, AddReader(t), readerDepths[t] < MaxDepth
    PROVE  /\ readerDepths' \in [Tasks -> 0..MaxDepth]
           /\ activeReaders' \in Nat \ {0} /\ ReadersCounted'
<1>1. readerDepths[t] \in 0..MaxDepth /\ MaxDepth \in Nat
  BY LockAssumption DEF TypeOK
<1>2. readerDepths' \in [Tasks -> 0..MaxDepth]
  BY <1>1 DEF AddReader, TypeOK
<1> DEFINE x == <<t, readerDepths[t] + 1>>
<1>3. ReadSlots' = ReadSlots \union {x}
  BY <1>1 DEF AddReader, ReadSlots, TypeOK
<1>4. x \notin ReadSlots
  BY <1>1 DEF ReadSlots
<1>5. Cardinality(ReadSlots') = Cardinality(ReadSlots) + 1
  BY <1>3, <1>4, ReadSlotsFinite, FS_AddElement
<1> QED
  BY <1>2, <1>5 DEF AddReader, ReadersCounted, TypeOK

LEMMA ReaderDropped ==
    ASSUME TypeOK, ReadersCounted, NEW t \in Tasks, readerDepths[t] > 0,
           readerDepths' = [readerDepths EXCEPT ![t] = @ - 1],
           activeReaders' = activeReaders - 1
    PROVE  /\ readerDepths' \in [Tasks -> 0..MaxDepth]
           /\ activeReaders' \in Nat /\ ReadersCounted'
<1>1. readerDepths[t] \in 1..MaxDepth /\ MaxDepth \in Nat
  BY LockAssumption DEF TypeOK
<1>2. readerDepths' \in [Tasks -> 0..MaxDepth]
  BY <1>1 DEF TypeOK
<1> DEFINE x == <<t, readerDepths[t]>>
<1>3. ReadSlots' = ReadSlots \ {x}
  BY <1>1 DEF ReadSlots, TypeOK
<1>4. x \in ReadSlots
  BY <1>1 DEF ReadSlots
<1>5. Cardinality(ReadSlots') = Cardinality(ReadSlots) - 1 /\ IsFiniteSet(ReadSlots')
  BY <1>3, <1>4, ReadSlotsFinite, FS_RemoveElement
<1>6. Cardinality(ReadSlots') \in Nat
  BY <1>5, FS_CardinalityType
<1> QED
  BY <1>2, <1>5, <1>6 DEF ReadersCounted, TypeOK

LEMMA WriterCounted ==
    ASSUME WritersCounted, wait \in [Tasks -> Waits],
           NEW t \in Tasks, NEW e \in Waits, wait' = [wait EXCEPT ![t] = e]
    PROVE  /\ e.for = "write" /\ wait[t].for # "write"
                 => Cardinality(Writers') = waitingWriters + 1
           /\ e.for # "write" /\ wait[t].for = "write"
                 => Cardinality(Writers') = waitingWriters - 1
           /\ (e.for = "write" <=> wait[t].for = "write")
                 => Cardinality(Writers') = waitingWriters
           /\ Cardinality(Writers') \in Nat
<1>1. IsFiniteSet(Writers)
  <2>1. Writers \in SUBSET Tasks
    BY DEF Writers
  <2> QED
    BY <2>1, LockAssumption, FS_Subset
<1>2. Writers' = IF e.for = "write" THEN Writers \union {t} ELSE Writers \ {t}
  BY DEF Writers
<1>3. t \in Writers <=> wait[t].for = "write"
  BY DEF Writers
<1>4. IsFiniteSet(Writers')
  BY <1>1, <1>2, FS_AddElement, FS_RemoveElement
<1> QED
  BY <1>1, <1>2, <1>3, <1>4, FS_AddElement, FS_RemoveElement, FS_CardinalityType
     DEF WritersCounted

\* notify_all changes nobody's reason to wait.
LEMMA Notified ==
    ASSUME NEW w \in [Tasks -> Waits]
    PROVE  /\ NotifyAll(w) \in [Tasks -> Waits]
           /\ \A t \in Tasks : NotifyAll(w)[t].for = w[t].for
           /\ \A t \in Tasks : w[t].for # "none" => NotifyAll(w)[t].woken
BY DEF NotifyAll, Waits

\* What the counts depend on.
LEMMA CountsKept ==
    /\ ReadersCounted /\ UNCHANGED <<readerDepths, activeReaders>> => ReadersCounted'
    /\ WritersCounted /\ UNCHANGED <<wait, waitingWriters>> => WritersCounted'
    /\ WritersCounted /\ UNCHANGED waitingWriters
          /\ (\A t \in Tasks : wait'[t].for = "write" <=> wait[t].for = "write") => WritersCounted'
BY DEF ReadersCounted, ReadSlots, WritersCounted, Writers

-----------------------------------------------------------------------------
(* The steps keep the invariant *)

LEMMA Entered ==
    ASSUME TypeOK, NEW t \in Tasks, NEW kind \in Kinds, Enters(t, kind)
    PROVE  /\ held' \in [Tasks -> Seq(Kinds)]
           /\ held'[t] = Append(held[t], kind)
           /\ \A u \in Tasks \ {t} : held'[u] = held[u]
           /\ held[t] \in Seq(Kinds) /\ Len(held[t]) \in Nat
           /\ held'[t] # <<>> /\ Len(held'[t]) = Len(held[t]) + 1
           /\ \A i \in 1..Len(held[t]) : held'[t][i] = held[t][i]
           /\ held'[t][Len(held[t]) + 1] = kind
           /\ Cardinality(WriteSections(held'[t])) =
                 IF kind = "write" THEN Cardinality(WriteSections(held[t])) + 1
                 ELSE Cardinality(WriteSections(held[t]))
<1>1. held[t] \in Seq(Kinds)
  BY DEF TypeOK
<1>2. held'[t] = Append(held[t], kind) /\ \A u \in Tasks \ {t} : held'[u] = held[u]
  BY DEF Enters, TypeOK
<1>3. Append(held[t], kind) \in Seq(Kinds)
  BY <1>1, SectionEntered
<1>4. held' \in [Tasks -> Seq(Kinds)]
  BY <1>3 DEF Enters, TypeOK
<1> QED
  BY <1>1, <1>2, <1>4, SectionEntered

LEMMA Left ==
    ASSUME TypeOK, NEW t \in Tasks, NEW kind \in Kinds, Leaves(t, kind)
    PROVE  /\ held' \in [Tasks -> Seq(Kinds)]
           /\ \A u \in Tasks \ {t} : held'[u] = held[u]
           /\ held[t] \in Seq(Kinds) /\ held[t] # <<>> /\ Len(held[t]) \in Nat \ {0}
           /\ held[t][Len(held[t])] = kind
           /\ Len(held'[t]) = Len(held[t]) - 1
           /\ \A i \in 1..Len(held'[t]) : held'[t][i] = held[t][i]
           /\ Cardinality(WriteSections(held'[t])) =
                 IF kind = "write" THEN Cardinality(WriteSections(held[t])) - 1
                 ELSE Cardinality(WriteSections(held[t]))
<1>1. held[t] \in Seq(Kinds) /\ held[t] # <<>> /\ held[t][Len(held[t])] = kind
  BY DEF Leaves, TypeOK
<1>2. Len(held[t]) \in Nat \ {0}
  BY <1>1, EmptySeq
<1>3. held'[t] = SubSeq(held[t], 1, Len(held[t]) - 1) /\ \A u \in Tasks \ {t} : held'[u] = held[u]
  BY DEF Leaves, TypeOK
<1>4. SubSeq(held[t], 1, Len(held[t]) - 1) \in Seq(Kinds)
  BY <1>1, SectionLeft
<1>5. held' \in [Tasks -> Seq(Kinds)]
  BY <1>4 DEF Leaves, TypeOK
<1> QED
  BY <1>1, <1>2, <1>3, <1>5, SectionLeft

\* A task enters one section more under a lock that records a reader.
LEMMA EntersRead ==
    ASSUME IInv, NEW t \in Tasks, AddReader(t), Enters(t, "read"),
           writerTask = NoTask, Len(held[t]) < MaxDepth,
           UNCHANGED <<writerTask, writerDepth, waitingWriters>>,
           uses' \in [Tasks -> Nat], wait[t].for # "write",
           wait' \in [Tasks -> Waits], wait'[t].for = "none",
           \A u \in Tasks \ {t} : wait'[u] = wait[u]
    PROVE  IInv'
<1> USE DEF IInv, Kinds
<1>1. Len(held[t]) = readerDepths[t] /\ readerDepths[t] < MaxDepth
  BY LockAssumption DEF ReadersHeld
<1>2. /\ readerDepths' \in [Tasks -> 0..MaxDepth]
      /\ activeReaders' \in Nat \ {0} /\ ReadersCounted'
  BY <1>1, ReaderAdded
<1>3. /\ held' \in [Tasks -> Seq(Kinds)] /\ Len(held'[t]) = Len(held[t]) + 1
      /\ \A u \in Tasks \ {t} : held'[u] = held[u]
      /\ \A i \in 1..Len(held[t]) : held'[t][i] = held[t][i]
      /\ held'[t][Len(held[t]) + 1] = "read" /\ Len(held[t]) \in Nat
  BY Entered
<1>4. TypeOK'
  BY <1>2, <1>3 DEF TypeOK, Waits
<1>5. WritersCounted'
  BY CountsKept
<1>6. DepthBounded'
  <2> SUFFICES ASSUME NEW u \in Tasks
               PROVE  /\ Len(held'[u]) <= MaxDepth
                      /\ wait'[u].for # "none" => Len(held'[u]) < MaxDepth /\ writerTask' # u
    BY DEF DepthBounded
  <2>1. CASE u = t
    BY <2>1, <1>3, LockAssumption
  <2>2. CASE u # t
    BY <2>2, <1>3 DEF DepthBounded
  <2> QED
    BY <2>1, <2>2
<1>7. readerDepths'[t] = readerDepths[t] + 1 /\ \A u \in Tasks \ {t} : readerDepths'[u] = readerDepths[u]
  BY DEF AddReader, TypeOK
<1>8. ReadersHeld'
  <2> SUFFICES ASSUME NEW u \in Tasks
               PROVE  /\ Len(held'[u]) = readerDepths'[u]
                      /\ \A i \in 1..Len(held'[u]) : held'[u][i] = "read"
    BY DEF ReadersHeld
  <2>1. CASE u = t
    <3>1. \A i \in 1..Len(held[t]) : held[t][i] = "read"
      BY LockAssumption DEF ReadersHeld
    <3>2. \A i \in 1..Len(held[t]) + 1 : i \in 1..Len(held[t]) \/ i = Len(held[t]) + 1
      BY <1>3
    <3> HIDE DEF IInv
    <3> QED
      BY <1>1, <1>3, <1>7, <2>1, <3>1, <3>2
  <2>2. CASE u # t
    <3>1. held'[u] = held[u] /\ readerDepths'[u] = readerDepths[u] /\ writerTask # u
      BY <1>3, <1>7, <2>2, LockAssumption
    <3> QED
      BY <3>1 DEF ReadersHeld
  <2> QED
    BY <2>1, <2>2
<1>9. WriterHeld'
  BY DEF WriterHeld
<1>10. WaitingReads'
  BY <1>7 DEF WaitingReads
<1> QED
  BY <1>2, <1>4, <1>5, <1>6, <1>8, <1>9, <1>10

\* The write lock is taken.
LEMMA EntersWrite ==
    ASSUME IInv, NEW t \in Tasks, MayWrite, TakeWrite(t), Enters(t, "write"),
           Len(held[t]) < MaxDepth, UNCHANGED <<readerDepths, activeReaders>>,
           uses' \in [Tasks -> Nat],
           \/ UNCHANGED <<wait, waitingWriters>> /\ wait[t].for = "none"
           \/ /\ wait' = [wait EXCEPT ![t] = NotWaiting] /\ wait[t].for = "write"
              /\ waitingWriters' = waitingWriters - 1
    PROVE  IInv'
<1> USE DEF IInv, Kinds
<1>1. \A u \in Tasks : readerDepths[u] = 0
  BY NoReaders DEF MayWrite
<1>2. writerTask = NoTask /\ activeReaders = 0 /\ writerTask' = t /\ writerDepth' = 1
  BY DEF MayWrite, TakeWrite
<1>3. Len(held[t]) = 0
  BY <1>1, <1>2, LockAssumption DEF ReadersHeld
<1>4. /\ held' \in [Tasks -> Seq(Kinds)] /\ Len(held'[t]) = Len(held[t]) + 1
      /\ \A u \in Tasks \ {t} : held'[u] = held[u] /\ held'[t] # <<>>
      /\ held'[t][Len(held[t]) + 1] = "write" /\ Len(held[t]) \in Nat
      /\ Cardinality(WriteSections(held'[t])) = Cardinality(WriteSections(held[t])) + 1
  BY Entered
<1>5. Cardinality(WriteSections(held'[t])) = 1
  <2>1. held[t] \in Seq(Kinds)
    BY DEF TypeOK
  <2>2. Cardinality(WriteSections(held[t])) = 0
    BY <2>1, <1>3, SectionsFinite
  <2> QED
    BY <1>4, <2>2
<1>6. /\ wait' \in [Tasks -> Waits] /\ wait'[t].for = "none"
      /\ \A u \in Tasks \ {t} : wait'[u] = wait[u]
  <2>1. wait \in [Tasks -> Waits] /\ NotWaiting \in Waits /\ NotWaiting.for = "none"
    BY DEF TypeOK, Waits, NotWaiting
  <2>2. \/ wait' = wait /\ wait[t].for = "none"
        \/ wait' = [wait EXCEPT ![t] = NotWaiting]
    OBVIOUS
  <2> QED
    BY <2>1, <2>2
<1>7. WritersCounted' /\ waitingWriters' \in Nat
  <2>1. CASE UNCHANGED <<wait, waitingWriters>>
    BY <2>1, CountsKept DEF TypeOK
  <2>2. CASE /\ wait' = [wait EXCEPT ![t] = NotWaiting] /\ wait[t].for = "write"
             /\ waitingWriters' = waitingWriters - 1
    <3>1. NotWaiting \in Waits /\ NotWaiting.for # "write" /\ wait \in [Tasks -> Waits]
      BY DEF NotWaiting, Waits, TypeOK
    <3> QED
      BY <2>2, <3>1, WriterCounted DEF WritersCounted
  <2> QED
    BY <2>1, <2>2
<1>8. TypeOK'
  BY <1>2, <1>4, <1>6, <1>7, LockAssumption DEF TypeOK, Waits
<1>9. ReadersCounted'
  BY CountsKept
<1>10. DepthBounded'
  <2> SUFFICES ASSUME NEW u \in Tasks
               PROVE  /\ Len(held'[u]) <= MaxDepth
                      /\ wait'[u].for # "none" => Len(held'[u]) < MaxDepth /\ writerTask' # u
    BY DEF DepthBounded
  <2>1. CASE u = t
    BY <2>1, <1>4, <1>6, LockAssumption
  <2>2. CASE u # t
    BY <2>2, <1>2, <1>4, <1>6 DEF DepthBounded
  <2> QED
    BY <2>1, <2>2
<1>11. ReadersHeld'
  <2> SUFFICES ASSUME NEW u \in Tasks, u # t
               PROVE  /\ Len(held'[u]) = readerDepths'[u]
                      /\ \A i \in 1..Len(held'[u]) : held'[u][i] = "read"
    BY <1>2 DEF ReadersHeld
  <2>1. held'[u] = held[u] /\ readerDepths' = readerDepths /\ writerTask # u
    BY <1>2, <1>4, LockAssumption
  <2> QED
    BY <2>1 DEF ReadersHeld
<1>12. WriterHeld'
  BY <1>2, <1>3, <1>4, <1>5, LockAssumption DEF WriterHeld
<1>13. WaitingReads'
  BY <1>6 DEF WaitingReads
<1> QED
  BY <1>7, <1>8, <1>9, <1>10, <1>11, <1>12, <1>13

\* The writer enters one section more.
LEMMA WriterEnters ==
    ASSUME IInv, NEW t \in Tasks, NEW kind \in Kinds, MayEnter(t), writerTask = t,
           Enters(t, kind), Use(t),
           writerDepth' = IF kind = "write" THEN writerDepth + 1 ELSE writerDepth,
           UNCHANGED <<writerTask, readerDepths, activeReaders, waitingWriters, wait>>
    PROVE  IInv'
<1> USE DEF IInv
<1>1. /\ held' \in [Tasks -> Seq(Kinds)] /\ Len(held'[t]) = Len(held[t]) + 1
      /\ \A u \in Tasks \ {t} : held'[u] = held[u]
      /\ held'[t] # <<>> /\ held'[t] \in Seq(Kinds)
      /\ \A i \in 1..Len(held[t]) : held'[t][i] = held[t][i]
      /\ held[t] \in Seq(Kinds) /\ Len(held[t]) \in Nat
      /\ Cardinality(WriteSections(held'[t])) =
            IF kind = "write" THEN Cardinality(WriteSections(held[t])) + 1
            ELSE Cardinality(WriteSections(held[t]))
  BY Entered
<1>2. Len(held[t]) < MaxDepth /\ wait[t].for = "none" /\ t # NoTask
  BY LockAssumption DEF MayEnter, Running
<1>3. writerDepth' = Cardinality(WriteSections(held'[t]))
  BY <1>1, <1>2 DEF WriterHeld
<1>4. Cardinality(WriteSections(held'[t])) \in 0..Len(held'[t])
  BY <1>1, SectionsFinite
<1>5. writerDepth' \in 0..MaxDepth
  BY <1>1, <1>2, <1>3, <1>4, LockAssumption
<1>6. TypeOK'
  <2>1. TypeOK /\ uses' \in [Tasks -> Nat]
    BY DEF TypeOK, Use
  <2> HIDE DEF IInv
  <2> QED
    BY <1>1, <1>5, <2>1 DEF TypeOK
<1>7. ReadersCounted' /\ WritersCounted'
  BY CountsKept
<1>8. DepthBounded'
  <2> SUFFICES ASSUME NEW u \in Tasks
               PROVE  /\ Len(held'[u]) <= MaxDepth
                      /\ wait'[u].for # "none" => Len(held'[u]) < MaxDepth /\ writerTask' # u
    BY DEF DepthBounded
  <2>1. CASE u = t
    BY <2>1, <1>1, <1>2, LockAssumption
  <2>2. CASE u # t
    BY <2>2, <1>1 DEF DepthBounded
  <2> QED
    BY <2>1, <2>2
<1>9. ReadersHeld'
  BY <1>1 DEF ReadersHeld
<1>10. WriterHeld'
  <2>1. held[t] # <<>> /\ held[t][1] = "write" /\ activeReaders = 0
    BY <1>2 DEF WriterHeld
  <2>2. 1 \in 1..Len(held[t])
    BY <1>1, <2>1, EmptySeq
  <2>3. held'[t][1] = "write"
    BY <1>1, <2>1, <2>2
  <2> QED
    BY <1>1, <1>2, <1>3, <2>1, <2>3 DEF WriterHeld
<1>11. WaitingReads'
  BY DEF WaitingReads
<1> QED
  BY <1>6, <1>7, <1>8, <1>9, <1>10, <1>11

\* Nothing but waits moves.
LEMMA WaitsMove ==
    ASSUME IInv, wait' \in [Tasks -> Waits], waitingWriters' \in Nat, WritersCounted',
           UNCHANGED <<writerTask, writerDepth, readerDepths, activeReaders, held>>,
           uses' \in [Tasks -> Nat],
           \A u \in Tasks :
               \/ wait'[u].for \in {"none", wait[u].for}
               \/ /\ Len(held[u]) < MaxDepth /\ writerTask # u
                  /\ wait'[u].for = "read" => readerDepths[u] = 0
    PROVE  IInv'
<1> USE DEF IInv
<1>1. TypeOK'
  <2>1. TypeOK
    OBVIOUS
  <2> HIDE DEF IInv
  <2> QED
    BY <2>1 DEF TypeOK, Waits
<1>2. ReadersCounted'
  BY CountsKept
<1>3. DepthBounded'
  BY DEF DepthBounded
<1>4. ReadersHeld' /\ WriterHeld'
  BY DEF ReadersHeld, WriterHeld
<1>5. WaitingReads'
  BY DEF WaitingReads
<1> QED
  BY <1>1, <1>2, <1>3, <1>4, <1>5

\* A task suspends for the first time, or again.
LEMMA Suspended ==
    ASSUME IInv, NEW t \in Tasks, NEW kind \in Kinds, Suspend(t, kind),
           UNCHANGED <<writerTask, writerDepth, readerDepths, activeReaders, held>>,
           uses' \in [Tasks -> Nat],
           waitingWriters' = IF kind = "write" /\ wait[t].for # "write"
                             THEN waitingWriters + 1 ELSE waitingWriters,
           \/ wait[t].for = kind
           \/ /\ wait[t].for = "none" /\ Len(held[t]) < MaxDepth /\ writerTask # t
              /\ kind = "read" => readerDepths[t] = 0
    PROVE  IInv'
<1> DEFINE e == [for |-> kind, woken |-> FALSE]
<1>1. wait \in [Tasks -> Waits] /\ e \in Waits /\ e.for = kind /\ wait' = [wait EXCEPT ![t] = e]
  BY DEF IInv, TypeOK, Waits, Suspend
<1>2. wait' \in [Tasks -> Waits] /\ wait'[t] = e /\ \A u \in Tasks \ {t} : wait'[u] = wait[u]
  BY <1>1
<1>3. waitingWriters \in Nat
  BY DEF IInv, TypeOK
<1> HIDE DEF e
<1>4. WritersCounted' /\ waitingWriters' \in Nat
  <2>1. CASE kind = "write" /\ wait[t].for # "write"
    BY <1>1, <1>3, <2>1, WriterCounted DEF IInv, WritersCounted
  <2>2. CASE kind = "write" <=> wait[t].for = "write"
    BY <1>1, <1>3, <2>2, WriterCounted DEF IInv, WritersCounted
  <2> QED
    BY <2>1, <2>2 DEF Kinds
<1> QED
  BY <1>1, <1>2, <1>4, WaitsMove

LEMMA KeptByGiveUp ==
    ASSUME IInv, NEW t \in Tasks, GiveUp(t)
    PROVE  IInv'
<1> DEFINE w == [wait EXCEPT ![t] = NotWaiting]
<1>1. wait \in [Tasks -> Waits] /\ NotWaiting \in Waits /\ NotWaiting.for = "none"
  BY DEF IInv, TypeOK, Waits, NotWaiting
<1>2. w \in [Tasks -> Waits] /\ w[t].for = "none" /\ \A u \in Tasks \ {t} : w[u] = wait[u]
  BY <1>1
<1>3. wait' = w \/ wait' = NotifyAll(w)
  BY DEF GiveUp
<1>4. wait' \in [Tasks -> Waits] /\ \A u \in Tasks : wait'[u].for = w[u].for
  <2> HIDE DEF w
  <2> QED
    BY <1>2, <1>3, Notified
<1>5. waitingWriters' = IF wait[t].for = "write" THEN waitingWriters - 1 ELSE waitingWriters
  BY DEF GiveUp
<1>6. Writers' = Writers \ {t} /\ IsFiniteSet(Writers)
  <2>1. Writers \in SUBSET Tasks
    BY DEF Writers
  <2>2. IsFiniteSet(Writers)
    BY <2>1, LockAssumption, FS_Subset
  <2>3. Writers' = Writers \ {t}
    BY <1>2, <1>4 DEF Writers
  <2> QED
    BY <2>2, <2>3
<1>7. WritersCounted' /\ waitingWriters' \in Nat
  <2>1. t \in Writers <=> wait[t].for = "write"
    BY DEF Writers
  <2>2. IsFiniteSet(Writers') /\ Cardinality(Writers') =
            IF t \in Writers THEN Cardinality(Writers) - 1 ELSE Cardinality(Writers)
    BY <1>6, FS_RemoveElement
  <2> QED
    BY <1>5, <2>1, <2>2, FS_CardinalityType DEF IInv, WritersCounted
<1>8. \A u \in Tasks : wait'[u].for \in {"none", wait[u].for}
  BY <1>2, <1>4
<1>9. UNCHANGED <<writerTask, writerDepth, readerDepths, activeReaders, held, uses>>
  BY DEF GiveUp
<1>10. uses' \in [Tasks -> Nat]
  BY <1>9 DEF IInv, TypeOK
<1> HIDE DEF w
<1> QED
  BY <1>4, <1>7, <1>8, <1>9, <1>10, WaitsMove

\* A wakeup changes nothing that the invariant counts.
LEMMA WokenOnly ==
    ASSUME wait \in [Tasks -> Waits], wait' = wait \/ wait' = NotifyAll(wait)
    PROVE  wait' \in [Tasks -> Waits] /\ \A u \in Tasks : wait'[u].for = wait[u].for
BY Notified

LEMMA KeptByLeaveReadUnderWrite ==
    ASSUME IInv, NEW t \in Tasks, LeaveReadUnderWrite(t)
    PROVE  IInv'
<1>1. Leaves(t, "read") /\ writerTask = t /\ t # NoTask /\ UNCHANGED <<lock, wait, uses>>
  BY LockAssumption DEF LeaveReadUnderWrite
<1>2. /\ held' \in [Tasks -> Seq(Kinds)]
      /\ \A u \in Tasks \ {t} : held'[u] = held[u]
      /\ held[t][Len(held[t])] = "read" /\ Len(held[t]) \in Nat \ {0}
      /\ Len(held'[t]) = Len(held[t]) - 1
      /\ \A i \in 1..Len(held'[t]) : held'[t][i] = held[t][i]
      /\ Cardinality(WriteSections(held'[t])) = Cardinality(WriteSections(held[t]))
  BY <1>1, Left DEF IInv, Kinds
<1>3. TypeOK'
  BY <1>1, <1>2 DEF IInv, TypeOK, lock
<1>4. ReadersCounted' /\ WritersCounted'
  BY <1>1, CountsKept DEF IInv, lock
<1>5. DepthBounded'
  <2> SUFFICES ASSUME NEW u \in Tasks
               PROVE  /\ Len(held'[u]) <= MaxDepth
                      /\ wait'[u].for # "none" => Len(held'[u]) < MaxDepth /\ writerTask' # u
    BY DEF DepthBounded
  <2>1. /\ Len(held[u]) <= MaxDepth
        /\ wait[u].for # "none" => Len(held[u]) < MaxDepth /\ writerTask # u
    BY DEF IInv, DepthBounded
  <2>2. CASE u = t
    BY <1>1, <1>2, <2>1, <2>2, LockAssumption DEF lock
  <2>3. CASE u # t
    BY <1>1, <1>2, <2>1, <2>3 DEF lock
  <2> QED
    BY <2>2, <2>3
<1>6. ReadersHeld'
  BY <1>1, <1>2 DEF IInv, ReadersHeld, lock
<1>7. WriterHeld'
  <2>1. /\ held[t][1] = "write" /\ activeReaders = 0
        /\ writerDepth = Cardinality(WriteSections(held[t]))
    BY <1>1 DEF IInv, WriterHeld
  <2>2. Len(held[t]) # 1
    BY <1>2, <2>1
  <2>3. 1 \in 1..Len(held'[t])
    <3>1. Len(held'[t]) \in Nat \ {0}
      BY <1>2, <2>2
    <3> QED
      BY <3>1
  <2>4. held'[t][1] = "write" /\ held'[t] # <<>>
    BY <1>2, <2>1, <2>3, EmptySeq
  <2> QED
    BY <1>1, <1>2, <2>1, <2>4 DEF WriterHeld, lock
<1>8. WaitingReads'
  BY <1>1 DEF IInv, WaitingReads, lock
<1> QED
  BY <1>3, <1>4, <1>5, <1>6, <1>7, <1>8 DEF IInv

LEMMA KeptByReleaseRead ==
    ASSUME IInv, NEW t \in Tasks, ReleaseRead(t)
    PROVE  IInv'
<1>1. /\ Leaves(t, "read") /\ writerTask # t /\ readerDepths[t] > 0
      /\ readerDepths' = [readerDepths EXCEPT ![t] = @ - 1]
      /\ activeReaders' = activeReaders - 1
      /\ wait' = wait \/ wait' = NotifyAll(wait)
      /\ UNCHANGED <<writerTask, writerDepth, waitingWriters, uses>>
  BY DEF ReleaseRead
<1>2. /\ held' \in [Tasks -> Seq(Kinds)]
      /\ \A u \in Tasks \ {t} : held'[u] = held[u]
      /\ Len(held[t]) \in Nat \ {0} /\ Len(held'[t]) = Len(held[t]) - 1
      /\ \A i \in 1..Len(held'[t]) : held'[t][i] = held[t][i]
  BY <1>1, Left DEF IInv, Kinds
<1>3. wait' \in [Tasks -> Waits] /\ \A u \in Tasks : wait'[u].for = wait[u].for
  <2>1. wait \in [Tasks -> Waits]
    BY DEF IInv, TypeOK, Waits
  <2> QED
    BY <1>1, <2>1, WokenOnly
<1>4. /\ readerDepths' \in [Tasks -> 0..MaxDepth]
      /\ activeReaders' \in Nat /\ ReadersCounted'
  BY <1>1, ReaderDropped DEF IInv
<1>5. /\ readerDepths \in [Tasks -> 0..MaxDepth] /\ MaxDepth \in Nat
      /\ readerDepths'[t] = readerDepths[t] - 1
      /\ \A u \in Tasks \ {t} : readerDepths'[u] = readerDepths[u]
  BY <1>1, LockAssumption DEF IInv, TypeOK
<1>6. TypeOK'
  BY <1>1, <1>2, <1>3, <1>4 DEF IInv, TypeOK, Waits
<1>7. WritersCounted'
  BY <1>1, <1>3, CountsKept DEF IInv
<1>8. DepthBounded'
  <2> SUFFICES ASSUME NEW u \in Tasks
               PROVE  /\ Len(held'[u]) <= MaxDepth
                      /\ wait'[u].for # "none" => Len(held'[u]) < MaxDepth /\ writerTask' # u
    BY DEF DepthBounded
  <2>1. /\ Len(held[u]) <= MaxDepth
        /\ wait[u].for # "none" => Len(held[u]) < MaxDepth /\ writerTask # u
    BY DEF IInv, DepthBounded
  <2>2. CASE u = t
    BY <1>1, <1>2, <1>3, <2>1, <2>2, LockAssumption
  <2>3. CASE u # t
    BY <1>1, <1>2, <1>3, <2>1, <2>3
  <2> QED
    BY <2>2, <2>3
<1>9. ReadersHeld'
  <2> SUFFICES ASSUME NEW u \in Tasks, writerTask # u
               PROVE  /\ Len(held'[u]) = readerDepths'[u]
                      /\ \A i \in 1..Len(held'[u]) : held'[u][i] = "read"
    BY <1>1 DEF ReadersHeld
  <2>1. Len(held[u]) = readerDepths[u] /\ \A i \in 1..Len(held[u]) : held[u][i] = "read"
    BY DEF IInv, ReadersHeld
  <2>2. CASE u = t
    <3>1. Len(held'[t]) = readerDepths'[t]
      BY <1>2, <1>5, <2>1, <2>2
    <3>2. \A i \in 1..Len(held'[t]) : i \in 1..Len(held[t])
      BY <1>2
    <3>3. \A i \in 1..Len(held'[t]) : held'[t][i] = "read"
      BY <1>2, <2>1, <2>2, <3>2
    <3> QED
      BY <2>2, <3>1, <3>3
  <2>3. CASE u # t
    BY <1>2, <1>5, <2>1, <2>3
  <2> QED
    BY <2>2, <2>3
<1>10. writerTask = NoTask
  <2>1. activeReaders # 0
    BY <1>1, <1>5, NoReaders DEF IInv
  <2> QED
    BY <2>1 DEF IInv, WriterHeld
<1>11. WriterHeld'
  BY <1>1, <1>10 DEF IInv, WriterHeld
<1>12. WaitingReads'
  <2> SUFFICES ASSUME NEW u \in Tasks, wait'[u].for = "read" PROVE readerDepths'[u] = 0
    BY DEF WaitingReads
  <2>1. wait[u].for = "read" /\ readerDepths[u] = 0
    BY <1>3 DEF IInv, WaitingReads
  <2> QED
    BY <1>1, <1>5, <2>1
<1> QED
  BY <1>4, <1>6, <1>7, <1>8, <1>9, <1>11, <1>12 DEF IInv

LEMMA KeptByReleaseWrite ==
    ASSUME IInv, NEW t \in Tasks, ReleaseWrite(t)
    PROVE  IInv' /\ (writerDepth' = 0 => held'[t] = <<>>)
<1>1. /\ Leaves(t, "write") /\ writerTask = t /\ t # NoTask
      /\ writerDepth' = writerDepth - 1
      /\ IF writerDepth' = 0 THEN writerTask' = NoTask ELSE writerTask' = writerTask
      /\ wait' = wait \/ wait' = NotifyAll(wait)
      /\ UNCHANGED <<readerDepths, activeReaders, waitingWriters, uses>>
  BY LockAssumption DEF ReleaseWrite
<1>2. /\ held' \in [Tasks -> Seq(Kinds)] /\ held'[t] \in Seq(Kinds)
      /\ \A u \in Tasks \ {t} : held'[u] = held[u]
      /\ Len(held[t]) \in Nat \ {0} /\ Len(held'[t]) = Len(held[t]) - 1
      /\ \A i \in 1..Len(held'[t]) : held'[t][i] = held[t][i]
      /\ Cardinality(WriteSections(held'[t])) = Cardinality(WriteSections(held[t])) - 1
  BY <1>1, Left DEF IInv, Kinds
<1>3. wait' \in [Tasks -> Waits] /\ \A u \in Tasks : wait'[u].for = wait[u].for
  <2>1. wait \in [Tasks -> Waits]
    BY DEF IInv, TypeOK, Waits
  <2> QED
    BY <1>1, <2>1, WokenOnly
<1>4. /\ activeReaders = 0 /\ held[t][1] = "write"
      /\ writerDepth = Cardinality(WriteSections(held[t]))
  BY <1>1 DEF IInv, WriterHeld
<1>5. /\ Cardinality(WriteSections(held'[t])) \in 0..Len(held'[t])
      /\ Cardinality(WriteSections(held'[t])) = 0 => \A i \in 1..Len(held'[t]) : held'[t][i] # "write"
  BY <1>2, SectionsFinite
<1>6. writerDepth' = Cardinality(WriteSections(held'[t])) /\ writerDepth' \in 0..MaxDepth
  <2>1. writerDepth' = Cardinality(WriteSections(held'[t]))
    BY <1>1, <1>2, <1>4
  <2>2. Len(held[t]) <= MaxDepth
    BY DEF IInv, DepthBounded
  <2> QED
    BY <1>2, <1>5, <2>1, <2>2, LockAssumption
<1>7. held'[t] # <<>> => held'[t][1] = "write"
  <2> SUFFICES ASSUME held'[t] # <<>> PROVE held'[t][1] = "write"
    OBVIOUS
  <2>1. Len(held'[t]) \in Nat /\ Len(held'[t]) # 0
    BY <1>2, EmptySeq
  <2>2. 1 \in 1..Len(held'[t])
    BY <2>1
  <2> QED
    BY <1>2, <1>4, <2>2
<1>8. writerDepth' = 0 => held'[t] = <<>>
  <2> SUFFICES ASSUME writerDepth' = 0, held'[t] # <<>> PROVE FALSE
    OBVIOUS
  <2>1. 1 \in 1..Len(held'[t])
    BY <1>2, EmptySeq
  <2> QED
    BY <1>5, <1>6, <1>7, <2>1
<1>9. writerDepth' # 0 => held'[t] # <<>>
  <2> SUFFICES ASSUME held'[t] = <<>> PROVE writerDepth' = 0
    OBVIOUS
  <2>1. Len(held'[t]) = 0
    BY <1>2, EmptySeq
  <2> QED
    BY <1>5, <1>6, <2>1
<1>10. TypeOK'
  BY <1>1, <1>2, <1>3, <1>6, LockAssumption DEF IInv, TypeOK, Waits
<1>11. ReadersCounted' /\ WritersCounted'
  BY <1>1, <1>3, CountsKept DEF IInv
<1>12. DepthBounded'
  <2> SUFFICES ASSUME NEW u \in Tasks
               PROVE  /\ Len(held'[u]) <= MaxDepth
                      /\ wait'[u].for # "none" => Len(held'[u]) < MaxDepth /\ writerTask' # u
    BY DEF DepthBounded
  <2>1. /\ Len(held[u]) <= MaxDepth
        /\ wait[u].for # "none" => Len(held[u]) < MaxDepth /\ writerTask # u
    BY DEF IInv, DepthBounded
  <2>2. CASE u = t
    BY <1>1, <1>2, <1>3, <2>1, <2>2, LockAssumption
  <2>3. CASE u # t
    BY <1>1, <1>2, <1>3, <2>1, <2>3, LockAssumption
  <2> QED
    BY <2>2, <2>3
<1>13. ReadersHeld'
  <2> SUFFICES ASSUME NEW u \in Tasks, writerTask' # u
               PROVE  /\ Len(held'[u]) = readerDepths'[u]
                      /\ \A i \in 1..Len(held'[u]) : held'[u][i] = "read"
    BY DEF ReadersHeld
  <2>1. CASE u = t
    <3>1. held'[t] = <<>>
      BY <1>1, <1>8, <2>1
    <3>2. Len(held'[t]) = 0
      BY <1>2, <3>1, EmptySeq
    <3>3. readerDepths'[t] = 0
      BY <1>1, <1>4, NoReaders DEF IInv
    <3> QED
      BY <2>1, <3>2, <3>3
  <2>2. CASE u # t
    <3>1. held'[u] = held[u] /\ readerDepths'[u] = readerDepths[u] /\ writerTask # u
      BY <1>1, <1>2, <2>2
    <3> QED
      BY <3>1 DEF IInv, ReadersHeld
  <2> QED
    BY <2>1, <2>2
<1>14. WriterHeld'
  BY <1>1, <1>4, <1>6, <1>7, <1>9 DEF WriterHeld
<1>15. WaitingReads'
  BY <1>1, <1>3 DEF IInv, WaitingReads
<1> QED
  BY <1>8, <1>10, <1>11, <1>12, <1>13, <1>14, <1>15 DEF IInv

LEMMA UsesTyped ==
    ASSUME TypeOK, NEW t \in Tasks
    PROVE  Use(t) => uses' \in [Tasks -> Nat]
<1>1. uses \in [Tasks -> Nat] /\ uses[t] + 1 \in Nat
  BY DEF TypeOK
<1> QED
  BY <1>1 DEF Use

LEMMA KeptByEnter ==
    ASSUME IInv, NEW t \in Tasks, Enter(t)
    PROVE  IInv'
<1> USE DEF Kinds
<1>0. /\ TypeOK /\ wait \in [Tasks -> Waits]
      /\ Use(t) => uses' \in [Tasks -> Nat]
      /\ MayEnter(t) => wait[t].for = "none" /\ Len(held[t]) < MaxDepth
  BY UsesTyped DEF IInv, TypeOK, Waits, MayEnter, Running
<1>1. CASE ReadUnderWrite(t)
  BY <1>1, WriterEnters DEF ReadUnderWrite, lock
<1>2. CASE ReadAgain(t)
  <2>1. readerDepths[t] # 0
    BY <1>0, <1>2 DEF ReadAgain, TypeOK
  <2>2. writerTask = NoTask
    BY <2>1, NoReaders DEF IInv, WriterHeld
  <2> QED
    <3>1. /\ AddReader(t) /\ Enters(t, "read") /\ wait' = wait
          /\ UNCHANGED <<writerTask, writerDepth, waitingWriters>>
      BY <1>2 DEF ReadAgain
    <3>2. Len(held[t]) < MaxDepth /\ wait[t].for = "none" /\ uses' \in [Tasks -> Nat]
      BY <1>0, <1>2 DEF ReadAgain
    <3> QED
      BY <1>0, <2>2, <3>1, <3>2, EntersRead
<1>3. CASE AcquireRead(t)
  <2>1. CASE MayRead /\ AddReader(t) /\ Enters(t, "read")
             /\ UNCHANGED <<writerTask, writerDepth, waitingWriters, wait>>
    <3>1. /\ AddReader(t) /\ Enters(t, "read") /\ writerTask = NoTask
          /\ UNCHANGED <<writerTask, writerDepth, waitingWriters>> /\ wait' = wait
      BY <2>1 DEF MayRead
    <3>2. Len(held[t]) < MaxDepth /\ wait[t].for = "none" /\ uses' \in [Tasks -> Nat]
      BY <1>0, <1>3 DEF AcquireRead
    <3> QED
      BY <1>0, <3>1, <3>2, EntersRead
  <2>2. CASE ~MayRead /\ Suspend(t, "read") /\ UNCHANGED <<lock, held>>
    <3>1. /\ Suspend(t, "read") /\ waitingWriters' = waitingWriters
          /\ UNCHANGED <<writerTask, writerDepth, readerDepths, activeReaders, held>>
      BY <2>2 DEF lock
    <3>2. /\ Len(held[t]) < MaxDepth /\ wait[t].for = "none" /\ uses' \in [Tasks -> Nat]
          /\ writerTask # t /\ readerDepths[t] = 0
      BY <1>0, <1>3 DEF AcquireRead
    <3> QED
      BY <3>1, <3>2, Suspended
  <2> QED
    BY <1>3, <2>1, <2>2 DEF AcquireRead
<1>4. CASE WriteAgain(t)
  BY <1>4, WriterEnters DEF WriteAgain
<1>5. CASE AcquireWrite(t)
  <2>1. CASE MayWrite /\ TakeWrite(t) /\ Enters(t, "write")
             /\ UNCHANGED <<readerDepths, activeReaders, waitingWriters, wait>>
    BY <1>0, <1>5, <2>1, EntersWrite DEF AcquireWrite
  <2>2. CASE ~MayWrite /\ Suspend(t, "write") /\ waitingWriters' = waitingWriters + 1
             /\ UNCHANGED <<writerTask, writerDepth, readerDepths, activeReaders, held>>
    BY <1>0, <1>5, <2>2, Suspended DEF AcquireWrite
  <2> QED
    BY <1>5, <2>1, <2>2 DEF AcquireWrite
<1> QED
  BY <1>1, <1>2, <1>3, <1>4, <1>5 DEF Enter

LEMMA ResumedWait ==
    ASSUME wait \in [Tasks -> Waits], NEW t \in Tasks, wait' = [wait EXCEPT ![t] = NotWaiting]
    PROVE  /\ wait' \in [Tasks -> Waits] /\ wait'[t].for = "none"
           /\ \A u \in Tasks \ {t} : wait'[u] = wait[u]
<1>1. NotWaiting \in Waits /\ NotWaiting.for = "none"
  BY DEF NotWaiting, Waits
<1> QED
  BY <1>1

LEMMA KeptByResume ==
    ASSUME IInv, NEW t \in Tasks, Resume(t)
    PROVE  IInv'
<1> USE DEF Kinds
<1>0. /\ uses \in [Tasks -> Nat]
      /\ wait[t].for # "none" => Len(held[t]) < MaxDepth /\ writerTask # t
  BY DEF IInv, TypeOK, DepthBounded
<1>1. CASE ResumeRead(t)
  <2>0. wait[t].for = "read" /\ uses' = uses
    BY <1>1 DEF ResumeRead, Woken
  <2>1. CASE /\ MayRead /\ AddReader(t) /\ Enters(t, "read")
             /\ wait' = [wait EXCEPT ![t] = NotWaiting]
             /\ UNCHANGED <<writerTask, writerDepth, waitingWriters, uses>>
    <3>1. /\ wait' \in [Tasks -> Waits] /\ wait'[t].for = "none"
          /\ \A u \in Tasks \ {t} : wait'[u] = wait[u]
      BY <2>1, ResumedWait DEF IInv, TypeOK, Waits
    <3> QED
      BY <1>0, <2>0, <2>1, <3>1, EntersRead DEF MayRead
  <2>2. CASE ~MayRead /\ Suspend(t, "read") /\ UNCHANGED <<lock, held, uses>>
    BY <1>0, <2>0, <2>2, Suspended DEF lock
  <2> QED
    BY <1>1, <2>1, <2>2 DEF ResumeRead
<1>2. CASE ResumeWrite(t)
  <2>0. wait[t].for = "write" /\ uses' = uses
    BY <1>2 DEF ResumeWrite, Woken
  <2>1. CASE /\ MayWrite /\ TakeWrite(t) /\ Enters(t, "write")
             /\ waitingWriters' = waitingWriters - 1
             /\ wait' = [wait EXCEPT ![t] = NotWaiting]
             /\ UNCHANGED <<readerDepths, activeReaders, uses>>
    BY <1>0, <2>0, <2>1, EntersWrite
  <2>2. CASE ~MayWrite /\ Suspend(t, "write") /\ UNCHANGED <<lock, held, uses>>
    BY <1>0, <2>0, <2>2, Suspended DEF lock
  <2> QED
    BY <1>2, <2>1, <2>2 DEF ResumeWrite
<1> QED
  BY <1>1, <1>2 DEF Resume

LEMMA InitIInv == Init => IInv
<1> SUFFICES ASSUME Init PROVE IInv
  OBVIOUS
<1>1. TypeOK
  BY LockAssumption DEF Init, TypeOK, NotWaiting, Kinds
<1>2. ReadSlots = {} /\ Writers = {}
  BY DEF Init, ReadSlots, Writers, NotWaiting
<1>3. ReadersCounted /\ WritersCounted
  BY <1>2, FS_EmptySet DEF Init, ReadersCounted, WritersCounted
<1>4. \A t \in Tasks : held[t] = <<>> /\ Len(held[t]) = 0 /\ wait[t].for = "none"
  BY DEF Init, NotWaiting
<1>5. DepthBounded /\ ReadersHeld /\ WriterHeld /\ WaitingReads
  BY <1>4, LockAssumption DEF Init, DepthBounded, ReadersHeld, WriterHeld, WaitingReads
<1> QED
  BY <1>1, <1>3, <1>5 DEF IInv

LEMMA NextIInv == IInv /\ [Next]_vars => IInv'
<1> SUFFICES ASSUME IInv, [Next]_vars PROVE IInv'
  OBVIOUS
<1>1. ASSUME NEW t \in Tasks, Enter(t) PROVE IInv'
  BY <1>1, KeptByEnter
<1>2. ASSUME NEW t \in Tasks, Resume(t) PROVE IInv'
  BY <1>2, KeptByResume
<1>3. ASSUME NEW t \in Tasks, GiveUp(t) PROVE IInv'
  BY <1>3, KeptByGiveUp
<1>4. ASSUME NEW t \in Tasks, Leave(t) PROVE IInv'
  BY <1>4, KeptByLeaveReadUnderWrite, KeptByReleaseRead, KeptByReleaseWrite DEF Leave
<1>5. CASE UNCHANGED vars
  BY <1>5 DEF vars, lock, IInv, TypeOK, ReadersCounted, ReadSlots, WritersCounted, Writers,
              DepthBounded, ReadersHeld, WriterHeld, WaitingReads
<1> QED
  BY <1>1, <1>2, <1>3, <1>4, <1>5 DEF Next

LEMMA Invariant == Spec => []IInv
BY InitIInv, NextIInv, PTL DEF Spec

-----------------------------------------------------------------------------
(* What follows from it *)

\* Every reachable state is well typed: the counters never go below zero and
\* never exceed what the tasks can hold (release_read, acquire_write).
THEOREM TypeCorrect == Spec => []TypeOK
<1>1. IInv => TypeOK
  BY DEF IInv
<1> QED
  BY <1>1, Invariant, PTL

LEMMA WriterIsTask ==
    ASSUME IInv, NEW t \in Tasks, Writes(t)
    PROVE  writerTask = t
<1>1. PICK i \in DOMAIN held[t] : held[t][i] = "write"
  BY DEF Writes
<1>2. held[t] \in Seq(Kinds)
  BY DEF IInv, TypeOK
<1>3. i \in 1..Len(held[t])
  BY <1>1, <1>2
<1> QED
  BY <1>1, <1>3 DEF IInv, ReadersHeld

LEMMA OthersHoldNothing ==
    ASSUME IInv, activeReaders = 0, NEW t \in Tasks, writerTask # t
    PROVE  held[t] = <<>>
<1>1. readerDepths[t] = 0
  BY NoReaders DEF IInv
<1>2. Len(held[t]) = 0
  BY <1>1 DEF IInv, ReadersHeld
<1>3. held[t] \in Seq(Kinds)
  BY DEF IInv, TypeOK
<1> QED
  BY <1>2, <1>3, EmptySeq

\* Whoever is inside a write section is alone: for any number of tasks and
\* any nesting, and whoever gives up (acquire_read, acquire_write and their
\* releases).
THEOREM MutualExclusion == Spec => []WriterIsAlone
<1>1. IInv => WriterIsAlone
  <2> SUFFICES ASSUME IInv, NEW t \in Tasks, NEW u \in Tasks, t # u, Writes(t)
               PROVE  held[u] = <<>>
    BY DEF WriterIsAlone
  <2>1. writerTask = t /\ t # NoTask
    BY WriterIsTask, LockAssumption
  <2>2. activeReaders = 0
    BY <2>1 DEF IInv, WriterHeld
  <2> QED
    BY <2>1, <2>2, OthersHoldNothing
<1> QED
  BY <1>1, Invariant, PTL

\* No release of a section that was entered raises: release_read and
\* release_write find the task that calls them.
THEOREM ReleasesAreLegal == Spec => []ReleaseIsLegal
<1>1. IInv => ReleaseIsLegal
  <2> SUFFICES ASSUME IInv, NEW t \in Tasks, held[t] # <<>>, writerTask # t
               PROVE  held[t][Len(held[t])] = "read" /\ readerDepths[t] > 0
    BY DEF ReleaseIsLegal
  <2>1. Len(held[t]) \in Nat /\ Len(held[t]) # 0
    BY EmptySeq DEF IInv, TypeOK
  <2> QED
    BY <2>1 DEF IInv, ReadersHeld
<1> QED
  BY <1>1, Invariant, PTL

-----------------------------------------------------------------------------
(* No wakeup is lost *)

\* NoLostWakeup of one task.
Told(t) ==
    (wait[t].for = "read" /\ MayRead) \/ (wait[t].for = "write" /\ MayWrite) => wait[t].woken

LEMMA AllTold ==
    ASSUME IInv, wait' = NotifyAll(wait)
    PROVE  NoLostWakeup'
<1>1. wait \in [Tasks -> Waits]
  BY DEF IInv, TypeOK, Waits
<1> QED
  BY <1>1, Notified DEF NoLostWakeup

LEMMA NoLostWakeupStep == IInv /\ NoLostWakeup /\ [Next]_vars => NoLostWakeup'
<1> SUFFICES ASSUME IInv, NoLostWakeup, [Next]_vars PROVE NoLostWakeup'
  OBVIOUS
<1>0. /\ wait \in [Tasks -> Waits] /\ activeReaders \in Nat /\ waitingWriters \in Nat
      /\ \A t \in Tasks : Told(t)
  BY DEF IInv, TypeOK, Waits, NoLostWakeup, Told
<1>1. ASSUME NEW t \in Tasks, Suspend(t, "read") \/ Suspend(t, "write"),
             UNCHANGED <<writerTask, activeReaders>>,
             waitingWriters' \in Nat, waitingWriters' = waitingWriters \/ waitingWriters' > 0,
             Suspend(t, "read") => ~MayRead', Suspend(t, "write") => ~MayWrite'
      PROVE  NoLostWakeup'
  <2> SUFFICES ASSUME NEW u \in Tasks PROVE Told(u)'
    BY DEF NoLostWakeup, Told
  <2>1. MayRead' => MayRead
    BY <1>1 DEF MayRead
  <2>2. MayWrite' <=> MayWrite
    BY <1>1 DEF MayWrite
  <2>3. CASE u = t
    <3>1. CASE Suspend(t, "read")
      <4>1. wait'[t].for = "read"
        BY <1>0, <3>1 DEF Suspend
      <4> QED
        BY <1>1, <2>3, <3>1, <4>1 DEF Told
    <3>2. CASE Suspend(t, "write")
      <4>1. wait'[t].for = "write"
        BY <1>0, <3>2 DEF Suspend
      <4> QED
        BY <1>1, <2>3, <3>2, <4>1 DEF Told
    <3> QED
      BY <1>1, <3>1, <3>2
  <2>4. CASE u # t
    <3>1. wait'[u] = wait[u]
      BY <1>0, <1>1, <2>4 DEF Suspend
    <3> QED
      BY <1>0, <2>1, <2>2, <3>1 DEF Told
  <2> QED
    BY <2>3, <2>4
<1>2. ASSUME NEW t \in Tasks, UNCHANGED <<writerTask, waitingWriters>>,
             activeReaders' \in Nat \ {0}, wait'[t].for = "none",
             \A u \in Tasks \ {t} : wait'[u] = wait[u]
      PROVE  NoLostWakeup'
  <2> SUFFICES ASSUME NEW u \in Tasks PROVE Told(u)'
    BY DEF NoLostWakeup, Told
  <2>1. ~MayWrite' /\ (MayRead' <=> MayRead)
    BY <1>2 DEF MayWrite, MayRead
  <2> QED
    BY <1>0, <1>2, <2>1 DEF Told
<1>3. ASSUME NEW t \in Tasks, writerTask' = t PROVE NoLostWakeup'
  BY <1>3, LockAssumption DEF NoLostWakeup, MayRead, MayWrite
<1>4. ASSUME UNCHANGED <<lock, wait>> PROVE NoLostWakeup'
  BY <1>4 DEF NoLostWakeup, MayRead, MayWrite, lock
<1>5. ASSUME NEW t \in Tasks, AddReader(t) PROVE activeReaders' \in Nat \ {0}
  BY <1>0, <1>5 DEF AddReader
<1>6. ASSUME NEW t \in Tasks, Enter(t) PROVE NoLostWakeup'
  <2>1. CASE ReadUnderWrite(t)
    BY <2>1, <1>4 DEF ReadUnderWrite
  <2>2. CASE WriteAgain(t)
    BY <2>2, <1>3 DEF WriteAgain
  <2>3. CASE ReadAgain(t)
    BY <2>3, <1>2, <1>5 DEF ReadAgain, MayEnter, Running
  <2>4. CASE AcquireRead(t)
    <3>1. CASE AddReader(t) /\ UNCHANGED <<writerTask, writerDepth, waitingWriters, wait>>
      BY <2>4, <3>1, <1>2, <1>5 DEF AcquireRead, MayEnter, Running
    <3>2. CASE ~MayRead /\ Suspend(t, "read") /\ UNCHANGED lock
      <4>1. ~MayRead' /\ ~Suspend(t, "write")
        BY <1>0, <3>2 DEF MayRead, lock, Suspend
      <4> QED
        BY <1>0, <1>1, <3>2, <4>1 DEF lock
    <3> QED
      BY <2>4, <3>1, <3>2 DEF AcquireRead
  <2>5. CASE AcquireWrite(t)
    <3>1. CASE TakeWrite(t)
      BY <3>1, <1>3 DEF TakeWrite
    <3>2. CASE /\ ~MayWrite /\ Suspend(t, "write") /\ waitingWriters' = waitingWriters + 1
               /\ UNCHANGED <<writerTask, activeReaders>>
      <4>1. ~MayWrite' /\ ~Suspend(t, "read") /\ waitingWriters' \in Nat /\ waitingWriters' > 0
        BY <1>0, <3>2 DEF MayWrite, Suspend
      <4> QED
        BY <1>1, <3>2, <4>1
    <3> QED
      BY <2>5, <3>1, <3>2 DEF AcquireWrite
  <2> QED
    BY <1>6, <2>1, <2>2, <2>3, <2>4, <2>5 DEF Enter
<1>7. ASSUME NEW t \in Tasks, Resume(t) PROVE NoLostWakeup'
  <2>1. CASE ResumeRead(t)
    <3>1. CASE /\ AddReader(t) /\ wait' = [wait EXCEPT ![t] = NotWaiting]
               /\ UNCHANGED <<writerTask, writerDepth, waitingWriters, uses>>
      BY <3>1, <1>0, <1>2, <1>5, ResumedWait
    <3>2. CASE ~MayRead /\ Suspend(t, "read") /\ UNCHANGED lock
      <4>1. ~MayRead' /\ ~Suspend(t, "write")
        BY <1>0, <3>2 DEF MayRead, lock, Suspend
      <4> QED
        BY <1>0, <1>1, <3>2, <4>1 DEF lock
    <3> QED
      BY <2>1, <3>1, <3>2 DEF ResumeRead
  <2>2. CASE ResumeWrite(t)
    <3>1. CASE TakeWrite(t)
      BY <3>1, <1>3 DEF TakeWrite
    <3>2. CASE ~MayWrite /\ Suspend(t, "write") /\ UNCHANGED lock
      <4>1. ~MayWrite' /\ ~Suspend(t, "read")
        BY <1>0, <3>2 DEF MayWrite, lock, Suspend
      <4> QED
        BY <1>0, <1>1, <3>2, <4>1 DEF lock
    <3> QED
      BY <2>2, <3>1, <3>2 DEF ResumeWrite
  <2> QED
    BY <1>7, <2>1, <2>2 DEF Resume
<1>8. ASSUME NEW t \in Tasks, GiveUp(t) PROVE NoLostWakeup'
  <2> DEFINE w == [wait EXCEPT ![t] = NotWaiting]
  <2>1. w \in [Tasks -> Waits] /\ w[t].for = "none" /\ \A u \in Tasks \ {t} : w[u] = wait[u]
    BY <1>0 DEF NotWaiting, Waits
  <2>2. UNCHANGED <<writerTask, activeReaders>> /\ (wait' = w \/ wait' = NotifyAll(w))
    BY <1>8 DEF GiveUp
  <2>3. CASE wait' = NotifyAll(w)
    <3> HIDE DEF w
    <3> QED
      BY <2>1, <2>3, Notified DEF NoLostWakeup
  <2>4. CASE wait' = w
    <3>1. MayRead' => MayRead \/ wait' = NotifyAll(w)
      <4>1. CASE wait[t].for = "write"
        BY <1>8, <2>2, <4>1 DEF GiveUp, MayRead
      <4>2. CASE wait[t].for # "write"
        BY <1>8, <2>2, <4>2 DEF GiveUp, MayRead
      <4> QED
        BY <4>1, <4>2
    <3>2. MayWrite' => MayWrite
      BY <2>2 DEF MayWrite
    <3> HIDE DEF w
    <3>3. CASE ~(MayRead' => MayRead)
      BY <3>1, <3>3, <2>3
    <3>4. CASE MayRead' => MayRead
      <4> SUFFICES ASSUME NEW u \in Tasks PROVE Told(u)'
        BY DEF NoLostWakeup, Told
      <4> QED
        BY <1>0, <2>1, <2>4, <3>2, <3>4 DEF Told
    <3> QED
      BY <3>3, <3>4
  <2> QED
    BY <2>2, <2>3, <2>4
<1>9. ASSUME NEW t \in Tasks, Leave(t) PROVE NoLostWakeup'
  <2>1. CASE LeaveReadUnderWrite(t)
    BY <2>1, <1>4 DEF LeaveReadUnderWrite
  <2>2. CASE ReleaseRead(t)
    <3>1. CASE wait' = NotifyAll(wait)
      BY <3>1, AllTold
    <3>2. CASE activeReaders' # 0 /\ wait' = wait
      BY <2>2, <3>2, <1>0 DEF ReleaseRead, NoLostWakeup, MayRead, MayWrite, Told
    <3> QED
      BY <2>2, <3>1, <3>2 DEF ReleaseRead
  <2>3. CASE ReleaseWrite(t)
    <3>1. CASE wait' = NotifyAll(wait)
      BY <3>1, AllTold
    <3>2. CASE wait' # NotifyAll(wait)
      BY <2>3, <3>2, <1>3 DEF ReleaseWrite
    <3> QED
      BY <3>1, <3>2
  <2> QED
    BY <1>9, <2>1, <2>2, <2>3 DEF Leave
<1>10. CASE UNCHANGED vars
  BY <1>10, <1>4 DEF vars
<1> QED
  BY <1>6, <1>7, <1>8, <1>9, <1>10 DEF Next

\* No task waits for what is free without having been notified: the condition
\* of AioRWLock is notified wherever its predicates may have become true.
THEOREM NoWakeupIsLost == Spec => []NoLostWakeup
<1>1. Init => NoLostWakeup
  BY DEF Init, NoLostWakeup, NotWaiting
<1> QED
  BY <1>1, NoLostWakeupStep, Invariant, PTL DEF Spec

-----------------------------------------------------------------------------
(* The lock implements RWLock *)

reading == {t \in Tasks : Reads(t)}
writing == {t \in Tasks : Writes(t)}

LEMMA SectionKinds ==
    ASSUME TypeOK, NEW t \in Tasks
    PROVE  /\ DOMAIN held[t] = 1..Len(held[t]) /\ Len(held[t]) \in Nat
           /\ Reads(t) <=> \E i \in 1..Len(held[t]) : held[t][i] = "read"
           /\ Writes(t) <=> \E i \in 1..Len(held[t]) : held[t][i] = "write"
<1>1. held[t] \in Seq(Kinds)
  BY DEF TypeOK
<1>2. DOMAIN held[t] = 1..Len(held[t]) /\ Len(held[t]) \in Nat
  BY <1>1
<1> QED
  BY <1>2 DEF Reads, Writes

LEMMA EnteredSets ==
    ASSUME TypeOK, TypeOK', NEW t \in Tasks, NEW kind \in Kinds, Enters(t, kind)
    PROVE  /\ reading' = IF kind = "read" THEN reading \union {t} ELSE reading
           /\ writing' = IF kind = "write" THEN writing \union {t} ELSE writing
<1>1. /\ \A u \in Tasks \ {t} : held'[u] = held[u]
      /\ Len(held[t]) \in Nat /\ Len(held'[t]) = Len(held[t]) + 1
      /\ \A i \in 1..Len(held[t]) : held'[t][i] = held[t][i]
      /\ held'[t][Len(held[t]) + 1] = kind
  BY Entered
<1>2. \A u \in Tasks \ {t} : (Reads(u)' <=> Reads(u)) /\ (Writes(u)' <=> Writes(u))
  BY <1>1 DEF Reads, Writes
<1>3. \A i : i \in 1..Len(held'[t]) <=> i \in 1..Len(held[t]) \/ i = Len(held[t]) + 1
  BY <1>1
<1>4. /\ Reads(t)' <=> \E i \in 1..Len(held'[t]) : held'[t][i] = "read"
      /\ Writes(t)' <=> \E i \in 1..Len(held'[t]) : held'[t][i] = "write"
  <2>1. held'[t] \in Seq(Kinds)
    BY DEF TypeOK
  <2>2. DOMAIN held'[t] = 1..Len(held'[t])
    BY <2>1
  <2> QED
    BY <2>2 DEF Reads, Writes
<1>5. (Reads(t)' <=> Reads(t) \/ kind = "read") /\ (Writes(t)' <=> Writes(t) \/ kind = "write")
  BY <1>1, <1>3, <1>4, SectionKinds
<1> QED
  BY <1>2, <1>5 DEF reading, writing

LEMMA LeftSets ==
    ASSUME TypeOK, TypeOK', NEW t \in Tasks, NEW kind \in Kinds, Leaves(t, kind)
    PROVE  /\ kind = "write" => reading' = reading
           /\ kind = "read" => writing' = writing
           /\ reading' \in {reading, reading \ {t}}
           /\ \A u \in Tasks \ {t} : (u \in writing' <=> u \in writing) /\ (u \in reading' <=> u \in reading)
           /\ kind \in {"read", "write"}
           /\ kind = "read" => t \in reading
           /\ kind = "write" => t \in writing
<1>1. /\ \A u \in Tasks \ {t} : held'[u] = held[u]
      /\ Len(held[t]) \in Nat \ {0} /\ Len(held'[t]) = Len(held[t]) - 1
      /\ \A i \in 1..Len(held'[t]) : held'[t][i] = held[t][i]
      /\ held[t][Len(held[t])] = kind
  BY Left
<1>2. \A u \in Tasks \ {t} : (Reads(u)' <=> Reads(u)) /\ (Writes(u)' <=> Writes(u))
  BY <1>1 DEF Reads, Writes
<1>3. \A i : i \in 1..Len(held[t]) <=> i \in 1..Len(held'[t]) \/ i = Len(held[t])
  BY <1>1
<1>4. /\ Reads(t)' <=> \E i \in 1..Len(held'[t]) : held'[t][i] = "read"
      /\ Writes(t)' <=> \E i \in 1..Len(held'[t]) : held'[t][i] = "write"
  <2>1. held'[t] \in Seq(Kinds)
    BY DEF TypeOK
  <2>2. DOMAIN held'[t] = 1..Len(held'[t])
    BY <2>1
  <2> QED
    BY <2>2 DEF Reads, Writes
<1>5. /\ Reads(t) <=> Reads(t)' \/ kind = "read"
      /\ Writes(t) <=> Writes(t)' \/ kind = "write"
  BY <1>1, <1>3, <1>4, SectionKinds
<1> QED
  BY <1>2, <1>5 DEF reading, writing, Kinds

LEMMA AbstractStep == IInv /\ [Next]_vars => [Abstract!Next]_(Abstract!vars)
<1> SUFFICES ASSUME IInv, Next PROVE Abstract!Next \/ UNCHANGED <<reading, writing>>
  <2>1. UNCHANGED vars => UNCHANGED <<reading, writing>>
    BY DEF vars, reading, writing, Reads, Writes
  <2>2. Abstract!vars = <<reading, writing>>
    BY DEF Abstract!vars, reading, writing
  <2> QED
    BY <2>1, <2>2 DEF Abstract!vars, reading, writing
<1>0. TypeOK /\ TypeOK'
  BY NextIInv DEF IInv
<1>1. \A u \in Tasks : u \in writing => writerTask = u
  BY WriterIsTask DEF writing
<1>2. writerTask = NoTask => writing = {}
  BY <1>1, LockAssumption DEF writing
<1>3. \A u \in Tasks : held[u] = <<>> => u \notin reading /\ u \notin writing
  BY DEF reading, writing, Reads, Writes
<1>4. ASSUME NEW t \in Tasks, Enters(t, "read"), writing \subseteq {t} PROVE Abstract!Next
  <2>1. reading' = reading \union {t} /\ writing' = writing
    BY <1>0, <1>4, EnteredSets DEF Kinds
  <2>2. Abstract!EnterRead(t)
    BY <1>4, <2>1 DEF Abstract!EnterRead, reading, writing
  <2> QED
    BY <2>2 DEF Abstract!Next
<1>5. ASSUME NEW t \in Tasks, Enters(t, "write"), MayWrite PROVE Abstract!Next
  <2>1. reading' = reading /\ writing' = writing \union {t}
    BY <1>0, <1>5, EnteredSets DEF Kinds
  <2>2. \A u \in Tasks : held[u] = <<>>
    BY <1>5, OthersHoldNothing, LockAssumption DEF MayWrite
  <2>3. reading = {} /\ writing = {}
    BY <1>3, <2>2 DEF reading, writing
  <2>4. Abstract!EnterWrite(t)
    BY <2>1, <2>3 DEF Abstract!EnterWrite, reading, writing
  <2> QED
    BY <2>4 DEF Abstract!Next
<1>6. ASSUME UNCHANGED held PROVE UNCHANGED <<reading, writing>>
  BY <1>6 DEF reading, writing, Reads, Writes
<1>7. ASSUME NEW t \in Tasks, Enter(t) PROVE Abstract!Next \/ UNCHANGED <<reading, writing>>
  <2>1. CASE ReadUnderWrite(t)
    BY <2>1, <1>1, <1>4 DEF ReadUnderWrite, writing
  <2>2. CASE ReadAgain(t)
    <3>1. readerDepths[t] # 0
      BY <1>0, <2>2 DEF ReadAgain, TypeOK
    <3>2. writerTask = NoTask
      BY <3>1, NoReaders DEF IInv, WriterHeld
    <3> QED
      BY <1>2, <1>4, <2>2, <3>2 DEF ReadAgain
  <2>3. CASE AcquireRead(t)
    BY <2>3, <1>2, <1>4, <1>6 DEF AcquireRead, MayRead
  <2>4. CASE WriteAgain(t)
    <3>1. writerTask = t /\ Enters(t, "write") /\ t # NoTask
      BY <2>4, LockAssumption DEF WriteAgain
    <3>2. held[t] # <<>> /\ held[t][1] = "write"
      BY <3>1 DEF IInv, WriterHeld
    <3>3. 1 \in 1..Len(held[t])
      BY <1>0, <3>2, EmptySeq DEF TypeOK
    <3>4. t \in writing
      BY <1>0, <3>2, <3>3, SectionKinds DEF writing
    <3>5. writing' = writing \union {t} /\ reading' = reading
      BY <1>0, <3>1, EnteredSets DEF Kinds
    <3> QED
      BY <3>4, <3>5
  <2>5. CASE AcquireWrite(t)
    BY <2>5, <1>5, <1>6 DEF AcquireWrite
  <2> QED
    BY <1>7, <2>1, <2>2, <2>3, <2>4, <2>5 DEF Enter
<1>8. ASSUME NEW t \in Tasks, Resume(t) PROVE Abstract!Next \/ UNCHANGED <<reading, writing>>
  BY <1>8, <1>2, <1>4, <1>5, <1>6 DEF Resume, ResumeRead, ResumeWrite, MayRead
<1>9. ASSUME NEW t \in Tasks, GiveUp(t) PROVE UNCHANGED <<reading, writing>>
  BY <1>9, <1>6 DEF GiveUp
<1>10. ASSUME NEW t \in Tasks, Leaves(t, "read")
       PROVE  Abstract!Next \/ UNCHANGED <<reading, writing>>
  <2>1. writing' = writing /\ reading' \in {reading, reading \ {t}} /\ t \in reading
    BY <1>0, <1>10, LeftSets DEF Kinds
  <2>2. CASE reading' = reading \ {t}
    <3>1. Abstract!LeaveRead(t)
      BY <2>1, <2>2 DEF Abstract!LeaveRead, reading, writing
    <3> QED
      BY <3>1 DEF Abstract!Next
  <2> QED
    BY <2>1, <2>2
<1>11. ASSUME NEW t \in Tasks, ReleaseWrite(t)
       PROVE  Abstract!Next \/ UNCHANGED <<reading, writing>>
  <2>0. Leaves(t, "write") /\ writerTask = t /\ t # NoTask
    BY <1>11, LockAssumption DEF ReleaseWrite
  <2>1. /\ reading' = reading /\ t \in writing
        /\ \A u \in Tasks \ {t} : u \in writing' <=> u \in writing
    BY <1>0, <2>0, LeftSets DEF Kinds
  <2>2. CASE t \in writing'
    <3>1. writing' = writing
      BY <2>1, <2>2 DEF writing
    <3> QED
      BY <2>1, <3>1
  <2>3. CASE t \notin writing'
    <3>1. writing' = writing \ {t}
      BY <2>1, <2>3 DEF writing
    <3>2. held'[t] = <<>>
      <4>1. writerDepth' = 0 => held'[t] = <<>>
        BY <1>11, KeptByReleaseWrite
      <4>2. IInv'
        BY NextIInv
      <4>3. CASE writerDepth' # 0
        <5>1. writerTask' = t
          BY <1>11, <2>0, <4>3 DEF ReleaseWrite
        <5>2. held'[t] # <<>> /\ held'[t][1] = "write"
          BY <2>0, <4>2, <5>1 DEF IInv, WriterHeld
        <5>3. held'[t] \in Seq(Kinds)
          BY <1>0 DEF TypeOK
        <5>4. DOMAIN held'[t] = 1..Len(held'[t]) /\ 1 \in 1..Len(held'[t])
          BY <5>2, <5>3, EmptySeq
        <5> QED
          BY <2>3, <5>2, <5>4 DEF writing, Writes
      <4> QED
        BY <4>1, <4>3
    <3>3. t \notin reading
      BY <2>1, <3>2 DEF reading, Reads
    <3>4. Abstract!LeaveWrite(t)
      BY <2>1, <3>1, <3>3 DEF Abstract!LeaveWrite, reading, writing
    <3> QED
      BY <3>4 DEF Abstract!Next
  <2> QED
    BY <2>2, <2>3
<1> QED
  BY <1>7, <1>8, <1>9, <1>10, <1>11 DEF Next, Leave, LeaveReadUnderWrite, ReleaseRead

\* AioRWLock is a read-write lock: what its callers see of it, the sections
\* they are in, is a behaviour of RWLock.
THEOREM Implements == Spec => ImplementsRWLock
<1>1. Init => Abstract!Init
  BY DEF Init, Abstract!Init, Reads, Writes
<1> QED
  BY <1>1, AbstractStep, Invariant, PTL DEF Spec, ImplementsRWLock, Abstract!Spec
=============================================================================
