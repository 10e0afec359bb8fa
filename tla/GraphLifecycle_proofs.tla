----------------------- MODULE GraphLifecycle_proofs -----------------------
(***************************************************************************)
(* Proofs about GraphLifecycle for any number of instances, slots,         *)
(* versions and process deaths.  First the types and the owner of an       *)
(* instance.  Then what the stored status says of the task that owns it:   *)
(* the inductive invariant IInv ties each working task to the latest row   *)
(* of its instance; from it follow the invariants of the lifecycle and     *)
(* recovery runs, the two action properties, and that GraphLifecycle       *)
(* implements the table of InstanceLifecycle.                              *)
(*                                                                         *)
(* For the second part the steps are reduced to a few kinds (StepKind): an *)
(* admission, a step of the working task, the start of a finalize-only     *)
(* stop, a release, a process death, a sweep, a creation, and steps that   *)
(* touch neither rows nor tasks.                                           *)
(***************************************************************************)
EXTENDS GraphLifecycle, TLAPS, SequenceTheorems

(* Type correctness *)

LEMMA NoRunType == NoRun \in RunRecord
BY BoundAssumption DEF NoRun, RunRecord, Phases, Terminal

\* An admission keeps every type.
LEMMA AdmitType ==
    ASSUME TypeOK, NEW g \in Instances, NEW s \in Slots, NEW mode, Admit(g, s, mode)
    PROVE  /\ version' \in [Instances -> 0..MaxVersion]
           /\ row' \in [Instances -> [0..MaxVersion -> Statuses]]
           /\ runVer' \in [Instances -> 0..MaxVersion]
           /\ executor' \in [Instances -> Nat]
           /\ run' \in [Instances -> [Slots -> RunRecord]]
           /\ owner' \in [Instances -> Slots \union {0}]
           /\ live' \subseteq Instances
           /\ outq' \in [Instances -> Seq(Statuses)]
<1> USE BoundAssumption DEF TypeOK
<1>1. AdmitRows(g, mode)
  BY DEF Admit, AdmitAssembled, AdmitFails
<1>2. version[g] + 1 \in 0..MaxVersion
  BY <1>1 DEF AdmitRows
<1>3. row' \in [Instances -> [0..MaxVersion -> Statuses]]
  BY <1>1 DEF AdmitRows, BeginInvocation, Statuses, Active, Terminal
<1>4. Len(outq[g]) + 1 \in Nat
  OBVIOUS
<1>5. NewRun(g, "starting", "CRASHED", Len(outq[g]) + 1) \in RunRecord
  BY <1>2, <1>4 DEF NewRun, NoRun, RunRecord, Phases, Terminal
<1>6. NewRun(g, "draining", "CRASHED", 0) \in RunRecord
  BY <1>2 DEF NewRun, NoRun, RunRecord, Phases, Terminal
<1>7. Append(outq[g], "RUNNING") \in Seq(Statuses)
  BY DEF Statuses, Active
<1>8. version' \in [Instances -> 0..MaxVersion] /\ runVer' \in [Instances -> 0..MaxVersion]
  BY <1>1, <1>2 DEF AdmitRows
<1>9. executor' \in [Instances -> Nat]
  BY <1>1 DEF AdmitRows
<1>10. run[g] \in [Slots -> RunRecord]
  OBVIOUS
<1>11. run' \in [Instances -> [Slots -> RunRecord]]
  <2>1. \E r \in RunRecord : run' = [run EXCEPT ![g][s] = r]
    BY <1>5, <1>6 DEF Admit, AdmitAssembled, AdmitFails
  <2> QED BY <1>10, <2>1
<1>12. owner' \in [Instances -> Slots \union {0}]
  <2>1. owner' = [owner EXCEPT ![g] = s]
    BY DEF Admit, AdmitAssembled, AdmitFails
  <2> QED BY <2>1
<1>14. live' \subseteq Instances
  BY DEF Admit, AdmitAssembled, AdmitFails
<1>13. outq' \in [Instances -> Seq(Statuses)]
  BY <1>7 DEF Admit, AdmitAssembled, AdmitFails
<1> QED BY <1>3, <1>8, <1>9, <1>11, <1>12, <1>13, <1>14

LEMMA CurrentRecord ==
    ASSUME TypeOK, NEW g \in Instances, NEW s \in Slots
    PROVE  run[g][s] \in RunRecord
BY DEF TypeOK

\* The update both status-writing steps of the finalization make.
LEMMA FinalRecord ==
    ASSUME NEW r \in RunRecord, NEW ph \in Phases, NEW w \in Nat, NEW f \in Terminal \union {"PAUSED"}
    PROVE  [r EXCEPT !.phase = ph, !.wait = w, !.final = f, !.outcome = f] \in RunRecord
BY DEF RunRecord

\* One task moves: replacing one record by a record keeps the type of run.
LEMMA RunType ==
    ASSUME TypeOK, NEW g \in Instances, NEW s \in Slots, NEW r \in RunRecord,
           run' = [run EXCEPT ![g][s] = r]
    PROVE  run' \in [Instances -> [Slots -> RunRecord]]
<1>1. run[g] \in [Slots -> RunRecord]
  BY DEF TypeOK
<1> QED BY <1>1 DEF TypeOK

\* Writing the latest status keeps the type of the rows.
LEMMA UpdateStatusType ==
    ASSUME TypeOK, NEW g \in Instances, NEW st \in Statuses
    PROVE  UpdateStatus(g, st) \in [Instances -> [0..MaxVersion -> Statuses]]
BY DEF TypeOK, UpdateStatus

LEMMA SetStatusType ==
    ASSUME TypeOK, NEW g \in Instances, NEW st \in Statuses, SetStatus(g, st)
    PROVE  /\ row' \in [Instances -> [0..MaxVersion -> Statuses]]
           /\ outq' \in [Instances -> Seq(Statuses)]
<1>1. row' \in [Instances -> [0..MaxVersion -> Statuses]]
  BY UpdateStatusType DEF SetStatus
<1>2. Append(outq[g], st) \in Seq(Statuses)
  BY DEF TypeOK
<1> QED BY <1>1, <1>2 DEF SetStatus, TypeOK

\* The actions that move one task and leave the rest alone.
LEMMA ConcludeType ==
    ASSUME TypeOK, NEW g \in Instances, NEW s \in Slots, NEW o \in Terminal \union {"PAUSED"},
           NEW k \in {"no", "error", "interrupt", "cancel"}, Conclude(g, s, o, k)
    PROVE  TypeOK'
<1> DEFINE r == [run[g][s] EXCEPT !.phase = "draining", !.outcome = o, !.final = o, !.raised = k]
<1>1. run[g][s] \in RunRecord
  BY DEF TypeOK
<1>2. r \in RunRecord
  BY <1>1 DEF RunRecord, Phases
<1>3. run' = [run EXCEPT ![g][s] = r]
  BY DEF Conclude, TypeOK
<1>4. run' \in [Instances -> [Slots -> RunRecord]]
  BY <1>2, <1>3, RunType
<1> QED BY <1>4 DEF Conclude, TypeOK, durable

\* The memory of a fresh process is well typed.
LEMMA ForgetMemoryType ==
    ASSUME TypeOK, ForgetMemory
    PROVE  /\ epoch' \in Nat
           /\ run' \in [Instances -> [Slots -> RunRecord]]
           /\ owner' \in [Instances -> Slots \union {0}]
           /\ live' \subseteq Instances
           /\ outq' \in [Instances -> Seq(Statuses)]
           /\ seen' \in [Instances -> Statuses]
           /\ recov' \in [active : BOOLEAN, todo : SUBSET Instances, at : SUBSET (Instances \X Slots)]
BY NoRunType DEF ForgetMemory, TypeOK, NoRecovery, Statuses

LEMMA InitType == Init => TypeOK
BY NoRunType, BoundAssumption DEF Init, TypeOK, NoRecovery, Statuses

LEMMA NextType == TypeOK /\ [Next]_vars => TypeOK'
<1> SUFFICES ASSUME TypeOK, [Next]_vars
             PROVE  TypeOK'
  OBVIOUS
<1> USE BoundAssumption
<1>1. ASSUME NEW g \in Instances, CreateInstance(g)
      PROVE  TypeOK'
  <2>1. "PENDING" \in Statuses
    BY DEF Statuses
  <2> QED BY <1>1, <2>1, UpdateStatusType DEF CreateInstance, TypeOK
<1>2. ASSUME NEW g \in Instances, StartFresh(g)
      PROVE  TypeOK'
  BY <1>2, AdmitType DEF StartFresh, TypeOK, FreeSlots
<1>3. ASSUME NEW g \in Instances, StartResume(g)
      PROVE  TypeOK'
  BY <1>3, AdmitType DEF StartResume, TypeOK, FreeSlots
<1>4. ASSUME NEW g \in Instances, RecoverStart(g)
      PROVE  TypeOK'
  <2>1. PICK s \in FreeSlots(g) :
            /\ Admit(g, s, "RECOVERY")
            /\ recov' = [active |-> TRUE, at |-> {<<g, s>>},
                         todo |-> {h \in Instances \ {g} : Status(h) = "CRASHED"}]
    BY <1>4 DEF RecoverStart
  <2>2. s \in Slots
    BY DEF FreeSlots
  <2>3. recov' \in [active : BOOLEAN, todo : SUBSET Instances, at : SUBSET (Instances \X Slots)]
    BY <2>1, <2>2
  <2> QED BY <1>4, <2>1, <2>2, <2>3, AdmitType DEF RecoverStart, TypeOK
<1>5. ASSUME NEW g \in Instances, RecoverNext(g)
      PROVE  TypeOK'
  <2>1. PICK s \in FreeSlots(g) :
            /\ Admit(g, s, "RECOVERY")
            /\ recov' = [recov EXCEPT !.todo = @ \ {g}, !.at = {<<g, s>>}]
    BY <1>5 DEF RecoverNext
  <2>2. s \in Slots
    BY DEF FreeSlots
  <2>3. recov \in [active : BOOLEAN, todo : SUBSET Instances, at : SUBSET (Instances \X Slots)]
    BY DEF TypeOK
  <2>4. recov.todo \ {g} \in SUBSET Instances /\ {<<g, s>>} \in SUBSET (Instances \X Slots)
    BY <2>2, <2>3
  <2>5. recov' \in [active : BOOLEAN, todo : SUBSET Instances, at : SUBSET (Instances \X Slots)]
    BY <2>1, <2>3, <2>4
  <2> QED BY <1>5, <2>1, <2>2, <2>5, AdmitType DEF RecoverNext, TypeOK
<1>6. ASSUME NEW g \in Instances, RecoverSkip(g)
      PROVE  TypeOK'
  BY <1>6 DEF RecoverSkip, TypeOK, durable
<1>7. ASSUME NEW g \in Instances, EmitStatus(g)
      PROVE  TypeOK'
  <2>1. Head(outq[g]) \in Statuses /\ Tail(outq[g]) \in Seq(Statuses)
    BY <1>7 DEF EmitStatus, TypeOK
  <2>2. ASSUME NEW s \in Slots PROVE [run[g][s] EXCEPT !.wait = IF @ > 0 THEN @ - 1 ELSE 0] \in RunRecord
    BY CurrentRecord DEF RunRecord
  <2>3. run' \in [Instances -> [Slots -> RunRecord]]
    BY <1>7, <2>2 DEF EmitStatus, TypeOK
  <2> QED BY <1>7, <2>1, <2>3 DEF EmitStatus, TypeOK, durable
<1>8. ASSUME NEW g \in Instances, Unregister(g)
      PROVE  TypeOK'
  BY <1>8 DEF Unregister, TypeOK, durable
<1>9. ASSUME NEW g \in Instances, LookupCoordinator(g)
      PROVE  TypeOK'
  BY <1>9 DEF LookupCoordinator, TypeOK, durable
<1>10. ASSUME NEW g \in Instances, DiesInAdmission(g)
      PROVE  TypeOK'
  <2>1. version[g] + 1 \in 0..MaxVersion
    BY <1>10 DEF DiesInAdmission, TypeOK
  <2>2. row' \in [Instances -> [0..MaxVersion -> Statuses]]
    BY <1>10 DEF DiesInAdmission, BeginInvocation, TypeOK, Statuses, Active, Terminal
  <2> QED BY <1>10, <2>1, <2>2, ForgetMemoryType DEF DiesInAdmission, TypeOK
<1>11. ASSUME NEW g \in Instances, NEW s \in Slots, RequestPause(g, s)
      PROVE  TypeOK'
  <2>1. [run[g][s] EXCEPT !.pause = TRUE] \in RunRecord
    BY CurrentRecord DEF RunRecord
  <2>2. run' = [run EXCEPT ![g][s] = [run[g][s] EXCEPT !.pause = TRUE]]
    BY <1>11 DEF RequestPause, TypeOK
  <2>3. run' \in [Instances -> [Slots -> RunRecord]]
    BY <2>1, <2>2, RunType
  <2>4. SetStatus(g, "PAUSING") /\ "PAUSING" \in Statuses
    BY <1>11 DEF RequestPause, Statuses, Active
  <2> QED BY <1>11, <2>3, <2>4, SetStatusType DEF RequestPause, TypeOK
<1>12. ASSUME NEW g \in Instances, NEW s \in Slots, RequestStop(g, s)
      PROVE  TypeOK'
  <2>1. [run[g][s] EXCEPT !.stop = TRUE] \in RunRecord
    BY CurrentRecord DEF RunRecord
  <2>2. run' = [run EXCEPT ![g][s] = [run[g][s] EXCEPT !.stop = TRUE]]
    BY <1>12 DEF RequestStop, TypeOK
  <2>3. run' \in [Instances -> [Slots -> RunRecord]]
    BY <2>1, <2>2, RunType
  <2>4. SetStatus(g, "STOPPING") /\ "STOPPING" \in Statuses
    BY <1>12 DEF RequestStop, Statuses, Active
  <2> QED BY <1>12, <2>3, <2>4, SetStatusType DEF RequestStop, TypeOK
<1>13. ASSUME NEW g \in Instances, NEW s \in Slots, StopPaused(g, s)
      PROVE  TypeOK'
  <2> DEFINE r == [NoRun EXCEPT !.phase = "draining", !.stop = TRUE, !.final = "STOPPED"]
  <2>1. r \in RunRecord
    BY NoRunType DEF RunRecord, Phases, Terminal
  <2>2. run' = [run EXCEPT ![g][s] = r]
    BY <1>13 DEF StopPaused
  <2>3. run' \in [Instances -> [Slots -> RunRecord]]
    BY <2>1, <2>2, RunType
  <2>4. SetStatus(g, "STOPPING") /\ "STOPPING" \in Statuses
    BY <1>13 DEF StopPaused, Statuses, Active
  <2> QED BY <1>13, <2>3, <2>4, SetStatusType DEF StopPaused, TypeOK
<1>14. ASSUME NEW g \in Instances, NEW s \in Slots, EngineReturns(g, s)
      PROVE  TypeOK'
  BY <1>14, ConcludeType DEF EngineReturns, Terminal
<1>15. ASSUME NEW g \in Instances, NEW s \in Slots, EngineInterrupted(g, s)
      PROVE  TypeOK'
  BY <1>15, ConcludeType DEF EngineInterrupted, Terminal
<1>16. ASSUME NEW g \in Instances, NEW s \in Slots, EngineFaults(g, s)
      PROVE  TypeOK'
  BY <1>16, ConcludeType DEF EngineFaults, Terminal
<1>17. ASSUME NEW g \in Instances, NEW s \in Slots, Cancelled(g, s)
      PROVE  TypeOK'
  BY <1>17, ConcludeType DEF Cancelled, Terminal
<1>18. ASSUME NEW g \in Instances, NEW s \in Slots, RunningEmitted(g, s)
      PROVE  TypeOK'
  <2> DEFINE r == [run[g][s] EXCEPT !.phase = "running"]
  <2>1. r \in RunRecord
    BY CurrentRecord DEF RunRecord, Phases
  <2>2. run' = [run EXCEPT ![g][s] = r]
    BY <1>18 DEF RunningEmitted, TypeOK
  <2>3. run' \in [Instances -> [Slots -> RunRecord]]
    BY <2>1, <2>2, RunType
  <2> QED BY <1>18, <2>3 DEF RunningEmitted, TypeOK, durable
<1>19. ASSUME NEW g \in Instances, NEW s \in Slots, EngineDrained(g, s)
      PROVE  TypeOK'
  BY <1>19, ConcludeType DEF EngineDrained, Terminal
<1>20. ASSUME NEW g \in Instances, NEW s \in Slots, DrainOutput(g, s)
      PROVE  TypeOK'
  <2> DEFINE r == [run[g][s] EXCEPT !.phase = "flushing", !.wait = Len(outq[g])]
  <2>0. Len(outq[g]) \in Nat
    BY DEF TypeOK
  <2>1. r \in RunRecord
    <3>1. "flushing" \in Phases
      BY DEF Phases
    <3> QED BY <2>0, <3>1, CurrentRecord DEF RunRecord
  <2>2. run' = [run EXCEPT ![g][s] = r]
    BY <1>20 DEF DrainOutput, TypeOK
  <2>3. run' \in [Instances -> [Slots -> RunRecord]]
    BY <2>1, <2>2, RunType
  <2> QED BY <1>20, <2>3 DEF DrainOutput, TypeOK, durable
<1>21. ASSUME NEW g \in Instances, NEW s \in Slots, WriteFinal(g, s)
      PROVE  TypeOK'
  <2> DEFINE f == Upgraded(run[g][s])
             d == f \in {"PAUSED", "STOPPED"}
             r == [run[g][s] EXCEPT !.phase = IF d THEN "emitting" ELSE "output",
                                    !.wait = Len(outq'[g]), !.final = f, !.outcome = f]
  <2>1. f \in Terminal \union {"PAUSED"} /\ f \in Statuses
    BY DEF TypeOK, RunRecord, Upgraded, Terminal, Statuses
  <2>2. UpdateStatus(g, f) \in [Instances -> [0..MaxVersion -> Statuses]]
    BY <2>1, UpdateStatusType
  <2>3. row' \in [Instances -> [0..MaxVersion -> Statuses]]
    <3>1. run[g][s].ver \in 0..MaxVersion
      BY CurrentRecord DEF RunRecord
    <3>2. row' \in {UpdateStatus(g, f), FinalizeInvocation(UpdateStatus(g, f), g, run[g][s].ver)}
      BY <1>21 DEF WriteFinal
    <3> QED BY <2>2, <3>1, <3>2 DEF FinalizeInvocation, Statuses, Terminal
  <2>4. Append(outq[g], f) \in Seq(Statuses)
    BY <2>1 DEF TypeOK
  <2>5. outq' \in [Instances -> Seq(Statuses)]
    BY <1>21, <2>4 DEF WriteFinal, TypeOK
  <2>6. Len(outq'[g]) \in Nat
    BY <2>5
  <2>7. r \in RunRecord
    <3>1. (IF d THEN "emitting" ELSE "output") \in Phases
      BY DEF Phases
    <3> HIDE DEF f, d
    <3> QED BY <2>1, <2>6, <3>1, CurrentRecord, FinalRecord
  <2>8. run' = [run EXCEPT ![g][s] = r]
    BY <1>21 DEF WriteFinal
  <2>9. run' \in [Instances -> [Slots -> RunRecord]]
    BY <2>7, <2>8, RunType
  <2> QED BY <1>21, <2>3, <2>5, <2>9 DEF WriteFinal, TypeOK
<1>22. ASSUME NEW g \in Instances, NEW s \in Slots, UpgradeToStopped(g, s)
      PROVE  TypeOK'
  <2> DEFINE r == [run[g][s] EXCEPT !.phase = "upgrading", !.wait = Len(outq[g]) + 1,
                                    !.final = "STOPPED", !.outcome = "STOPPED"]
  <2>1. Len(outq[g]) + 1 \in Nat
    BY DEF TypeOK
  <2>2. r \in RunRecord
    BY <2>1, CurrentRecord, FinalRecord DEF Phases, Terminal
  <2>3. run' = [run EXCEPT ![g][s] = r]
    BY <1>22 DEF UpgradeToStopped, TypeOK
  <2>4. run' \in [Instances -> [Slots -> RunRecord]]
    BY <2>2, <2>3, RunType
  <2>5. SetStatus(g, "STOPPED") /\ "STOPPED" \in Statuses
    BY <1>22 DEF UpgradeToStopped, Statuses, Terminal
  <2> QED BY <1>22, <2>4, <2>5, SetStatusType DEF UpgradeToStopped, TypeOK
<1>23. ASSUME NEW g \in Instances, NEW s \in Slots, FinishDrained(g, s)
      PROVE  TypeOK'
  <2> DEFINE r == [run[g][s] EXCEPT !.phase = IF run[g][s].engine THEN "settled" ELSE "done"]
  <2>1. r \in RunRecord
    BY CurrentRecord DEF RunRecord, Phases
  <2>2. Settle(g, s, run[g][s]) /\ run' = [run EXCEPT ![g][s] = r]
    BY <1>23 DEF FinishDrained, Settle
  <2>3. run' \in [Instances -> [Slots -> RunRecord]]
    BY <2>1, <2>2, RunType
  <2>4. seen' \in [Instances -> Statuses]
    BY <1>23 DEF FinishDrained, TypeOK, RunRecord, Statuses, Terminal
  <2>5. live' \subseteq Instances
    BY <2>2 DEF Settle, TypeOK
  <2> QED BY <2>2, <2>3, <2>4, <2>5 DEF Settle, TypeOK, durable
<1>24. ASSUME NEW g \in Instances, NEW s \in Slots, FinishOutput(g, s)
      PROVE  TypeOK'
  <2> DEFINE r == [run[g][s] EXCEPT !.phase = IF run[g][s].engine THEN "settled" ELSE "done"]
  <2>1. r \in RunRecord
    BY CurrentRecord DEF RunRecord, Phases
  <2>2. Settle(g, s, run[g][s]) /\ run' = [run EXCEPT ![g][s] = r]
    BY <1>24 DEF FinishOutput, Settle
  <2>3. run' \in [Instances -> [Slots -> RunRecord]]
    BY <2>1, <2>2, RunType
  <2>4. seen' \in [Instances -> Statuses]
    BY <1>24 DEF FinishOutput, TypeOK, RunRecord, Statuses, Terminal
  <2>5. live' \subseteq Instances
    BY <2>2 DEF Settle, TypeOK
  <2> QED BY <2>2, <2>3, <2>4, <2>5 DEF Settle, TypeOK, durable
<1>25. ASSUME NEW g \in Instances, NEW s \in Slots, ExecuteEnds(g, s)
      PROVE  TypeOK'
  <2> DEFINE r == [run[g][s] EXCEPT !.phase = "done"]
  <2>1. r \in RunRecord
    BY CurrentRecord DEF RunRecord, Phases
  <2>2. run' = [run EXCEPT ![g][s] = r]
    BY <1>25 DEF ExecuteEnds, TypeOK
  <2>3. run' \in [Instances -> [Slots -> RunRecord]]
    BY <2>1, <2>2, RunType
  <2> QED BY <1>25, <2>3 DEF ExecuteEnds, TypeOK, durable
<1>26. ASSUME NEW g \in Instances, NEW s \in Slots, Release(g, s)
      PROVE  TypeOK'
  <2>1. run' \in [Instances -> [Slots -> RunRecord]]
    BY <1>26, NoRunType, RunType DEF Release
  <2>2. owner' \in [Instances -> Slots \union {0}]
    BY <1>26 DEF Release, TypeOK
  <2>3. recov' \in [active : BOOLEAN, todo : SUBSET Instances, at : SUBSET (Instances \X Slots)]
    BY <1>26 DEF Release, TypeOK, NoRecovery
  <2> QED BY <1>26, <2>1, <2>2, <2>3 DEF Release, TypeOK, durable
<1>27. CASE RecoverEnd
  BY <1>27 DEF RecoverEnd, NoRecovery, TypeOK, durable
<1>28. CASE ProcessDies
  BY <1>28, ForgetMemoryType DEF ProcessDies, TypeOK, durable
<1>29. CASE Sweep
  BY <1>29 DEF Sweep, TypeOK, memory, Statuses, Terminal
<1>30. CASE UNCHANGED vars
  BY <1>30 DEF vars, TypeOK
<1> QED
  BY <1>1, <1>2, <1>3, <1>4, <1>5, <1>6, <1>7, <1>8, <1>9, <1>10, <1>11, <1>12, <1>13, <1>14, <1>15, <1>16, <1>17, <1>18, <1>19, <1>20, <1>21, <1>22, <1>23, <1>24, <1>25, <1>26, <1>27, <1>28, <1>29, <1>30 DEF Next, Progress

\* Type correctness.
THEOREM TypeCorrect == Spec => []TypeOK
<1>1. Init => TypeOK
  BY InitType
<1>2. TypeOK /\ [Next]_vars => TypeOK'
  BY NextType
<1> QED BY <1>1, <1>2, PTL DEF Spec

-----------------------------------------------------------------------------
(* One owner *)

\* An idle instance has no working task.
LEMMA IdleNotWorking ==
    ASSUME TypeOK, OneOwner, NEW g \in Instances, Idle(g)
    PROVE  \A s \in Slots : ~Working(g, s)
BY InstancesAssumption DEF OneOwner, Idle

\* Only task s of g moves.
OnlyMoves(g, s) ==
    \A h \in Instances, u \in Slots : ~(h = g /\ u = s) => run'[h][u] = run[h][u]

LEMMA OneRecordMoves ==
    ASSUME TypeOK, NEW g \in Instances, NEW s \in Slots, NEW r, run' = [run EXCEPT ![g][s] = r]
    PROVE  OnlyMoves(g, s) /\ run'[g][s] = r
<1>1. run[g] \in [Slots -> RunRecord]
  BY DEF TypeOK
<1> QED BY <1>1 DEF TypeOK, OnlyMoves

\* Whatever a working task does, the instance keeps its one owner.
LEMMA OwnerKept ==
    ASSUME TypeOK, OneOwner, NEW g \in Instances, NEW s \in Slots,
           OnlyMoves(g, s), Working(g, s), UNCHANGED owner
    PROVE  OneOwner'
<1> SUFFICES ASSUME NEW h \in Instances, NEW u \in Slots, Working(h, u)'
             PROVE  owner[h] = u
  BY DEF OneOwner
<1>1. CASE h = g /\ u = s
  BY <1>1 DEF OneOwner
<1>2. CASE ~(h = g /\ u = s)
  BY <1>2 DEF OneOwner, Working, OnlyMoves
<1> QED BY <1>1, <1>2

LEMMA ConcludeMoves ==
    ASSUME TypeOK, NEW g \in Instances, NEW s \in Slots, NEW o, NEW k, Conclude(g, s, o, k)
    PROVE  OnlyMoves(g, s) /\ UNCHANGED owner
BY DEF Conclude, OnlyMoves, TypeOK

LEMMA OwnerTaken ==
    ASSUME TypeOK, OneOwner, NEW g \in Instances, NEW s \in Slots, NEW r,
           \A u \in Slots : ~Working(g, u),
           run' = [run EXCEPT ![g][s] = r],
           owner' = [owner EXCEPT ![g] = s]
    PROVE  OneOwner'
<1> SUFFICES ASSUME NEW h \in Instances, NEW u \in Slots, Working(h, u)'
             PROVE  owner'[h] = u
  BY DEF OneOwner
<1>1. run[g] \in [Slots -> RunRecord]
  BY DEF TypeOK
<1>2. CASE h = g
  <2>1. u = s
    BY <1>1, <1>2 DEF Working, TypeOK
  <2> QED BY <1>2, <2>1 DEF TypeOK
<1>3. CASE h # g
  BY <1>1, <1>3 DEF OneOwner, Working, TypeOK
<1> QED BY <1>2, <1>3

LEMMA AdmitOwner ==
    ASSUME TypeOK, OneOwner, NEW g \in Instances, NEW s \in Slots, NEW mode, Admit(g, s, mode)
    PROVE  OneOwner'
<1>1. Idle(g)
  BY DEF Admit, AdmitAssembled, AdmitFails, CanStart
<1>2. PICK r : run' = [run EXCEPT ![g][s] = r]
  BY DEF Admit, AdmitAssembled, AdmitFails
<1>3. owner' = [owner EXCEPT ![g] = s]
  BY DEF Admit, AdmitAssembled, AdmitFails
<1> QED BY <1>1, <1>2, <1>3, IdleNotWorking, OwnerTaken

LEMMA NextOwner == TypeOK /\ OneOwner /\ [Next]_vars => OneOwner'
<1> SUFFICES ASSUME TypeOK, OneOwner, [Next]_vars
             PROVE  OneOwner'
  OBVIOUS
<1>1. ASSUME NEW g \in Instances, CreateInstance(g)
      PROVE  OneOwner'
  BY <1>1 DEF CreateInstance, OneOwner, Working
<1>2. ASSUME NEW g \in Instances, RecoverSkip(g)
      PROVE  OneOwner'
  BY <1>2 DEF RecoverSkip, OneOwner, Working
<1>3. ASSUME NEW g \in Instances, Unregister(g)
      PROVE  OneOwner'
  BY <1>3 DEF Unregister, OneOwner, Working
<1>4. ASSUME NEW g \in Instances, LookupCoordinator(g)
      PROVE  OneOwner'
  BY <1>4 DEF LookupCoordinator, OneOwner, Working
<1>5. ASSUME NEW g \in Instances, StartFresh(g)
      PROVE  OneOwner'
  BY <1>5, AdmitOwner DEF StartFresh, FreeSlots
<1>6. ASSUME NEW g \in Instances, StartResume(g)
      PROVE  OneOwner'
  BY <1>6, AdmitOwner DEF StartResume, FreeSlots
<1>7. ASSUME NEW g \in Instances, RecoverStart(g)
      PROVE  OneOwner'
  BY <1>7, AdmitOwner DEF RecoverStart, FreeSlots
<1>8. ASSUME NEW g \in Instances, RecoverNext(g)
      PROVE  OneOwner'
  BY <1>8, AdmitOwner DEF RecoverNext, FreeSlots
<1>9. ASSUME NEW g \in Instances, EmitStatus(g)
      PROVE  OneOwner'
  <2>1. \A s \in Slots : run'[g][s].phase = run[g][s].phase
    BY <1>9, CurrentRecord DEF EmitStatus, TypeOK, RunRecord
  <2>2. \A h \in Instances, s \in Slots : Working(h, s)' => Working(h, s)
    BY <1>9, <2>1 DEF EmitStatus, Working, TypeOK
  <2> QED BY <1>9, <2>2 DEF EmitStatus, OneOwner
<1>10. ASSUME NEW g \in Instances, DiesInAdmission(g)
      PROVE  OneOwner'
  BY <1>10, NoRunType DEF DiesInAdmission, ForgetMemory, OneOwner, Working, NoRun
<1>11. ASSUME NEW g \in Instances, NEW s \in Slots, RequestPause(g, s)
      PROVE  OneOwner'
  <2>1. OnlyMoves(g, s) /\ UNCHANGED owner
    BY <1>11 DEF RequestPause, OnlyMoves, TypeOK
  <2>2. ASSUME Working(g, s)' PROVE Working(g, s)
    BY <1>11, <2>2, CurrentRecord DEF RequestPause, Working, TypeOK, RunRecord
  <2> SUFFICES ASSUME NEW h \in Instances, NEW u \in Slots, Working(h, u)'
               PROVE  owner[h] = u
    BY <2>1 DEF OneOwner
  <2> QED BY <2>1, <2>2 DEF OneOwner, Working, OnlyMoves
<1>12. ASSUME NEW g \in Instances, NEW s \in Slots, RequestStop(g, s)
      PROVE  OneOwner'
  <2>1. OnlyMoves(g, s) /\ UNCHANGED owner
    BY <1>12 DEF RequestStop, OnlyMoves, TypeOK
  <2>2. ASSUME Working(g, s)' PROVE Working(g, s)
    BY <1>12, <2>2, CurrentRecord DEF RequestStop, Working, TypeOK, RunRecord
  <2> SUFFICES ASSUME NEW h \in Instances, NEW u \in Slots, Working(h, u)'
               PROVE  owner[h] = u
    BY <2>1 DEF OneOwner
  <2> QED BY <2>1, <2>2 DEF OneOwner, Working, OnlyMoves
<1>13. ASSUME NEW g \in Instances, NEW s \in Slots, StopPaused(g, s)
      PROVE  OneOwner'
  <2>1. \A u \in Slots : ~Working(g, u)
    BY <1>13 DEF StopPaused, LiveOwner, OneOwner, Working
  <2> QED BY <1>13, <2>1, OwnerTaken DEF StopPaused
<1>14. ASSUME NEW g \in Instances, NEW s \in Slots, EngineReturns(g, s)
      PROVE  OneOwner'
  <2>1. Working(g, s)
    BY <1>14 DEF EngineReturns, Working
  <2>2. OnlyMoves(g, s) /\ UNCHANGED owner
    BY <1>14, ConcludeMoves DEF EngineReturns
  <2> QED BY <2>1, <2>2, OwnerKept
<1>15. ASSUME NEW g \in Instances, NEW s \in Slots, EngineInterrupted(g, s)
      PROVE  OneOwner'
  <2>1. Working(g, s)
    BY <1>15 DEF EngineInterrupted, Working
  <2>2. OnlyMoves(g, s) /\ UNCHANGED owner
    BY <1>15, ConcludeMoves DEF EngineInterrupted
  <2> QED BY <2>1, <2>2, OwnerKept
<1>16. ASSUME NEW g \in Instances, NEW s \in Slots, EngineFaults(g, s)
      PROVE  OneOwner'
  <2>1. Working(g, s)
    BY <1>16 DEF EngineFaults, Working
  <2>2. OnlyMoves(g, s) /\ UNCHANGED owner
    BY <1>16, ConcludeMoves DEF EngineFaults
  <2> QED BY <2>1, <2>2, OwnerKept
<1>17. ASSUME NEW g \in Instances, NEW s \in Slots, Cancelled(g, s)
      PROVE  OneOwner'
  <2>1. Working(g, s)
    BY <1>17 DEF Cancelled, Working
  <2>2. OnlyMoves(g, s) /\ UNCHANGED owner
    BY <1>17, ConcludeMoves DEF Cancelled
  <2> QED BY <2>1, <2>2, OwnerKept
<1>18. ASSUME NEW g \in Instances, NEW s \in Slots, EngineDrained(g, s)
      PROVE  OneOwner'
  <2>1. Working(g, s)
    BY <1>18 DEF EngineDrained, Working
  <2>2. OnlyMoves(g, s) /\ UNCHANGED owner
    BY <1>18, ConcludeMoves DEF EngineDrained
  <2> QED BY <2>1, <2>2, OwnerKept
<1>19. ASSUME NEW g \in Instances, NEW s \in Slots, RunningEmitted(g, s)
      PROVE  OneOwner'
  <2>1. Working(g, s)
    BY <1>19 DEF RunningEmitted, Working
  <2>2. OnlyMoves(g, s) /\ UNCHANGED owner
    BY <1>19 DEF RunningEmitted, OnlyMoves, TypeOK
  <2> QED BY <2>1, <2>2, OwnerKept
<1>20. ASSUME NEW g \in Instances, NEW s \in Slots, DrainOutput(g, s)
      PROVE  OneOwner'
  <2>1. Working(g, s)
    BY <1>20 DEF DrainOutput, Working
  <2>2. OnlyMoves(g, s) /\ UNCHANGED owner
    BY <1>20 DEF DrainOutput, OnlyMoves, TypeOK
  <2> QED BY <2>1, <2>2, OwnerKept
<1>21. ASSUME NEW g \in Instances, NEW s \in Slots, WriteFinal(g, s)
      PROVE  OneOwner'
  <2>1. Working(g, s)
    BY <1>21 DEF WriteFinal, Working
  <2>2. OnlyMoves(g, s) /\ UNCHANGED owner
    BY <1>21 DEF WriteFinal, OnlyMoves, TypeOK
  <2> QED BY <2>1, <2>2, OwnerKept
<1>22. ASSUME NEW g \in Instances, NEW s \in Slots, UpgradeToStopped(g, s)
      PROVE  OneOwner'
  <2>1. Working(g, s)
    BY <1>22 DEF UpgradeToStopped, Working
  <2>2. OnlyMoves(g, s) /\ UNCHANGED owner
    BY <1>22 DEF UpgradeToStopped, OnlyMoves, TypeOK
  <2> QED BY <2>1, <2>2, OwnerKept
<1>23. ASSUME NEW g \in Instances, NEW s \in Slots, ExecuteEnds(g, s)
      PROVE  OneOwner'
  <2>1. Working(g, s)
    BY <1>23 DEF ExecuteEnds, Working
  <2>2. OnlyMoves(g, s) /\ UNCHANGED owner
    BY <1>23 DEF ExecuteEnds, OnlyMoves, TypeOK
  <2> QED BY <2>1, <2>2, OwnerKept
<1>24. ASSUME NEW g \in Instances, NEW s \in Slots, FinishDrained(g, s)
      PROVE  OneOwner'
  <2>1. Working(g, s)
    BY <1>24 DEF FinishDrained, Working
  <2>2. OnlyMoves(g, s) /\ UNCHANGED owner
    BY <1>24 DEF FinishDrained, OnlyMoves, TypeOK, Settle
  <2> QED BY <2>1, <2>2, OwnerKept
<1>25. ASSUME NEW g \in Instances, NEW s \in Slots, FinishOutput(g, s)
      PROVE  OneOwner'
  <2>1. Working(g, s)
    BY <1>25 DEF FinishOutput, Working
  <2>2. OnlyMoves(g, s) /\ UNCHANGED owner
    BY <1>25 DEF FinishOutput, OnlyMoves, TypeOK, Settle
  <2> QED BY <2>1, <2>2, OwnerKept
<1>26. ASSUME NEW g \in Instances, NEW s \in Slots, Release(g, s)
      PROVE  OneOwner'
  <2>1. ~Working(g, s) /\ run' = [run EXCEPT ![g][s] = NoRun]
    BY <1>26 DEF Release, Working
  <2> SUFFICES ASSUME NEW h \in Instances, NEW u \in Slots, Working(h, u)'
               PROVE  owner'[h] = u
    BY DEF OneOwner
  <2>2. run[g] \in [Slots -> RunRecord]
    BY DEF TypeOK
  <2>3. ~(h = g /\ u = s)
    BY <2>1, <2>2 DEF Working, NoRun, TypeOK
  <2>4. Working(h, u)
    BY <2>1, <2>2, <2>3 DEF Working, TypeOK
  <2> QED BY <1>26, <2>3, <2>4 DEF Release, OneOwner, TypeOK
<1>27. CASE RecoverEnd
  BY <1>27 DEF RecoverEnd, OneOwner, Working
<1>28. CASE ProcessDies
  BY <1>28, NoRunType DEF ProcessDies, ForgetMemory, OneOwner, Working, NoRun
<1>29. CASE Sweep
  BY <1>29 DEF Sweep, OneOwner, Working, memory
<1>30. CASE UNCHANGED vars
  BY <1>30 DEF vars, OneOwner, Working
<1> QED
  BY <1>1, <1>2, <1>3, <1>4, <1>5, <1>6, <1>7, <1>8, <1>9, <1>10, <1>11, <1>12, <1>13, <1>14, <1>15, <1>16, <1>17, <1>18, <1>19, <1>20, <1>21, <1>22, <1>23, <1>24, <1>25, <1>26, <1>27, <1>28, <1>29, <1>30 DEF Next, Progress

\* At most one task works on an instance and _executions points to it.
THEOREM SingleOwner == Spec => []OneOwner
<1>1. Init => OneOwner
  BY DEF Init, OneOwner, Working, NoRun
<1>2. TypeOK /\ OneOwner /\ [Next]_vars => OneOwner'
  BY NextOwner
<1> QED BY <1>1, <1>2, TypeCorrect, PTL DEF Spec

-----------------------------------------------------------------------------
(* The inductive invariant: what the status of a row says of the task that
   owns its instance *)

\* The status that the control of a running task implies.
Announced(r) == IF r.stop THEN "STOPPING" ELSE IF r.pause THEN "PAUSING" ELSE "RUNNING"

\* The status of a task that has written its final one: a stop may have come since.
Concluded(r) == IF r.final = "PAUSED" /\ r.stop THEN "STOPPING" ELSE r.final

\* A task that runs the engine works on the latest row, which this process
\* claims, and the status of that row follows from its record.
EngineFits(g, r) ==
    /\ r.ver = version[g] /\ executor[g] = epoch
    /\ r.phase \in {"starting", "running"} =>
          r.outcome = "none" /\ Status(g) = Announced(r) /\ g \in live
    /\ r.phase \in {"draining", "flushing"} =>
          r.outcome = r.final /\ r.final # "STOPPED" /\ Status(g) = Announced(r)
    /\ r.phase \in {"emitting", "upgrading", "output", "settled"} =>
          r.outcome = r.final /\ Status(g) = Concluded(r)
    /\ r.phase = "emitting" => r.final \in {"PAUSED", "STOPPED"}
    /\ r.phase = "upgrading" => r.final = "STOPPED"
    /\ r.phase = "output" => r.final \notin {"PAUSED", "STOPPED"}

\* A task that finalizes the stop of a paused instance claims nothing: a sweep
\* may close the row before it does.
StopFits(g, r) ==
    /\ r.stop /\ r.final = "STOPPED"
    /\ r.phase \in {"draining", "flushing", "emitting"}
    /\ r.phase # "emitting" => r.outcome = "none" /\ Status(g) \in {"STOPPING", "CRASHED"}
    /\ r.phase = "emitting" => r.outcome = "STOPPED" /\ Status(g) = "STOPPED"

TaskFits(g, s) == IF run[g][s].engine THEN EngineFits(g, run[g][s]) ELSE StopFits(g, run[g][s])

Fits == \A g \in Instances, s \in Slots : Working(g, s) => TaskFits(g, s)

\* _executions points to a task that has not been released.
OwnerIsTask ==
    \A g \in Instances : owner[g] # 0 => run[g][owner[g]].phase # "none"

\* No process claims a row for a later one, and no row is ahead of its version.
RowsFit ==
    \A g \in Instances :
        /\ executor[g] <= epoch
        /\ \A v \in 0..MaxVersion : v > version[g] => row[g][v] = "ABSENT"

IInv == OneOwner /\ Fits /\ OwnerIsTask /\ RowsFit /\ ActiveHasOwner /\ RecoveryWaitsOnOwner

-----------------------------------------------------------------------------
(* What the steps do *)

Admission(g) == StartFresh(g) \/ StartResume(g) \/ RecoverStart(g) \/ RecoverNext(g)

\* The statuses that admit an execution.
Startable == {"PENDING", "PAUSED", "COMPLETED", "FAILED", "CRASHED"}

\* What an admission does to its instance and its task.
Admitted(g, s) ==
    /\ Status(g) \in Startable
    /\ OnlyMoves(g, s) /\ run[g][s].phase = "none" /\ owner' = [owner EXCEPT ![g] = s]
    /\ epoch' = epoch /\ live \subseteq live'
    /\ version' = [version EXCEPT ![g] = @ + 1] /\ version[g] < MaxVersion
    /\ executor' = [executor EXCEPT ![g] = epoch]
    /\ row' = BeginInvocation(g)
    /\ LET r == run'[g][s]
       IN  /\ r.engine /\ r.ver = version[g] + 1 /\ ~r.pause /\ ~r.stop /\ r.final = "CRASHED"
           /\ \/ r.phase = "starting" /\ r.outcome = "none" /\ g \in live'
              \/ r.phase = "draining" /\ r.outcome = "CRASHED"

\* Every admission admits one task; a recovery that waits, waits for it.
LEMMA AdmissionEffect ==
  ASSUME TypeOK, NEW g \in Instances, Admission(g)
  PROVE  \E s \in Slots : Admitted(g, s) /\ (recov' = recov \/ recov'.at = {<<g, s>>})
<1>1. PICK s \in FreeSlots(g), mode \in {"FRESH", "RECOVERY"} :
        /\ Admit(g, s, mode) /\ epoch' = epoch
        /\ recov' = recov \/ recov'.at = {<<g, s>>}
  <2>1. CASE StartFresh(g)
    BY <2>1 DEF StartFresh
  <2>2. CASE StartResume(g)
    BY <2>2 DEF StartResume
  <2>3. CASE RecoverStart(g)
    BY <2>3 DEF RecoverStart
  <2>4. CASE RecoverNext(g)
    <3>1. PICK s \in FreeSlots(g) : Admit(g, s, "RECOVERY")
                 /\ recov' = [recov EXCEPT !.todo = @ \ {g}, !.at = {<<g, s>>}]
      BY <2>4 DEF RecoverNext
    <3>2. recov'.at = {<<g, s>>}
      BY <3>1 DEF TypeOK
    <3> QED BY <2>4, <3>1, <3>2 DEF RecoverNext
  <2> QED BY <2>1, <2>2, <2>3, <2>4 DEF Admission
<1>2. s \in Slots /\ run[g][s].phase = "none"
  BY DEF FreeSlots
<1>3. AdmitRows(g, mode) /\ owner' = [owner EXCEPT ![g] = s] /\ live \subseteq live'
      /\ CanStart(g, mode)
  BY <1>1 DEF Admit, AdmitAssembled, AdmitFails
<1>4. PICK ph \in {"starting", "draining"}, w \in Nat :
        /\ run' = [run EXCEPT ![g][s] = NewRun(g, ph, "CRASHED", w)]
        /\ ph = "starting" => g \in live'
  <2>1. CASE AdmitAssembled(g, s, mode)
    <3>1. Len(outq[g]) + 1 \in Nat
      BY DEF TypeOK
    <3> QED BY <2>1, <3>1 DEF AdmitAssembled
  <2>2. CASE AdmitFails(g, s, mode)
    BY <2>2 DEF AdmitFails
  <2> QED BY <1>1, <2>1, <2>2 DEF Admit
<1>5. OnlyMoves(g, s) /\ run'[g][s] = NewRun(g, ph, "CRASHED", w)
  BY <1>2, <1>4, OneRecordMoves
<1>6. LET r == NewRun(g, ph, "CRASHED", w)
      IN  /\ r.engine /\ r.ver = version[g] + 1 /\ ~r.pause /\ ~r.stop /\ r.final = "CRASHED"
          /\ r.phase = ph /\ r.outcome = IF ph = "draining" THEN "CRASHED" ELSE "none"
  BY DEF NewRun, NoRun
<1>7. Admitted(g, s)
  BY <1>1, <1>2, <1>3, <1>4, <1>5, <1>6 DEF Admitted, AdmitRows, CanStart, Allowed, Startable
<1> QED BY <1>1, <1>2, <1>7

\* The row an admission appends is the latest one, and it is RUNNING.
LEMMA AdmittedRow ==
  ASSUME TypeOK, NEW g \in Instances, version[g] < MaxVersion,
         version' = [version EXCEPT ![g] = @ + 1], row' = BeginInvocation(g)
  PROVE  /\ version'[g] = version[g] + 1 /\ Status(g)' = "RUNNING"
         /\ \A h \in Instances : h # g => row'[h] = row[h] /\ version'[h] = version[h]
         /\ \A v \in 0..MaxVersion : v > version[g] + 1 => row'[g][v] = row[g][v]
         /\ \A v \in 0..MaxVersion : v < version[g] + 1 =>
                row'[g][v] = row[g][v] \/ row[g][v] \in Active
<1>1. version[g] \in 0..MaxVersion /\ version[g] + 1 \in 0..MaxVersion
  BY BoundAssumption DEF TypeOK
<1>2. row' = [row EXCEPT ![g] = [v \in 0..MaxVersion |->
        IF v = version[g] + 1 THEN "RUNNING"
        ELSE IF v = version[g] /\ row[g][v] \in Active THEN "CRASHED"
        ELSE row[g][v]]]
  BY DEF BeginInvocation
<1>3. row'[g] = [v \in 0..MaxVersion |->
        IF v = version[g] + 1 THEN "RUNNING"
        ELSE IF v = version[g] /\ row[g][v] \in Active THEN "CRASHED"
        ELSE row[g][v]]
  BY <1>2 DEF TypeOK
<1>4. \A h \in Instances : h # g => row'[h] = row[h] /\ version'[h] = version[h]
  BY <1>2 DEF TypeOK
<1>5. version'[g] = version[g] + 1
  BY DEF TypeOK
<1>6. Status(g)' = "RUNNING"
  BY <1>1, <1>3, <1>5 DEF Status
<1>7. ASSUME NEW v \in 0..MaxVersion
      PROVE  /\ v > version[g] + 1 => row'[g][v] = row[g][v]
             /\ v < version[g] + 1 => row'[g][v] = row[g][v] \/ row[g][v] \in Active
  BY <1>1, <1>3
<1> QED BY <1>4, <1>5, <1>6, <1>7

\* The latest status, written.
LEMMA StatusWritten ==
  ASSUME TypeOK, NEW g \in Instances, NEW st, row' = UpdateStatus(g, st), version' = version
  PROVE  /\ Status(g)' = st
         /\ \A h \in Instances : h # g => row'[h] = row[h] /\ Status(h)' = Status(h)
         /\ \A v \in 0..MaxVersion : v # version[g] => row'[g][v] = row[g][v]
BY DEF TypeOK, UpdateStatus, Status

\* What the final write does: the latest row gets the final status, and no
\* other row changes.
LEMMA FinalWritten ==
  ASSUME TypeOK, NEW g \in Instances, NEW s \in Slots, WriteFinal(g, s),
         run[g][s].engine => run[g][s].ver = version[g]
  PROVE  LET f == Upgraded(run[g][s])
         IN  /\ row' = UpdateStatus(g, f)
             /\ OnlyMoves(g, s)
             /\ run'[g][s].phase = IF f \in {"PAUSED", "STOPPED"} THEN "emitting" ELSE "output"
             /\ run'[g][s].final = f /\ run'[g][s].outcome = f
             /\ run'[g][s].engine = run[g][s].engine /\ run'[g][s].ver = run[g][s].ver
             /\ run'[g][s].stop = run[g][s].stop /\ run'[g][s].pause = run[g][s].pause
<1> DEFINE f == Upgraded(run[g][s])
           d == f \in {"PAUSED", "STOPPED"}
           r == [run[g][s] EXCEPT !.phase = IF d THEN "emitting" ELSE "output",
                                  !.wait = Len(outq'[g]), !.final = f, !.outcome = f]
<1>1. run[g][s] \in RunRecord
  BY CurrentRecord
<1>2. f \in Terminal \union {"PAUSED"} /\ f \notin Active
  BY <1>1 DEF Upgraded, RunRecord, Terminal, Active
<1>3. run' = [run EXCEPT ![g][s] = r]
  BY DEF WriteFinal
<1>4. OnlyMoves(g, s) /\ run'[g][s] = r
  BY <1>3, OneRecordMoves
<1>5. row' = UpdateStatus(g, f)
  <2>1. UpdateStatus(g, f)[g][version[g]] = f
    BY DEF UpdateStatus, TypeOK
  <2> HIDE DEF f
  <2>2. row' = IF run[g][s].engine THEN FinalizeInvocation(UpdateStatus(g, f), g, run[g][s].ver)
               ELSE UpdateStatus(g, f)
    BY DEF WriteFinal, f
  <2> QED BY <1>2, <2>1, <2>2 DEF FinalizeInvocation
<1> HIDE DEF f
<1> QED BY <1>1, <1>4, <1>5 DEF RunRecord, f

\* The finally clause of _execute records the outcome and nothing else.
LEMMA ConcludeEffect ==
  ASSUME TypeOK, NEW g \in Instances, NEW s \in Slots, NEW o, NEW k, Conclude(g, s, o, k)
  PROVE  /\ OnlyMoves(g, s) /\ UNCHANGED <<durable, epoch, owner, live, recov>>
         /\ run'[g][s].phase = "draining" /\ run'[g][s].outcome = o /\ run'[g][s].final = o
         /\ run'[g][s].engine = run[g][s].engine /\ run'[g][s].ver = run[g][s].ver
         /\ run'[g][s].stop = run[g][s].stop /\ run'[g][s].pause = run[g][s].pause
<1> DEFINE r == [run[g][s] EXCEPT !.phase = "draining", !.outcome = o, !.final = o, !.raised = k]
<1>1. run' = [run EXCEPT ![g][s] = r]
  BY DEF Conclude, TypeOK
<1>2. r.phase = "draining" /\ r.outcome = o /\ r.final = o /\ r.engine = run[g][s].engine
      /\ r.ver = run[g][s].ver /\ r.stop = run[g][s].stop /\ r.pause = run[g][s].pause
  BY CurrentRecord DEF RunRecord
<1> HIDE DEF r
<1>3. OnlyMoves(g, s) /\ run'[g][s] = r
  BY <1>1, OneRecordMoves
<1> QED BY <1>2, <1>3 DEF Conclude

\* The steps that end an execution of the engine.
Ends(g, s) == EngineReturns(g, s) \/ EngineInterrupted(g, s) \/ EngineFaults(g, s)
                  \/ Cancelled(g, s) \/ EngineDrained(g, s)

\* However the engine ends, the finally clause runs.
LEMMA EndsConclude ==
  ASSUME NEW g \in Instances, NEW s \in Slots, Ends(g, s)
  PROVE  /\ run[g][s].phase \in {"starting", "running"}
         /\ \E o \in {"PAUSED", "COMPLETED", "FAILED", "CRASHED"},
               k \in {"no", "error", "interrupt", "cancel"} : Conclude(g, s, o, k)
BY DEF Ends, EngineReturns, EngineInterrupted, EngineFaults, Cancelled, EngineDrained

-----------------------------------------------------------------------------
(* Status and control *)

\* The parts of a task that its status depends on.
SameControl(r, q) ==
    /\ r.engine = q.engine /\ r.ver = q.ver /\ r.phase = q.phase
    /\ r.pause = q.pause /\ r.stop = q.stop /\ r.outcome = q.outcome /\ r.final = q.final

\* A delivered event only moves the tasks that wait for it.
LEMMA EmitEffect ==
  ASSUME TypeOK, NEW g \in Instances, EmitStatus(g)
  PROVE  \A h \in Instances, u \in Slots : SameControl(run'[h][u], run[h][u])
<1> SUFFICES ASSUME NEW h \in Instances, NEW u \in Slots
             PROVE  SameControl(run'[h][u], run[h][u])
  OBVIOUS
<1>1. CASE h = g
  <2>1. PICK w : run'[g][u] = [run[g][u] EXCEPT !.wait = w]
    BY <1>1 DEF EmitStatus, TypeOK
  <2> QED BY <1>1, <2>1, CurrentRecord DEF RunRecord, SameControl
<1>2. CASE h # g
  BY <1>2 DEF EmitStatus, TypeOK, SameControl
<1> QED BY <1>1, <1>2

\* A step that changes neither the rows nor any working task.
LEMMA FitsKept ==
  ASSUME TypeOK, Fits, UNCHANGED <<version, row, executor, epoch>>,
         \A h \in Instances, u \in Slots : Working(h, u)' =>
             /\ Working(h, u) /\ SameControl(run'[h][u], run[h][u])
             /\ h \in live => h \in live'
  PROVE  Fits'
<1> SUFFICES ASSUME NEW h \in Instances, NEW u \in Slots, Working(h, u)'
             PROVE  TaskFits(h, u)'
  BY DEF Fits
<1>1. TaskFits(h, u) /\ SameControl(run'[h][u], run[h][u]) /\ (h \in live => h \in live')
  BY DEF Fits
<1>2. Status(h)' = Status(h)
  BY DEF Status
<1>3. CASE run[h][u].engine
  BY <1>1, <1>2, <1>3 DEF TaskFits, EngineFits, SameControl, Announced, Concluded
<1>4. CASE ~run[h][u].engine
  BY <1>1, <1>2, <1>4 DEF TaskFits, StopFits, SameControl
<1> QED BY <1>3, <1>4

\* A step of the one task of an instance that works.
LEMMA FitsMoved ==
  ASSUME TypeOK, Fits, NEW g \in Instances, NEW s \in Slots, OnlyMoves(g, s), epoch' = epoch,
         \A h \in Instances : h # g =>
             /\ row'[h] = row[h] /\ version'[h] = version[h] /\ executor'[h] = executor[h]
             /\ h \in live => h \in live',
         \A u \in Slots : Working(g, u)' => u = s,
         TaskFits(g, s)'
  PROVE  Fits'
<1> SUFFICES ASSUME NEW h \in Instances, NEW u \in Slots, Working(h, u)', h # g
             PROVE  TaskFits(h, u)'
  BY DEF Fits
<1>1. run'[h][u] = run[h][u] /\ Status(h)' = Status(h)
  BY DEF OnlyMoves, Status
<1>2. TaskFits(h, u)
  BY <1>1 DEF Fits, Working
<1>3. CASE run[h][u].engine
  BY <1>1, <1>2, <1>3 DEF TaskFits, EngineFits
<1>4. CASE ~run[h][u].engine
  BY <1>1, <1>2, <1>4 DEF TaskFits, StopFits
<1> QED BY <1>3, <1>4

\* The owner is the only one that works.
LEMMA OwnerAlone ==
  ASSUME OneOwner, NEW g \in Instances, NEW s \in Slots, owner[g] = s
  PROVE  \A u \in Slots : Working(g, u) => u = s
BY DEF OneOwner

\* The same, after a step.
LEMMA OwnerAloneNext ==
  ASSUME OneOwner', NEW g \in Instances, NEW s \in Slots, owner'[g] = s
  PROVE  \A u \in Slots : Working(g, u)' => u = s
BY DEF OneOwner

\* An admitted task fits the row it appended.
LEMMA AdmissionFits ==
  ASSUME TypeOK, Fits, OneOwner', NEW g \in Instances, Admission(g)
  PROVE  Fits'
<1>1. PICK s \in Slots : Admitted(g, s)
  BY AdmissionEffect
<1>2. /\ version'[g] = version[g] + 1 /\ Status(g)' = "RUNNING"
      /\ \A h \in Instances : h # g => row'[h] = row[h] /\ version'[h] = version[h]
  BY <1>1, AdmittedRow DEF Admitted
<1>3. /\ owner'[g] = s /\ executor'[g] = epoch
      /\ \A h \in Instances : h # g => executor'[h] = executor[h]
  BY <1>1 DEF Admitted, TypeOK
<1>4. TaskFits(g, s)'
  BY <1>1, <1>2, <1>3 DEF Admitted, TaskFits, EngineFits, Announced
<1> QED BY <1>1, <1>2, <1>3, <1>4, FitsMoved, OwnerAloneNext DEF Admitted

\* A run that ended still has the status its control implies.
LEMMA EndsFits ==
  ASSUME TypeOK, OneOwner, Fits, NEW g \in Instances, NEW s \in Slots, Ends(g, s), OneOwner'
  PROVE  Fits'
<1>1. PICK o \in {"PAUSED", "COMPLETED", "FAILED", "CRASHED"},
           k \in {"no", "error", "interrupt", "cancel"} : Conclude(g, s, o, k)
  BY EndsConclude
<1>2. run[g][s].phase \in {"starting", "running"} /\ Working(g, s)
  BY EndsConclude DEF Working
<1>3. /\ OnlyMoves(g, s) /\ UNCHANGED <<durable, epoch, owner, live>>
      /\ run'[g][s].phase = "draining" /\ run'[g][s].outcome = o /\ run'[g][s].final = o
      /\ run'[g][s].engine = run[g][s].engine /\ run'[g][s].ver = run[g][s].ver
      /\ run'[g][s].stop = run[g][s].stop /\ run'[g][s].pause = run[g][s].pause
  BY <1>1, ConcludeEffect
<1>4. TaskFits(g, s) /\ owner[g] = s
  BY <1>2 DEF Fits, OneOwner
<1>5. run[g][s].engine
  BY <1>2, <1>4 DEF TaskFits, StopFits
<1>6. EngineFits(g, run[g][s]) /\ Status(g)' = Status(g)
  BY <1>3, <1>4, <1>5 DEF TaskFits, Status, durable
<1>7. TaskFits(g, s)'
  BY <1>2, <1>3, <1>5, <1>6 DEF TaskFits, EngineFits, Announced, durable
<1> QED BY <1>3, <1>4, <1>7, FitsMoved, OwnerAloneNext DEF durable

\* The task that a request reaches: its row has the status its control
\* implies, and it can still be told.
LEMMA PauseReaches ==
  ASSUME TypeOK, Fits, OwnerIsTask, InstancesAssumption, NEW g \in Instances, NEW s \in Slots,
         LiveOwner(g, s), run[g][s].outcome = "none", ~run[g][s].stop
  PROVE  /\ Working(g, s) /\ run[g][s].engine /\ EngineFits(g, run[g][s])
         /\ run[g][s].phase \in {"starting", "running"}
<1>1. Working(g, s)
  BY DEF LiveOwner, OwnerIsTask, Working, InstancesAssumption
<1>2. TaskFits(g, s) /\ run[g][s] \in RunRecord
  BY <1>1, CurrentRecord DEF Fits
<1>3. run[g][s].engine
  BY <1>2 DEF TaskFits, StopFits
<1>4. EngineFits(g, run[g][s]) /\ run[g][s].final # "none"
  BY <1>2, <1>3 DEF TaskFits, RunRecord, Terminal
<1>5. run[g][s].phase \in {"starting", "running"}
  BY <1>1, <1>2, <1>4 DEF EngineFits, Working, RunRecord, Phases
<1> QED BY <1>1, <1>3, <1>4, <1>5

\* A stop may also come after the drain, as long as nothing is terminal.
LEMMA StopReaches ==
  ASSUME TypeOK, Fits, OwnerIsTask, InstancesAssumption, NEW g \in Instances, NEW s \in Slots,
         LiveOwner(g, s), run[g][s].outcome \notin Terminal, ~run[g][s].stop
  PROVE  /\ Working(g, s) /\ run[g][s].engine /\ EngineFits(g, run[g][s])
         /\ run[g][s].phase \in {"starting", "running", "draining",
                                    "flushing", "emitting", "settled"}
         /\ run[g][s].phase \in {"draining", "flushing", "emitting", "settled"} =>
                run[g][s].final = "PAUSED"
<1>1. Working(g, s)
  BY DEF LiveOwner, OwnerIsTask, Working, InstancesAssumption
<1>2. TaskFits(g, s) /\ run[g][s] \in RunRecord
  BY <1>1, CurrentRecord DEF Fits
<1>3. run[g][s].engine
  BY <1>2 DEF TaskFits, StopFits
<1>4. EngineFits(g, run[g][s])
  BY <1>2, <1>3 DEF TaskFits
<1>5. run[g][s].phase \in {"draining", "flushing", "emitting", "upgrading", "output", "settled"} =>
          run[g][s].final = "PAUSED"
  BY <1>2, <1>4 DEF EngineFits, RunRecord
<1>6. run[g][s].phase \notin {"upgrading", "output"}
  BY <1>4, <1>5 DEF EngineFits
<1> QED BY <1>1, <1>2, <1>3, <1>4, <1>5, <1>6 DEF Working, RunRecord, Phases

\* Every step keeps the tasks in line with their rows.
LEMMA FitsStep ==
  ASSUME TypeOK, OneOwner, Fits, OwnerIsTask, OneOwner', [Next]_vars
  PROVE  Fits'
<1>1. ASSUME NEW g \in Instances, CreateInstance(g) PROVE Fits'
  <2>1. row' = UpdateStatus(g, "PENDING") /\ UNCHANGED <<version, executor, epoch, run>>
        /\ live \subseteq live' /\ Status(g) = "ABSENT"
    BY <1>1 DEF CreateInstance
  <2>2. \A u \in Slots : ~Working(g, u)
    <3>1. SUFFICES ASSUME NEW u \in Slots, Working(g, u) PROVE FALSE
      OBVIOUS
    <3>2. TaskFits(g, u) /\ run[g][u] \in RunRecord
      BY <3>1, CurrentRecord DEF Fits
    <3> QED BY <2>1, <3>1, <3>2 DEF TaskFits, EngineFits, StopFits, Announced, Concluded, Working,
                                    RunRecord, Phases, Terminal
  <2>3. \A h \in Instances : h # g => row'[h] = row[h]
    BY <2>1, StatusWritten
  <2> SUFFICES ASSUME NEW h \in Instances, NEW u \in Slots, Working(h, u)' PROVE TaskFits(h, u)'
    BY DEF Fits
  <2>4. Working(h, u) /\ h # g /\ TaskFits(h, u)
    BY <2>1, <2>2 DEF Working, Fits
  <2>5. Status(h)' = Status(h)
    BY <2>1, <2>3, <2>4 DEF Status
  <2> QED BY <2>1, <2>4, <2>5 DEF TaskFits, EngineFits, StopFits
<1>2. ASSUME NEW g \in Instances, StartFresh(g) PROVE Fits'
  BY <1>2, AdmissionFits DEF Admission
<1>3. ASSUME NEW g \in Instances, StartResume(g) PROVE Fits'
  BY <1>3, AdmissionFits DEF Admission
<1>4. ASSUME NEW g \in Instances, RecoverStart(g) PROVE Fits'
  BY <1>4, AdmissionFits DEF Admission
<1>5. ASSUME NEW g \in Instances, RecoverNext(g) PROVE Fits'
  BY <1>5, AdmissionFits DEF Admission
<1>6. ASSUME NEW g \in Instances, RecoverSkip(g) PROVE Fits'
  <2>1. UNCHANGED <<version, row, executor, epoch, run>> /\ live \subseteq live'
    BY <1>6 DEF RecoverSkip, durable
  <2> QED BY <2>1, FitsKept DEF Working, SameControl
<1>7. ASSUME NEW g \in Instances, EmitStatus(g) PROVE Fits'
  <2>1. UNCHANGED <<version, row, executor, epoch, live>>
    BY <1>7 DEF EmitStatus, durable
  <2>2. \A h \in Instances, u \in Slots : SameControl(run'[h][u], run[h][u])
    BY <1>7, EmitEffect
  <2> QED BY <2>1, <2>2, FitsKept DEF Working, SameControl
<1>8. ASSUME NEW g \in Instances, Unregister(g) PROVE Fits'
  <2>1. UNCHANGED <<version, row, executor, epoch, run>> /\ live' = live \ {g}
    BY <1>8 DEF Unregister, durable
  <2>2. \A u \in Slots : ~Working(g, u)
    BY <1>8, IdleNotWorking DEF Unregister
  <2> QED BY <2>1, <2>2, FitsKept DEF Working, SameControl
<1>9. ASSUME NEW g \in Instances, LookupCoordinator(g) PROVE Fits'
  <2>1. UNCHANGED <<version, row, executor, epoch, run>> /\ live \subseteq live'
    BY <1>9 DEF LookupCoordinator, durable
  <2> QED BY <2>1, FitsKept DEF Working, SameControl
<1>10. ASSUME NEW g \in Instances, DiesInAdmission(g) PROVE Fits'
  <2>1. \A h \in Instances, u \in Slots : run'[h][u].phase = "none"
    BY <1>10 DEF DiesInAdmission, ForgetMemory, NoRun
  <2> QED BY <2>1 DEF Fits, Working
<1>11. ASSUME NEW g \in Instances, NEW s \in Slots, RequestPause(g, s) PROVE Fits'
  <2>1. run[g][s] \in RunRecord /\ LiveOwner(g, s) /\ ~run[g][s].stop
        /\ run[g][s].outcome = "none" /\ SetStatus(g, "PAUSING")
        /\ UNCHANGED <<version, executor, epoch, owner, live>>
    BY <1>11, CurrentRecord DEF RequestPause
  <2>2. /\ Working(g, s) /\ run[g][s].engine /\ EngineFits(g, run[g][s])
        /\ run[g][s].phase \in {"starting", "running"}
    BY <2>1, InstancesAssumption, PauseReaches
  <2> DEFINE r == [run[g][s] EXCEPT !.pause = TRUE]
  <2>3. run' = [run EXCEPT ![g][s] = r]
    BY <1>11 DEF RequestPause, TypeOK
  <2>4. /\ r.engine /\ r.ver = run[g][s].ver /\ r.phase = run[g][s].phase /\ r.pause = TRUE
        /\ r.stop = run[g][s].stop /\ r.outcome = run[g][s].outcome /\ r.final = run[g][s].final
    BY <2>1, <2>2 DEF RunRecord
  <2> HIDE DEF r
  <2>5. OnlyMoves(g, s) /\ run'[g][s] = r
    BY <2>3, OneRecordMoves
  <2>6. /\ Status(g)' = "PAUSING"
        /\ \A h \in Instances : h # g => row'[h] = row[h]
    BY <2>1, StatusWritten DEF SetStatus
  <2>7. TaskFits(g, s)'
    BY <2>1, <2>2, <2>4, <2>5, <2>6 DEF TaskFits, EngineFits, Announced, Concluded
  <2>8. owner'[g] = s
    BY <2>1 DEF LiveOwner
  <2> QED BY <2>1, <2>5, <2>6, <2>7, <2>8, FitsMoved, OwnerAloneNext
<1>12. ASSUME NEW g \in Instances, NEW s \in Slots, RequestStop(g, s) PROVE Fits'
  <2>1. run[g][s] \in RunRecord /\ LiveOwner(g, s) /\ ~run[g][s].stop
        /\ run[g][s].outcome \notin Terminal /\ SetStatus(g, "STOPPING")
        /\ UNCHANGED <<version, executor, epoch, owner, live>>
    BY <1>12, CurrentRecord DEF RequestStop
  <2>2. /\ Working(g, s) /\ run[g][s].engine /\ EngineFits(g, run[g][s])
        /\ run[g][s].phase \in {"starting", "running", "draining",
                                    "flushing", "emitting", "settled"}
        /\ run[g][s].phase \in {"draining", "flushing", "emitting", "settled"} =>
               run[g][s].final = "PAUSED"
    BY <2>1, InstancesAssumption, StopReaches
  <2> DEFINE r == [run[g][s] EXCEPT !.stop = TRUE]
  <2>3. run' = [run EXCEPT ![g][s] = r]
    BY <1>12 DEF RequestStop, TypeOK
  <2>4. /\ r.engine /\ r.ver = run[g][s].ver /\ r.phase = run[g][s].phase /\ r.stop = TRUE
        /\ r.pause = run[g][s].pause /\ r.outcome = run[g][s].outcome /\ r.final = run[g][s].final
    BY <2>1, <2>2 DEF RunRecord
  <2> HIDE DEF r
  <2>5. OnlyMoves(g, s) /\ run'[g][s] = r
    BY <2>3, OneRecordMoves
  <2>6. /\ Status(g)' = "STOPPING"
        /\ \A h \in Instances : h # g => row'[h] = row[h]
    BY <2>1, StatusWritten DEF SetStatus
  <2>7. TaskFits(g, s)'
    BY <2>1, <2>2, <2>4, <2>5, <2>6 DEF TaskFits, EngineFits, Announced, Concluded
  <2>8. owner'[g] = s
    BY <2>1 DEF LiveOwner
  <2> QED BY <2>1, <2>5, <2>6, <2>7, <2>8, FitsMoved, OwnerAloneNext
<1>13. ASSUME NEW g \in Instances, NEW s \in Slots, StopPaused(g, s) PROVE Fits'
  <2>1. SetStatus(g, "STOPPING") /\ owner' = [owner EXCEPT ![g] = s]
        /\ UNCHANGED <<version, executor, epoch, live>>
    BY <1>13 DEF StopPaused
  <2> DEFINE r == [NoRun EXCEPT !.phase = "draining", !.stop = TRUE, !.final = "STOPPED"]
  <2>2. run' = [run EXCEPT ![g][s] = r]
    BY <1>13 DEF StopPaused
  <2>3. ~r.engine /\ r.stop /\ r.final = "STOPPED" /\ r.phase = "draining" /\ r.outcome = "none"
    BY DEF NoRun
  <2> HIDE DEF r
  <2>4. OnlyMoves(g, s) /\ run'[g][s] = r
    BY <2>2, OneRecordMoves
  <2>5. Status(g)' = "STOPPING" /\ \A h \in Instances : h # g => row'[h] = row[h]
    BY <2>1, StatusWritten DEF SetStatus
  <2>6. TaskFits(g, s)'
    BY <2>3, <2>4, <2>5 DEF TaskFits, StopFits
  <2>7. owner'[g] = s
    BY <2>1 DEF TypeOK
  <2> QED BY <2>1, <2>4, <2>5, <2>6, <2>7, FitsMoved, OwnerAloneNext
<1>14. ASSUME NEW g \in Instances, NEW s \in Slots, EngineReturns(g, s) PROVE Fits'
  BY <1>14, EndsFits DEF Ends
<1>15. ASSUME NEW g \in Instances, NEW s \in Slots, EngineInterrupted(g, s) PROVE Fits'
  BY <1>15, EndsFits DEF Ends
<1>16. ASSUME NEW g \in Instances, NEW s \in Slots, EngineFaults(g, s) PROVE Fits'
  BY <1>16, EndsFits DEF Ends
<1>17. ASSUME NEW g \in Instances, NEW s \in Slots, Cancelled(g, s) PROVE Fits'
  BY <1>17, EndsFits DEF Ends
<1>18. ASSUME NEW g \in Instances, NEW s \in Slots, RunningEmitted(g, s) PROVE Fits'
  <2>1. run[g][s] \in RunRecord /\ run[g][s].phase = "starting" /\ Working(g, s)
        /\ UNCHANGED <<version, row, executor, epoch, owner, live>>
    BY <1>18, CurrentRecord DEF RunningEmitted, durable, Working
  <2> DEFINE r == [run[g][s] EXCEPT !.phase = "running"]
  <2>2. run' = [run EXCEPT ![g][s] = r]
    BY <1>18 DEF RunningEmitted, TypeOK
  <2>3. /\ r.engine = run[g][s].engine /\ r.ver = run[g][s].ver /\ r.phase = "running"
        /\ r.stop = run[g][s].stop /\ r.pause = run[g][s].pause
        /\ r.outcome = run[g][s].outcome /\ r.final = run[g][s].final
    BY <2>1 DEF RunRecord
  <2> HIDE DEF r
  <2>4. OnlyMoves(g, s) /\ run'[g][s] = r
    BY <2>2, OneRecordMoves
  <2>5. TaskFits(g, s) /\ Status(g)' = Status(g) /\ owner[g] = s
    BY <2>1 DEF Fits, Status, OneOwner
  <2>6. CASE run[g][s].engine
    <3>1. TaskFits(g, s)'
      BY <2>1, <2>3, <2>4, <2>5, <2>6 DEF TaskFits, EngineFits, Announced, Concluded
    <3> QED BY <2>1, <2>4, <2>5, <3>1, FitsMoved, OwnerAloneNext
  <2>7. CASE ~run[g][s].engine
    <3>1. TaskFits(g, s)'
      BY <2>1, <2>3, <2>4, <2>5, <2>7 DEF TaskFits, StopFits
    <3> QED BY <2>1, <2>4, <2>5, <3>1, FitsMoved, OwnerAloneNext
  <2> QED BY <2>6, <2>7
<1>19. ASSUME NEW g \in Instances, NEW s \in Slots, EngineDrained(g, s) PROVE Fits'
  BY <1>19, EndsFits DEF Ends
<1>20. ASSUME NEW g \in Instances, NEW s \in Slots, DrainOutput(g, s) PROVE Fits'
  <2>1. run[g][s] \in RunRecord /\ run[g][s].phase = "draining" /\ Working(g, s)
        /\ UNCHANGED <<version, row, executor, epoch, owner, live>>
    BY <1>20, CurrentRecord DEF DrainOutput, durable, Working
  <2> DEFINE r == [run[g][s] EXCEPT !.phase = "flushing", !.wait = Len(outq[g])]
  <2>2. run' = [run EXCEPT ![g][s] = r]
    BY <1>20 DEF DrainOutput, TypeOK
  <2>3. /\ r.engine = run[g][s].engine /\ r.ver = run[g][s].ver /\ r.phase = "flushing"
        /\ r.stop = run[g][s].stop /\ r.pause = run[g][s].pause
        /\ r.outcome = run[g][s].outcome /\ r.final = run[g][s].final
    BY <2>1 DEF RunRecord
  <2> HIDE DEF r
  <2>4. OnlyMoves(g, s) /\ run'[g][s] = r
    BY <2>2, OneRecordMoves
  <2>5. TaskFits(g, s) /\ Status(g)' = Status(g) /\ owner[g] = s
    BY <2>1 DEF Fits, Status, OneOwner
  <2>6. CASE run[g][s].engine
    <3>1. TaskFits(g, s)'
      BY <2>1, <2>3, <2>4, <2>5, <2>6 DEF TaskFits, EngineFits, Announced, Concluded
    <3> QED BY <2>1, <2>4, <2>5, <3>1, FitsMoved, OwnerAloneNext
  <2>7. CASE ~run[g][s].engine
    <3>1. TaskFits(g, s)'
      BY <2>1, <2>3, <2>4, <2>5, <2>7 DEF TaskFits, StopFits
    <3> QED BY <2>1, <2>4, <2>5, <3>1, FitsMoved, OwnerAloneNext
  <2> QED BY <2>6, <2>7
<1>21. ASSUME NEW g \in Instances, NEW s \in Slots, WriteFinal(g, s) PROVE Fits'
  <2>1. run[g][s] \in RunRecord /\ run[g][s].phase = "flushing" /\ Working(g, s)
        /\ UNCHANGED <<version, executor, epoch, owner, live>>
    BY <1>21, CurrentRecord DEF WriteFinal, Working
  <2>2. TaskFits(g, s) /\ owner[g] = s
    BY <2>1 DEF Fits, OneOwner
  <2>3. run[g][s].engine => run[g][s].ver = version[g]
    BY <2>2 DEF TaskFits, EngineFits
  <2> DEFINE f == Upgraded(run[g][s])
  <2>4. /\ row' = UpdateStatus(g, f)
        /\ OnlyMoves(g, s)
        /\ run'[g][s].phase = IF f \in {"PAUSED", "STOPPED"} THEN "emitting" ELSE "output"
        /\ run'[g][s].final = f /\ run'[g][s].outcome = f
        /\ run'[g][s].engine = run[g][s].engine /\ run'[g][s].ver = run[g][s].ver
        /\ run'[g][s].stop = run[g][s].stop /\ run'[g][s].pause = run[g][s].pause
    BY <1>21, <2>3, FinalWritten
  <2>5. /\ f = "PAUSED" => ~run[g][s].stop
        /\ ~run[g][s].engine => f = "STOPPED"
    BY <2>1, <2>2 DEF Upgraded, TaskFits, StopFits
  <2> HIDE DEF f
  <2>6. Status(g)' = f /\ \A h \in Instances : h # g => row'[h] = row[h]
    BY <2>1, <2>4, StatusWritten
  <2>7. TaskFits(g, s)'
    <3>1. CASE run[g][s].engine
      BY <2>1, <2>2, <2>4, <2>5, <2>6, <3>1 DEF TaskFits, EngineFits, Concluded
    <3>2. CASE ~run[g][s].engine
      BY <2>1, <2>2, <2>4, <2>5, <2>6, <3>2 DEF TaskFits, StopFits
    <3> QED BY <3>1, <3>2
  <2> QED BY <2>1, <2>2, <2>4, <2>6, <2>7, FitsMoved, OwnerAloneNext
<1>22. ASSUME NEW g \in Instances, NEW s \in Slots, UpgradeToStopped(g, s) PROVE Fits'
  <2>1. run[g][s] \in RunRecord /\ run[g][s].phase = "emitting" /\ Working(g, s)
        /\ run[g][s].final = "PAUSED" /\ SetStatus(g, "STOPPED")
        /\ UNCHANGED <<version, executor, epoch, owner, live>>
    BY <1>22, CurrentRecord DEF UpgradeToStopped, Working
  <2> DEFINE r == [run[g][s] EXCEPT !.phase = "upgrading", !.wait = Len(outq[g]) + 1,
                                    !.final = "STOPPED", !.outcome = "STOPPED"]
  <2>2. run' = [run EXCEPT ![g][s] = r]
    BY <1>22 DEF UpgradeToStopped, TypeOK
  <2>3. /\ r.engine = run[g][s].engine /\ r.ver = run[g][s].ver /\ r.phase = "upgrading"
        /\ r.outcome = "STOPPED" /\ r.final = "STOPPED"
    BY <2>1 DEF RunRecord
  <2> HIDE DEF r
  <2>4. OnlyMoves(g, s) /\ run'[g][s] = r
    BY <2>2, OneRecordMoves
  <2>5. Status(g)' = "STOPPED" /\ \A h \in Instances : h # g => row'[h] = row[h]
    BY <2>1, StatusWritten DEF SetStatus
  <2>6. TaskFits(g, s) /\ owner[g] = s
    BY <2>1 DEF Fits, OneOwner
  <2>7. run[g][s].engine
    BY <2>1, <2>6 DEF TaskFits, StopFits
  <2>8. TaskFits(g, s)'
    BY <2>1, <2>3, <2>4, <2>5, <2>6, <2>7 DEF TaskFits, EngineFits, Concluded
  <2> QED BY <2>1, <2>4, <2>5, <2>6, <2>8, FitsMoved, OwnerAloneNext
<1>23. ASSUME NEW g \in Instances, NEW s \in Slots, FinishDrained(g, s) PROVE Fits'
  <2>1. run[g][s] \in RunRecord /\ run[g][s].phase \in {"emitting", "upgrading"} /\ Working(g, s)
        /\ Settle(g, s, run[g][s])
    BY <1>23, CurrentRecord DEF FinishDrained, Working
  <2> DEFINE r == [run[g][s] EXCEPT !.phase = IF run[g][s].engine THEN "settled" ELSE "done"]
  <2>2. run' = [run EXCEPT ![g][s] = r] /\ UNCHANGED <<version, row, executor, epoch, owner>>
        /\ \A h \in Instances : h # g => (h \in live => h \in live')
    BY <2>1 DEF Settle, TypeOK, durable
  <2>3. /\ r.engine = run[g][s].engine /\ r.ver = run[g][s].ver
        /\ r.phase = IF run[g][s].engine THEN "settled" ELSE "done"
        /\ r.stop = run[g][s].stop /\ r.outcome = run[g][s].outcome /\ r.final = run[g][s].final
    BY <2>1 DEF RunRecord
  <2> HIDE DEF r
  <2>4. OnlyMoves(g, s) /\ run'[g][s] = r
    BY <2>2, OneRecordMoves
  <2>5. TaskFits(g, s) /\ Status(g)' = Status(g) /\ owner[g] = s
    BY <2>1, <2>2 DEF Fits, Status, OneOwner
  <2>6. CASE run[g][s].engine
    <3>1. TaskFits(g, s)'
      BY <2>1, <2>2, <2>3, <2>4, <2>5, <2>6 DEF TaskFits, EngineFits, Concluded
    <3> QED BY <2>2, <2>4, <2>5, <3>1, FitsMoved, OwnerAloneNext
  <2>7. CASE ~run[g][s].engine
    <3>1. \A u \in Slots : ~Working(g, u)'
      BY <2>2, <2>3, <2>4, <2>5, <2>7, OwnerAloneNext DEF Working
    <3>2. \A h \in Instances, u \in Slots : Working(h, u)' => h # g /\ run'[h][u] = run[h][u]
      BY <2>4, <3>1 DEF OnlyMoves
    <3> QED BY <2>2, <3>2, FitsKept DEF Working, SameControl
  <2> QED BY <2>6, <2>7
<1>24. ASSUME NEW g \in Instances, NEW s \in Slots, FinishOutput(g, s) PROVE Fits'
  <2>1. run[g][s] \in RunRecord /\ run[g][s].phase \in {"output"} /\ Working(g, s)
        /\ Settle(g, s, run[g][s])
    BY <1>24, CurrentRecord DEF FinishOutput, Working
  <2> DEFINE r == [run[g][s] EXCEPT !.phase = IF run[g][s].engine THEN "settled" ELSE "done"]
  <2>2. run' = [run EXCEPT ![g][s] = r] /\ UNCHANGED <<version, row, executor, epoch, owner>>
        /\ \A h \in Instances : h # g => (h \in live => h \in live')
    BY <2>1 DEF Settle, TypeOK, durable
  <2>3. /\ r.engine = run[g][s].engine /\ r.ver = run[g][s].ver
        /\ r.phase = IF run[g][s].engine THEN "settled" ELSE "done"
        /\ r.stop = run[g][s].stop /\ r.outcome = run[g][s].outcome /\ r.final = run[g][s].final
    BY <2>1 DEF RunRecord
  <2> HIDE DEF r
  <2>4. OnlyMoves(g, s) /\ run'[g][s] = r
    BY <2>2, OneRecordMoves
  <2>5. TaskFits(g, s) /\ Status(g)' = Status(g) /\ owner[g] = s
    BY <2>1, <2>2 DEF Fits, Status, OneOwner
  <2>6. CASE run[g][s].engine
    <3>1. TaskFits(g, s)'
      BY <2>1, <2>2, <2>3, <2>4, <2>5, <2>6 DEF TaskFits, EngineFits, Concluded
    <3> QED BY <2>2, <2>4, <2>5, <3>1, FitsMoved, OwnerAloneNext
  <2>7. CASE ~run[g][s].engine
    <3>1. \A u \in Slots : ~Working(g, u)'
      BY <2>2, <2>3, <2>4, <2>5, <2>7, OwnerAloneNext DEF Working
    <3>2. \A h \in Instances, u \in Slots : Working(h, u)' => h # g /\ run'[h][u] = run[h][u]
      BY <2>4, <3>1 DEF OnlyMoves
    <3> QED BY <2>2, <3>2, FitsKept DEF Working, SameControl
  <2> QED BY <2>6, <2>7
<1>25. ASSUME NEW g \in Instances, NEW s \in Slots, ExecuteEnds(g, s) PROVE Fits'
  <2>1. UNCHANGED <<version, row, executor, epoch, live>>
    BY <1>25 DEF ExecuteEnds, durable
  <2>2. OnlyMoves(g, s) /\ run'[g][s].phase = "done"
    BY <1>25, CurrentRecord DEF ExecuteEnds, OnlyMoves, TypeOK, RunRecord, NoRun
  <2>3. \A h \in Instances, u \in Slots : Working(h, u)' => run'[h][u] = run[h][u]
    BY <2>2 DEF OnlyMoves, Working
  <2> QED BY <2>1, <2>3, FitsKept DEF Working, SameControl
<1>26. ASSUME NEW g \in Instances, NEW s \in Slots, Release(g, s) PROVE Fits'
  <2>1. UNCHANGED <<version, row, executor, epoch, live>>
    BY <1>26 DEF Release, durable
  <2>2. OnlyMoves(g, s) /\ run'[g][s].phase = "none"
    BY <1>26, CurrentRecord DEF Release, OnlyMoves, TypeOK, RunRecord, NoRun
  <2>3. \A h \in Instances, u \in Slots : Working(h, u)' => run'[h][u] = run[h][u]
    BY <2>2 DEF OnlyMoves, Working
  <2> QED BY <2>1, <2>3, FitsKept DEF Working, SameControl
<1>27. CASE RecoverEnd
  <2>1. UNCHANGED <<version, row, executor, epoch, run>> /\ live \subseteq live'
    BY <1>27 DEF RecoverEnd, durable
  <2> QED BY <2>1, FitsKept DEF Working, SameControl
<1>28. CASE ProcessDies
  <2>1. \A h \in Instances, u \in Slots : run'[h][u].phase = "none"
    BY <1>28 DEF ProcessDies, ForgetMemory, NoRun
  <2> QED BY <2>1 DEF Fits, Working
<1>29. CASE Sweep
  <2>1. UNCHANGED <<version, executor, epoch, run, live>>
    BY <1>29 DEF Sweep, memory
  <2> SUFFICES ASSUME NEW h \in Instances, NEW u \in Slots, Working(h, u)' PROVE TaskFits(h, u)'
    BY DEF Fits
  <2>2. TaskFits(h, u) /\ Working(h, u)
    BY <2>1 DEF Fits, Working
  <2>3. CASE h \notin Stale
    <3>1. Status(h)' = Status(h)
      BY <1>29, <2>1, <2>3 DEF Sweep, Status
    <3> QED BY <2>1, <2>2, <3>1 DEF TaskFits, EngineFits, StopFits
  <2>4. CASE h \in Stale
    <3>1. Status(h)' = "CRASHED"
      BY <1>29, <2>1, <2>4 DEF Sweep, Status, TypeOK
    <3>2. ~run[h][u].engine /\ Status(h) \in Active
      BY <2>2, <2>4 DEF Stale, TaskFits, EngineFits
    <3> QED BY <2>1, <2>2, <3>1, <3>2 DEF TaskFits, StopFits, Active
  <2> QED BY <2>3, <2>4
<1>30. CASE UNCHANGED vars
  <2>1. UNCHANGED <<version, row, executor, epoch, run>> /\ live \subseteq live'
    BY <1>30 DEF vars, durable
  <2> QED BY <2>1, FitsKept DEF Working, SameControl
<1> QED
  BY <1>1, <1>2, <1>3, <1>4, <1>5, <1>6, <1>7, <1>8, <1>9, <1>10, <1>11, <1>12,
     <1>13, <1>14, <1>15, <1>16, <1>17, <1>18, <1>19, <1>20, <1>21, <1>22, <1>23, <1>24,
     <1>25, <1>26, <1>27, <1>28, <1>29, <1>30
  DEF Next, Progress

-----------------------------------------------------------------------------
(* The kinds of steps *)

\* Only the latest row of g changes, as the lifecycle table allows.
LatestMoves(g) ==
    /\ version' = version
    /\ \A h \in Instances : h # g => row'[h] = row[h]
    /\ \A v \in 0..MaxVersion : v # version[g] => row'[g][v] = row[g][v]
    /\ Status(g)' = Status(g) \/ Status(g)' \in Lifecycle!Successors[Status(g)]

\* A working task moves on; its status is settled when it is done.
Moved(g, s) ==
    /\ OnlyMoves(g, s) /\ Working(g, s) /\ run'[g][s].phase # "none"
    /\ run'[g][s].engine = run[g][s].engine
    /\ UNCHANGED <<version, executor, epoch, owner, recov>>
    /\ LatestMoves(g)
    /\ run'[g][s].phase = "done" => Status(g)' \notin {"RUNNING", "PAUSING"}

\* Nothing moves but events, runtimes and the list of a recovery.
Still ==
    /\ UNCHANGED <<version, row, executor, epoch, owner>>
    /\ \A h \in Instances, u \in Slots : SameControl(run'[h][u], run[h][u])
    /\ recov'.at \subseteq recov.at

\* A row that stays.
LEMMA RowKept ==
  ASSUME NEW g \in Instances, UNCHANGED <<version, row>>
  PROVE  LatestMoves(g) /\ Status(g)' = Status(g)
BY DEF LatestMoves, Status

\* A row that is written.
LEMMA RowMoves ==
  ASSUME TypeOK, NEW g \in Instances, NEW st, row' = UpdateStatus(g, st), version' = version,
         st = Status(g) \/ st \in Lifecycle!Successors[Status(g)]
  PROVE  LatestMoves(g) /\ Status(g)' = st
BY StatusWritten DEF LatestMoves

\* A request changes one flag and announces it in the row.
LEMMA RequestMoves ==
  ASSUME TypeOK, Fits, OwnerIsTask, NEW g \in Instances, NEW s \in Slots,
         RequestPause(g, s) \/ RequestStop(g, s)
  PROVE  Moved(g, s)
<1>1. run[g][s] \in RunRecord /\ LiveOwner(g, s)
  BY CurrentRecord DEF RequestPause, RequestStop
<1>2. UNCHANGED <<version, executor, epoch, owner, recov>>
  BY DEF RequestPause, RequestStop
<1>3. CASE RequestPause(g, s)
  <2>1. /\ Working(g, s) /\ run[g][s].engine /\ EngineFits(g, run[g][s])
        /\ run[g][s].phase \in {"starting", "running"}
    BY <1>1, <1>3, InstancesAssumption, PauseReaches DEF RequestPause
  <2>2. Status(g) = "RUNNING"
    BY <1>3, <2>1 DEF EngineFits, Announced, RequestPause
  <2>3. "PAUSING" \in Lifecycle!Successors[Status(g)]
    BY <2>2 DEF Lifecycle!Successors
  <2>4. LatestMoves(g)
    BY <1>2, <1>3, <2>3, RowMoves DEF RequestPause, SetStatus
  <2> DEFINE r == [run[g][s] EXCEPT !.pause = TRUE]
  <2>5. run' = [run EXCEPT ![g][s] = r]
    BY <1>3 DEF RequestPause, TypeOK
  <2>6. r.engine = run[g][s].engine /\ r.phase = run[g][s].phase
    BY <1>1 DEF RunRecord
  <2> HIDE DEF r
  <2>7. OnlyMoves(g, s) /\ run'[g][s] = r
    BY <2>5, OneRecordMoves
  <2> QED BY <1>2, <2>1, <2>4, <2>6, <2>7 DEF Moved
<1>4. CASE RequestStop(g, s)
  <2>1. /\ Working(g, s) /\ run[g][s].engine /\ EngineFits(g, run[g][s])
        /\ run[g][s].phase \in {"starting", "running", "draining",
                                    "flushing", "emitting", "settled"}
        /\ run[g][s].phase \in {"draining", "flushing", "emitting", "settled"} =>
               run[g][s].final = "PAUSED"
    BY <1>1, <1>4, InstancesAssumption, StopReaches DEF RequestStop
  <2>2. Status(g) \in {"RUNNING", "PAUSING", "PAUSED"}
    BY <1>4, <2>1 DEF EngineFits, Announced, Concluded, RequestStop
  <2>3. "STOPPING" \in Lifecycle!Successors[Status(g)]
    BY <2>2 DEF Lifecycle!Successors
  <2>4. LatestMoves(g)
    BY <1>2, <1>4, <2>3, RowMoves DEF RequestStop, SetStatus
  <2> DEFINE r == [run[g][s] EXCEPT !.stop = TRUE]
  <2>5. run' = [run EXCEPT ![g][s] = r]
    BY <1>4 DEF RequestStop, TypeOK
  <2>6. r.engine = run[g][s].engine /\ r.phase = run[g][s].phase
    BY <1>1 DEF RunRecord
  <2> HIDE DEF r
  <2>7. OnlyMoves(g, s) /\ run'[g][s] = r
    BY <2>5, OneRecordMoves
  <2> QED BY <1>2, <2>1, <2>4, <2>6, <2>7 DEF Moved
<1> QED BY <1>3, <1>4

\* The run of the engine leaves the row alone.
LEMMA ExecutionMoves ==
  ASSUME TypeOK, NEW g \in Instances, NEW s \in Slots,
         Ends(g, s) \/ RunningEmitted(g, s) \/ DrainOutput(g, s)
  PROVE  Moved(g, s)
<1>1. CASE Ends(g, s)
  <2>1. PICK o \in {"PAUSED", "COMPLETED", "FAILED", "CRASHED"},
           k \in {"no", "error", "interrupt", "cancel"} : Conclude(g, s, o, k)
    BY <1>1, EndsConclude
  <2>2. Working(g, s)
    BY <1>1, EndsConclude DEF Working
  <2> QED BY <2>1, <2>2, ConcludeEffect, RowKept DEF Moved, durable
<1>2. CASE RunningEmitted(g, s) \/ DrainOutput(g, s)
  <2>1. run[g][s] \in RunRecord /\ Working(g, s) /\ UNCHANGED <<durable, epoch, owner, recov>>
    BY <1>2, CurrentRecord DEF RunningEmitted, DrainOutput, Working
  <2>2. PICK ph \in {"running", "flushing"}, w \in Nat :
            run' = [run EXCEPT ![g][s] = [run[g][s] EXCEPT !.phase = ph, !.wait = w]]
    <3>1. CASE RunningEmitted(g, s)
      <4>1. [run[g][s] EXCEPT !.phase = "running"]
                = [run[g][s] EXCEPT !.phase = "running", !.wait = run[g][s].wait]
        BY <2>1 DEF RunRecord
      <4>2. run' = [run EXCEPT ![g][s] = [run[g][s] EXCEPT !.phase = "running"]]
        BY <3>1 DEF RunningEmitted, TypeOK
      <4> QED BY <2>1, <4>1, <4>2 DEF RunRecord
    <3>2. CASE DrainOutput(g, s)
      <4>1. run' = [run EXCEPT ![g][s] = [run[g][s] EXCEPT !.phase = "flushing",
                                                           !.wait = Len(outq[g])]]
        BY <3>2 DEF DrainOutput, TypeOK
      <4>2. Len(outq[g]) \in Nat
        BY DEF TypeOK
      <4> QED BY <4>1, <4>2
    <3> QED BY <1>2, <3>1, <3>2
  <2> DEFINE r == [run[g][s] EXCEPT !.phase = ph, !.wait = w]
  <2>3. run' = [run EXCEPT ![g][s] = r] /\ r.engine = run[g][s].engine /\ r.phase = ph
    BY <2>1, <2>2 DEF RunRecord
  <2> HIDE DEF r
  <2>4. OnlyMoves(g, s) /\ run'[g][s] = r
    BY <2>3, OneRecordMoves
  <2>5. LatestMoves(g)
    BY <2>1, RowKept DEF durable
  <2> QED BY <2>1, <2>3, <2>4, <2>5 DEF Moved, durable
<1> QED BY <1>1, <1>2

\* The final status is one the table allows after the announced one.
LEMMA WriteFinalMoves ==
  ASSUME TypeOK, Fits, NEW g \in Instances, NEW s \in Slots, WriteFinal(g, s)
  PROVE  Moved(g, s)
<1>1. run[g][s] \in RunRecord /\ run[g][s].phase = "flushing" /\ Working(g, s)
      /\ UNCHANGED <<version, executor, epoch, owner, recov>>
  BY CurrentRecord DEF WriteFinal, Working
<1>2. TaskFits(g, s)
  BY <1>1 DEF Fits
<1>3. run[g][s].engine => run[g][s].ver = version[g]
  BY <1>2 DEF TaskFits, EngineFits
<1> DEFINE f == Upgraded(run[g][s])
<1>4. f \in Lifecycle!Successors[Status(g)]
  <2>1. CASE run[g][s].engine
    <3>1. /\ Status(g) = Announced(run[g][s]) /\ run[g][s].final # "STOPPED"
          /\ run[g][s].final \in Terminal \union {"PAUSED"}
      BY <1>1, <1>2, <2>1 DEF TaskFits, EngineFits, RunRecord
    <3>2. CASE run[g][s].stop
      BY <3>1, <3>2 DEF Announced, Upgraded, Terminal, Lifecycle!Successors, Lifecycle!Settled
    <3>3. CASE ~run[g][s].stop
      BY <3>1, <3>3 DEF Announced, Upgraded, Terminal, Lifecycle!Successors, Lifecycle!Settled
    <3> QED BY <3>2, <3>3
  <2>2. CASE ~run[g][s].engine
    <3>1. Status(g) \in {"STOPPING", "CRASHED"} /\ f = "STOPPED"
      BY <1>1, <1>2, <2>2 DEF TaskFits, StopFits, Upgraded
    <3> HIDE DEF f
    <3> QED BY <3>1 DEF Lifecycle!Successors, Lifecycle!Settled
  <2> QED BY <2>1, <2>2
<1>5. LatestMoves(g)
  BY <1>1, <1>3, <1>4, FinalWritten, RowMoves
<1> HIDE DEF f
<1> QED BY <1>1, <1>3, <1>5, FinalWritten DEF Moved

\* A pause overtaken by a stop moves STOPPING to STOPPED.
LEMMA UpgradeMoves ==
  ASSUME TypeOK, Fits, NEW g \in Instances, NEW s \in Slots, UpgradeToStopped(g, s)
  PROVE  Moved(g, s)
<1>1. run[g][s] \in RunRecord /\ run[g][s].phase = "emitting" /\ Working(g, s)
      /\ run[g][s].final = "PAUSED" /\ run[g][s].stop /\ SetStatus(g, "STOPPED")
      /\ UNCHANGED <<version, executor, epoch, owner, recov>>
  BY CurrentRecord DEF UpgradeToStopped, Working
<1>2. Status(g) = "STOPPING"
  BY <1>1 DEF Fits, TaskFits, EngineFits, StopFits, Concluded
<1>3. LatestMoves(g)
  <2>1. "STOPPED" \in Lifecycle!Successors[Status(g)]
    BY <1>2 DEF Lifecycle!Successors, Lifecycle!Settled
  <2> QED BY <1>1, <2>1, RowMoves DEF SetStatus
<1> DEFINE r == [run[g][s] EXCEPT !.phase = "upgrading", !.wait = Len(outq[g]) + 1,
                                  !.final = "STOPPED", !.outcome = "STOPPED"]
<1>4. run' = [run EXCEPT ![g][s] = r]
  BY DEF UpgradeToStopped, TypeOK
<1>5. r.engine = run[g][s].engine /\ r.phase = "upgrading"
  BY <1>1 DEF RunRecord
<1> HIDE DEF r
<1>6. OnlyMoves(g, s) /\ run'[g][s] = r
  BY <1>4, OneRecordMoves
<1> QED BY <1>1, <1>3, <1>5, <1>6 DEF Moved

\* The end of a finalization leaves the row alone; it is settled by then.
LEMMA FinishMoves ==
  ASSUME TypeOK, Fits, NEW g \in Instances, NEW s \in Slots,
         FinishDrained(g, s) \/ FinishOutput(g, s) \/ ExecuteEnds(g, s)
  PROVE  Moved(g, s)
<1>1. run[g][s] \in RunRecord /\ Working(g, s)
      /\ run[g][s].phase \in {"emitting", "upgrading", "output", "settled"}
      /\ UNCHANGED <<durable, epoch, owner, recov>>
  BY CurrentRecord DEF FinishDrained, FinishOutput, ExecuteEnds, Settle, Working
<1>2. PICK ph \in {"settled", "done"} :
          run' = [run EXCEPT ![g][s] = [run[g][s] EXCEPT !.phase = ph]]
  <2>1. CASE FinishDrained(g, s) \/ FinishOutput(g, s)
    BY <2>1 DEF FinishDrained, FinishOutput, Settle
  <2>2. CASE ExecuteEnds(g, s)
    BY <2>2 DEF ExecuteEnds, TypeOK
  <2> QED BY <2>1, <2>2
<1> DEFINE r == [run[g][s] EXCEPT !.phase = ph]
<1>3. run' = [run EXCEPT ![g][s] = r] /\ r.engine = run[g][s].engine /\ r.phase = ph
  BY <1>1, <1>2 DEF RunRecord
<1> HIDE DEF r
<1>4. OnlyMoves(g, s) /\ run'[g][s] = r
  BY <1>3, OneRecordMoves
<1>5. LatestMoves(g) /\ Status(g)' = Status(g)
  BY <1>1, RowKept DEF durable
<1>6. Status(g) \notin {"RUNNING", "PAUSING"}
  <2>1. TaskFits(g, s) /\ run[g][s].final \notin {"RUNNING", "PAUSING"}
    BY <1>1 DEF Fits, RunRecord, Terminal
  <2> QED BY <1>1, <2>1 DEF TaskFits, EngineFits, StopFits, Concluded
<1> QED BY <1>1, <1>3, <1>4, <1>5, <1>6 DEF Moved, durable

\* Every step is of one of these kinds.
LEMMA StepKind ==
  ASSUME TypeOK, Fits, OwnerIsTask, [Next]_vars
  PROVE  \/ \E g \in Instances : Admission(g) \/ CreateInstance(g) \/ DiesInAdmission(g)
         \/ \E g \in Instances, s \in Slots : Moved(g, s) \/ StopPaused(g, s) \/ Release(g, s)
         \/ ProcessDies \/ Sweep \/ Still
<1>1. ASSUME NEW g \in Instances, EmitStatus(g)
      PROVE  Still
  BY <1>1, EmitEffect DEF EmitStatus, Still, durable
<1>2. ASSUME NEW g \in Instances, Unregister(g) \/ LookupCoordinator(g) \/ RecoverSkip(g)
      PROVE  Still
  <2>1. UNCHANGED <<version, row, executor, epoch, owner, run>>
    BY <1>2 DEF Unregister, LookupCoordinator, RecoverSkip, durable
  <2>2. recov'.at = recov.at
    BY <1>2 DEF Unregister, LookupCoordinator, RecoverSkip, TypeOK
  <2> QED BY <2>1, <2>2 DEF Still, SameControl
<1>3. CASE RecoverEnd
  BY <1>3 DEF RecoverEnd, NoRecovery, Still, SameControl, durable
<1>4. CASE UNCHANGED vars
  BY <1>4 DEF vars, Still, SameControl
<1>5. ASSUME NEW g \in Instances, NEW s \in Slots,
             \/ RequestPause(g, s) \/ RequestStop(g, s)
             \/ EngineReturns(g, s) \/ EngineInterrupted(g, s) \/ EngineFaults(g, s)
             \/ Cancelled(g, s) \/ (Progress(g, s) /\ ~Release(g, s))
      PROVE  Moved(g, s)
  BY <1>5, RequestMoves, ExecutionMoves, WriteFinalMoves, UpgradeMoves, FinishMoves
  DEF Progress, Ends
<1> QED BY <1>1, <1>2, <1>3, <1>4, <1>5 DEF Next, Progress, Admission

-----------------------------------------------------------------------------
(* The invariant is inductive *)

\* Release forgets a done task, and the owner if the task is it.
LEMMA ReleaseEffect ==
  ASSUME TypeOK, NEW g \in Instances, NEW s \in Slots, Release(g, s)
  PROVE  /\ OnlyMoves(g, s) /\ run[g][s].phase = "done" /\ run'[g][s].phase = "none"
         /\ owner' = IF owner[g] = s THEN [owner EXCEPT ![g] = 0] ELSE owner
         /\ UNCHANGED <<version, row, executor, epoch>>
         /\ recov'.at \subseteq recov.at /\ <<g, s>> \notin recov'.at
<1>1. OnlyMoves(g, s) /\ run'[g][s].phase = "none"
  <2>1. run' = [run EXCEPT ![g][s] = NoRun]
    BY DEF Release
  <2>2. OnlyMoves(g, s) /\ run'[g][s] = NoRun
    BY <2>1, OneRecordMoves
  <2> QED BY <2>2 DEF NoRun
<1>2. recov'.at \subseteq recov.at /\ <<g, s>> \notin recov'.at
  BY DEF Release, NoRecovery, TypeOK
<1> QED BY <1>1, <1>2 DEF Release, durable

\* Stopping a paused instance adds a task that only finalizes.
LEMMA StopPausedEffect ==
  ASSUME TypeOK, NEW g \in Instances, NEW s \in Slots, StopPaused(g, s)
  PROVE  /\ OnlyMoves(g, s) /\ run[g][s].phase = "none" /\ run'[g][s].phase = "draining"
         /\ owner' = [owner EXCEPT ![g] = s] /\ UNCHANGED <<version, executor, epoch, recov>>
         /\ LatestMoves(g) /\ Status(g)' = "STOPPING"
<1>1. Status(g) = "PAUSED" /\ run[g][s].phase = "none" /\ row' = UpdateStatus(g, "STOPPING")
      /\ UNCHANGED <<version, executor, epoch, recov>> /\ owner' = [owner EXCEPT ![g] = s]
  BY DEF StopPaused, FreeSlots, SetStatus
<1>2. LatestMoves(g) /\ Status(g)' = "STOPPING"
  <2>1. "STOPPING" \in Lifecycle!Successors[Status(g)]
    BY <1>1 DEF Lifecycle!Successors
  <2> QED BY <1>1, <2>1, RowMoves
<1> DEFINE r == [NoRun EXCEPT !.phase = "draining", !.stop = TRUE, !.final = "STOPPED"]
<1>3. OnlyMoves(g, s) /\ run'[g][s].phase = "draining"
  <2>1. run' = [run EXCEPT ![g][s] = r]
    BY DEF StopPaused
  <2>2. r.phase = "draining"
    BY DEF NoRun
  <2> HIDE DEF r
  <2>3. OnlyMoves(g, s) /\ run'[g][s] = r
    BY <2>1, OneRecordMoves
  <2> QED BY <2>2, <2>3
<1> QED BY <1>1, <1>2, <1>3

\* A new instance has a PENDING row and no task.
LEMMA CreateEffect ==
  ASSUME TypeOK, NEW g \in Instances, CreateInstance(g)
  PROVE  /\ UNCHANGED <<version, executor, epoch, owner, run, recov>>
         /\ LatestMoves(g) /\ Status(g) = "ABSENT" /\ Status(g)' = "PENDING"
<1>1. "PENDING" \in Lifecycle!Successors["ABSENT"]
  BY DEF Lifecycle!Successors
<1> QED BY <1>1, RowMoves DEF CreateInstance

\* No step leaves _executions pointing to a released task.
LEMMA OwnerIsTaskStep ==
  ASSUME TypeOK, Fits, OwnerIsTask, [Next]_vars
  PROVE  OwnerIsTask'
<1> SUFFICES ASSUME NEW h \in Instances, owner'[h] # 0
             PROVE  run'[h][owner'[h]].phase # "none"
  BY DEF OwnerIsTask
<1>1. ASSUME NEW g \in Instances, Admission(g)
      PROVE  run'[h][owner'[h]].phase # "none"
  <2>1. PICK s \in Slots : Admitted(g, s)
    BY <1>1, AdmissionEffect
  <2>2. owner' = [owner EXCEPT ![g] = s] /\ run'[g][s].phase # "none" /\ OnlyMoves(g, s)
    BY <2>1 DEF Admitted
  <2> QED BY <2>2 DEF TypeOK, OwnerIsTask, OnlyMoves
<1>2. ASSUME NEW g \in Instances, NEW s \in Slots, Moved(g, s)
      PROVE  run'[h][owner'[h]].phase # "none"
  BY <1>2 DEF Moved, OnlyMoves, TypeOK, OwnerIsTask
<1>3. ASSUME NEW g \in Instances, NEW s \in Slots, StopPaused(g, s)
      PROVE  run'[h][owner'[h]].phase # "none"
  <2>1. /\ OnlyMoves(g, s) /\ run'[g][s].phase = "draining"
        /\ owner' = [owner EXCEPT ![g] = s]
    BY <1>3, StopPausedEffect
  <2> QED BY <2>1 DEF TypeOK, OwnerIsTask, OnlyMoves
<1>4. ASSUME NEW g \in Instances, NEW s \in Slots, Release(g, s)
      PROVE  run'[h][owner'[h]].phase # "none"
  <2>1. /\ OnlyMoves(g, s)
        /\ owner' = IF owner[g] = s THEN [owner EXCEPT ![g] = 0] ELSE owner
    BY <1>4, ReleaseEffect
  <2>2. owner'[h] = owner[h] /\ ~(h = g /\ owner[h] = s) /\ owner[h] \in Slots
    BY <2>1 DEF TypeOK
  <2> QED BY <2>1, <2>2 DEF OwnerIsTask, OnlyMoves
<1>5. CASE ProcessDies \/ \E g \in Instances : DiesInAdmission(g)
  BY <1>5 DEF ProcessDies, DiesInAdmission, ForgetMemory
<1>6. CASE Still
  BY <1>6 DEF Still, SameControl, OwnerIsTask, TypeOK
<1>7. CASE Sweep \/ \E g \in Instances : CreateInstance(g)
  BY <1>7 DEF Sweep, CreateInstance, memory, OwnerIsTask
<1> QED BY <1>1, <1>2, <1>3, <1>4, <1>5, <1>6, <1>7, StepKind

\* No step claims a row for a later process or writes ahead of the version.
LEMMA RowsFitStep ==
  ASSUME TypeOK, Fits, OwnerIsTask, RowsFit, [Next]_vars
  PROVE  RowsFit'
<1> DEFINE ClaimsFit == /\ epoch' \in Nat /\ epoch' >= epoch
                        /\ executor' = executor \/ \E g \in Instances :
                               executor' = [executor EXCEPT ![g] = epoch]
<1>1. ClaimsFit
  <2>1. ASSUME NEW g \in Instances, Admission(g)
        PROVE  ClaimsFit
    BY <2>1, AdmissionEffect DEF Admitted, TypeOK
  <2>2. CASE UNCHANGED <<epoch, executor>>
    BY <2>2 DEF TypeOK
  <2>3. CASE ProcessDies \/ \E g \in Instances : DiesInAdmission(g)
    BY <2>3 DEF ProcessDies, DiesInAdmission, ForgetMemory, durable, TypeOK
  <2>4. CASE \E g \in Instances, s \in Slots : Moved(g, s) \/ StopPaused(g, s) \/ Release(g, s)
    <3>1. UNCHANGED <<epoch, executor>>
      BY <2>4 DEF Moved, StopPaused, Release, durable
    <3> QED BY <2>2, <3>1
  <2>5. CASE Sweep \/ Still \/ \E g \in Instances : CreateInstance(g)
    <3>1. UNCHANGED <<epoch, executor>>
      BY <2>5 DEF Sweep, Still, CreateInstance, memory
    <3> QED BY <2>2, <3>1
  <2> HIDE DEF ClaimsFit
  <2> QED BY <2>1, <2>3, <2>4, <2>5, StepKind
<1>2. ASSUME NEW h \in Instances, NEW v \in 0..MaxVersion, v > version'[h]
      PROVE  row'[h][v] = "ABSENT"
  <2>1. ASSUME NEW g \in Instances, Admission(g) \/ DiesInAdmission(g)
        PROVE  row'[h][v] = "ABSENT"
    <3>1. version[g] < MaxVersion /\ version' = [version EXCEPT ![g] = @ + 1]
          /\ row' = BeginInvocation(g)
      BY <2>1, AdmissionEffect DEF Admitted, DiesInAdmission
    <3>2. /\ version'[g] = version[g] + 1
          /\ h # g => row'[h] = row[h] /\ version'[h] = version[h]
          /\ v > version[g] + 1 => row'[g][v] = row[g][v]
      BY <3>1, AdmittedRow
    <3>3. v \in Int /\ version[g] \in Int /\ (v > version[g] => row[g][v] = "ABSENT")
      BY BoundAssumption DEF RowsFit, TypeOK
    <3>4. CASE h = g
      BY <1>2, <3>2, <3>3, <3>4
    <3>5. CASE h # g
      BY <1>2, <3>2, <3>5 DEF RowsFit
    <3> QED BY <3>4, <3>5
  <2>2. ASSUME NEW g \in Instances, LatestMoves(g)
        PROVE  row'[h][v] = "ABSENT"
    <3>1. v # version[h] /\ v > version[h]
      BY <1>2, <2>2, BoundAssumption DEF LatestMoves, TypeOK
    <3> QED BY <2>2, <3>1 DEF LatestMoves, RowsFit
  <2>3. CASE UNCHANGED <<version, row>>
    BY <1>2, <2>3 DEF RowsFit
  <2>4. CASE Sweep
    BY <1>2, <2>4 DEF Sweep, RowsFit, TypeOK
  <2> QED
    BY <2>1, <2>2, <2>3, <2>4, StepKind, CreateEffect, StopPausedEffect, ReleaseEffect
    DEF Moved, Still, ProcessDies, durable
<1>3. ASSUME NEW h \in Instances
      PROVE  executor'[h] <= epoch'
  <2>1. executor[h] \in Nat /\ executor[h] <= epoch /\ epoch \in Nat
    BY DEF RowsFit, TypeOK
  <2>2. executor'[h] = executor[h] \/ executor'[h] = epoch
    BY <1>1 DEF TypeOK
  <2> QED BY <1>1, <2>1, <2>2
<1> HIDE DEF ClaimsFit
<1> QED BY <1>2, <1>3 DEF RowsFit

\* A claimed row in RUNNING or PAUSING keeps a working owner.
ClaimedHasWorker(g) ==
    Status(g) \in {"RUNNING", "PAUSING"} /\ executor[g] = epoch =>
        \E s \in Slots : owner[g] = s /\ Working(g, s)

ClaimedHaveWorkers == \A g \in Instances : ClaimedHasWorker(g)

\* With Fits, working is as good as having the final status still to write.
LEMMA WorkerIsEnough == TypeOK /\ Fits => (ActiveHasOwner <=> ClaimedHaveWorkers)
<1> SUFFICES ASSUME TypeOK, Fits PROVE ActiveHasOwner <=> ClaimedHaveWorkers
  OBVIOUS
<1>1. ASSUME NEW g \in Instances, NEW s \in Slots, Working(g, s),
             Status(g) \in {"RUNNING", "PAUSING"}
      PROVE  run[g][s].phase \in {"starting", "running", "draining", "flushing"}
  <2>1. TaskFits(g, s) /\ run[g][s] \in RunRecord
    BY <1>1, CurrentRecord DEF Fits
  <2>2. run[g][s].final \notin {"RUNNING", "PAUSING"}
    BY <2>1 DEF RunRecord, Terminal
  <2>3. run[g][s].phase \notin {"emitting", "upgrading", "output", "settled"}
    BY <1>1, <2>1, <2>2 DEF TaskFits, EngineFits, StopFits, Concluded
  <2> QED BY <1>1, <2>1, <2>3 DEF Working, RunRecord, Phases
<1>2. ASSUME NEW g \in Instances, NEW s \in Slots,
             run[g][s].phase \in {"starting", "running", "draining", "flushing"}
      PROVE  Working(g, s)
  BY <1>2 DEF Working
<1> QED BY <1>1, <1>2 DEF ActiveHasOwner, ClaimedHaveWorkers, ClaimedHasWorker

\* A working owner and a status outlive a step that moves another instance.
LEMMA WorkerElsewhere ==
  ASSUME TypeOK, NEW g \in Instances, NEW s \in Slots, OnlyMoves(g, s),
         NEW h \in Instances, h # g, ClaimedHasWorker(h), Status(h)' = Status(h),
         executor'[h] = executor[h], epoch' = epoch, owner'[h] = owner[h]
  PROVE  ClaimedHasWorker(h)'
BY DEF ClaimedHasWorker, OnlyMoves, Working

\* Every step keeps a worker behind a claimed RUNNING or PAUSING row.
LEMMA ActiveStep ==
  ASSUME TypeOK, OneOwner, Fits, OwnerIsTask, RowsFit, ActiveHasOwner, Fits', TypeOK', [Next]_vars
  PROVE  ActiveHasOwner'
<1>a. ClaimedHaveWorkers' => ActiveHasOwner'
  BY WorkerIsEnough, PTL
<1> SUFFICES ASSUME NEW h \in Instances
             PROVE  ClaimedHasWorker(h)'
  BY <1>a DEF ClaimedHaveWorkers
<1>0. ClaimedHasWorker(h)
  BY WorkerIsEnough DEF ClaimedHaveWorkers
<1>1. ASSUME NEW g \in Instances, Admission(g)
      PROVE  ClaimedHasWorker(h)'
  <2>1. PICK s \in Slots : Admitted(g, s)
    BY <1>1, AdmissionEffect
  <2>2. /\ OnlyMoves(g, s) /\ owner' = [owner EXCEPT ![g] = s] /\ epoch' = epoch
        /\ executor' = [executor EXCEPT ![g] = epoch] /\ Working(g, s)'
    BY <2>1 DEF Admitted, Working
  <2>3. h # g => Status(h)' = Status(h)
    BY <2>1, AdmittedRow DEF Admitted, Status
  <2>4. CASE h = g
    BY <2>2, <2>4 DEF TypeOK, ClaimedHasWorker
  <2>5. CASE h # g
    BY <1>0, <2>2, <2>3, <2>5, WorkerElsewhere DEF TypeOK
  <2> QED BY <2>4, <2>5
<1>2. ASSUME NEW g \in Instances, NEW s \in Slots, Moved(g, s)
      PROVE  ClaimedHasWorker(h)'
  <2>1. /\ OnlyMoves(g, s) /\ owner' = owner /\ owner[g] = s
        /\ executor' = executor /\ epoch' = epoch
        /\ Status(g)' \in {"RUNNING", "PAUSING"} => Working(g, s)'
        /\ h # g => Status(h)' = Status(h)
    BY <1>2 DEF Moved, LatestMoves, OneOwner, Working, Status
  <2>2. CASE h = g
    BY <2>1, <2>2 DEF ClaimedHasWorker
  <2>3. CASE h # g
    BY <1>0, <2>1, <2>3, WorkerElsewhere
  <2> QED BY <2>2, <2>3
<1>3. ASSUME NEW g \in Instances, NEW s \in Slots, StopPaused(g, s)
      PROVE  ClaimedHasWorker(h)'
  <2>1. /\ OnlyMoves(g, s) /\ owner' = [owner EXCEPT ![g] = s]
        /\ executor' = executor /\ epoch' = epoch
        /\ Status(g)' = "STOPPING" /\ (h # g => Status(h)' = Status(h))
    BY <1>3, StopPausedEffect DEF LatestMoves, Status
  <2>2. CASE h = g
    BY <2>1, <2>2 DEF ClaimedHasWorker
  <2>3. CASE h # g
    BY <1>0, <2>1, <2>3, WorkerElsewhere DEF TypeOK
  <2> QED BY <2>2, <2>3
<1>4. ASSUME NEW g \in Instances, NEW s \in Slots, Release(g, s)
      PROVE  ClaimedHasWorker(h)'
  <2>1. /\ OnlyMoves(g, s) /\ run[g][s].phase = "done"
        /\ owner' = IF owner[g] = s THEN [owner EXCEPT ![g] = 0] ELSE owner
        /\ executor' = executor /\ epoch' = epoch /\ Status(h)' = Status(h)
    BY <1>4, ReleaseEffect DEF Status
  <2>2. CASE h = g
    <3>1. ASSUME NEW u \in Slots, owner[g] = u, Working(g, u)
          PROVE  owner'[g] = u /\ Working(g, u)'
      BY <2>1, <3>1 DEF TypeOK, Working, OnlyMoves
    <3> QED BY <1>0, <2>1, <2>2, <3>1 DEF ClaimedHasWorker
  <2>3. CASE h # g
    BY <1>0, <2>1, <2>3, WorkerElsewhere DEF TypeOK
  <2> QED BY <2>2, <2>3
<1>5. CASE ProcessDies \/ \E g \in Instances : DiesInAdmission(g)
  <2>1. executor' = executor /\ epoch' = epoch + 1
    BY <1>5 DEF ProcessDies, DiesInAdmission, ForgetMemory, durable
  <2>2. executor[h] \in Nat /\ executor[h] <= epoch /\ epoch \in Nat
    BY DEF RowsFit, TypeOK
  <2>3. executor'[h] # epoch'
    BY <2>1, <2>2
  <2> QED BY <2>3 DEF ClaimedHasWorker
<1>6. CASE Still
  <2>1. /\ Status(h)' = Status(h) /\ executor' = executor /\ epoch' = epoch /\ owner' = owner
        /\ \A u \in Slots : Working(h, u) => Working(h, u)'
    BY <1>6 DEF Still, SameControl, Working, Status
  <2> QED BY <1>0, <2>1 DEF ClaimedHasWorker
<1>7. CASE Sweep
  <2>1. UNCHANGED <<executor, epoch, owner, run>>
    BY <1>7 DEF Sweep, memory
  <2>2. Status(h)' = Status(h) \/ Status(h)' = "CRASHED"
    BY <1>7 DEF Sweep, Status, TypeOK
  <2> QED BY <1>0, <2>1, <2>2 DEF ClaimedHasWorker, Working
<1>8. ASSUME NEW g \in Instances, CreateInstance(g)
      PROVE  ClaimedHasWorker(h)'
  <2>1. UNCHANGED <<executor, epoch, owner, run>>
        /\ (Status(h)' = Status(h) \/ Status(h)' = "PENDING")
    BY <1>8, CreateEffect DEF LatestMoves, Status
  <2> QED BY <1>0, <2>1 DEF ClaimedHasWorker, Working
<1> QED BY <1>1, <1>2, <1>3, <1>4, <1>5, <1>6, <1>7, <1>8, StepKind

\* Every step keeps the task a recovery waits for.
LEMMA RecoveryStep ==
  ASSUME TypeOK, Fits, OwnerIsTask, RecoveryWaitsOnOwner, OneOwner', [Next]_vars
  PROVE  RecoveryWaitsOnOwner'
<1> SUFFICES ASSUME NEW h \in Instances, NEW u \in Slots, <<h, u>> \in recov'.at
             PROVE  run'[h][u].phase # "none" /\ run'[h][u].engine
  BY DEF RecoveryWaitsOnOwner, OneOwner
<1>1. <<h, u>> \in recov.at => run[h][u].phase # "none" /\ run[h][u].engine
  BY DEF RecoveryWaitsOnOwner
<1>2. ASSUME NEW g \in Instances, Admission(g)
      PROVE  run'[h][u].phase # "none" /\ run'[h][u].engine
  <2>1. PICK s \in Slots : Admitted(g, s) /\ (recov' = recov \/ recov'.at = {<<g, s>>})
    BY <1>2, AdmissionEffect
  <2>2. OnlyMoves(g, s) /\ run[g][s].phase = "none" /\ run'[g][s].phase # "none"
        /\ run'[g][s].engine
    BY <2>1 DEF Admitted
  <2> QED BY <1>1, <2>1, <2>2 DEF OnlyMoves
<1>3. ASSUME NEW g \in Instances, NEW s \in Slots, Moved(g, s)
      PROVE  run'[h][u].phase # "none" /\ run'[h][u].engine
  BY <1>1, <1>3 DEF Moved, OnlyMoves
<1>4. ASSUME NEW g \in Instances, NEW s \in Slots, StopPaused(g, s)
      PROVE  run'[h][u].phase # "none" /\ run'[h][u].engine
  BY <1>1, <1>4, StopPausedEffect DEF OnlyMoves
<1>5. ASSUME NEW g \in Instances, NEW s \in Slots, Release(g, s)
      PROVE  run'[h][u].phase # "none" /\ run'[h][u].engine
  <2>1. OnlyMoves(g, s) /\ recov'.at \subseteq recov.at /\ <<g, s>> \notin recov'.at
    BY <1>5, ReleaseEffect
  <2>2. ~(h = g /\ u = s)
    BY <2>1
  <2> QED BY <1>1, <2>1, <2>2 DEF OnlyMoves
<1>6. CASE ProcessDies \/ \E g \in Instances : DiesInAdmission(g)
  BY <1>6 DEF ProcessDies, DiesInAdmission, ForgetMemory, NoRecovery
<1>7. CASE Still
  BY <1>1, <1>7 DEF Still, SameControl
<1>8. CASE Sweep \/ \E g \in Instances : CreateInstance(g)
  BY <1>1, <1>8 DEF Sweep, CreateInstance, memory
<1> QED BY <1>2, <1>3, <1>4, <1>5, <1>6, <1>7, <1>8, StepKind

\* Nothing works initially.
LEMMA InitInvariant == Init => IInv
<1> SUFFICES ASSUME Init PROVE IInv
  OBVIOUS
<1>1. \A g \in Instances, s \in Slots : ~Working(g, s)
  BY DEF Init, Working, NoRun
<1>2. \A g \in Instances : version[g] \in 0..MaxVersion /\ Status(g) = "ABSENT"
  BY BoundAssumption DEF Init, Status
<1> QED
  BY <1>1, <1>2 DEF IInv, OneOwner, Fits, OwnerIsTask, RowsFit, ActiveHasOwner,
     RecoveryWaitsOnOwner, Init, NoRecovery

\* The parts of the invariant, put together.
LEMMA NextInvariant == TypeOK /\ IInv /\ TypeOK' /\ [Next]_vars => IInv'
<1> SUFFICES ASSUME TypeOK, IInv, TypeOK', [Next]_vars PROVE IInv'
  OBVIOUS
<1>1. OneOwner'
  BY NextOwner DEF IInv
<1>2. Fits'
  BY <1>1, FitsStep DEF IInv
<1>3. OwnerIsTask' /\ RowsFit'
  BY OwnerIsTaskStep, RowsFitStep DEF IInv
<1>4. ActiveHasOwner'
  BY <1>2, ActiveStep DEF IInv
<1>5. RecoveryWaitsOnOwner'
  BY <1>1, RecoveryStep DEF IInv
<1> QED BY <1>1, <1>2, <1>3, <1>4, <1>5 DEF IInv

\* The inductive invariant holds in every reachable state.
THEOREM Invariant == Spec => [](TypeOK /\ IInv)
<1>1. TypeOK /\ IInv /\ [Next]_vars => (TypeOK /\ IInv)'
  BY NextType, NextInvariant
<1>2. Init => TypeOK /\ IInv
  BY InitType, InitInvariant
<1> QED BY <1>1, <1>2, PTL DEF Spec

-----------------------------------------------------------------------------
(* The properties *)

\* While the engine may be running nodes, the latest row is its own and
\* announces what its GraphRunControl was asked (_drain writes both without an
\* await between them).
THEOREM StatusFollowsControl == Spec => []StatusReflectsControl
<1>1. TypeOK /\ IInv => StatusReflectsControl
  <2> SUFFICES ASSUME Fits, NEW g \in Instances, NEW s \in Slots,
                      run[g][s].phase \in {"starting", "running"}
               PROVE  /\ Status(g) = Announced(run[g][s])
                      /\ run[g][s].ver = version[g] /\ executor[g] = epoch /\ g \in live
    BY DEF IInv, StatusReflectsControl, Announced
  <2>1. TaskFits(g, s)
    BY DEF Fits, Working
  <2> QED BY <2>1 DEF TaskFits, EngineFits, StopFits
<1> QED BY <1>1, Invariant, PTL

\* A RUNNING or PAUSING row that this process claims has an owner that has yet
\* to write the final status in _finalize_instance.
THEOREM ActiveIsOwned == Spec => []ActiveHasOwner
<1>1. TypeOK /\ IInv => ActiveHasOwner
  BY DEF IInv
<1> QED BY <1>1, Invariant, PTL

\* recover_crashed never waits for a task that was released or that runs no
\* engine: its wakeup will come.
THEOREM RecoveryIsWoken == Spec => []RecoveryWaitsOnOwner
<1>1. TypeOK /\ IInv => RecoveryWaitsOnOwner
  BY DEF IInv
<1> QED BY <1>1, Invariant, PTL

\* Nobody follows STOPPED, and only an active status is closed.
LEMMA OutcomeKept ==
  ASSUME TypeOK, IInv, [Next]_vars, NEW h \in Instances, NEW v \in 0..MaxVersion,
         (v < version'[h] /\ row[h][v] \notin Active) \/ row[h][v] = "STOPPED"
  PROVE  row'[h][v] = row[h][v]
<1>1. v \in Int /\ version[h] \in Int
  BY BoundAssumption DEF TypeOK
<1>2. v <= version[h] \/ row[h][v] = "ABSENT"
  BY <1>1 DEF IInv, RowsFit
<1>3. ASSUME NEW g \in Instances, Admission(g) \/ DiesInAdmission(g)
      PROVE  row'[h][v] = row[h][v]
  <2>1. version[g] < MaxVersion /\ version' = [version EXCEPT ![g] = @ + 1]
        /\ row' = BeginInvocation(g)
    BY <1>3, AdmissionEffect DEF Admitted, DiesInAdmission
  <2>2. /\ version'[g] = version[g] + 1
        /\ h # g => row'[h] = row[h]
        /\ v < version[g] + 1 => row'[g][v] = row[g][v] \/ row[g][v] \in Active
    BY <2>1, AdmittedRow
  <2>3. h = g => v < version[g] + 1 /\ row[g][v] \notin Active
    BY <1>1, <1>2, <2>2 DEF Active
  <2> QED BY <2>2, <2>3
<1>4. ASSUME NEW g \in Instances, LatestMoves(g)
      PROVE  row'[h][v] = row[h][v]
  <2>1. version' = version /\ (h # g => row'[h] = row[h])
        /\ (v # version[g] => row'[g][v] = row[g][v])
        /\ (Status(g)' = Status(g) \/ Status(g)' \in Lifecycle!Successors[Status(g)])
    BY <1>4 DEF LatestMoves
  <2>2. h = g /\ v = version[g] => Status(g) = "STOPPED"
    BY <1>1, <2>1 DEF Status
  <2>3. Lifecycle!Successors["STOPPED"] = {}
    BY DEF Lifecycle!Successors
  <2> QED BY <2>1, <2>2, <2>3 DEF Status
<1>5. CASE Sweep
  <2>1. \A g \in Stale : row[g][version[g]] \in Active /\ v < version'[g] => v # version[g]
    BY <1>1, <1>5 DEF Sweep, Stale, Status, TypeOK, BoundAssumption
  <2> QED BY <1>1, <1>5, <2>1 DEF Sweep, Stale, Status, Active, TypeOK
<1>6. CASE UNCHANGED row
  BY <1>6
<1>7. ASSUME NEW g \in Instances, NEW s \in Slots, Moved(g, s) \/ StopPaused(g, s) \/ Release(g, s)
      PROVE  row'[h][v] = row[h][v]
  BY <1>4, <1>6, <1>7, StopPausedEffect, ReleaseEffect DEF Moved
<1> QED
  BY <1>3, <1>4, <1>5, <1>6, <1>7, StepKind, CreateEffect DEF IInv, ProcessDies, durable, Still

\* begin_invocation, finalize_invocation, update_status and the sweep never
\* overwrite the outcome of an earlier version, nor STOPPED.
THEOREM OutcomesAreKept == Spec => OutcomesStay
<1>1. TypeOK /\ IInv /\ [Next]_vars =>
        [\A g \in Instances, v \in 0..MaxVersion :
            (v < version'[g] /\ row[g][v] \notin Active) \/ row[g][v] = "STOPPED"
               => row'[g][v] = row[g][v]]_<<row, version>>
  BY OutcomeKept
<1> QED BY <1>1, Invariant, PTL DEF Spec, OutcomesStay

\* A finished run is followed by a fresh one or by a death in the admission.
LEMMA FinishedKept ==
  ASSUME TypeOK, IInv, [Next]_vars, NEW h \in Instances,
         version'[h] # version[h], Status(h) \in {"COMPLETED", "FAILED"}, epoch' = epoch
  PROVE  runVer'[h] = version'[h]
<1>1. ASSUME NEW g \in Instances, NEW s \in Slots, NEW mode \in {"FRESH", "RECOVERY"},
             Admit(g, s, mode)
      PROVE  runVer'[h] = version'[h]
  <2>1. CanStart(g, mode) /\ AdmitRows(g, mode)
    BY <1>1 DEF Admit, AdmitAssembled, AdmitFails
  <2>2. h = g
    BY <2>1 DEF AdmitRows, TypeOK
  <2>3. mode = "FRESH"
    BY <2>1, <2>2 DEF CanStart, Allowed
  <2> QED BY <2>1, <2>2, <2>3 DEF AdmitRows, TypeOK
<1>2. ASSUME NEW g \in Instances, Admission(g)
      PROVE  runVer'[h] = version'[h]
  BY <1>1, <1>2 DEF Admission, StartFresh, StartResume, RecoverStart, RecoverNext, FreeSlots
<1>3. CASE UNCHANGED version
  BY <1>3
<1>4. CASE ForgetMemory
  BY <1>4 DEF ForgetMemory, TypeOK
<1> QED
  BY <1>2, <1>3, <1>4, StepKind, CreateEffect, StopPausedEffect, ReleaseEffect
  DEF IInv, Moved, Still, Sweep, ProcessDies, DiesInAdmission

\* start_resume and recover_crashed never continue a COMPLETED or FAILED run.
THEOREM FinishedStaysFinished == Spec => FinishedRunIsNotResumed
<1>1. TypeOK /\ IInv /\ [Next]_vars =>
        [\A g \in Instances :
            version'[g] # version[g] /\ Status(g) \in {"COMPLETED", "FAILED"} /\ epoch' = epoch
               => runVer'[g] = version'[g]]_<<version, runVer>>
  BY FinishedKept
<1> QED BY <1>1, Invariant, PTL DEF Spec, FinishedRunIsNotResumed

-----------------------------------------------------------------------------
(* The abstract lifecycle is implemented *)

\* A row that moves is a step of the table, or none.
LEMMA RowIsMove ==
  ASSUME TypeOK, NEW g \in Instances, LatestMoves(g)
  PROVE  [Lifecycle!Next]_Latest
<1>1. \A h \in Instances : h # g => Status(h)' = Status(h)
  BY DEF LatestMoves, Status
<1>2. CASE Status(g)' = Status(g)
  <2>1. \A h \in Instances : Status(h)' = Status(h)
    BY <1>1, <1>2
  <2>2. Latest' = Latest
    BY <2>1 DEF Latest
  <2> QED BY <2>2
<1>3. CASE Status(g)' \in Lifecycle!Successors[Status(g)]
  <2>1. Latest' = [Latest EXCEPT ![g] = Status(g)']
    BY <1>1 DEF Latest
  <2>2. Lifecycle!Move(g)
    BY <1>3, <2>1 DEF Lifecycle!Move, Latest
  <2> QED BY <2>2 DEF Lifecycle!Next
<1> QED BY <1>2, <1>3 DEF LatestMoves

\* Every step is a step of the lifecycle table or changes no latest status.
LEMMA LifecycleStep == TypeOK /\ IInv /\ [Next]_vars => [Lifecycle!Next]_Latest
<1> SUFFICES ASSUME TypeOK, IInv, [Next]_vars
             PROVE  [Lifecycle!Next]_Latest
  OBVIOUS
<1>1. ASSUME NEW g \in Instances, Admission(g) \/ DiesInAdmission(g)
      PROVE  Lifecycle!Next
  <2>1. /\ Status(g) \in Startable /\ version[g] < MaxVersion
        /\ version' = [version EXCEPT ![g] = @ + 1] /\ row' = BeginInvocation(g)
    BY <1>1, AdmissionEffect DEF Admitted, DiesInAdmission, CanStart, Allowed, Startable
  <2>2. Status(g)' = "RUNNING" /\ \A h \in Instances : h # g => Status(h)' = Status(h)
    BY <2>1, AdmittedRow DEF Status
  <2>3. "RUNNING" \in Lifecycle!Successors[Status(g)]
    BY <2>1 DEF Startable, Lifecycle!Successors
  <2>4. Latest' = [Latest EXCEPT ![g] = "RUNNING"]
    BY <2>2 DEF Latest
  <2>5. Lifecycle!Move(g)
    BY <2>3, <2>4 DEF Lifecycle!Move, Latest
  <2> QED BY <2>5 DEF Lifecycle!Next
<1>2. CASE Sweep
  <2>1. Stale # {} /\ Stale \subseteq Instances
        /\ \A g \in Stale : Status(g) \in Lifecycle!Active
    BY <1>2 DEF Sweep, Stale, Active, Lifecycle!Active
  <2>2. \A g \in Instances : Status(g)' = IF g \in Stale THEN "CRASHED" ELSE Status(g)
    BY <1>2 DEF Sweep, memory, Status, TypeOK
  <2>3. Lifecycle!Sweep(Stale)
    BY <2>1, <2>2 DEF Lifecycle!Sweep, Latest
  <2> QED BY <2>1, <2>3 DEF Lifecycle!Next
<1>3. CASE UNCHANGED <<version, row>>
  BY <1>3 DEF Status, Latest
<1>4. ASSUME NEW g \in Instances, NEW s \in Slots, Moved(g, s) \/ StopPaused(g, s)
      PROVE  LatestMoves(g)
  BY <1>4, StopPausedEffect DEF Moved
<1> QED
  BY <1>1, <1>2, <1>3, <1>4, RowIsMove, StepKind, CreateEffect, ReleaseEffect
  DEF IInv, Still, ProcessDies, durable

\* The orchestrator, its recovery and the sweeper move the status of an
\* instance only as the lifecycle table allows.
THEOREM Implements == Spec => ImplementsLifecycle
<1>1. Init => Lifecycle!Init
  BY BoundAssumption DEF Init, Lifecycle!Init, Status, Latest
<1> QED
  BY <1>1, LifecycleStep, Invariant, PTL DEF Spec, ImplementsLifecycle, Lifecycle!Spec

-----------------------------------------------------------------------------
(* What a subscriber of the status events knows (ObserverUpToDate).  The     *)
(* stored status says nothing of the events, so the invariant is extended by *)
(* what was announced of each instance, delivered or still queued.           *)

-----------------------------------------------------------------------------
(* The inductive invariant: what was announced of an instance *)

\* The last status that was announced: the newest event that is queued, or
\* else the last one that was delivered.
Last(g) == IF outq[g] = <<>> THEN seen[g] ELSE outq[g][Len(outq[g])]

\* Whoever was told anything was told the stored status.
Told(g) == Last(g) # "ABSENT" => Last(g) = Status(g)

\* Nobody owns the instance.  If its row is still active and not claimed by
\* this process, a sweep may close it without a word; nobody was told then.
UnownedFits(g) ==
    /\ Told(g)
    /\ Status(g) \in Active /\ executor[g] # epoch => Last(g) = "ABSENT"

\* What task s, the owner, has announced.  An admission that fails may leave
\* RUNNING unannounced until its final status is.
OwnedFits(g, s) ==
    /\ run[g][s].phase \notin {"draining", "flushing", "output"} => Told(g)
    /\ run[g][s].phase = "output" => run[g][s].wait = Len(outq[g])
    /\ run[g][s].phase = "done" => executor[g] = epoch \/ Status(g) \notin Active

EventsFit(g) ==
    /\ owner[g] = 0 => UnownedFits(g)
    /\ \A s \in Slots : owner[g] = s => OwnedFits(g, s)

AllEventsFit == \A g \in Instances : EventsFit(g)

-----------------------------------------------------------------------------
(* What the steps announce *)

\* Without events the newest one stays the newest.
LEMMA SameEvents ==
  ASSUME NEW g \in Instances, outq'[g] = outq[g], seen'[g] = seen[g]
  PROVE  Last(g)' = Last(g)
BY DEF Last

\* An event that is queued is the newest.
LEMMA QueuedEvent ==
  ASSUME TypeOK, NEW g \in Instances, NEW st \in Statuses,
         outq' = [outq EXCEPT ![g] = Append(@, st)]
  PROVE  Last(g)' = st /\ \A h \in Instances : h # g => outq'[h] = outq[h]
<1>1. outq[g] \in Seq(Statuses) /\ outq'[g] = Append(outq[g], st)
  BY DEF TypeOK
<1>2. \A h \in Instances : h # g => outq'[h] = outq[h]
  BY DEF TypeOK
<1> DEFINE q == Append(outq[g], st)
<1>3. q # <<>> /\ q[Len(q)] = st
  BY <1>1
<1> HIDE DEF q
<1>4. outq'[g] = q
  BY <1>1 DEF q
<1> QED BY <1>2, <1>3, <1>4 DEF Last

\* The newest event stays the newest while it is not the only one.
LEMMA NewestStays ==
  ASSUME NEW S, NEW q \in Seq(S), q # <<>>
  PROVE  /\ Len(q) \in Nat \ {0} /\ Len(Tail(q)) = Len(q) - 1
         /\ Len(q) = 1 => Tail(q) = <<>> /\ Head(q) = q[Len(q)]
         /\ Len(q) # 1 => Tail(q) # <<>> /\ Tail(q)[Len(Tail(q))] = q[Len(q)]
<1>1. Len(q) \in Nat \ {0} /\ Head(q) = q[1] /\ Tail(q) \in Seq(S) /\ Len(Tail(q)) = Len(q) - 1
  OBVIOUS
<1>2. \A i \in 1..Len(Tail(q)) : Tail(q)[i] = q[i + 1]
  BY HeadTailProperties
<1> DEFINE t == Tail(q)
<1> HIDE DEF t
<1>3. CASE Len(q) = 1
  <2>1. Len(t) = 0 /\ t \in Seq(S)
    BY <1>1, <1>3 DEF t
  <2>2. t = <<>>
    BY <2>1
  <2> QED BY <1>1, <1>3, <2>2 DEF t
<1>4. CASE Len(q) # 1
  <2>1. Len(t) \in 1..Len(t) /\ Len(t) + 1 = Len(q) /\ t \in Seq(S)
    BY <1>1, <1>4 DEF t
  <2>2. \A i \in 1..Len(t) : t[i] = q[i + 1]
    BY <1>2 DEF t
  <2>3. t # <<>> /\ t[Len(t)] = q[Len(q)]
    BY <2>1, <2>2
  <2> QED BY <1>1, <1>4, <2>3 DEF t
<1> QED BY <1>3, <1>4

\* A delivery moves the oldest event, and the tasks that wait for it.
LEMMA DeliveredEvent ==
  ASSUME TypeOK, NEW g \in Instances, EmitStatus(g)
  PROVE  /\ Last(g)' = Last(g) /\ Len(outq[g]) \in Nat \ {0} /\ Len(outq'[g]) = Len(outq[g]) - 1
         /\ \A h \in Instances : h # g =>
                outq'[h] = outq[h] /\ seen'[h] = seen[h] /\ run'[h] = run[h]
         /\ \A s \in Slots : run[g][s].wait # 0 => run'[g][s].wait = run[g][s].wait - 1
<1>1. /\ outq[g] \in Seq(Statuses) /\ outq[g] # <<>> /\ outq'[g] = Tail(outq[g])
      /\ seen'[g] = Head(outq[g])
  BY DEF EmitStatus, TypeOK
<1>2. Len(outq[g]) \in Nat \ {0} /\ Len(outq'[g]) = Len(outq[g]) - 1
  BY <1>1, NewestStays
<1>3. \A h \in Instances : h # g => outq'[h] = outq[h] /\ seen'[h] = seen[h] /\ run'[h] = run[h]
  BY DEF EmitStatus, TypeOK
<1>4. ASSUME NEW s \in Slots, run[g][s].wait # 0
      PROVE  run'[g][s].wait = run[g][s].wait - 1
  <2>1. run[g][s] \in RunRecord
    BY CurrentRecord
  <2>2. run'[g][s] = [run[g][s] EXCEPT !.wait = IF @ > 0 THEN @ - 1 ELSE 0]
    BY DEF EmitStatus, TypeOK
  <2> QED BY <1>4, <2>1, <2>2 DEF RunRecord
<1>5. Last(g)' = Last(g)
  <2> DEFINE t == Tail(outq[g])
  <2>1. /\ Len(outq[g]) = 1 => t = <<>> /\ Head(outq[g]) = outq[g][Len(outq[g])]
        /\ Len(outq[g]) # 1 => t # <<>> /\ t[Len(t)] = outq[g][Len(outq[g])]
    BY <1>1, NewestStays
  <2> HIDE DEF t
  <2>2. outq'[g] = t
    BY <1>1 DEF t
  <2> QED BY <1>1, <2>1, <2>2 DEF Last
<1> QED BY <1>2, <1>3, <1>4, <1>5

\* An admission that assembles its run announces RUNNING.
LEMMA AdmissionAnnounces ==
  ASSUME TypeOK, NEW g \in Instances, Admission(g)
  PROVE  \E s \in Slots :
            /\ Admitted(g, s) /\ seen' = seen
            /\ \A h \in Instances : h # g => outq'[h] = outq[h]
            /\ run'[g][s].phase = "starting" => Last(g)' = "RUNNING"
<1>1. PICK s \in Slots : Admitted(g, s)
  BY AdmissionEffect
<1>2. PICK u \in Slots, mode \in {"FRESH", "RECOVERY"} : Admit(g, u, mode) /\ seen' = seen
  BY DEF Admission, StartFresh, StartResume, RecoverStart, RecoverNext, FreeSlots
<1>3. u = s
  <2>1. owner' = [owner EXCEPT ![g] = s] /\ owner' = [owner EXCEPT ![g] = u]
    BY <1>1, <1>2 DEF Admitted, Admit, AdmitAssembled, AdmitFails
  <2>2. owner'[g] = s /\ owner'[g] = u
    BY <2>1 DEF TypeOK
  <2> QED BY <2>2
<1>4. CASE AdmitAssembled(g, u, mode)
  <2>1. outq' = [outq EXCEPT ![g] = Append(@, "RUNNING")] /\ "RUNNING" \in Statuses
    BY <1>4 DEF AdmitAssembled, Statuses, Active
  <2> QED BY <1>1, <1>2, <2>1, QueuedEvent
<1>5. CASE AdmitFails(g, u, mode)
  <2>1. \A h \in Instances : h # g => outq'[h] = outq[h]
    BY <1>5 DEF AdmitFails, TypeOK
  <2>2. run'[g][s].phase = "draining"
    <3>1. run' = [run EXCEPT ![g][s] = NewRun(g, "draining", "CRASHED", 0)]
      BY <1>3, <1>5 DEF AdmitFails
    <3>2. run'[g][s] = NewRun(g, "draining", "CRASHED", 0)
      BY <3>1, OneRecordMoves
    <3> QED BY <3>2 DEF NewRun, NoRun
  <2> QED BY <1>1, <1>2, <2>1, <2>2
<1> QED BY <1>2, <1>4, <1>5 DEF Admit

-----------------------------------------------------------------------------
(* The invariant is inductive *)

\* What nobody touches stays as it was told.
LEMMA EventsElsewhere ==
  ASSUME NEW h \in Instances, EventsFit(h), run'[h] = run[h], outq'[h] = outq[h],
         seen'[h] = seen[h], Status(h)' = Status(h), executor'[h] = executor[h],
         owner'[h] = owner[h], epoch' = epoch
  PROVE  EventsFit(h)'
<1>1. Last(h)' = Last(h)
  BY SameEvents
<1> QED BY <1>1 DEF EventsFit, UnownedFits, OwnedFits, Told

\* Only the owner of g moves, and only events of g.
LEMMA EventsMoved ==
  ASSUME TypeOK, AllEventsFit, NEW g \in Instances, NEW s \in Slots, TypeOK',
         OnlyMoves(g, s), owner'[g] = s, epoch' = epoch,
         \A h \in Instances : h # g =>
             /\ outq'[h] = outq[h] /\ seen'[h] = seen[h] /\ Status(h)' = Status(h)
             /\ executor'[h] = executor[h] /\ owner'[h] = owner[h],
         OwnedFits(g, s)'
  PROVE  AllEventsFit'
<1>1. EventsFit(g)'
  BY InstancesAssumption DEF EventsFit
<1>2. ASSUME NEW h \in Instances, h # g
      PROVE  EventsFit(h)'
  <2>1. run'[h] = run[h]
    <3>1. run[h] \in [Slots -> RunRecord] /\ run'[h] \in [Slots -> RunRecord]
      BY DEF TypeOK
    <3>2. \A u \in Slots : run'[h][u] = run[h][u]
      BY <1>2 DEF OnlyMoves
    <3> QED BY <3>1, <3>2
  <2> QED BY <1>2, <2>1, EventsElsewhere DEF AllEventsFit
<1> QED BY <1>1, <1>2 DEF AllEventsFit

\* The same for a step of the working task.
LEMMA EventsOfWorker ==
  ASSUME TypeOK, OneOwner, AllEventsFit, NEW g \in Instances, NEW s \in Slots, TypeOK',
         Moved(g, s), OwnedFits(g, s)',
         \A h \in Instances : h # g => outq'[h] = outq[h] /\ seen'[h] = seen[h]
  PROVE  AllEventsFit'
<1>1. OnlyMoves(g, s) /\ owner[g] = s /\ UNCHANGED <<executor, epoch, owner>>
  BY DEF Moved, OneOwner
<1>2. \A h \in Instances : h # g => Status(h)' = Status(h)
  BY DEF Moved, LatestMoves, Status
<1> QED BY <1>1, <1>2, EventsMoved

\* A request announces the status it writes.
LEMMA RequestEvents ==
  ASSUME TypeOK, IInv, AllEventsFit, TypeOK', NEW g \in Instances, NEW s \in Slots,
         RequestPause(g, s) \/ RequestStop(g, s)
  PROVE  AllEventsFit'
<1>1. Moved(g, s)
  BY RequestMoves DEF IInv
<1>2. PICK st \in {"PAUSING", "STOPPING"} : SetStatus(g, st)
  BY DEF RequestPause, RequestStop
<1>3. seen' = seen /\ UNCHANGED version
  BY DEF RequestPause, RequestStop
<1>4. /\ Last(g)' = st /\ Status(g)' = st
      /\ \A h \in Instances : h # g => outq'[h] = outq[h]
  <2>1. st \in Statuses
    BY DEF Statuses, Active
  <2> QED BY <1>2, <1>3, <2>1, QueuedEvent, StatusWritten DEF SetStatus
<1>5. run'[g][s].phase \notin {"output", "done"}
  <2>1. LiveOwner(g, s) /\ run[g][s] \in RunRecord
    BY CurrentRecord DEF RequestPause, RequestStop
  <2>2. run[g][s].phase \notin {"output", "done"}
    BY <2>1, PauseReaches, StopReaches, InstancesAssumption DEF RequestPause, RequestStop, IInv
  <2>3. run'[g][s].phase = run[g][s].phase
    <3>1. CASE RequestPause(g, s)
      <4> DEFINE r == [run[g][s] EXCEPT !.pause = TRUE]
      <4>1. run' = [run EXCEPT ![g][s] = r] /\ r.phase = run[g][s].phase
        BY <2>1, <3>1 DEF RequestPause, TypeOK, RunRecord
      <4> HIDE DEF r
      <4>2. run'[g][s] = r
        BY <4>1, OneRecordMoves
      <4> QED BY <4>1, <4>2
    <3>2. CASE RequestStop(g, s)
      <4> DEFINE r == [run[g][s] EXCEPT !.stop = TRUE]
      <4>1. run' = [run EXCEPT ![g][s] = r] /\ r.phase = run[g][s].phase
        BY <2>1, <3>2 DEF RequestStop, TypeOK, RunRecord
      <4> HIDE DEF r
      <4>2. run'[g][s] = r
        BY <4>1, OneRecordMoves
      <4> QED BY <4>1, <4>2
    <3> QED BY <3>1, <3>2
  <2> QED BY <2>2, <2>3
<1>6. OwnedFits(g, s)'
  BY <1>4, <1>5 DEF OwnedFits, Told
<1> QED BY <1>1, <1>3, <1>4, <1>6, EventsOfWorker DEF IInv

\* The run of the engine writes no status and announces none.
LEMMA ExecutionEvents ==
  ASSUME TypeOK, IInv, AllEventsFit, TypeOK', NEW g \in Instances, NEW s \in Slots,
         Ends(g, s) \/ RunningEmitted(g, s) \/ DrainOutput(g, s)
  PROVE  AllEventsFit'
<1>1. Moved(g, s) /\ owner[g] = s
  BY ExecutionMoves DEF IInv, Moved, OneOwner
<1>2. outq' = outq /\ seen' = seen /\ UNCHANGED <<version, row>>
  <2>1. CASE Ends(g, s)
    BY <2>1, EndsConclude DEF Conclude, durable
  <2>2. CASE RunningEmitted(g, s) \/ DrainOutput(g, s)
    BY <2>2 DEF RunningEmitted, DrainOutput, durable
  <2> QED BY <2>1, <2>2
<1>3. run'[g][s].phase \in {"draining", "flushing"} \/ (run'[g][s].phase = "running" /\ Told(g))
  <2>1. CASE Ends(g, s)
    BY <2>1, EndsConclude, ConcludeEffect
  <2>2. CASE RunningEmitted(g, s)
    <3>1. Told(g)
      BY <1>1, <2>2 DEF AllEventsFit, EventsFit, OwnedFits, RunningEmitted
    <3>2. run'[g][s].phase = "running"
      BY <2>2, CurrentRecord DEF RunningEmitted, TypeOK, RunRecord
    <3> QED BY <3>1, <3>2
  <2>3. CASE DrainOutput(g, s)
    BY <2>3, CurrentRecord DEF DrainOutput, TypeOK, RunRecord
  <2> QED BY <2>1, <2>2, <2>3
<1>4. Told(g) => Told(g)'
  BY <1>2, SameEvents DEF Told, Status
<1>5. OwnedFits(g, s)'
  BY <1>3, <1>4 DEF OwnedFits
<1> QED BY <1>1, <1>2, <1>5, EventsOfWorker DEF IInv

\* PAUSED and STOPPED are announced as they are written; the final status of
\* a finished graph is told with its output.
LEMMA WriteFinalEvents ==
  ASSUME TypeOK, IInv, AllEventsFit, TypeOK', NEW g \in Instances, NEW s \in Slots,
         WriteFinal(g, s)
  PROVE  AllEventsFit'
<1>1. Moved(g, s)
  BY WriteFinalMoves DEF IInv
<1> DEFINE f == Upgraded(run[g][s])
           d == f \in {"PAUSED", "STOPPED"}
           r == [run[g][s] EXCEPT !.phase = IF d THEN "emitting" ELSE "output",
                                  !.wait = Len(outq'[g]), !.final = f, !.outcome = f]
<1>2. run[g][s] \in RunRecord
  BY CurrentRecord
<1>3. run' = [run EXCEPT ![g][s] = r]
  BY DEF WriteFinal
<1>4. r.phase = (IF d THEN "emitting" ELSE "output") /\ r.wait = Len(outq'[g])
  BY <1>2 DEF RunRecord
<1> HIDE DEF r
<1>5. run'[g][s] = r
  BY <1>3, OneRecordMoves
<1>6. seen' = seen /\ version' = version
      /\ outq' = IF d THEN [outq EXCEPT ![g] = Append(@, f)] ELSE outq
  BY DEF WriteFinal
<1>7. row' = UpdateStatus(g, f) /\ f \in Statuses
  <2>1. run[g][s].engine => run[g][s].ver = version[g]
    BY <1>1 DEF Moved, IInv, Fits, TaskFits, EngineFits
  <2> QED BY <1>2, <2>1, FinalWritten DEF Upgraded, RunRecord, Statuses, Terminal
<1> HIDE DEF f
<1>8. Status(g)' = f
  BY <1>6, <1>7, StatusWritten
<1>9. CASE d
  <2>1. outq' = [outq EXCEPT ![g] = Append(@, f)]
    BY <1>6, <1>9
  <2>2. Last(g)' = f /\ \A h \in Instances : h # g => outq'[h] = outq[h]
    BY <1>7, <2>1, QueuedEvent
  <2>3. OwnedFits(g, s)'
    BY <1>4, <1>5, <1>8, <1>9, <2>2 DEF OwnedFits, Told
  <2> QED BY <1>1, <1>6, <2>2, <2>3, EventsOfWorker DEF IInv
<1>10. CASE ~d
  <2>1. OwnedFits(g, s)'
    BY <1>4, <1>5, <1>10 DEF OwnedFits
  <2> QED BY <1>1, <1>6, <1>10, <2>1, EventsOfWorker DEF IInv
<1> QED BY <1>9, <1>10

\* A pause that ends as STOPPED announces it.
LEMMA UpgradeEvents ==
  ASSUME TypeOK, IInv, AllEventsFit, TypeOK', NEW g \in Instances, NEW s \in Slots,
         UpgradeToStopped(g, s)
  PROVE  AllEventsFit'
<1>1. Moved(g, s) /\ run[g][s] \in RunRecord
  BY UpgradeMoves, CurrentRecord DEF IInv
<1>2. seen' = seen /\ version' = version /\ row' = UpdateStatus(g, "STOPPED")
      /\ outq' = [outq EXCEPT ![g] = Append(@, "STOPPED")] /\ "STOPPED" \in Statuses
  BY DEF UpgradeToStopped, SetStatus, Statuses, Terminal
<1>3. /\ Last(g)' = "STOPPED" /\ Status(g)' = "STOPPED"
      /\ \A h \in Instances : h # g => outq'[h] = outq[h]
  BY <1>2, QueuedEvent, StatusWritten
<1>4. run'[g][s].phase = "upgrading"
  BY <1>1 DEF UpgradeToStopped, TypeOK, RunRecord
<1>5. OwnedFits(g, s)'
  BY <1>3, <1>4 DEF OwnedFits, Told
<1> QED BY <1>1, <1>2, <1>3, <1>5, EventsOfWorker DEF IInv

\* A finalization ends when its events are out: the graph's output tells the
\* status that was written.
LEMMA FinishEvents ==
  ASSUME TypeOK, IInv, AllEventsFit, TypeOK', NEW g \in Instances, NEW s \in Slots,
         FinishDrained(g, s) \/ FinishOutput(g, s) \/ ExecuteEnds(g, s)
  PROVE  AllEventsFit'
<1>1. Moved(g, s) /\ owner[g] = s /\ TaskFits(g, s) /\ OwnedFits(g, s) /\ run[g][s] \in RunRecord
  BY FinishMoves, CurrentRecord DEF IInv, Moved, OneOwner, Fits, AllEventsFit, EventsFit
<1>2. outq' = outq /\ UNCHANGED <<version, row, executor, epoch>>
  BY DEF FinishDrained, FinishOutput, ExecuteEnds, Settle, durable
<1>3. Status(g)' = Status(g)
  BY <1>2 DEF Status
<1>4. run'[g][s].phase = IF run[g][s].engine /\ ~ExecuteEnds(g, s) THEN "settled" ELSE "done"
  <2>1. ASSUME NEW ph, run' = [run EXCEPT ![g][s] = [run[g][s] EXCEPT !.phase = ph]]
        PROVE  run'[g][s].phase = ph
    <3> DEFINE r == [run[g][s] EXCEPT !.phase = ph]
    <3>1. run' = [run EXCEPT ![g][s] = r] /\ r.phase = ph
      BY <1>1, <2>1 DEF RunRecord
    <3> HIDE DEF r
    <3>2. run'[g][s] = r
      BY <3>1, OneRecordMoves
    <3> QED BY <3>1, <3>2
  <2>2. CASE ExecuteEnds(g, s)
    <3>1. run' = [run EXCEPT ![g][s] = [run[g][s] EXCEPT !.phase = "done"]]
      BY <2>2 DEF ExecuteEnds, TypeOK
    <3> QED BY <2>1, <2>2, <3>1
  <2>3. CASE ~ExecuteEnds(g, s)
    <3>1. run' = [run EXCEPT ![g][s] = [run[g][s] EXCEPT
                    !.phase = IF run[g][s].engine THEN "settled" ELSE "done"]]
      BY <2>3 DEF FinishDrained, FinishOutput, Settle
    <3> QED BY <2>1, <2>3, <3>1
  <2> QED BY <2>2, <2>3
<1>5. executor[g] = epoch \/ Status(g) \notin Active
  BY <1>1 DEF FinishDrained, FinishOutput, ExecuteEnds, TaskFits, EngineFits, StopFits, Active
<1>6. Told(g)' /\ \A h \in Instances : h # g => seen'[h] = seen[h]
  <2>1. CASE FinishDrained(g, s) \/ ExecuteEnds(g, s)
    <3>1. seen' = seen /\ Told(g)
      BY <1>1, <2>1 DEF FinishDrained, ExecuteEnds, OwnedFits
    <3> QED BY <1>2, <1>3, <3>1, SameEvents DEF Told
  <2>2. CASE FinishOutput(g, s)
    <3>1. outq[g] \in Seq(Statuses) /\ Len(outq[g]) = 0
      BY <1>1, <2>2 DEF OwnedFits, FinishOutput, TypeOK
    <3>2. outq'[g] = <<>>
      BY <1>2, <3>1
    <3>3. Status(g) = run[g][s].final
      BY <1>1, <2>2 DEF FinishOutput, TaskFits, EngineFits, StopFits, Concluded
    <3>4. seen' = [seen EXCEPT ![g] = run[g][s].final]
      BY <2>2 DEF FinishOutput
    <3> QED BY <1>3, <3>2, <3>3, <3>4 DEF Told, Last, TypeOK
  <2> QED BY <2>1, <2>2
<1>7. OwnedFits(g, s)'
  BY <1>2, <1>3, <1>4, <1>5, <1>6 DEF OwnedFits
<1> QED BY <1>1, <1>2, <1>6, <1>7, EventsOfWorker DEF IInv

\* An admission announces RUNNING, or leaves it to its finalization.
LEMMA AdmissionEvents ==
  ASSUME TypeOK, AllEventsFit, TypeOK', NEW g \in Instances, Admission(g)
  PROVE  AllEventsFit'
<1>1. PICK s \in Slots :
        /\ Admitted(g, s) /\ seen' = seen
        /\ \A h \in Instances : h # g => outq'[h] = outq[h]
        /\ run'[g][s].phase = "starting" => Last(g)' = "RUNNING"
  BY AdmissionAnnounces
<1>2. /\ Status(g)' = "RUNNING"
      /\ \A h \in Instances : h # g => row'[h] = row[h] /\ version'[h] = version[h]
  BY <1>1, AdmittedRow DEF Admitted
<1>3. /\ OnlyMoves(g, s) /\ owner'[g] = s /\ epoch' = epoch
      /\ run'[g][s].phase \in {"starting", "draining"}
      /\ \A h \in Instances : h # g => executor'[h] = executor[h] /\ owner'[h] = owner[h]
  BY <1>1 DEF Admitted, TypeOK
<1>4. \A h \in Instances : h # g => Status(h)' = Status(h)
  BY <1>2 DEF Status
<1>5. OwnedFits(g, s)'
  BY <1>1, <1>2, <1>3 DEF OwnedFits, Told
<1> QED BY <1>1, <1>3, <1>4, <1>5, EventsMoved

\* Of an instance without a row nothing was announced.
LEMMA CreateEvents ==
  ASSUME TypeOK, IInv, AllEventsFit, NEW g \in Instances, CreateInstance(g)
  PROVE  AllEventsFit'
<1>1. /\ UNCHANGED <<version, executor, epoch, owner, run, outq, seen>>
      /\ LatestMoves(g) /\ Status(g) = "ABSENT" /\ Status(g)' = "PENDING"
  BY CreateEffect DEF CreateInstance
<1>2. ASSUME NEW u \in Slots, Working(g, u)
      PROVE  FALSE
  <2>1. TaskFits(g, u) /\ run[g][u] \in RunRecord
    BY <1>2, CurrentRecord DEF IInv, Fits
  <2> QED BY <1>1, <1>2, <2>1 DEF TaskFits, EngineFits, StopFits, Announced, Concluded, Working,
                                  RunRecord, Phases, Terminal
<1>3. Last(g)' = "ABSENT"
  <2>1. owner[g] \in Slots \union {0}
    BY DEF TypeOK
  <2>2. ASSUME owner[g] \in Slots
        PROVE  run[g][owner[g]].phase \in {"none", "done"}
    BY <1>2, <2>2 DEF Working
  <2>3. Told(g)
    BY <2>1, <2>2 DEF AllEventsFit, EventsFit, UnownedFits, OwnedFits
  <2>4. Last(g)' = Last(g)
    BY <1>1, SameEvents
  <2> QED BY <1>1, <2>3, <2>4 DEF Told
<1>4. EventsFit(g)'
  BY <1>1, <1>2, <1>3 DEF EventsFit, UnownedFits, OwnedFits, Told, Active, Working
<1>5. ASSUME NEW h \in Instances, h # g
      PROVE  EventsFit(h)'
  <2>1. Status(h)' = Status(h)
    BY <1>1, <1>5 DEF LatestMoves, Status
  <2> QED BY <1>1, <2>1, EventsElsewhere DEF AllEventsFit
<1> QED BY <1>4, <1>5 DEF AllEventsFit

\* A finalize-only stop has its status still to write.
LEMMA StopPausedEvents ==
  ASSUME TypeOK, AllEventsFit, TypeOK', NEW g \in Instances, NEW s \in Slots, StopPaused(g, s)
  PROVE  AllEventsFit'
<1>1. /\ OnlyMoves(g, s) /\ run'[g][s].phase = "draining"
      /\ owner' = [owner EXCEPT ![g] = s] /\ UNCHANGED <<version, executor, epoch>>
      /\ LatestMoves(g) /\ seen' = seen /\ outq' = [outq EXCEPT ![g] = Append(@, "STOPPING")]
  BY StopPausedEffect DEF StopPaused, SetStatus
<1>2. \A h \in Instances : h # g =>
          outq'[h] = outq[h] /\ Status(h)' = Status(h) /\ owner'[h] = owner[h]
  BY <1>1 DEF TypeOK, LatestMoves, Status
<1>3. OwnedFits(g, s)' /\ owner'[g] = s
  BY <1>1 DEF OwnedFits, TypeOK
<1> QED BY <1>1, <1>2, <1>3, EventsMoved

\* A task that is released leaves a status that was announced and that no
\* sweep will close.
LEMMA ReleaseEvents ==
  ASSUME TypeOK, AllEventsFit, TypeOK', NEW g \in Instances, NEW s \in Slots, Release(g, s)
  PROVE  AllEventsFit'
<1>1. /\ OnlyMoves(g, s) /\ run[g][s].phase = "done" /\ run'[g][s].phase = "none"
      /\ owner' = IF owner[g] = s THEN [owner EXCEPT ![g] = 0] ELSE owner
      /\ UNCHANGED <<version, row, executor, epoch, outq, seen>>
  BY ReleaseEffect DEF Release
<1>2. ASSUME NEW h \in Instances
      PROVE  Last(h)' = Last(h) /\ Status(h)' = Status(h)
  BY <1>1, SameEvents DEF Status
<1>3. ASSUME NEW h \in Instances, ~(h = g /\ owner[g] = s)
      PROVE  EventsFit(h)'
  <2>1. owner'[h] = owner[h] /\ EventsFit(h)
    BY <1>1, <1>3 DEF TypeOK, AllEventsFit
  <2>2. \A u \in Slots : owner[h] = u => run'[h][u] = run[h][u]
    BY <1>1, <1>3 DEF OnlyMoves
  <2> QED BY <1>1, <1>2, <2>1, <2>2 DEF EventsFit, UnownedFits, OwnedFits, Told
<1>4. CASE owner[g] = s
  <2>1. owner'[g] = 0 /\ OwnedFits(g, s)
    BY <1>1, <1>4 DEF TypeOK, AllEventsFit, EventsFit
  <2>2. UnownedFits(g)'
    BY <1>1, <1>2, <2>1 DEF OwnedFits, UnownedFits, Told
  <2>3. EventsFit(g)'
    BY <2>1, <2>2, InstancesAssumption DEF EventsFit
  <2> QED BY <1>3, <2>3 DEF AllEventsFit
<1> QED BY <1>3, <1>4 DEF AllEventsFit

\* A delivery changes who was told, not what.
LEMMA EmitEvents ==
  ASSUME TypeOK, AllEventsFit, NEW g \in Instances, EmitStatus(g)
  PROVE  AllEventsFit'
<1>1. /\ Last(g)' = Last(g) /\ Len(outq[g]) \in Nat \ {0} /\ Len(outq'[g]) = Len(outq[g]) - 1
      /\ \A h \in Instances : h # g => outq'[h] = outq[h] /\ seen'[h] = seen[h] /\ run'[h] = run[h]
      /\ \A s \in Slots : run[g][s].wait # 0 => run'[g][s].wait = run[g][s].wait - 1
  BY DeliveredEvent
<1>2. UNCHANGED <<version, row, executor, epoch, owner>>
  BY DEF EmitStatus, durable
<1>3. \A h \in Instances : Status(h)' = Status(h)
  BY <1>2 DEF Status
<1>4. EventsFit(g)'
  <2>1. EventsFit(g) /\ \A s \in Slots : run'[g][s].phase = run[g][s].phase
    BY EmitEffect DEF AllEventsFit, SameControl
  <2> QED BY <1>1, <1>2, <1>3, <2>1 DEF EventsFit, UnownedFits, OwnedFits, Told
<1>5. ASSUME NEW h \in Instances, h # g
      PROVE  EventsFit(h)'
  BY <1>1, <1>2, <1>3, <1>5, EventsElsewhere DEF AllEventsFit
<1> QED BY <1>4, <1>5 DEF AllEventsFit

\* With the process go its events and its subscribers.
LEMMA DeathEvents ==
  ASSUME TypeOK, ForgetMemory
  PROVE  AllEventsFit'
<1>1. \A g \in Instances : owner'[g] = 0 /\ Last(g)' = "ABSENT"
  BY DEF ForgetMemory, Last
<1> QED BY <1>1, InstancesAssumption DEF AllEventsFit, EventsFit, UnownedFits, Told

\* A sweep closes rows that nobody was told of, or whose owner has its final
\* status still to write.
LEMMA SweepEvents ==
  ASSUME TypeOK, IInv, AllEventsFit, Sweep
  PROVE  AllEventsFit'
<1>1. UNCHANGED <<version, executor, epoch, run, owner, outq, seen>>
  BY DEF Sweep, memory
<1> SUFFICES ASSUME NEW g \in Instances
             PROVE  EventsFit(g)'
  BY DEF AllEventsFit
<1>2. EventsFit(g) /\ Last(g)' = Last(g)
  BY <1>1, SameEvents DEF AllEventsFit
<1>3. CASE g \notin Stale
  <2>1. Status(g)' = Status(g)
    BY <1>1, <1>3 DEF Sweep, Status
  <2> QED BY <1>1, <1>2, <2>1, EventsElsewhere
<1>4. CASE g \in Stale
  <2>1. Status(g)' = "CRASHED" /\ Status(g) \in Active /\ executor[g] # epoch
    BY <1>1, <1>4 DEF Sweep, Stale, Status, TypeOK
  <2>2. CASE owner[g] = 0
    <3>1. Last(g)' = "ABSENT"
      BY <1>2, <2>1, <2>2 DEF EventsFit, UnownedFits
    <3> QED BY <1>1, <2>2, <3>1, InstancesAssumption DEF EventsFit, UnownedFits, Told
  <2>3. ASSUME NEW s \in Slots, owner[g] = s
        PROVE  OwnedFits(g, s)' /\ owner'[g] # 0
    <3>1. run[g][s].phase # "done" /\ OwnedFits(g, s)
      BY <1>2, <2>1, <2>3 DEF EventsFit, OwnedFits
    <3>2. Working(g, s) /\ TaskFits(g, s)
      BY <2>3, <3>1, InstancesAssumption DEF IInv, OwnerIsTask, Fits, Working
    <3>3. run[g][s].phase \in {"draining", "flushing"}
      BY <2>1, <3>2 DEF TaskFits, EngineFits, StopFits, Active
    <3> QED BY <1>1, <2>3, <3>3, InstancesAssumption DEF OwnedFits
  <2>4. owner[g] \in Slots \union {0}
    BY DEF TypeOK
  <2> QED BY <1>1, <2>2, <2>3, <2>4 DEF EventsFit
<1> QED BY <1>3, <1>4

\* What touches neither rows, tasks nor events.
LEMMA EventsKept ==
  ASSUME AllEventsFit, UNCHANGED <<durable, epoch, run, owner, outq, seen>>
  PROVE  AllEventsFit'
<1> SUFFICES ASSUME NEW g \in Instances PROVE EventsFit(g)'
  BY DEF AllEventsFit
<1>1. Status(g)' = Status(g)
  BY DEF durable, Status
<1> QED BY <1>1, EventsElsewhere DEF AllEventsFit, durable

\* Every step keeps what was announced in line with what is stored.
LEMMA NextEvents ==
  ASSUME TypeOK, IInv, AllEventsFit, TypeOK', [Next]_vars
  PROVE  AllEventsFit'
<1>1. ASSUME NEW g \in Instances, Admission(g) \/ CreateInstance(g)
      PROVE  AllEventsFit'
  BY <1>1, AdmissionEvents, CreateEvents
<1>2. ASSUME NEW g \in Instances, EmitStatus(g)
      PROVE  AllEventsFit'
  BY <1>2, EmitEvents
<1>3. CASE ProcessDies \/ \E g \in Instances : DiesInAdmission(g)
  BY <1>3, DeathEvents DEF ProcessDies, DiesInAdmission
<1>4. ASSUME NEW g \in Instances, Unregister(g) \/ LookupCoordinator(g) \/ RecoverSkip(g)
      PROVE  AllEventsFit'
  BY <1>4, EventsKept DEF Unregister, LookupCoordinator, RecoverSkip
<1>5. CASE RecoverEnd \/ UNCHANGED vars
  BY <1>5, EventsKept DEF RecoverEnd, vars, durable
<1>6. CASE Sweep
  BY <1>6, SweepEvents
<1>7. ASSUME NEW g \in Instances, NEW s \in Slots,
             \/ RequestPause(g, s) \/ RequestStop(g, s)
             \/ EngineReturns(g, s) \/ EngineInterrupted(g, s) \/ EngineFaults(g, s)
             \/ Cancelled(g, s) \/ (Progress(g, s) /\ ~Release(g, s))
      PROVE  AllEventsFit'
  BY <1>7, RequestEvents, ExecutionEvents, WriteFinalEvents, UpgradeEvents, FinishEvents
  DEF Progress, Ends
<1>8. ASSUME NEW g \in Instances, NEW s \in Slots, StopPaused(g, s) \/ Release(g, s)
      PROVE  AllEventsFit'
  BY <1>8, StopPausedEvents, ReleaseEvents
<1> QED
  BY <1>1, <1>2, <1>3, <1>4, <1>5, <1>6, <1>7, <1>8 DEF Next, Progress, Admission

\* Nothing is announced initially.
LEMMA InitEvents == Init => AllEventsFit
<1> SUFFICES ASSUME Init PROVE AllEventsFit
  OBVIOUS
<1>1. \A g \in Instances : owner[g] = 0 /\ Last(g) = "ABSENT"
  BY DEF Init, Last
<1> QED BY <1>1, InstancesAssumption DEF AllEventsFit, EventsFit, UnownedFits, Told

-----------------------------------------------------------------------------
(* The property *)

\* When the owner is gone and its events are out, the last status a subscriber
\* saw is the stored one: status events are chained, _finalize_instance waits
\* for them before it writes, and nobody writes without announcing.
THEOREM ObserversCatchUp == Spec => []ObserverUpToDate
<1>1. TypeOK /\ IInv /\ AllEventsFit /\ TypeOK' /\ [Next]_vars => AllEventsFit'
  BY NextEvents
<1>2. AllEventsFit => ObserverUpToDate
  BY DEF AllEventsFit, EventsFit, UnownedFits, Told, Last, ObserverUpToDate
<1> QED BY <1>1, <1>2, InitEvents, Invariant, PTL DEF Spec
=============================================================================
