------------------------- MODULE InstanceLifecycle -------------------------
(***************************************************************************)
(* What the graph runtime promises about the status of a graph instance,   *)
(* whoever drives it: the table of GraphInstanceStatus                     *)
(* (src/modex_graph/constants.py) with the drain states in between.        *)
(* Nothing is said here about tasks, versions or processes; GraphLifecycle *)
(* is the detailed specification that implements this one.                 *)
(***************************************************************************)
CONSTANT Instances

VARIABLE st   \* st[g]: the status of the latest version of instance g

\* The statuses an execution owner holds while it works or drains
\* (_ACTIVE_STATUSES of instance_store.py).
Active == {"RUNNING", "PAUSING", "STOPPING"}

\* The statuses a finished owner leaves behind.
Settled == {"PAUSED", "STOPPED", "COMPLETED", "FAILED", "CRASHED"}

Statuses == {"ABSENT", "PENDING"} \union Active \union Settled

\* Which status may follow which.  STOPPED has no successor, a requested stop
\* never falls back to PAUSED or PAUSING, and nothing but a fault, an end of
\* the graph or a completed drain leaves an active status.  CRASHED may turn
\* into STOPPED because the sweeper can hit an instance while a stop of the
\* paused instance is being finalized.
Successors ==
    [ ABSENT    |-> {"PENDING"},
      PENDING   |-> {"RUNNING"},
      RUNNING   |-> {"PAUSING", "STOPPING"} \union (Settled \ {"STOPPED"}),
      PAUSING   |-> {"STOPPING"} \union (Settled \ {"STOPPED"}),
      STOPPING  |-> Settled \ {"PAUSED"},
      PAUSED    |-> {"RUNNING", "STOPPING"},
      STOPPED   |-> {},
      COMPLETED |-> {"RUNNING"},
      FAILED    |-> {"RUNNING"},
      CRASHED   |-> {"RUNNING", "STOPPED"} ]

Init == st = [g \in Instances |-> "ABSENT"]

\* One instance takes one step of the table.
Move(g) == \E s \in Successors[st[g]] : st' = [st EXCEPT ![g] = s]

\* The sweep after a process died declares every active instance of the dead
\* process crashed in one go.
Sweep(gs) ==
    /\ gs # {}
    /\ \A g \in gs : st[g] \in Active
    /\ st' = [g \in Instances |-> IF g \in gs THEN "CRASHED" ELSE st[g]]

Next == (\E g \in Instances : Move(g)) \/ (\E gs \in SUBSET Instances : Sweep(gs))

Spec == Init /\ [][Next]_st
=============================================================================
