---------------------------- MODULE MC_GraphRun ----------------------------
(* Instances of GraphRun for TLC. *)
EXTENDS GraphRun, TLC

CONSTANTS START, END, A, B

None == {}

\* START also delivers to END although that edge is not declared.
StartToEnd == {<<START, END>>}

\* A fan-in: A may feed END directly, through B, or both.
FanInNodes == {START, A, B, END}
FanInEdges == {<<START, A>>, <<A, B>>, <<A, END>>, <<B, END>>}

\* A chain.
ChainNodes == {START, A, END}
ChainEdges == {<<START, A>>, <<A, END>>}

\* The smallest graph with a loop: A and B feed each other.
LoopEdges == FanInEdges \union {<<B, A>>}

OnlyA == {A}

\* A bound: only invocations of ON_RECEIVE nodes crash or are cancelled.
OnlyOnReceiveFails ==
    \A n \in Nodes \ OnReceive : \A i \in 1..Latest(n) : inv[n][i].st \notin {"CRASHED", "CANCELED"}
============================================================================
