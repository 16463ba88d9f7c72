--------------------------- MODULE DispatchPlanner ---------------------------
(***************************************************************************)
(* planTopicDispatch (internal/schedule/planner.go): which nodes of one    *)
(* topic a tick starts.  A snapshot s holds the rows of the topic's nodes, *)
(* the two focus pointers and the nodes listed as running.  A plan is a    *)
(* function that gives every node to be started its place in the order.    *)
(***************************************************************************)
EXTENDS Integers, FiniteSets

Terminal == {"succeeded", "failed", "cancelled"}
Blocking == {"blocked", "retry_cooldown", "waiting_external"}
NodeStatus == {"pending", "ready", "running"} \cup Terminal \cup Blocking

NonTerminal(s) == {n \in DOMAIN s.rows : s.rows[n].status \notin Terminal}

(* A fault: a layer that can make no progress is passed over.               *)
FaultPassesBlocked(s) ==
  LET open == {n \in NonTerminal(s) : s.rows[n].status \notin Blocking}
  IN {n \in open : \A m \in open : s.rows[n].rank <= s.rows[m].rank}

(* The nodes of the smallest rank; a blocked node keeps its layer active.   *)
ActiveLayer(s) ==
  {n \in NonTerminal(s) : \A m \in NonTerminal(s) : s.rows[n].rank <= s.rows[m].rank}

ActiveCandidates(s) == {n \in ActiveLayer(s) : s.rows[n].status \notin Blocking}

(* sortActiveCandidates: entered_priority_at, then node_id.                 *)
Before(s, m, n) ==
  \/ s.rows[m].entered < s.rows[n].entered
  \/ s.rows[m].entered = s.rows[n].entered /\ m < n

(* chooseCurrentNodeID: the focus, else the node last worked on, else the   *)
(* first one in the order of the queue.                                     *)
CurrentNode(s) ==
  LET C == ActiveCandidates(s)
  IN IF s.current \in C THEN s.current
     ELSE IF s.lastWorked \in C THEN s.lastWorked
     ELSE CHOOSE n \in C : \A m \in C \ {n} : Before(s, n, m)

(* A fault: running nodes are dispatched again.                             *)
FaultIgnoresRunning(s) == ActiveCandidates(s)
Dispatchable(s) == ActiveCandidates(s) \ s.running

(* The current node goes first, the others keep their order.                *)
StartsBefore(s, m, n) ==
  /\ m # n
  /\ \/ m = CurrentNode(s)
     \/ n # CurrentNode(s) /\ Before(s, m, n)

Place(s, n) == Cardinality({m \in Dispatchable(s) : StartsBefore(s, m, n)})

Plan(s, slots) ==
  [ n \in {d \in Dispatchable(s) : Place(s, d) < slots} |-> Place(s, n) ]
=============================================================================
