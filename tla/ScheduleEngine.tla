--------------------------- MODULE ScheduleEngine ---------------------------
(***************************************************************************)
(* The scheduler of internal/schedule: two SQLite tables (runtime_store.go)*)
(* and the tick that selects a topic, plans and runs its nodes (engine.go).*)
(*                                                                         *)
(* A tick is a sequence of separate statements and transactions around one *)
(* long worker call, with no transaction and no lock of the database held  *)
(* in between.  The ticks of one process follow each other (the server     *)
(* holds scheduleMu), so a Ticker stands for a process; Enqueue, and the   *)
(* ticks of other processes, come between any two steps of a tick.         *)
(*                                                                         *)
(* Instants are only compared, so a time column holds its place in the     *)
(* order of the instants of the column, 0 for NULL.  Session ids, agent    *)
(* specs, the plan version, switch_count, the error texts and              *)
(* dispatch_history are read by no step and are left out.                  *)
(***************************************************************************)
EXTENDS DispatchPlanner

CONSTANTS
  Topic,           \* topic_id values, numbered as TopicID strings sort
  Node,            \* node_id values, numbered as NodeID strings sort
  TopicOf,         \* the topic of a node
  PriorityNode,    \* the node the vos has, or makes, for priority work
  Ticker,          \* processes that run ticks
  Slots,           \* --max-dispatch
  Answers,         \* what a worker may answer for a normal node
  PriorityAnswers, \* what it may answer for a priority node
  NoNode, NoTopic, NoStatus, ExecuteError,
  VosMayFail,      \* whether the calls to the vos may return errors
  MayCrash         \* whether a process may die between two steps

Answer == [ok : BOOLEAN, retryable : BOOLEAN, next : NodeStatus \cup {NoStatus}]

ASSUME FiniteAssumption == IsFiniteSet(Topic) /\ IsFiniteSet(Node)
ASSUME IdAssumption ==
  /\ Topic \subseteq Nat \ {0} /\ NoTopic \notin Topic
  /\ Node \subseteq Nat \ {0} /\ NoNode \notin Node
  /\ NoStatus \notin NodeStatus
ASSUME TopicAssumption ==
  /\ TopicOf \in [Node -> Topic]
  /\ PriorityNode \in [Topic -> Node]
  /\ \A t \in Topic : TopicOf[PriorityNode[t]] = t
ASSUME SlotsAssumption == Slots \in Nat \ {0}
ASSUME AnswerAssumption ==
  /\ Answers \subseteq Answer \cup {ExecuteError}
  /\ PriorityAnswers \subseteq Answer \cup {ExecuteError}
  /\ ExecuteError \notin Answer
ASSUME FaultAssumption == VosMayFail \in BOOLEAN /\ MayCrash \in BOOLEAN

NodesOf(t) == {n \in Node : TopicOf[n] = t}
IsPriority(n) == n = PriorityNode[TopicOf[n]]
Business == {n \in Node : ~IsPriority(n)}

VARIABLES
  topics,  \* the topic_runtime table
  nodes,   \* the node_queue table
  pc,      \* where the tick of a process stands
  sel,     \* the topic it selected
  saw,     \* the priority_dirty it read with the topic
  todo,    \* the planned nodes it has yet to start, with their places
  node,    \* the node it is dispatching
  assign   \* the priority plan its worker makes: the rank of each candidate

tables == <<topics, nodes>>
frames == <<pc, sel, saw, todo, node, assign>>
vars == <<topics, nodes, pc, sel, saw, todo, node, assign>>

-----------------------------------------------------------------------------
(* The tables.                                                              *)

Level == 0..3     \* queue_level L0 to L3
TopicRow == [ exists : BOOLEAN, level : Level, dirty : BOOLEAN,
              hasPriority : BOOLEAN,  \* priority_node_id is set
              served : Nat,           \* last_served_at
              current : Node \cup {NoNode}, lastWorked : Node \cup {NoNode},
              running : SUBSET Node ] \* running_node_ids_json
NewTopic == [ exists |-> FALSE, level |-> 0, dirty |-> TRUE, hasPriority |-> FALSE,
              served |-> 0, current |-> NoNode, lastWorked |-> NoNode,
              running |-> {} ]

Label == {"priority", "interactive", "now", "next"}
NodeRow == [ status : NodeStatus \cup {"absent"}, rank : Nat, label : Label,
             entered : Nat ]        \* entered_priority_at
NoRow == [status |-> "absent", rank |-> 0, label |-> "priority", entered |-> 0]

Rows(t) == {n \in NodesOf(t) : nodes[n].status # "absent"}

(* An instant later than every one in the table, and the column f with its  *)
(* instants numbered again: 0 stays 0, the order of the others is kept.     *)
Now == Cardinality(Node) + Cardinality(Topic) + 1
Renumber(f) ==
  [ x \in DOMAIN f |->
      Cardinality({v \in {f[y] : y \in DOMAIN f} \cup {0} : v < f[x]}) ]

(* The rows q with the nodes N entering their priority now.                 *)
Enter(q, N) ==
  LET at == Renumber([ n \in Node |-> IF n \in N THEN Now ELSE q[n].entered ])
  IN [ n \in Node |-> [q[n] EXCEPT !.entered = at[n]] ]

(* HasRunnableNodes                                                         *)
Runnable(t) ==
  \E n \in Rows(t) : nodes[n].status \notin Terminal \cup Blocking

(* syncTopicRunningNodeIDsTx: the list is made from the rows q.             *)
RunningIn(q, t) == {n \in NodesOf(t) : q[n].status = "running"}

(* TopicSnapshot.Validate: one label per rank, over terminal rows too.      *)
ValidSnapshot(t) ==
  \A m, n \in Rows(t) :
    nodes[m].rank = nodes[n].rank => nodes[m].label = nodes[n].label

(* BuildTopicSnapshot                                                       *)
Snapshot(t) ==
  [ rows |-> [n \in Rows(t) |-> nodes[n]], current |-> topics[t].current,
    lastWorked |-> topics[t].lastWorked, running |-> topics[t].running ]
-----------------------------------------------------------------------------
Init ==
  /\ topics = [t \in Topic |-> NewTopic]
  /\ nodes = [n \in Node |-> NoRow]
  /\ pc = [k \in Ticker |-> "idle"]
  /\ sel = [k \in Ticker |-> NoTopic]
  /\ saw = [k \in Ticker |-> FALSE]
  /\ todo = [k \in Ticker |-> <<>>]
  /\ node = [k \in Ticker |-> NoNode]
  /\ assign = [k \in Ticker |-> <<>>]

-----------------------------------------------------------------------------
(* Enqueue: EnsureTopic, then UpsertEnqueueNode in a transaction.           *)

(* Labels other nodes of the topic carry at rank 1.                         *)
LabelsInUse(n) ==
  {nodes[m].label : m \in {r \in Rows(TopicOf[n]) \ {n} : nodes[r].rank = 1}}

(* ensurePriorityRankLabelMappingTx looks at one such row, whichever SQLite *)
(* returns first.                                                           *)
Enqueue(n) ==
  /\ n \in Business
  /\ LabelsInUse(n) = {} \/ "interactive" \in LabelsInUse(n)
  /\ nodes' = Enter([nodes EXCEPT ![n].status = "ready", ![n].rank = 1,
                                  ![n].label = "interactive"], {n})
  /\ topics' = [topics EXCEPT ![TopicOf[n]].exists = TRUE, ![TopicOf[n]].dirty = TRUE]
  /\ UNCHANGED frames

(* The transaction is rolled back; the row of the topic was there before it.*)
RefuseEnqueue(n) ==
  /\ n \in Business
  /\ LabelsInUse(n) \ {"interactive"} # {}
  /\ UNCHANGED vars

-----------------------------------------------------------------------------
Goto(k, label) == pc' = [pc EXCEPT ![k] = label]

(* Tick returns: the caller's next tick starts afresh.                      *)
Return(k) ==
  /\ Goto(k, "idle")
  /\ sel' = [sel EXCEPT ![k] = NoTopic]
  /\ saw' = [saw EXCEPT ![k] = FALSE]
  /\ todo' = [todo EXCEPT ![k] = <<>>]
  /\ node' = [node EXCEPT ![k] = NoNode]
  /\ assign' = [assign EXCEPT ![k] = <<>>]

(* PromoteAgedTopics: the topics served longest ago, so far back that they  *)
(* passed the threshold, go up a level.                                     *)
PromoteAgedTopics(k) ==
  /\ pc[k] = "idle"
  /\ \E since \in 0..Cardinality(Topic) :
       topics' = [ t \in Topic |->
         IF topics[t].served \in 1..since /\ topics[t].level > 0
         THEN [topics[t] EXCEPT !.level = @ - 1] ELSE topics[t] ]
  /\ Goto(k, "select")
  /\ UNCHANGED <<nodes, sel, saw, todo, node, assign>>

(* queue_level, last_served_at with NULL first, topic_id                    *)
ServedBefore(t, u) ==
  \/ topics[t].level < topics[u].level
  \/ /\ topics[t].level = topics[u].level
     /\ \/ topics[t].served < topics[u].served
        \/ topics[t].served = topics[u].served /\ t < u

RunnableTopics == {t \in Topic : topics[t].exists /\ Runnable(t)}

NoRunnableTopic(k) ==
  /\ pc[k] = "select"
  /\ RunnableTopics = {}
  /\ Return(k)
  /\ UNCHANGED tables

Selects(k, t) ==
  /\ pc[k] = "select"
  /\ t \in RunnableTopics
  /\ \A u \in RunnableTopics \ {t} : ServedBefore(t, u)

(* "priority_node waits until current sessionevent calls complete"          *)
PriorityWaits(k, t) ==
  /\ Selects(k, t)
  /\ topics[t].dirty /\ topics[t].running # {}
  /\ Return(k)
  /\ UNCHANGED tables

SelectTopic(k, t) ==
  /\ Selects(k, t)
  /\ ~topics[t].dirty \/ topics[t].running = {}
  /\ Goto(k, IF topics[t].dirty THEN "priority" ELSE "plan")
  /\ sel' = [sel EXCEPT ![k] = t]
  /\ saw' = [saw EXCEPT ![k] = topics[t].dirty]
  /\ UNCHANGED <<tables, todo, node, assign>>

(* ensurePriorityNode: the vos finds or makes the node, UpsertPriorityNode  *)
(* leaves the status of a row it finds.                                     *)
EnsurePriorityNode(k) ==
  /\ pc[k] = "priority"
  /\ LET t == sel[k]
         p == PriorityNode[t]
     IN /\ IF topics[t].hasPriority THEN UNCHANGED nodes
           ELSE nodes' = [nodes EXCEPT
                  ![p].status = IF @ = "absent" THEN "ready" ELSE @,
                  ![p].rank = 0, ![p].label = "priority"]
        /\ topics' = [topics EXCEPT ![t].hasPriority = TRUE]
  /\ Goto(k, "priority_ready")
  /\ UNCHANGED <<sel, saw, todo, node, assign>>

EnsurePriorityNodeFails(k) ==
  /\ VosMayFail
  /\ pc[k] = "priority" /\ ~topics[sel[k]].hasPriority
  /\ Return(k)
  /\ UNCHANGED tables

(* A fault: the status the node ended its last run with stays.              *)
FaultNotMadeReady(k) ==
  /\ pc[k] = "priority_ready"
  /\ nodes' = [nodes EXCEPT ![PriorityNode[sel[k]]].rank = 0]
  /\ Goto(k, "plan")
  /\ UNCHANGED <<topics, sel, saw, todo, node, assign>>

(* entered_priority_at of the only node of rank 0 orders nothing.           *)
MarkPriorityNodeReady(k) ==
  /\ pc[k] = "priority_ready"
  /\ nodes' = [nodes EXCEPT ![PriorityNode[sel[k]]].status = "ready",
                            ![PriorityNode[sel[k]]].rank = 0,
                            ![PriorityNode[sel[k]]].label = "priority"]
  /\ Goto(k, "plan")
  /\ UNCHANGED <<topics, sel, saw, todo, node, assign>>

PlanTopic(k) ==
  /\ pc[k] = "plan"
  /\ ValidSnapshot(sel[k])
  /\ LET plan == Plan(Snapshot(sel[k]), Slots)
     IN /\ DOMAIN plan # {}
        /\ todo' = [todo EXCEPT ![k] = plan]
  /\ Goto(k, "dispatch")
  /\ UNCHANGED <<tables, sel, saw, node, assign>>

(* The snapshot is rejected, the layer is stalled, or all of it is running. *)
NothingToDispatch(k) ==
  /\ pc[k] = "plan"
  /\ \/ ~ValidSnapshot(sel[k])
     \/ DOMAIN Plan(Snapshot(sel[k]), Slots) = {}
  /\ Return(k)
  /\ UNCHANGED tables
-----------------------------------------------------------------------------
(* dispatchOne                                                              *)

(* A fault: the running list is taken before the row is updated.            *)
FaultListsFirst(k) ==
  /\ pc[k] = "dispatch"
  /\ \E n \in DOMAIN todo[k] :
       /\ \A m \in DOMAIN todo[k] : todo[k][n] <= todo[k][m]
       /\ nodes' = [nodes EXCEPT ![n].status = "running"]
       /\ topics' = [topics EXCEPT ![sel[k]].running = RunningIn(nodes, sel[k]),
                                   ![sel[k]].current = n]
       /\ node' = [node EXCEPT ![k] = n]
       /\ todo' = [todo EXCEPT ![k] = [m \in DOMAIN @ \ {n} |-> @[m]]]
  /\ Goto(k, "prepare")
  /\ UNCHANGED <<sel, saw, assign>>

(* GetNode and MarkNodeRunning: whatever the status is by now, the node is  *)
(* set running, listed, and becomes the current node.                       *)
MarkNodeRunning(k) ==
  /\ pc[k] = "dispatch"
  /\ \E n \in DOMAIN todo[k] :
       /\ \A m \in DOMAIN todo[k] : todo[k][n] <= todo[k][m]
       /\ nodes' = [nodes EXCEPT ![n].status = "running"]
       /\ topics' = [topics EXCEPT ![sel[k]].running = RunningIn(nodes', sel[k]),
                                   ![sel[k]].current = n]
       /\ node' = [node EXCEPT ![k] = n]
       /\ todo' = [todo EXCEPT ![k] = [m \in DOMAIN @ \ {n} |-> @[m]]]
  /\ Goto(k, "prepare")
  /\ UNCHANGED <<sel, saw, assign>>

(* loadPriorityCandidates, and what the priority worker makes of them       *)
(* (_build_priority_plan of openmate_agent/worker.py): the candidates by    *)
(* bucket of their status, rank, entry and id, ranked from one.  A fault:   *)
(* the priority node is among the candidates.                               *)
FaultRanksPriority(t) == {n \in Rows(t) : nodes[n].status \notin Terminal}
Candidates(t) ==
  {n \in Rows(t) : ~IsPriority(n) /\ nodes[n].status \notin Terminal}

Bucket(n) ==
  IF nodes[n].status \in {"ready", "running"} THEN 0
  ELSE IF nodes[n].status \in Blocking THEN 2 ELSE 1

PlannedBefore(m, n) ==
  \/ Bucket(m) < Bucket(n)
  \/ /\ Bucket(m) = Bucket(n)
     /\ \/ nodes[m].rank < nodes[n].rank
        \/ nodes[m].rank = nodes[n].rank /\ Before([rows |-> nodes], m, n)

(* A fault: nodes of one bucket and rank are not told apart.                *)
FaultTiesRanks(t) ==
  [ n \in Candidates(t) |->
      1 + Cardinality({m \in Candidates(t) :
            \/ Bucket(m) < Bucket(n)
            \/ Bucket(m) = Bucket(n) /\ nodes[m].rank < nodes[n].rank}) ]
PriorityPlan(t) ==
  [ n \in Candidates(t) |->
      1 + Cardinality({m \in Candidates(t) : m # n /\ PlannedBefore(m, n)}) ]
PlanLabel(rank) == IF rank <= 2 THEN "now" ELSE "next"

(* EnsureSession, SetNodeSessionID and the dispatch_authorized event; then  *)
(* the worker starts.                                                       *)
StartWorker(k) ==
  /\ pc[k] = "prepare"
  /\ assign' = [assign EXCEPT
       ![k] = IF IsPriority(node[k]) THEN PriorityPlan(sel[k]) ELSE <<>>]
  /\ Goto(k, "execute")
  /\ UNCHANGED <<tables, sel, saw, todo, node>>

(* One of them fails and Tick returns; the node is not marked finished.     *)
PrepareFails(k) ==
  /\ VosMayFail
  /\ pc[k] = "prepare"
  /\ Return(k)
  /\ UNCHANGED tables

(* MarkNodeFinished                                                         *)
MarkNodeFinished(k, status) ==
  LET n == node[k]
      t == sel[k]
  IN /\ nodes' = [nodes EXCEPT ![n].status = status]
     /\ topics' = [topics EXCEPT
          ![t].running = RunningIn(nodes', t), ![t].lastWorked = n, ![t].current = n]

(* The worker's process fails, and the tick with it.                        *)
WorkerFails(k) ==
  /\ pc[k] = "execute"
  /\ ExecuteError \in (IF IsPriority(node[k]) THEN PriorityAnswers ELSE Answers)
  /\ MarkNodeFinished(k, "failed")
  /\ Return(k)

(* resolveNodeStatus                                                        *)
ResolveNodeStatus(n, a) ==
  IF a.next # NoStatus THEN a.next
  ELSE IF IsPriority(n) THEN IF a.ok THEN "succeeded" ELSE "failed"
  ELSE IF a.ok THEN "ready"
  ELSE IF a.retryable THEN "retry_cooldown" ELSE "failed"

(* Where the tick goes when a node is done.                                 *)
NextNode(k) == IF DOMAIN todo[k] = {} THEN "served" ELSE "dispatch"

WorkerAnswers(k, a) ==
  /\ pc[k] = "execute"
  /\ a # ExecuteError
  /\ a \in (IF IsPriority(node[k]) THEN PriorityAnswers ELSE Answers)
  /\ MarkNodeFinished(k, ResolveNodeStatus(node[k], a))
  /\ Goto(k, IF ~IsPriority(node[k]) THEN NextNode(k)
             ELSE IF a.ok THEN "apply" ELSE "clear")
  /\ node' = [node EXCEPT ![k] = IF IsPriority(@) THEN @ ELSE NoNode]
  /\ UNCHANGED <<sel, saw, todo, assign>>

(* ApplyPriorityPlan: the rows the plan names take their ranks, whatever    *)
(* has become of them since the plan was made.                              *)
ApplyPriorityPlan(k) ==
  /\ pc[k] = "apply"
  /\ LET N == DOMAIN assign[k]
         ranked == [ n \in Node |-> IF n \in N
                       THEN [nodes[n] EXCEPT !.rank = assign[k][n],
                                             !.label = PlanLabel(assign[k][n])]
                       ELSE nodes[n] ]
     IN nodes' = [Enter(ranked, N) EXCEPT ![PriorityNode[sel[k]]].status = "succeeded"]
  /\ topics' = [topics EXCEPT ![sel[k]].dirty = FALSE]
  /\ Goto(k, NextNode(k))
  /\ node' = [node EXCEPT ![k] = NoNode]
  /\ assign' = [assign EXCEPT ![k] = <<>>]
  /\ UNCHANGED <<sel, saw, todo>>

ClearPriorityDirty(k) ==
  /\ pc[k] = "clear"
  /\ topics' = [topics EXCEPT ![sel[k]].dirty = FALSE]
  /\ Goto(k, NextNode(k))
  /\ node' = [node EXCEPT ![k] = NoNode]
  /\ assign' = [assign EXCEPT ![k] = <<>>]
  /\ UNCHANGED <<nodes, sel, saw, todo>>

-----------------------------------------------------------------------------
(* A fault: last_served_at is not touched.                                  *)
FaultNotTouched(k) ==
  /\ pc[k] = "served"
  /\ topics' = [topics EXCEPT ![sel[k]].level =
       IF Runnable(sel[k]) /\ @ < 3 THEN @ + 1 ELSE @]
  /\ Return(k)
  /\ UNCHANGED nodes

(* TouchTopicServed, HasRunnableNodes and DemoteTopic.                      *)
EndTick(k) ==
  /\ pc[k] = "served"
  /\ LET t == sel[k]
         at == Renumber([u \in Topic |-> IF u = t THEN Now ELSE topics[u].served])
     IN topics' = [ u \in Topic |->
          [ topics[u] EXCEPT !.served = at[u],
              !.level = IF u = t /\ Runnable(t) /\ @ < 3 THEN @ + 1 ELSE @ ] ]
  /\ Return(k)
  /\ UNCHANGED nodes

(* The process dies in a tick; a restarted one finds the tables.            *)
Crash(k) ==
  /\ MayCrash
  /\ pc[k] # "idle"
  /\ Return(k)
  /\ UNCHANGED tables

-----------------------------------------------------------------------------
(* What a process does by itself while it ticks.                            *)
TickStep(k) ==
  \/ PromoteAgedTopics(k) \/ NoRunnableTopic(k)
  \/ \E t \in Topic : PriorityWaits(k, t) \/ SelectTopic(k, t)
  \/ EnsurePriorityNode(k) \/ EnsurePriorityNodeFails(k) \/ MarkPriorityNodeReady(k)
  \/ PlanTopic(k) \/ NothingToDispatch(k)
  \/ MarkNodeRunning(k) \/ StartWorker(k) \/ PrepareFails(k)
  \/ ApplyPriorityPlan(k) \/ ClearPriorityDirty(k) \/ EndTick(k)

(* The worker's process ends.                                               *)
WorkerEnds(k) == WorkerFails(k) \/ \E a \in Answers \cup PriorityAnswers : WorkerAnswers(k, a)

Next ==
  \/ \E n \in Node : Enqueue(n) \/ RefuseEnqueue(n)
  \/ \E k \in Ticker : TickStep(k) \/ WorkerEnds(k) \/ Crash(k)

Spec == Init /\ [][Next]_vars

(* Somebody keeps ticking (a chat that waits for its answer, or             *)
(* openmate-schedule run), and every worker ends.                           *)
Fairness == \A k \in Ticker : WF_vars(TickStep(k)) /\ WF_vars(WorkerEnds(k))

FairSpec == Spec /\ Fairness

-----------------------------------------------------------------------------
(* Correctness.                                                             *)

PcLabel == {"idle", "select", "priority", "priority_ready", "plan", "dispatch",
            "prepare", "execute", "apply", "clear", "served"}

(* Every column and every local variable of a tick has its type.            *)
TypeOK ==
  /\ topics \in [Topic -> TopicRow]
  /\ nodes \in [Node -> NodeRow]
  /\ pc \in [Ticker -> PcLabel]
  /\ sel \in [Ticker -> Topic \cup {NoTopic}]
  /\ saw \in [Ticker -> BOOLEAN]
  /\ node \in [Ticker -> Node \cup {NoNode}]
  /\ \A k \in Ticker :
       /\ DOMAIN todo[k] \subseteq Node
       /\ \A n \in DOMAIN todo[k] : todo[k][n] \in Nat
       /\ DOMAIN assign[k] \subseteq Business
       /\ \A n \in DOMAIN assign[k] : assign[k][n] \in Nat \ {0}

(* A row that says running is in the list the planner and the priority wait *)
(* go by, although status and list live in two tables, and Enqueue, the     *)
(* priority steps and other processes write the one without the other.      *)
RunningListed ==
  \A n \in Node : nodes[n].status = "running" => n \in topics[TopicOf[n]].running

(* A worker is started only for a node that waits: not for one that ended,  *)
(* is blocked, or was left running by a dispatch that broke off, however    *)
(* old the plan is by then.                                                 *)
StartsOnlyWaiting ==
  [][\A k \in Ticker : pc[k] = "dispatch" /\ pc'[k] = "prepare" =>
       nodes[node'[k]].status \in {"pending", "ready"}]_vars

(* A tick that finds its topic dirty runs the priority node or nothing, and *)
(* no node of the topic is running then (Process.md, 2026-04-14).           *)
PriorityFirst ==
  [][\A k \in Ticker : pc[k] = "dispatch" /\ pc'[k] = "prepare" =>
       /\ saw[k] => IsPriority(node'[k])
       /\ IsPriority(node'[k]) =>
            \A m \in NodesOf(sel[k]) \ {node'[k]} : nodes[m].status # "running"]_vars

(* Strict layers: while a planned node waits for its turn, a node of a      *)
(* better rank that has not ended can only be one enqueued since; a blocked *)
(* layer is never passed over.                                              *)
LayerOrder ==
  \A k \in Ticker : \A n \in DOMAIN todo[k] : \A m \in Rows(sel[k]) :
    nodes[m].status \notin Terminal /\ nodes[m].rank < nodes[n].rank =>
      nodes[m].entered > nodes[n].entered

(* The scheduler is the work queue of WorkQueue: whatever is planned ahead, *)
(* enqueued, failed or broken off meanwhile, each start, each change of a   *)
(* rank and each end of priority work is one that the queue allows at that  *)
(* moment, and nothing else changes what it shows.                          *)
StandingOf(status) ==
  IF status \in {"pending", "ready"} THEN "waiting"
  ELSE IF status \in Blocking THEN "stopped"
  ELSE IF status \in Terminal THEN "ended" ELSE status

Queue == INSTANCE WorkQueue WITH
  status <- [n \in Node |-> StandingOf(nodes[n].status)],
  rank <- [n \in Node |-> nodes[n].rank],
  newer <- {p \in Node \X Node : nodes[p[1]].entered > nodes[p[2]].entered},
  dirty <- [t \in Topic |-> topics[t].dirty],
  busy <- {node[k] : k \in Ticker} \ {NoNode}
ImplementsQueue == Queue!Spec

(* Topics do not starve each other: one that has a runnable node and none   *)
(* running gets a dispatch, whatever the other topics are doing, unless its *)
(* nodes end otherwise.                                                     *)
TopicsAreServed ==
  \A t \in Topic :
    Runnable(t) /\ topics[t].running = {} ~> ~Runnable(t) \/ topics[t].running # {}

(* The same once the vos has stopped failing: a dispatch that broke off in  *)
(* one topic does not keep the others waiting for ever (section 2: no       *)
(* starvation among topics).                                                *)
TopicsServedAfterFaults ==
  <>[][\A k \in Ticker : ~EnsurePriorityNodeFails(k) /\ ~PrepareFails(k)]_vars
    => TopicsAreServed

(* No two agents work on one node at a time (queue design, section 4.1).    *)
OneWorkerPerNode ==
  \A k, l \in Ticker : k # l /\ pc[k] = "execute" /\ pc[l] = "execute" => node[k] # node[l]

(* One rank never carries two labels: the enqueue reports the conflict, it  *)
(* does not surface in a tick (Process.md, 2026-04-17).                     *)
LabelsAreUnique == \A t \in Topic : ValidSnapshot(t)
=============================================================================
