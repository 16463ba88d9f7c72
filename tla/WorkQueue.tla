----------------------------- MODULE WorkQueue -----------------------------
(***************************************************************************)
(* What the scheduler promises those who put nodes in its queue.  One      *)
(* worker is at work at a time.  A node is started when it waits and       *)
(* nothing better that is still open was there before it: neither a        *)
(* stopped node nor a running one is passed over.  The ranks are changed   *)
(* by priority work alone, which has its topic to itself, and which gives  *)
(* each node a place of its own.  Plans, ticks and the running list do not *)
(* occur here: a worker may stop at any moment, its node says running then.*)
(***************************************************************************)
EXTENDS Naturals, FiniteSets, Functions

CONSTANTS Topic, Node, TopicOf, PriorityNode

IsPriority(n) == n = PriorityNode[TopicOf[n]]
Others(n) == {m \in Node : TopicOf[m] = TopicOf[n] /\ m # n}

VARIABLES status, \* how a node stands
          rank,   \* its place, 0 for priority nodes
          newer,  \* the pairs whose first node got its place after the second
          dirty,  \* the topics with something enqueued since their priority work
          busy    \* the node that is worked on

vars == <<status, rank, newer, dirty, busy>>

Standing == {"absent", "waiting", "stopped", "running", "ended"}

Init ==
  /\ status = [n \in Node |-> "absent"] /\ rank = [n \in Node |-> 0]
  /\ newer = {} /\ dirty = [t \in Topic |-> TRUE] /\ busy = {}

(* The nodes N get their places, after all others and at the same moment.   *)
Placed(N) ==
  newer' = {p \in newer : p[1] \notin N /\ p[2] \notin N} \cup (N \X (Node \ N))

(* Even a node that is worked on is posted again.                           *)
Post(n) ==
  /\ ~IsPriority(n)
  /\ status' = [status EXCEPT ![n] = "waiting"]
  /\ rank' = [rank EXCEPT ![n] = 1] /\ Placed({n})
  /\ dirty' = [dirty EXCEPT ![TopicOf[n]] = TRUE]
  /\ UNCHANGED busy

CallPriority(n) ==
  /\ busy = {} /\ IsPriority(n) /\ dirty[TopicOf[n]]
  /\ \A m \in Others(n) : status[m] # "running"
  /\ status' = [status EXCEPT ![n] = "waiting"]
  /\ UNCHANGED <<rank, newer, dirty, busy>>

Open(n) == status[n] \notin {"absent", "ended"}

Start(n) ==
  /\ busy = {} /\ status[n] = "waiting"
  /\ \A m \in Others(n) : Open(m) /\ rank[m] < rank[n] => <<m, n>> \in newer
  /\ IsPriority(n) => \A m \in Others(n) : status[m] # "running"
  /\ status' = [status EXCEPT ![n] = "running"]
  /\ busy' = {n}
  /\ UNCHANGED <<rank, newer, dirty>>

(* Priority work goes on, unless it failed, until its ranks are set.        *)
Finish(n) ==
  /\ n \in busy
  /\ \E s \in Standing \ {"absent"} : status' = [status EXCEPT ![n] = s]
  /\ busy' = {} \/ (IsPriority(n) /\ UNCHANGED busy)
  /\ UNCHANGED <<rank, newer, dirty>>

Rerank(n) ==
  /\ n \in busy /\ IsPriority(n)
  /\ \A m \in Others(n) : status[m] # "running"
  /\ \E N \in SUBSET Others(n) : \E place \in Injection(N, 1..Cardinality(N)) :
       /\ rank' = [m \in Node |-> IF m \in N THEN place[m] ELSE rank[m]]
       /\ Placed(N)
  /\ status' = [status EXCEPT ![n] = "ended"]
  /\ dirty' = [dirty EXCEPT ![TopicOf[n]] = FALSE]
  /\ busy' = {}

KeepRanks(n) ==
  /\ n \in busy /\ IsPriority(n)
  /\ dirty' = [dirty EXCEPT ![TopicOf[n]] = FALSE]
  /\ busy' = {}
  /\ UNCHANGED <<status, rank, newer>>

BreakOff == busy' = {} /\ UNCHANGED <<status, rank, newer, dirty>>

Next ==
  \/ BreakOff
  \/ \E n \in Node : \/ Start(n) \/ Finish(n) \/ Post(n)
                     \/ CallPriority(n) \/ Rerank(n) \/ KeepRanks(n)

Spec == Init /\ [][Next]_vars
=============================================================================
