------------------------ MODULE ScheduleEngineProofs ------------------------
(***************************************************************************)
(* Proofs about ScheduleEngine, for every set of topics, nodes, processes  *)
(* and answers, with failing calls and crashes.  The theorems about order  *)
(* and the refinement of WorkQueue, which end the module, are about the    *)
(* ticks of one process.                                                   *)
(***************************************************************************)
EXTENDS ScheduleEngine, FiniteSetTheorems, TLAPS

(* Functions from some of S to T.                                           *)
Partial(S, T) == UNION {[D -> T] : D \in SUBSET S}

(* What a tick plans and runs belongs to the topic it selected; before it   *)
(* has selected one there is nothing planned.                               *)
OwnTopic ==
  \A k \in Ticker :
    /\ \A n \in DOMAIN todo[k] : TopicOf[n] = sel[k]
    /\ node[k] \in Node => TopicOf[node[k]] = sel[k]
    /\ pc[k] \in {"idle", "select"} => DOMAIN todo[k] = {} /\ node[k] = NoNode

FrameType ==
  /\ pc \in [Ticker -> PcLabel]
  /\ sel \in [Ticker -> Topic \cup {NoTopic}]
  /\ saw \in [Ticker -> BOOLEAN]
  /\ node \in [Ticker -> Node \cup {NoNode}]
  /\ todo \in [Ticker -> Partial(Node, Nat)]
  /\ assign \in [Ticker -> Partial(Business, Nat \ {0})]
FrameInv == FrameType /\ OwnTopic

TableType == topics \in [Topic -> TopicRow] /\ nodes \in [Node -> NodeRow]
ListInv == TableType /\ RunningListed

-----------------------------------------------------------------------------
(* Functions on some of a set.                                              *)

LEMMA PartialIntro ==
  ASSUME NEW S, NEW T, NEW D \in SUBSET S, NEW f \in [D -> T]
  PROVE  f \in Partial(S, T)
  BY DEF Partial

LEMMA PartialElim ==
  ASSUME NEW S, NEW T, NEW f \in Partial(S, T)
  PROVE  /\ DOMAIN f \in SUBSET S
         /\ f \in [DOMAIN f -> T]
  BY DEF Partial

LEMMA PartialEmpty ==
  ASSUME NEW S, NEW T
  PROVE  <<>> \in Partial(S, T)
<1>1. <<>> \in [{} -> T]
  OBVIOUS
<1> QED
  BY <1>1, PartialIntro

-----------------------------------------------------------------------------
(* Instants keep their type when they are numbered again.                   *)

LEMMA RenumberType ==
  ASSUME NEW S, NEW f \in [S -> Nat]
  PROVE  Renumber(f) \in [S -> Nat]
<1> SUFFICES ASSUME NEW x \in S
             PROVE  Cardinality({v \in {f[y] : y \in DOMAIN f} \cup {0} : v < f[x]}) \in Nat
  BY DEF Renumber
<1> DEFINE below == {v \in {f[y] : y \in DOMAIN f} \cup {0} : v < f[x]}
<1>1. f[x] \in Nat
  OBVIOUS
<1>2. below \subseteq 0 .. f[x]
  <2> SUFFICES ASSUME NEW v \in below
               PROVE  v \in 0 .. f[x]
    OBVIOUS
  <2>1. v \in Nat /\ v < f[x]
    OBVIOUS
  <2> QED
    BY <1>1, <2>1
<1>3. IsFiniteSet(0 .. f[x])
  BY <1>1, FS_Interval
<1>4. IsFiniteSet(below)
  BY <1>2, <1>3, FS_Subset
<1> QED
  BY <1>4, FS_CardinalityType

LEMMA NowType == Now \in Nat
<1>1. Cardinality(Node) \in Nat /\ Cardinality(Topic) \in Nat
  BY FiniteAssumption, FS_CardinalityType
<1> QED
  BY <1>1 DEF Now

(* Entering a priority touches the instants only.                           *)
LEMMA EnterType ==
  ASSUME NEW q \in [Node -> NodeRow], NEW N \in SUBSET Node
  PROVE  /\ Enter(q, N) \in [Node -> NodeRow]
         /\ \A n \in Node : Enter(q, N)[n].status = q[n].status
<1> DEFINE instants == [n \in Node |-> IF n \in N THEN Now ELSE q[n].entered]
<1> DEFINE at == Renumber(instants)
<1>1. at \in [Node -> Nat]
  <2>1. instants \in [Node -> Nat]
    BY NowType DEF NodeRow
  <2> QED
    BY <2>1, RenumberType
<1>2. Enter(q, N) = [n \in Node |-> [q[n] EXCEPT !.entered = at[n]]]
  BY DEF Enter
<1> HIDE DEF at
<1>3. ASSUME NEW n \in Node
      PROVE  /\ [q[n] EXCEPT !.entered = at[n]] \in NodeRow
             /\ [q[n] EXCEPT !.entered = at[n]].status = q[n].status
  BY <1>1 DEF NodeRow
<1> QED
  BY <1>2, <1>3
-----------------------------------------------------------------------------
(* The frames: what each kind of step does to the local variables.          *)

LEMMA ReturnFrame ==
  ASSUME FrameInv, NEW k \in Ticker, Return(k)
  PROVE  FrameInv'
<1>1. NoNode \notin Node
  BY IdAssumption
<1>2. /\ <<>> \in Partial(Node, Nat)
      /\ <<>> \in Partial(Business, Nat \ {0})
      /\ DOMAIN <<>> = {}
  BY PartialEmpty
<1>3. FrameType'
  BY <1>2 DEF FrameInv, FrameType, Return, Goto, PcLabel
<1>4. OwnTopic'
  BY <1>1, <1>2 DEF FrameInv, FrameType, OwnTopic, Return, Goto
<1> QED
  BY <1>3, <1>4 DEF FrameInv

LEMMA GotoFrame ==
  ASSUME FrameInv, NEW k \in Ticker, NEW l \in PcLabel,
         Goto(k, l), UNCHANGED <<sel, saw, todo, node>>,
         l \in {"idle", "select"} => pc[k] \in {"idle", "select"},
         assign' \in [Ticker -> Partial(Business, Nat \ {0})]
  PROVE  FrameInv'
  BY DEF FrameInv, FrameType, OwnTopic, Goto

(* A node is done: the tick looks at no node until it starts the next.      *)
LEMMA DoneFrame ==
  ASSUME FrameInv, NEW k \in Ticker, NEW l \in PcLabel \ {"idle", "select"},
         Goto(k, l), UNCHANGED <<sel, saw, todo>>,
         node' = [node EXCEPT ![k] = NoNode] \/ node' = node,
         assign' = assign \/ assign' = [assign EXCEPT ![k] = <<>>]
  PROVE  FrameInv'
<1>1. NoNode \notin Node
  BY IdAssumption
<1>2. <<>> \in Partial(Business, Nat \ {0})
  BY PartialEmpty
<1>3. FrameType'
  BY <1>2 DEF FrameInv, FrameType, Goto
<1>4. OwnTopic'
  BY <1>1 DEF FrameInv, FrameType, OwnTopic, Goto
<1> QED
  BY <1>3, <1>4 DEF FrameInv

LEMMA SelectFrame ==
  ASSUME FrameInv, TableType, NEW k \in Ticker, NEW t \in Topic, SelectTopic(k, t)
  PROVE  FrameInv'
<1>1. pc[k] = "select"
  BY DEF SelectTopic, Selects
<1>2. topics[t].dirty \in BOOLEAN
  BY DEF TableType, TopicRow
<1>3. FrameType'
  BY <1>2 DEF FrameInv, FrameType, SelectTopic, Goto, PcLabel
<1>4. OwnTopic'
  BY <1>1, IdAssumption DEF FrameInv, FrameType, OwnTopic, SelectTopic, Goto
<1> QED
  BY <1>3, <1>4 DEF FrameInv

(* The planner returns nodes of the snapshot with natural places.           *)
LEMMA PlanType ==
  ASSUME NEW t, NEW slots
  PROVE  /\ Plan(Snapshot(t), slots) \in Partial(Node, Nat)
         /\ DOMAIN Plan(Snapshot(t), slots) \subseteq NodesOf(t)
<1> DEFINE s == Snapshot(t)
<1>1. DOMAIN s.rows = Rows(t) /\ Rows(t) \subseteq NodesOf(t) /\ NodesOf(t) \subseteq Node
  BY DEF Snapshot, Rows, NodesOf
<1>2. Dispatchable(s) \subseteq DOMAIN s.rows
  BY DEF Dispatchable, ActiveCandidates, ActiveLayer, NonTerminal
<1> HIDE DEF s
<1>3. IsFiniteSet(Dispatchable(s))
  BY <1>1, <1>2, FiniteAssumption, FS_Subset
<1>4. ASSUME NEW n \in Dispatchable(s)
      PROVE  Place(s, n) \in Nat
  <2>1. {m \in Dispatchable(s) : StartsBefore(s, m, n)} \in SUBSET Dispatchable(s)
    OBVIOUS
  <2>2. IsFiniteSet({m \in Dispatchable(s) : StartsBefore(s, m, n)})
    BY <1>3, <2>1, FS_Subset
  <2> QED
    BY <2>2, FS_CardinalityType DEF Place
<1> DEFINE D == {d \in Dispatchable(s) : Place(s, d) < slots}
<1>5. Plan(s, slots) \in [D -> Nat]
  BY <1>4 DEF Plan
<1>6. D \in SUBSET Node /\ D \subseteq NodesOf(t)
  BY <1>1, <1>2
<1>7. Plan(s, slots) \in Partial(Node, Nat)
  BY <1>5, <1>6, PartialIntro
<1>8. DOMAIN Plan(s, slots) \subseteq NodesOf(t)
  BY <1>5, <1>6
<1> QED
  BY <1>7, <1>8 DEF s

LEMMA PlanFrame ==
  ASSUME FrameInv, NEW k \in Ticker, PlanTopic(k)
  PROVE  FrameInv'
<1> DEFINE plan == Plan(Snapshot(sel[k]), Slots)
<1>1. plan \in Partial(Node, Nat) /\ \A n \in DOMAIN plan : TopicOf[n] = sel[k]
  BY PlanType DEF NodesOf
<1>2. todo' = [todo EXCEPT ![k] = plan] /\ Goto(k, "dispatch")
      /\ UNCHANGED <<sel, saw, node, assign>>
  BY DEF PlanTopic
<1> HIDE DEF plan
<1>3. FrameType'
  BY <1>1, <1>2 DEF FrameInv, FrameType, Goto, PcLabel
<1>4. OwnTopic'
  BY <1>1, <1>2 DEF FrameInv, FrameType, OwnTopic, Goto
<1> QED
  BY <1>3, <1>4 DEF FrameInv

LEMMA RunningFrame ==
  ASSUME FrameInv, NEW k \in Ticker, MarkNodeRunning(k)
  PROVE  FrameInv'
<1>1. PICK n \in DOMAIN todo[k] :
        /\ node' = [node EXCEPT ![k] = n]
        /\ todo' = [todo EXCEPT ![k] = [m \in DOMAIN @ \ {n} |-> @[m]]]
  BY DEF MarkNodeRunning
<1>2. Goto(k, "prepare") /\ UNCHANGED <<sel, saw, assign>>
  BY DEF MarkNodeRunning
<1>3. todo[k] \in Partial(Node, Nat)
  BY DEF FrameInv, FrameType
<1>4. DOMAIN todo[k] \in SUBSET Node /\ todo[k] \in [DOMAIN todo[k] -> Nat]
  BY <1>3, PartialElim
<1> DEFINE rest == [m \in DOMAIN todo[k] \ {n} |-> todo[k][m]]
<1>5. rest \in [DOMAIN todo[k] \ {n} -> Nat]
  BY <1>4
<1>6. rest \in Partial(Node, Nat)
  BY <1>4, <1>5, PartialIntro
<1>7. DOMAIN rest \subseteq DOMAIN todo[k]
  OBVIOUS
<1>8. todo' = [todo EXCEPT ![k] = rest]
  BY <1>1 DEF FrameInv, FrameType
<1> HIDE DEF rest
<1>9. FrameType'
  BY <1>1, <1>2, <1>4, <1>6, <1>8 DEF FrameInv, FrameType, Goto, PcLabel
<1>10. OwnTopic'
  BY <1>1, <1>2, <1>4, <1>7, <1>8 DEF FrameInv, FrameType, OwnTopic, Goto
<1> QED
  BY <1>9, <1>10 DEF FrameInv

(* The plan of a priority worker ranks business nodes from one.             *)
LEMMA PriorityPlanType ==
  ASSUME NEW t
  PROVE  PriorityPlan(t) \in Partial(Business, Nat \ {0})
<1>1. Candidates(t) \in SUBSET Business /\ Candidates(t) \in SUBSET Node
  BY DEF Candidates, Rows, NodesOf, Business
<1>2. IsFiniteSet(Candidates(t))
  BY <1>1, FiniteAssumption, FS_Subset
<1>3. ASSUME NEW n \in Candidates(t)
      PROVE  1 + Cardinality({m \in Candidates(t) : m # n /\ PlannedBefore(m, n)}) \in Nat \ {0}
  <2>1. {m \in Candidates(t) : m # n /\ PlannedBefore(m, n)} \in SUBSET Candidates(t)
    OBVIOUS
  <2>2. Cardinality({m \in Candidates(t) : m # n /\ PlannedBefore(m, n)}) \in Nat
    BY <1>2, <2>1, FS_Subset, FS_CardinalityType
  <2> QED
    BY <2>2
<1>4. PriorityPlan(t) \in [Candidates(t) -> Nat \ {0}]
  BY <1>3 DEF PriorityPlan
<1> QED
  BY <1>1, <1>4, PartialIntro
-----------------------------------------------------------------------------
(* Writing one column of a row keeps the types, and the other columns.      *)

SetRunning(q, t, S)     == [q EXCEPT ![t].running = S]
SetCurrent(q, t, x)     == [q EXCEPT ![t].current = x]
SetLastWorked(q, t, x)  == [q EXCEPT ![t].lastWorked = x]
SetDirty(q, t, b)       == [q EXCEPT ![t].dirty = b]
SetExists(q, t)         == [q EXCEPT ![t].exists = TRUE]
SetStatus(q, n, status) == [q EXCEPT ![n].status = status]
SetReady(q, n, r, l)    == [q EXCEPT ![n].status = "ready", ![n].rank = r, ![n].label = l]

LEMMA WriteRunning ==
  ASSUME NEW q \in [Topic -> TopicRow], NEW t0, NEW S \in SUBSET Node
  PROVE  /\ SetRunning(q, t0, S) \in [Topic -> TopicRow]
         /\ \A t \in Topic :
              /\ SetRunning(q, t0, S)[t].running = IF t = t0 THEN S ELSE q[t].running
              /\ SetRunning(q, t0, S)[t].dirty = q[t].dirty
<1>1. ASSUME NEW t \in Topic
      PROVE  /\ [q[t] EXCEPT !.running = S] \in TopicRow
             /\ [q[t] EXCEPT !.running = S].running = S
             /\ [q[t] EXCEPT !.running = S].dirty = q[t].dirty
  BY DEF TopicRow
<1> QED
  BY <1>1 DEF SetRunning

LEMMA WriteCurrent ==
  ASSUME NEW q \in [Topic -> TopicRow], NEW t0, NEW x \in Node \cup {NoNode}
  PROVE  /\ SetCurrent(q, t0, x) \in [Topic -> TopicRow]
         /\ \A t \in Topic : /\ SetCurrent(q, t0, x)[t].running = q[t].running
                             /\ SetCurrent(q, t0, x)[t].dirty = q[t].dirty
<1>1. ASSUME NEW t \in Topic
      PROVE  /\ [q[t] EXCEPT !.current = x] \in TopicRow
             /\ [q[t] EXCEPT !.current = x].running = q[t].running
             /\ [q[t] EXCEPT !.current = x].dirty = q[t].dirty
  BY DEF TopicRow
<1> QED
  BY <1>1 DEF SetCurrent

LEMMA WriteLastWorked ==
  ASSUME NEW q \in [Topic -> TopicRow], NEW t0, NEW x \in Node \cup {NoNode}
  PROVE  /\ SetLastWorked(q, t0, x) \in [Topic -> TopicRow]
         /\ \A t \in Topic : /\ SetLastWorked(q, t0, x)[t].running = q[t].running
                             /\ SetLastWorked(q, t0, x)[t].dirty = q[t].dirty
<1>1. ASSUME NEW t \in Topic
      PROVE  /\ [q[t] EXCEPT !.lastWorked = x] \in TopicRow
             /\ [q[t] EXCEPT !.lastWorked = x].running = q[t].running
             /\ [q[t] EXCEPT !.lastWorked = x].dirty = q[t].dirty
  BY DEF TopicRow
<1> QED
  BY <1>1 DEF SetLastWorked

LEMMA WriteDirty ==
  ASSUME NEW q \in [Topic -> TopicRow], NEW t0, NEW b \in BOOLEAN
  PROVE  /\ SetDirty(q, t0, b) \in [Topic -> TopicRow]
         /\ \A t \in Topic : SetDirty(q, t0, b)[t].running = q[t].running
<1>1. ASSUME NEW t \in Topic
      PROVE  /\ [q[t] EXCEPT !.dirty = b] \in TopicRow
             /\ [q[t] EXCEPT !.dirty = b].running = q[t].running
  BY DEF TopicRow
<1> QED
  BY <1>1 DEF SetDirty

LEMMA WriteExists ==
  ASSUME NEW q \in [Topic -> TopicRow], NEW t0
  PROVE  /\ SetExists(q, t0) \in [Topic -> TopicRow]
         /\ \A t \in Topic : /\ SetExists(q, t0)[t].running = q[t].running
                             /\ SetExists(q, t0)[t].dirty = q[t].dirty
<1>1. ASSUME NEW t \in Topic
      PROVE  /\ [q[t] EXCEPT !.exists = TRUE] \in TopicRow
             /\ [q[t] EXCEPT !.exists = TRUE].running = q[t].running
             /\ [q[t] EXCEPT !.exists = TRUE].dirty = q[t].dirty
  BY DEF TopicRow
<1> QED
  BY <1>1 DEF SetExists

LEMMA WriteStatus ==
  ASSUME NEW q \in [Node -> NodeRow], NEW x, NEW status \in NodeStatus
  PROVE  /\ SetStatus(q, x, status) \in [Node -> NodeRow]
         /\ \A n \in Node : SetStatus(q, x, status)[n].status =
              IF n = x THEN status ELSE q[n].status
<1>1. ASSUME NEW n \in Node
      PROVE  /\ [q[n] EXCEPT !.status = status] \in NodeRow
             /\ [q[n] EXCEPT !.status = status].status = status
  BY DEF NodeRow
<1> QED
  BY <1>1 DEF SetStatus

LEMMA WriteReady ==
  ASSUME NEW q \in [Node -> NodeRow], NEW x, NEW r \in Nat, NEW l \in Label
  PROVE  /\ SetReady(q, x, r, l) \in [Node -> NodeRow]
         /\ \A n \in Node : SetReady(q, x, r, l)[n].status =
              IF n = x THEN "ready" ELSE q[n].status
<1> DEFINE ready == SetStatus(q, x, "ready")
           ranked == [ready EXCEPT ![x].rank = r]
<1>1. "ready" \in NodeStatus
  BY DEF NodeStatus
<1>2. /\ ready \in [Node -> NodeRow]
      /\ \A n \in Node : ready[n].status = IF n = x THEN "ready" ELSE q[n].status
  BY <1>1, WriteStatus
<1>3. SetReady(q, x, r, l) = [ranked EXCEPT ![x].label = l]
  BY DEF SetReady, SetStatus
<1> HIDE DEF ready
<1>4. ASSUME NEW n \in Node
      PROVE  /\ [ready[n] EXCEPT !.rank = r] \in NodeRow
             /\ [ready[n] EXCEPT !.rank = r].status = ready[n].status
  BY <1>2 DEF NodeRow
<1>5. ranked \in [Node -> NodeRow] /\ \A n \in Node : ranked[n].status = ready[n].status
  BY <1>2, <1>4
<1> HIDE DEF ranked
<1>6. ASSUME NEW n \in Node
      PROVE  /\ [ranked[n] EXCEPT !.label = l] \in NodeRow
             /\ [ranked[n] EXCEPT !.label = l].status = ranked[n].status
  BY <1>5 DEF NodeRow
<1>7. /\ [ranked EXCEPT ![x].label = l] \in [Node -> NodeRow]
      /\ \A n \in Node : [ranked EXCEPT ![x].label = l][n].status = ranked[n].status
  BY <1>5, <1>6
<1> QED
  BY <1>2, <1>3, <1>5, <1>7

-----------------------------------------------------------------------------
(* The tables.                                                              *)

(* A step after which no further row says running and every running list    *)
(* is what it was.                                                          *)
LEMMA ListKept ==
  ASSUME RunningListed,
         \A n \in Node : nodes'[n].status = "running" => nodes[n].status = "running",
         \A n \in Node : topics'[TopicOf[n]].running = topics[TopicOf[n]].running
  PROVE  RunningListed'
  BY DEF RunningListed

(* A step that changes the status of one node and makes the list of its     *)
(* topic from the rows.                                                     *)
LEMMA ListMade ==
  ASSUME RunningListed, NEW t, NEW x,
         x \in Node => TopicOf[x] = t,
         \A n \in Node \ {x} : nodes'[n].status = nodes[n].status,
         \A n \in Node : topics'[TopicOf[n]].running =
           IF TopicOf[n] = t THEN RunningIn(nodes', t) ELSE topics[TopicOf[n]].running
  PROVE  RunningListed'
  BY DEF RunningListed, RunningIn, NodesOf

LEMMA EnqueueTable ==
  ASSUME ListInv, NEW x \in Node, Enqueue(x)
  PROVE  ListInv'
<1> DEFINE q == SetReady(nodes, x, 1, "interactive")
<1>1. q \in [Node -> NodeRow] /\ \A n \in Node : q[n].status \in {nodes[n].status, "ready"}
  BY WriteReady DEF ListInv, TableType, Label
<1>2. nodes' = Enter(q, {x})
  BY DEF Enqueue, SetReady
<1> HIDE DEF q
<1>3. /\ nodes' \in [Node -> NodeRow]
      /\ \A n \in Node : nodes'[n].status \in {nodes[n].status, "ready"}
  BY <1>1, <1>2, EnterType
<1>4. /\ topics' \in [Topic -> TopicRow]
      /\ \A t \in Topic : topics'[t].running = topics[t].running
  <2> DEFINE there == SetExists(topics, TopicOf[x])
  <2>1. /\ there \in [Topic -> TopicRow]
        /\ \A t \in Topic : there[t].running = topics[t].running
    BY WriteExists DEF ListInv, TableType
  <2>2. topics' = SetDirty(there, TopicOf[x], TRUE)
    BY DEF Enqueue, SetDirty, SetExists
  <2> HIDE DEF there
  <2> QED
    BY <2>1, <2>2, WriteDirty
<1>5. RunningListed'
  BY <1>3, <1>4, TopicAssumption, ListKept DEF ListInv
<1> QED
  BY <1>3, <1>4, <1>5 DEF ListInv, TableType

(* The steps that write other columns of the topics only.                   *)
LEMMA TopicTable ==
  ASSUME ListInv, UNCHANGED nodes, topics' \in [Topic -> TopicRow],
         \A t \in Topic : topics'[t].running = topics[t].running
  PROVE  ListInv'
<1>1. RunningListed'
  BY TopicAssumption, ListKept DEF ListInv
<1> QED
  BY <1>1 DEF ListInv, TableType

LEMMA PromoteTable ==
  ASSUME ListInv, NEW k \in Ticker, PromoteAgedTopics(k)
  PROVE  ListInv'
<1>1. PICK since \in 0 .. Cardinality(Topic) :
        topics' = [ t \in Topic |->
          IF topics[t].served \in 1..since /\ topics[t].level > 0
          THEN [topics[t] EXCEPT !.level = @ - 1] ELSE topics[t] ]
  BY DEF PromoteAgedTopics
<1>2. ASSUME NEW t \in Topic
      PROVE  topics'[t] \in TopicRow /\ topics'[t].running = topics[t].running
  <2>1. topics[t] \in TopicRow /\ topics[t].level \in 0 .. 3
    BY DEF ListInv, TableType, TopicRow, Level
  <2>2. topics[t].level > 0 => topics[t].level - 1 \in Level
    BY <2>1 DEF Level
  <2> QED
    BY <1>1, <2>1, <2>2 DEF TopicRow
<1> QED
  BY <1>1, <1>2, TopicTable DEF PromoteAgedTopics

LEMMA EndTable ==
  ASSUME ListInv, NEW k \in Ticker, EndTick(k)
  PROVE  ListInv'
<1> DEFINE served == [u \in Topic |-> IF u = sel[k] THEN Now ELSE topics[u].served]
           at == Renumber(served)
           lower == Runnable(sel[k])
<1>1. at \in [Topic -> Nat]
  <2>1. served \in [Topic -> Nat]
    BY NowType DEF ListInv, TableType, TopicRow
  <2> QED
    BY <2>1, RenumberType
<1>2. topics' = [ u \in Topic |->
        [ topics[u] EXCEPT !.served = at[u],
            !.level = IF u = sel[k] /\ lower /\ @ < 3 THEN @ + 1 ELSE @ ] ]
  BY DEF EndTick
<1> HIDE DEF at, lower
<1>3. ASSUME NEW u \in Topic
      PROVE  topics'[u] \in TopicRow /\ topics'[u].running = topics[u].running
  <2>1. topics[u] \in TopicRow /\ topics[u].level \in 0 .. 3
    BY DEF ListInv, TableType, TopicRow, Level
  <2>2. topics[u].level < 3 => topics[u].level + 1 \in Level
    BY <2>1 DEF Level
  <2> QED
    BY <1>1, <1>2, <2>1, <2>2 DEF TopicRow
<1> QED
  BY <1>2, <1>3, TopicTable DEF EndTick

LEMMA PriorityNodeTable ==
  ASSUME ListInv, NEW k \in Ticker, EnsurePriorityNode(k) \/ MarkPriorityNodeReady(k)
  PROVE  ListInv'
<1>1. /\ topics' \in [Topic -> TopicRow]
      /\ \A t \in Topic : topics'[t].running = topics[t].running
  <2>1. topics' = [topics EXCEPT ![sel[k]].hasPriority = TRUE] \/ topics' = topics
    BY DEF EnsurePriorityNode, MarkPriorityNodeReady
  <2>2. topics \in [Topic -> TopicRow]
    BY DEF ListInv, TableType
  <2>3. CASE topics' = topics
    BY <2>2, <2>3
  <2>4. CASE topics' = [topics EXCEPT ![sel[k]].hasPriority = TRUE]
    <3>1. ASSUME NEW t \in Topic
          PROVE  /\ [topics[t] EXCEPT !.hasPriority = TRUE] \in TopicRow
                 /\ [topics[t] EXCEPT !.hasPriority = TRUE].running = topics[t].running
      BY <2>2 DEF TopicRow
    <3> QED
      BY <2>2, <2>4, <3>1
  <2> QED
    BY <2>1, <2>3, <2>4
<1>2. /\ nodes' \in [Node -> NodeRow]
      /\ \A n \in Node : nodes'[n].status \in {nodes[n].status, "ready"}
  <2> DEFINE p == PriorityNode[sel[k]]
  <2>1. \/ UNCHANGED nodes
        \/ nodes' = [nodes EXCEPT ![p].status = "ready", ![p].rank = 0,
                                  ![p].label = "priority"]
        \/ nodes' = [nodes EXCEPT ![p].status = nodes[p].status, ![p].rank = 0,
                                  ![p].label = "priority"]
    BY DEF EnsurePriorityNode, MarkPriorityNodeReady
  <2> HIDE DEF p
  <2> QED
    BY <2>1 DEF ListInv, TableType, NodeRow, Label, NodeStatus
<1>3. RunningListed'
  BY <1>1, <1>2, TopicAssumption, ListKept DEF ListInv
<1> QED
  BY <1>1, <1>2, <1>3 DEF ListInv, TableType

LEMMA RunningTable ==
  ASSUME FrameInv, ListInv, NEW k \in Ticker, MarkNodeRunning(k)
  PROVE  ListInv'
<1>1. PICK x \in DOMAIN todo[k] :
        /\ nodes' = [nodes EXCEPT ![x].status = "running"]
        /\ topics' = [topics EXCEPT ![sel[k]].running = RunningIn(nodes', sel[k]),
                                    ![sel[k]].current = x]
  BY DEF MarkNodeRunning
<1>2. x \in Node /\ TopicOf[x] = sel[k] /\ sel[k] \in Topic
  BY PartialElim, TopicAssumption DEF FrameInv, FrameType, OwnTopic
<1>3. /\ nodes' \in [Node -> NodeRow]
      /\ \A n \in Node \ {x} : nodes'[n].status = nodes[n].status
  <2>1. "running" \in NodeStatus
    BY DEF NodeStatus
  <2>2. nodes' = SetStatus(nodes, x, "running")
    BY <1>1 DEF SetStatus
  <2> QED
    BY <2>1, <2>2, WriteStatus DEF ListInv, TableType
<1>4. RunningIn(nodes', sel[k]) \in SUBSET Node
  BY DEF RunningIn, NodesOf
<1>5. /\ topics' \in [Topic -> TopicRow]
      /\ \A t \in Topic : topics'[t].running =
           IF t = sel[k] THEN RunningIn(nodes', sel[k]) ELSE topics[t].running
  <2> DEFINE listed == SetRunning(topics, sel[k], RunningIn(nodes', sel[k]))
  <2>1. /\ listed \in [Topic -> TopicRow]
        /\ \A t \in Topic : listed[t].running =
             IF t = sel[k] THEN RunningIn(nodes', sel[k]) ELSE topics[t].running
    BY <1>4, WriteRunning DEF ListInv, TableType
  <2>2. topics' = SetCurrent(listed, sel[k], x)
    BY <1>1 DEF SetCurrent, SetRunning
  <2> HIDE DEF listed
  <2> QED
    BY <1>2, <2>1, <2>2, WriteCurrent
<1>6. RunningListed'
  <2>1. \A n \in Node : topics'[TopicOf[n]].running =
          IF TopicOf[n] = sel[k] THEN RunningIn(nodes', sel[k]) ELSE topics[TopicOf[n]].running
    BY <1>5, TopicAssumption
  <2>2. RunningListed
    BY DEF ListInv
  <2> QED
    BY <1>2, <1>3, <2>1, <2>2, ListMade
<1> QED
  BY <1>3, <1>5, <1>6 DEF ListInv, TableType

LEMMA FinishedTable ==
  ASSUME FrameInv, ListInv, NEW k \in Ticker, NEW status \in NodeStatus,
         MarkNodeFinished(k, status)
  PROVE  ListInv'
<1> DEFINE x == node[k]
<1>1. /\ nodes' = [nodes EXCEPT ![x].status = status]
      /\ topics' = [topics EXCEPT ![sel[k]].running = RunningIn(nodes', sel[k]),
                                  ![sel[k]].lastWorked = x, ![sel[k]].current = x]
  BY DEF MarkNodeFinished
<1>2. x \in Node \cup {NoNode} /\ (x \in Node => TopicOf[x] = sel[k])
  BY DEF FrameInv, FrameType, OwnTopic
<1>3. /\ nodes' \in [Node -> NodeRow]
      /\ \A n \in Node \ {x} : nodes'[n].status = nodes[n].status
  <2>1. nodes' = SetStatus(nodes, x, status)
    BY <1>1 DEF SetStatus
  <2> QED
    BY <2>1, WriteStatus DEF ListInv, TableType
<1>4. RunningIn(nodes', sel[k]) \in SUBSET Node
  BY DEF RunningIn, NodesOf
<1>5. /\ topics' \in [Topic -> TopicRow]
      /\ \A t \in Topic : topics'[t].running =
           IF t = sel[k] THEN RunningIn(nodes', sel[k]) ELSE topics[t].running
  <2> DEFINE listed == SetRunning(topics, sel[k], RunningIn(nodes', sel[k]))
             worked == SetLastWorked(listed, sel[k], x)
  <2>1. /\ listed \in [Topic -> TopicRow]
        /\ \A t \in Topic : listed[t].running =
             IF t = sel[k] THEN RunningIn(nodes', sel[k]) ELSE topics[t].running
    BY <1>4, WriteRunning DEF ListInv, TableType
  <2>2. topics' = SetCurrent(worked, sel[k], x)
    BY <1>1 DEF SetCurrent, SetLastWorked, SetRunning
  <2> HIDE DEF listed
  <2>3. /\ worked \in [Topic -> TopicRow]
        /\ \A t \in Topic : worked[t].running = listed[t].running
    BY <1>2, <2>1, WriteLastWorked
  <2> HIDE DEF worked
  <2>4. /\ topics' \in [Topic -> TopicRow]
        /\ \A t \in Topic : topics'[t].running = worked[t].running
    BY <1>2, <2>2, <2>3, WriteCurrent
  <2> QED
    BY <2>1, <2>3, <2>4
<1>6. RunningListed'
  <2>1. \A n \in Node : topics'[TopicOf[n]].running =
          IF TopicOf[n] = sel[k] THEN RunningIn(nodes', sel[k]) ELSE topics[TopicOf[n]].running
    BY <1>5, TopicAssumption
  <2>2. RunningListed
    BY DEF ListInv
  <2> QED
    BY <1>2, <1>3, <2>1, <2>2, ListMade
<1> QED
  BY <1>3, <1>5, <1>6 DEF ListInv, TableType

LEMMA PlanTable ==
  ASSUME FrameInv, ListInv, NEW k \in Ticker, ApplyPriorityPlan(k)
  PROVE  ListInv'
<1> DEFINE N == DOMAIN assign[k]
           ranked == [ n \in Node |-> IF n \in N
                         THEN [nodes[n] EXCEPT !.rank = assign[k][n],
                                               !.label = PlanLabel(assign[k][n])]
                         ELSE nodes[n] ]
           entered == Enter(ranked, N)
<1>1. N \in SUBSET Node /\ \A n \in N : assign[k][n] \in Nat
  <2>1. assign[k] \in Partial(Business, Nat \ {0})
    BY DEF FrameInv, FrameType
  <2>2. N \in SUBSET Business /\ assign[k] \in [N -> Nat \ {0}]
    BY <2>1, PartialElim
  <2>3. Business \in SUBSET Node
    BY DEF Business
  <2> QED
    BY <2>2, <2>3
<1>2. ranked \in [Node -> NodeRow] /\ \A n \in Node : ranked[n].status = nodes[n].status
  BY <1>1 DEF ListInv, TableType, NodeRow, Label, PlanLabel
<1>3. nodes' = [entered EXCEPT ![PriorityNode[sel[k]]].status = "succeeded"]
  BY DEF ApplyPriorityPlan
<1> HIDE DEF ranked
<1>4. /\ entered \in [Node -> NodeRow]
      /\ \A n \in Node : entered[n].status = nodes[n].status
  BY <1>1, <1>2, EnterType
<1> HIDE DEF entered, N
<1>5. /\ nodes' \in [Node -> NodeRow]
      /\ \A n \in Node : nodes'[n].status \in {nodes[n].status, "succeeded"}
  <2>1. "succeeded" \in NodeStatus
    BY DEF NodeStatus, Terminal
  <2>2. nodes' = SetStatus(entered, PriorityNode[sel[k]], "succeeded")
    BY <1>3 DEF SetStatus
  <2> QED
    BY <1>4, <2>1, <2>2, WriteStatus
<1>6. /\ topics' \in [Topic -> TopicRow]
      /\ \A t \in Topic : topics'[t].running = topics[t].running
  <2>1. topics' = SetDirty(topics, sel[k], FALSE)
    BY DEF SetDirty, ApplyPriorityPlan
  <2> QED
    BY <2>1, WriteDirty DEF ListInv, TableType
<1>7. RunningListed'
  BY <1>5, <1>6, TopicAssumption, ListKept DEF ListInv
<1> QED
  BY <1>5, <1>6, <1>7 DEF ListInv, TableType

LEMMA ClearTable ==
  ASSUME ListInv, NEW k \in Ticker, ClearPriorityDirty(k)
  PROVE  ListInv'
<1>1. /\ topics' \in [Topic -> TopicRow]
      /\ \A t \in Topic : topics'[t].running = topics[t].running
  <2>1. topics' = SetDirty(topics, sel[k], FALSE)
    BY DEF SetDirty, ClearPriorityDirty
  <2> QED
    BY <2>1, WriteDirty DEF ListInv, TableType
<1> QED
  BY <1>1, TopicTable DEF ClearPriorityDirty
-----------------------------------------------------------------------------
(* The invariant holds for ever.                                            *)

LEMMA InitBoth == Init => FrameInv /\ ListInv
<1> SUFFICES ASSUME Init
             PROVE  FrameInv /\ ListInv
  OBVIOUS
<1>1. NewTopic \in TopicRow
  BY DEF NewTopic, TopicRow, Level
<1>2. NoRow \in NodeRow /\ NoRow.status # "running"
  BY DEF NoRow, NodeRow, Label
<1>3. ListInv
  BY <1>1, <1>2 DEF Init, ListInv, TableType, RunningListed
<1>4. /\ <<>> \in Partial(Node, Nat)
      /\ <<>> \in Partial(Business, Nat \ {0})
      /\ DOMAIN <<>> = {}
  BY PartialEmpty
<1>5. FrameType
  BY <1>4 DEF Init, FrameType, PcLabel
<1>6. OwnTopic
  BY <1>4, IdAssumption DEF Init, OwnTopic
<1> QED
  BY <1>3, <1>5, <1>6 DEF FrameInv

LEMMA Unchanged ==
  ASSUME FrameInv, ListInv
  PROVE  /\ UNCHANGED frames => FrameInv'
         /\ UNCHANGED tables => ListInv'
<1>1. UNCHANGED frames => FrameInv'
  BY DEF frames, FrameInv, FrameType, OwnTopic
<1>2. UNCHANGED tables => ListInv'
  BY DEF tables, ListInv, TableType, RunningListed
<1> QED
  BY <1>1, <1>2

(* The status a node gets when its worker ends.                             *)
LEMMA ResolvedStatus ==
  ASSUME NEW n, NEW a \in (Answers \cup PriorityAnswers) \ {ExecuteError}
  PROVE  ResolveNodeStatus(n, a) \in NodeStatus
<1>1. a.next \in NodeStatus \cup {NoStatus}
  BY AnswerAssumption DEF Answer
<1>2. {"succeeded", "failed", "ready", "retry_cooldown"} \subseteq NodeStatus
  BY DEF NodeStatus, Terminal, Blocking
<1> QED
  BY <1>1, <1>2 DEF ResolveNodeStatus

LEMMA WorkerStep ==
  ASSUME FrameInv, ListInv, NEW k \in Ticker, WorkerEnds(k)
  PROVE  FrameInv' /\ ListInv'
<1>1. CASE WorkerFails(k)
  <2>1. MarkNodeFinished(k, "failed") /\ Return(k) /\ "failed" \in NodeStatus
    BY <1>1 DEF WorkerFails, NodeStatus, Terminal
  <2> QED
    BY <2>1, ReturnFrame, FinishedTable
<1>2. CASE \E a \in Answers \cup PriorityAnswers : WorkerAnswers(k, a)
  <2>1. PICK a \in Answers \cup PriorityAnswers : WorkerAnswers(k, a)
    BY <1>2
  <2> DEFINE l == IF ~IsPriority(node[k]) THEN NextNode(k)
                  ELSE IF a.ok THEN "apply" ELSE "clear"
  <2>2. l \in PcLabel \ {"idle", "select"}
    BY DEF NextNode, PcLabel
  <2>3. /\ Goto(k, l)
        /\ UNCHANGED <<sel, saw, todo, assign>>
        /\ node' = [node EXCEPT ![k] = IF IsPriority(@) THEN @ ELSE NoNode]
        /\ MarkNodeFinished(k, ResolveNodeStatus(node[k], a))
        /\ a # ExecuteError
    BY <2>1 DEF WorkerAnswers
  <2> HIDE DEF l
  <2>4. node' = [node EXCEPT ![k] = NoNode] \/ node' = node
    BY <2>3 DEF FrameInv, FrameType
  <2>5. FrameInv'
    BY <2>2, <2>3, <2>4, DoneFrame
  <2>6. ResolveNodeStatus(node[k], a) \in NodeStatus
    BY <2>3, ResolvedStatus
  <2> QED
    BY <2>3, <2>5, <2>6, FinishedTable
<1> QED
  BY <1>1, <1>2 DEF WorkerEnds

LEMMA TickerStep ==
  ASSUME FrameInv, ListInv, NEW k \in Ticker, TickStep(k)
  PROVE  FrameInv' /\ ListInv'
<1>1. CASE PromoteAgedTopics(k)
  <2>1. Goto(k, "select") /\ pc[k] = "idle" /\ UNCHANGED <<sel, saw, todo, node, assign>>
    BY <1>1 DEF PromoteAgedTopics
  <2>2. assign' \in [Ticker -> Partial(Business, Nat \ {0})] /\ "select" \in PcLabel
    BY <2>1 DEF FrameInv, FrameType, PcLabel
  <2> QED
    BY <1>1, <2>1, <2>2, GotoFrame, PromoteTable
<1>2. CASE \/ NoRunnableTopic(k) \/ EnsurePriorityNodeFails(k) \/ NothingToDispatch(k)
           \/ PrepareFails(k) \/ \E t \in Topic : PriorityWaits(k, t)
  <2>1. Return(k) /\ UNCHANGED tables
    BY <1>2 DEF NoRunnableTopic, EnsurePriorityNodeFails, NothingToDispatch,
                PrepareFails, PriorityWaits
  <2> QED
    BY <2>1, ReturnFrame, Unchanged
<1>3. CASE \E t \in Topic : SelectTopic(k, t)
  <2>1. PICK t \in Topic : SelectTopic(k, t)
    BY <1>3
  <2>2. UNCHANGED tables
    BY <2>1 DEF SelectTopic
  <2> QED
    BY <2>1, <2>2, SelectFrame, Unchanged DEF ListInv
<1>4. CASE EnsurePriorityNode(k) \/ MarkPriorityNodeReady(k)
  <2>1. PICK l \in {"priority_ready", "plan"} : Goto(k, l)
    BY <1>4 DEF EnsurePriorityNode, MarkPriorityNodeReady
  <2>2. UNCHANGED <<sel, saw, todo, node, assign>>
    BY <1>4 DEF EnsurePriorityNode, MarkPriorityNodeReady
  <2>3. /\ assign' \in [Ticker -> Partial(Business, Nat \ {0})]
        /\ l \in PcLabel /\ l \notin {"idle", "select"}
    BY <2>2 DEF FrameInv, FrameType, PcLabel
  <2> QED
    BY <1>4, <2>1, <2>2, <2>3, GotoFrame, PriorityNodeTable
<1>5. CASE PlanTopic(k)
  BY <1>5, PlanFrame, Unchanged DEF PlanTopic
<1>6. CASE MarkNodeRunning(k)
  BY <1>6, RunningFrame, RunningTable
<1>7. CASE StartWorker(k)
  <2> DEFINE plan == IF IsPriority(node[k]) THEN PriorityPlan(sel[k]) ELSE <<>>
  <2>1. plan \in Partial(Business, Nat \ {0})
    BY PriorityPlanType, PartialEmpty
  <2>2. /\ assign' = [assign EXCEPT ![k] = plan]
        /\ Goto(k, "execute") /\ UNCHANGED <<tables, sel, saw, todo, node>>
    BY <1>7 DEF StartWorker
  <2> HIDE DEF plan
  <2>3. assign' \in [Ticker -> Partial(Business, Nat \ {0})] /\ "execute" \in PcLabel
    BY <2>1, <2>2 DEF FrameInv, FrameType, PcLabel
  <2> QED
    BY <2>2, <2>3, GotoFrame, Unchanged
<1>8. CASE ApplyPriorityPlan(k) \/ ClearPriorityDirty(k)
  <2>1. /\ Goto(k, NextNode(k)) /\ UNCHANGED <<sel, saw, todo>>
        /\ node' = [node EXCEPT ![k] = NoNode]
        /\ assign' = [assign EXCEPT ![k] = <<>>]
    BY <1>8 DEF ApplyPriorityPlan, ClearPriorityDirty
  <2>2. NextNode(k) \in PcLabel \ {"idle", "select"}
    BY DEF NextNode, PcLabel
  <2>3. FrameInv'
    BY <2>1, <2>2, DoneFrame
  <2>4. ListInv'
    BY <1>8, PlanTable, ClearTable
  <2> QED
    BY <2>3, <2>4
<1>9. CASE EndTick(k)
  <2>1. Return(k)
    BY <1>9 DEF EndTick
  <2> QED
    BY <1>9, <2>1, ReturnFrame, EndTable
<1> QED
  BY <1>1, <1>2, <1>3, <1>4, <1>5, <1>6, <1>7, <1>8, <1>9 DEF TickStep

LEMMA BothStep == FrameInv /\ ListInv /\ [Next]_vars => FrameInv' /\ ListInv'
<1> SUFFICES ASSUME FrameInv, ListInv, [Next]_vars
             PROVE  FrameInv' /\ ListInv'
  OBVIOUS
<1>1. CASE \E n \in Node : Enqueue(n) \/ RefuseEnqueue(n)
  <2>1. PICK n \in Node : Enqueue(n) \/ RefuseEnqueue(n)
    BY <1>1
  <2>2. CASE Enqueue(n)
    BY <2>2, EnqueueTable, Unchanged DEF Enqueue
  <2>3. CASE RefuseEnqueue(n)
    BY <2>3, Unchanged DEF RefuseEnqueue, vars, frames, tables
  <2> QED
    BY <2>1, <2>2, <2>3
<1>2. CASE \E k \in Ticker : TickStep(k) \/ WorkerEnds(k) \/ Crash(k)
  <2>1. PICK k \in Ticker : TickStep(k) \/ WorkerEnds(k) \/ Crash(k)
    BY <1>2
  <2>2. CASE TickStep(k)
    BY <2>2, TickerStep
  <2>3. CASE WorkerEnds(k)
    BY <2>3, WorkerStep
  <2>4. CASE Crash(k)
    BY <2>4, ReturnFrame, Unchanged DEF Crash
  <2> QED
    BY <2>1, <2>2, <2>3, <2>4
<1>3. CASE UNCHANGED vars
  BY <1>3, Unchanged DEF vars, frames, tables
<1> QED
  BY <1>1, <1>2, <1>3 DEF Next

(* The running lists and the topics of the planned nodes are kept by every  *)
(* step of Enqueue and Tick (engine.go), whatever fails in between.         *)
THEOREM TickKeepsLists == Spec => [](FrameInv /\ ListInv)
<1>1. Init => FrameInv /\ ListInv
  BY InitBoth
<1>2. (FrameInv /\ ListInv) /\ [Next]_vars => (FrameInv /\ ListInv)'
  BY BothStep
<1> QED
  BY <1>1, <1>2, PTL DEF Spec

(* Every column of topic_runtime and node_queue and every local variable of *)
(* a tick keeps its type.                                                   *)
THEOREM ScheduleTypeCorrect == Spec => []TypeOK
<1>1. FrameInv /\ ListInv => TypeOK
  <2> SUFFICES ASSUME FrameInv, ListInv
               PROVE  TypeOK
    OBVIOUS
  <2>1. ASSUME NEW k \in Ticker
        PROVE  /\ DOMAIN todo[k] \subseteq Node
               /\ \A n \in DOMAIN todo[k] : todo[k][n] \in Nat
               /\ DOMAIN assign[k] \subseteq Business
               /\ \A n \in DOMAIN assign[k] : assign[k][n] \in Nat \ {0}
    <3>1. todo[k] \in Partial(Node, Nat) /\ assign[k] \in Partial(Business, Nat \ {0})
      BY DEF FrameInv, FrameType
    <3>2. /\ DOMAIN todo[k] \in SUBSET Node /\ todo[k] \in [DOMAIN todo[k] -> Nat]
          /\ DOMAIN assign[k] \in SUBSET Business
          /\ assign[k] \in [DOMAIN assign[k] -> Nat \ {0}]
      BY <3>1, PartialElim
    <3> QED
      BY <3>2
  <2> QED
    BY <2>1 DEF FrameInv, FrameType, ListInv, TableType, TypeOK
<1> QED
  BY <1>1, TickKeepsLists, PTL

(* No row says running without being in running_node_ids, which the planner *)
(* and the priority wait read instead (MarkNodeRunning, MarkNodeFinished),  *)
(* with any number of processes ticking.                                    *)
THEOREM RunningRowsListed == Spec => []RunningListed
<1>1. FrameInv /\ ListInv => RunningListed
  BY DEF ListInv
<1> QED
  BY <1>1, TickKeepsLists, PTL

-----------------------------------------------------------------------------
(* Instants keep their order when they are numbered again.                  *)

Instants(f) == {f[y] : y \in DOMAIN f} \cup {0}

LEMMA InstantsFinite ==
  ASSUME NEW S, IsFiniteSet(S), NEW f \in [S -> Nat]
  PROVE  /\ IsFiniteSet(Instants(f)) /\ Instants(f) \subseteq Nat
         /\ Cardinality(Instants(f)) <= Cardinality(S) + 1
<1> DEFINE T == {f[y] : y \in S}
<1>1. f \in Surjection(S, T)
  BY DEF Surjection
<1>2. T \subseteq Nat /\ Instants(f) = T \cup {0}
  BY DEF Instants
<1> HIDE DEF T
<1>3. IsFiniteSet(T) /\ Cardinality(T) <= Cardinality(S)
  BY <1>1, FS_Surjection
<1>4. Cardinality(T) \in Nat /\ Cardinality(S) \in Nat
  BY <1>3, FS_CardinalityType
<1>5. /\ IsFiniteSet(T \cup {0})
      /\ Cardinality(T \cup {0}) = IF 0 \in T THEN Cardinality(T) ELSE Cardinality(T) + 1
  BY <1>3, FS_AddElement
<1> QED
  BY <1>2, <1>3, <1>4, <1>5

(* Leaving one element out of a finite set makes it smaller.                *)
LEMMA SmallerSet ==
  ASSUME NEW B, IsFiniteSet(B), NEW A \in SUBSET B, NEW x \in B, x \notin A
  PROVE  /\ Cardinality(A) \in Nat /\ Cardinality(B) \in Nat
         /\ Cardinality(A) < Cardinality(B)
<1>1. /\ IsFiniteSet(A) /\ Cardinality(A) \in Nat /\ Cardinality(B) \in Nat
      /\ Cardinality(A) <= Cardinality(B)
      /\ Cardinality(B) = Cardinality(A) => B = A
  BY FS_Subset, FS_CardinalityType
<1> QED
  BY <1>1

LEMMA RenumberOrder ==
  ASSUME NEW S, IsFiniteSet(S), NEW f \in [S -> Nat], NEW x \in S, NEW y \in S,
         f[x] < f[y]
  PROVE  Renumber(f)[x] < Renumber(f)[y]
<1> DEFINE A == {v \in Instants(f) : v < f[x]}
           B == {v \in Instants(f) : v < f[y]}
<1>1. IsFiniteSet(Instants(f)) /\ Instants(f) \subseteq Nat
  BY InstantsFinite
<1>2. /\ B \in SUBSET Instants(f) /\ A \in SUBSET B
      /\ f[x] \in B /\ f[x] \notin A
  BY <1>1 DEF Instants
<1>3. Renumber(f)[x] = Cardinality(A) /\ Renumber(f)[y] = Cardinality(B)
  BY DEF Renumber, Instants
<1> HIDE DEF A, B
<1>4. IsFiniteSet(B)
  BY <1>1, <1>2, FS_Subset
<1>5. Cardinality(A) < Cardinality(B)
  BY <1>2, <1>4, SmallerSet
<1> QED
  BY <1>3, <1>5

LEMMA RenumberBound ==
  ASSUME NEW S, IsFiniteSet(S), NEW f \in [S -> Nat], NEW x \in S
  PROVE  Renumber(f)[x] <= Cardinality(S)
<1> DEFINE A == {v \in Instants(f) : v < f[x]}
<1>1. /\ IsFiniteSet(Instants(f)) /\ Instants(f) \subseteq Nat
      /\ Cardinality(Instants(f)) <= Cardinality(S) + 1
  BY InstantsFinite
<1>2. /\ A \in SUBSET Instants(f)
      /\ f[x] \in Instants(f) /\ f[x] \notin A
  BY <1>1 DEF Instants
<1>3. Renumber(f)[x] = Cardinality(A)
  BY DEF Renumber, Instants
<1> HIDE DEF A
<1>4. /\ Cardinality(A) < Cardinality(Instants(f))
      /\ Cardinality(A) \in Nat /\ Cardinality(Instants(f)) \in Nat
  BY <1>1, <1>2, SmallerSet
<1>5. Cardinality(S) \in Nat
  BY FS_CardinalityType
<1> QED
  BY <1>1, <1>3, <1>4, <1>5

(* No instant of the rows q lies beyond those the table can hold.           *)
BeforeNow(q) == \A n \in Node : q[n].entered < Now

(* The nodes N enter last; the others keep their order.                     *)
LEMMA EnterOrder ==
  ASSUME NEW q \in [Node -> NodeRow], NEW N \in SUBSET Node, BeforeNow(q)
  PROVE  /\ BeforeNow(Enter(q, N))
         /\ \A n \in Node : /\ Enter(q, N)[n].status = q[n].status
                            /\ Enter(q, N)[n].rank = q[n].rank
         /\ \A m, n \in Node :
              Enter(q, N)[m].entered > Enter(q, N)[n].entered <=>
                n \notin N /\ (m \in N \/ q[m].entered > q[n].entered)
<1> DEFINE instants == [n \in Node |-> IF n \in N THEN Now ELSE q[n].entered]
           at == Renumber(instants)
<1>1. instants \in [Node -> Nat]
  BY NowType DEF NodeRow
<1>2. at \in [Node -> Nat]
  BY <1>1, RenumberType
<1>3. IsFiniteSet(Node) /\ Cardinality(Node) \in Nat /\ Cardinality(Topic) \in Nat
  BY FiniteAssumption, FS_CardinalityType
<1>4. \A n \in Node : at[n] <= Cardinality(Node)
  <2> HIDE DEF instants
  <2> QED
    BY <1>1, <1>3, RenumberBound
<1>5. \A m, n \in Node : instants[n] < instants[m] => at[n] < at[m]
  <2> HIDE DEF instants
  <2> QED
    BY <1>1, <1>3, RenumberOrder
<1>6. \A m, n \in Node :
        n \notin N /\ (m \in N \/ q[m].entered > q[n].entered) <=> instants[n] < instants[m]
  BY NowType DEF NodeRow, BeforeNow
<1>7. \A m, n \in Node : instants[n] = instants[m] => at[n] = at[m]
  BY <1>1 DEF Renumber
<1>8. Enter(q, N) = [n \in Node |-> [q[n] EXCEPT !.entered = at[n]]]
  BY DEF Enter
<1> HIDE DEF at, instants
<1>9. \A n \in Node : /\ Enter(q, N)[n].entered = at[n]
                      /\ Enter(q, N)[n].status = q[n].status
                      /\ Enter(q, N)[n].rank = q[n].rank
  BY <1>8 DEF NodeRow
<1>10. \A n \in Node : at[n] < Now
  BY <1>2, <1>3, <1>4 DEF Now
<1>11. BeforeNow(Enter(q, N))
  BY <1>9, <1>10 DEF BeforeNow
<1>12. \A m, n \in Node : at[m] > at[n] <=> instants[n] < instants[m]
  BY <1>1, <1>2, <1>5, <1>7
<1>13. \A m, n \in Node :
         Enter(q, N)[m].entered > Enter(q, N)[n].entered <=>
           n \notin N /\ (m \in N \/ q[m].entered > q[n].entered)
  BY <1>6, <1>9, <1>12
<1> QED
  BY <1>9, <1>11, <1>13
-----------------------------------------------------------------------------
(* The ticks of one process: what a plan relies on while it is carried out. *)

OneProcess == \A k, l \in Ticker : k = l

Closed(n) == nodes[n].status \in Terminal \cup {"absent"}
Waits(n) == nodes[n].status \in {"pending", "ready"}
Quiet(t) == \A m \in NodesOf(t) : nodes[m].status # "running"

Early == {"idle", "select", "priority", "priority_ready", "plan"}

(* The nodes a tick has planned or is running.                              *)
Hand(k) == DOMAIN todo[k] \cup ({node[k]} \cap Node)

(* The statuses of the nodes in hand, and of the topic's others.            *)
HandInv(k) ==
  /\ pc[k] \in Early => Hand(k) = {}
  /\ pc[k] \notin {"idle", "select"} => sel[k] \in Topic
  /\ pc[k] = "dispatch" => node[k] = NoNode
  /\ \A n \in DOMAIN todo[k] : Waits(n)
  /\ node[k] \notin DOMAIN todo[k]
  /\ pc[k] \in {"prepare", "execute"} => node[k] \in Node /\ ~Closed(node[k])
  /\ pc[k] \in {"apply", "clear"} => node[k] \in Node /\ IsPriority(node[k])

(* A priority node is in hand alone, and business nodes only while the      *)
(* priority node has ended.                                                 *)
AloneInv(k) ==
  /\ \A n \in Hand(k) : IsPriority(n) => Hand(k) = {n}
  /\ \A n \in Hand(k) : ~IsPriority(n) => Closed(PriorityNode[sel[k]])
  /\ saw[k] => \A n \in DOMAIN todo[k] : IsPriority(n)
  /\ pc[k] \in {"priority", "priority_ready"} => Quiet(sel[k])
  /\ pc[k] = "plan" /\ saw[k] => nodes[PriorityNode[sel[k]]].status = "ready"

(* LayerOrder for one tick.                                                 *)
Layered(k) ==
  \A n \in DOMAIN todo[k] : \A m \in NodesOf(sel[k]) :
    ~Closed(m) /\ nodes[m].rank < nodes[n].rank =>
      nodes[m].entered > nodes[n].entered

(* Rank 0 is the priority node's, and it does not wait or run beside        *)
(* another one that runs.                                                   *)
RankInv ==
  /\ \A n \in Node : IsPriority(n) => nodes[n].rank = 0
  /\ \A n \in Business : nodes[n].status # "absent" => nodes[n].rank >= 1
  /\ \A n \in Node : IsPriority(n) /\ ~Closed(n) =>
       \A m \in NodesOf(TopicOf[n]) \ {n} : nodes[m].status # "running"

TickInv(k) == HandInv(k) /\ AloneInv(k) /\ Layered(k)
OrderInv == RankInv /\ BeforeNow(nodes) /\ \A k \in Ticker : TickInv(k)

LEMMA PriorityIds ==
  /\ \A t \in Topic : /\ PriorityNode[t] \in NodesOf(t)
                      /\ IsPriority(PriorityNode[t])
  /\ \A n \in Node : /\ TopicOf[n] \in Topic
                     /\ IsPriority(n) <=> n = PriorityNode[TopicOf[n]]
                     /\ n \in Business <=> ~IsPriority(n)
  /\ \A t : NodesOf(t) \subseteq Node /\ \A n \in NodesOf(t) : TopicOf[n] = t
  BY TopicAssumption DEF NodesOf, IsPriority, Business

(* What a step that writes the status st of the row x leaves alone.         *)
OnlyStatus(x, st) ==
  \A n \in Node : /\ nodes'[n].status = IF n = x THEN st ELSE nodes[n].status
                  /\ nodes'[n].rank = nodes[n].rank
                  /\ nodes'[n].entered = nodes[n].entered

LEMMA StatusWritten ==
  ASSUME TableType, NEW x, NEW st, nodes' = [nodes EXCEPT ![x].status = st]
  PROVE  OnlyStatus(x, st)
<1> SUFFICES ASSUME NEW n \in Node
             PROVE  /\ nodes'[n].status = IF n = x THEN st ELSE nodes[n].status
                    /\ nodes'[n].rank = nodes[n].rank
                    /\ nodes'[n].entered = nodes[n].entered
  BY DEF OnlyStatus
<1> DEFINE row == [nodes[n] EXCEPT !.status = st]
<1>1. nodes[n] \in NodeRow /\ nodes \in [Node -> NodeRow]
  BY DEF TableType
<1>2. row.status = st /\ row.rank = nodes[n].rank /\ row.entered = nodes[n].entered
  BY <1>1 DEF NodeRow
<1>3. nodes'[n] = IF n = x THEN row ELSE nodes[n]
  BY <1>1
<1> HIDE DEF row
<1>4. CASE n = x
  BY <1>2, <1>3, <1>4
<1>5. CASE n # x
  BY <1>3, <1>5
<1> QED
  BY <1>4, <1>5

(* A row in hand changes its status: a business node runs only while the    *)
(* priority node has ended, a priority node goes on only if nothing runs.   *)
LEMMA StatusRank ==
  ASSUME RankInv, NEW x \in Node, NEW st \in NodeStatus, OnlyStatus(x, st), ~Closed(x),
         ~IsPriority(x) => Closed(PriorityNode[TopicOf[x]])
  PROVE  RankInv'
<1>1. \A n \in Node : IsPriority(n) => nodes'[n].rank = 0
  BY DEF RankInv, OnlyStatus
<1>2. \A n \in Business : nodes'[n].status # "absent" => nodes'[n].rank >= 1
  BY DEF RankInv, OnlyStatus, Business, Closed
<1>3. ASSUME NEW n \in Node, IsPriority(n), ~Closed(n)', NEW m \in NodesOf(TopicOf[n]) \ {n}
      PROVE  nodes'[m].status # "running"
  <2>1. m \in Node /\ TopicOf[m] = TopicOf[n] /\ ~IsPriority(m)
    BY <1>3, PriorityIds
  <2>2. CASE x = m
    <3>1. Closed(n) /\ n # x
      BY <1>3, <2>1, <2>2, PriorityIds
    <3> QED
      BY <1>3, <3>1 DEF OnlyStatus, Closed
  <2>3. CASE x # m
    <3>1. ~Closed(n)
      BY <1>3 DEF OnlyStatus, Closed
    <3>2. nodes[m].status # "running"
      BY <1>3, <3>1 DEF RankInv
    <3> QED
      BY <2>1, <2>3, <3>2 DEF OnlyStatus
  <2> QED
    BY <2>2, <2>3
<1> QED
  BY <1>1, <1>2, <1>3 DEF RankInv

LEMMA SameEntered ==
  ASSUME BeforeNow(nodes), \A n \in Node : nodes'[n].entered = nodes[n].entered
  PROVE  BeforeNow(nodes)'
  BY DEF BeforeNow, Now

(* As long as no node opens again and none moves, a plan stays layered.     *)
LEMMA LayeredKept ==
  ASSUME NEW k \in Ticker, Layered(k), sel'[k] = sel[k],
         DOMAIN todo[k] \subseteq Node, DOMAIN todo'[k] \subseteq DOMAIN todo[k],
         \A n \in Node : /\ nodes'[n].rank = nodes[n].rank
                         /\ nodes'[n].entered = nodes[n].entered
                         /\ ~Closed(n)' => ~Closed(n)
  PROVE  Layered(k)'
  BY DEF Layered, NodesOf

-----------------------------------------------------------------------------
(* A tick that returns has nothing in hand, whatever it left behind.        *)

LEMMA ReturnTick ==
  ASSUME FrameType, NEW k \in Ticker, Return(k)
  PROVE  TickInv(k)'
<1>1. /\ pc'[k] = "idle" /\ saw'[k] = FALSE /\ todo'[k] = <<>> /\ node'[k] = NoNode
  BY DEF FrameType, Return, Goto
<1>2. DOMAIN <<>> = {} /\ NoNode \notin Node
  BY IdAssumption
<1>3. Hand(k)' = {}
  BY <1>1, <1>2 DEF Hand
<1>4. HandInv(k)'
  BY <1>1, <1>2, <1>3 DEF HandInv
<1>5. AloneInv(k)'
  BY <1>1, <1>2, <1>3 DEF AloneInv
<1>6. Layered(k)'
  BY <1>1, <1>2 DEF Layered
<1> QED
  BY <1>4, <1>5, <1>6 DEF TickInv

LEMMA RowsUnchanged ==
  ASSUME RankInv, BeforeNow(nodes), UNCHANGED nodes
  PROVE  RankInv' /\ BeforeNow(nodes)'
  BY DEF RankInv, BeforeNow, Closed, Now

(* With one process its tick is all there is to keep.                       *)
LEMMA TheTick ==
  ASSUME OneProcess, NEW k \in Ticker, TickInv(k)', RankInv', BeforeNow(nodes)'
  PROVE  OrderInv'
  BY DEF OrderInv, OneProcess

LEMMA ReturnOrder ==
  ASSUME OneProcess, FrameInv, OrderInv, NEW k \in Ticker, Return(k), UNCHANGED nodes
  PROVE  OrderInv'
  BY ReturnTick, RowsUnchanged, TheTick DEF FrameInv, OrderInv

LEMMA WriteOrder ==
  ASSUME RankInv, BeforeNow(nodes), NEW x \in Node, NEW st \in NodeStatus,
         OnlyStatus(x, st), ~Closed(x),
         ~IsPriority(x) => Closed(PriorityNode[TopicOf[x]])
  PROVE  RankInv' /\ BeforeNow(nodes)'
  BY StatusRank, SameEntered DEF OnlyStatus

(* What is in hand belongs to the topic of the tick, so a business node     *)
(* there tells that its topic's priority node has ended.                    *)
LEMMA InHand ==
  ASSUME FrameInv, OrderInv, NEW k \in Ticker, NEW n \in Hand(k)
  PROVE  /\ n \in Node /\ TopicOf[n] = sel[k]
         /\ IsPriority(n) => Hand(k) = {n}
         /\ ~IsPriority(n) => Closed(PriorityNode[TopicOf[n]])
<1>1. DOMAIN todo[k] \subseteq Node
  BY PartialElim DEF FrameInv, FrameType
<1>2. n \in Node /\ TopicOf[n] = sel[k]
  BY <1>1 DEF Hand, FrameInv, OwnTopic
<1> QED
  BY <1>2 DEF OrderInv, TickInv, AloneInv

-----------------------------------------------------------------------------
(* Enqueue: a node that enters is ready, has rank 1 and comes last.         *)

LEMMA EnqueueRows ==
  ASSUME TableType, BeforeNow(nodes), NEW x \in Node, Enqueue(x)
  PROVE  /\ BeforeNow(nodes)'
         /\ \A n \in Node :
              /\ nodes'[n].status = IF n = x THEN "ready" ELSE nodes[n].status
              /\ nodes'[n].rank = IF n = x THEN 1 ELSE nodes[n].rank
         /\ \A m, n \in Node :
              nodes'[m].entered > nodes'[n].entered <=>
                n # x /\ (m = x \/ nodes[m].entered > nodes[n].entered)
<1> DEFINE q == SetReady(nodes, x, 1, "interactive")
<1>1. q \in [Node -> NodeRow]
  BY WriteReady DEF TableType, Label
<1>2. ASSUME NEW n \in Node
      PROVE  /\ q[n].status = IF n = x THEN "ready" ELSE nodes[n].status
             /\ q[n].rank = IF n = x THEN 1 ELSE nodes[n].rank
             /\ q[n].entered = nodes[n].entered
  <2> DEFINE r1 == [nodes[n] EXCEPT !.status = "ready"]
             r2 == [r1 EXCEPT !.rank = 1]
             r3 == [r2 EXCEPT !.label = "interactive"]
  <2>1. nodes[n] \in NodeRow /\ nodes \in [Node -> NodeRow]
    BY DEF TableType
  <2>2. q[n] = IF n = x THEN r3 ELSE nodes[n]
    BY <2>1 DEF SetReady
  <2>3. /\ r1.status = "ready" /\ r1.entered = nodes[n].entered
        /\ r2.status = r1.status /\ r2.rank = 1 /\ r2.entered = r1.entered
        /\ r3.status = r2.status /\ r3.rank = r2.rank /\ r3.entered = r2.entered
    BY <2>1 DEF NodeRow
  <2> HIDE DEF r1, r2, r3, q
  <2>4. CASE n = x
    BY <2>2, <2>3, <2>4
  <2>5. CASE n # x
    BY <2>2, <2>5
  <2> QED
    BY <2>4, <2>5
<1>3. nodes' = Enter(q, {x})
  BY DEF Enqueue, SetReady
<1> HIDE DEF q
<1>4. BeforeNow(q)
  BY <1>2 DEF BeforeNow
<1>5. /\ BeforeNow(Enter(q, {x}))
      /\ \A n \in Node : /\ Enter(q, {x})[n].status = q[n].status
                         /\ Enter(q, {x})[n].rank = q[n].rank
      /\ \A m, n \in Node :
           Enter(q, {x})[m].entered > Enter(q, {x})[n].entered <=>
             n \notin {x} /\ (m \in {x} \/ q[m].entered > q[n].entered)
  BY <1>1, <1>4, EnterOrder
<1>6. BeforeNow(nodes)'
  BY <1>3, <1>5 DEF BeforeNow, Now
<1> QED
  BY <1>2, <1>3, <1>5, <1>6

LEMMA EnqueueOrder ==
  ASSUME FrameInv, ListInv, OrderInv, NEW x \in Node, Enqueue(x)
  PROVE  OrderInv'
<1>1. /\ BeforeNow(nodes)'
      /\ \A n \in Node :
           /\ nodes'[n].status = IF n = x THEN "ready" ELSE nodes[n].status
           /\ nodes'[n].rank = IF n = x THEN 1 ELSE nodes[n].rank
      /\ \A m, n \in Node :
           n # x /\ (m = x \/ nodes[m].entered > nodes[n].entered) =>
             nodes'[m].entered > nodes'[n].entered
  BY EnqueueRows DEF ListInv, OrderInv
<1>2. /\ ~IsPriority(x)
      /\ UNCHANGED <<pc, sel, saw, todo, node, assign>>
  BY DEF Enqueue, Business, frames
<1>3. /\ \A n \in Node : IsPriority(n) => nodes'[n].status = nodes[n].status
      /\ \A n \in Node : (Closed(n)' => Closed(n)) /\ (Waits(n) => Waits(n)')
      /\ \A n \in Node : IsPriority(n) => (Closed(n)' <=> Closed(n))
      /\ \A n \in Node : nodes'[n].status = "running" => nodes[n].status = "running"
  BY <1>1, <1>2 DEF Closed, Waits, Terminal
<1>4. RankInv'
  <2>1. /\ \A n \in Node : IsPriority(n) => nodes'[n].rank = 0
        /\ \A n \in Business : nodes'[n].status # "absent" => nodes'[n].rank >= 1
    BY <1>1, <1>2 DEF OrderInv, RankInv, Business
  <2>2. ASSUME NEW n \in Node, IsPriority(n), ~Closed(n)', NEW m \in NodesOf(TopicOf[n]) \ {n}
        PROVE  nodes'[m].status # "running"
    BY <1>3, <2>2, PriorityIds DEF OrderInv, RankInv
  <2> QED
    BY <2>1, <2>2 DEF RankInv
<1>5. ASSUME NEW k \in Ticker PROVE TickInv(k)'
  <2>1. HandInv(k) /\ AloneInv(k) /\ Layered(k)
    BY DEF OrderInv, TickInv
  <2>2. Hand(k)' = Hand(k) /\ \A n \in Hand(k) : n \in Node /\ TopicOf[n] = sel[k]
    BY <1>2, InHand DEF Hand
  <2>3. HandInv(k)'
    <3>1. DOMAIN todo[k] \subseteq Node
      BY PartialElim DEF FrameInv, FrameType
    <3> QED
      BY <1>2, <1>3, <2>1, <2>2, <3>1 DEF HandInv
  <2>4. sel[k] \in Topic =>
          /\ PriorityNode[sel[k]] \in Node /\ IsPriority(PriorityNode[sel[k]])
          /\ NodesOf(sel[k]) \subseteq Node
    BY PriorityIds
  <2>5. Hand(k) # {} => sel[k] \in Topic
    BY <2>2, PriorityIds
  <2>6. AloneInv(k)'
    <3>1. \A n \in Hand(k) : ~IsPriority(n) => Closed(PriorityNode[sel[k]])'
      BY <1>2, <1>3, <2>1, <2>4, <2>5 DEF AloneInv
    <3>2. pc[k] \in {"priority", "priority_ready"} => Quiet(sel[k])'
      BY <1>2, <1>3, <2>1, <2>4 DEF AloneInv, Quiet, HandInv
    <3>3. pc[k] = "plan" /\ saw[k] => nodes'[PriorityNode[sel[k]]].status = "ready"
      BY <1>3, <2>1, <2>4 DEF AloneInv, HandInv
    <3> QED
      BY <1>2, <2>1, <2>2, <3>1, <3>2, <3>3 DEF AloneInv
  <2>7. Layered(k)'
    <3> SUFFICES ASSUME NEW n \in DOMAIN todo[k], NEW m \in NodesOf(sel[k]),
                        ~Closed(m)', nodes'[m].rank < nodes'[n].rank
                 PROVE  nodes'[m].entered > nodes'[n].entered
      BY <1>2 DEF Layered
    <3>1. n \in Hand(k) /\ n \in Node /\ TopicOf[n] = sel[k]
      BY <2>2 DEF Hand
    <3>2. m \in Node /\ TopicOf[m] = sel[k] /\ sel[k] \in Topic
      BY <3>1, PriorityIds
    <3>3. CASE n = x
      <4>1. nodes'[n].rank = 1 /\ m # x /\ nodes[m].rank < 1 /\ ~Closed(m)
        BY <1>1, <3>2, <3>3 DEF Closed
      <4>2. IsPriority(m)
        <5>1. nodes[m].rank \in Nat
          BY <3>2 DEF ListInv, TableType, NodeRow
        <5> QED
          BY <3>2, <4>1, <5>1 DEF OrderInv, RankInv, Business, Closed
      <4>3. Closed(m)
        BY <1>2, <2>1, <3>1, <3>2, <3>3, <4>2, PriorityIds DEF AloneInv
      <4> QED
        BY <4>1, <4>3
    <3>4. CASE n # x /\ m = x
      BY <1>1, <3>1, <3>2, <3>4
    <3>5. CASE n # x /\ m # x
      <4>1. ~Closed(m) /\ nodes[m].rank < nodes[n].rank
        BY <1>1, <3>1, <3>2, <3>5 DEF Closed
      <4>2. nodes[m].entered > nodes[n].entered
        BY <2>1, <4>1 DEF Layered
      <4> QED
        BY <1>1, <3>1, <3>2, <3>5, <4>2
    <3> QED
      BY <3>3, <3>4, <3>5
  <2> QED
    BY <2>3, <2>6, <2>7 DEF TickInv
<1> QED
  BY <1>1, <1>4, <1>5 DEF OrderInv

-----------------------------------------------------------------------------
(* The steps of a tick before it has anything in hand.                      *)

(* Nothing in hand before and after: what is left to show.                  *)
LEMMA EarlyTick ==
  ASSUME FrameInv, NEW k \in Ticker, HandInv(k), NEW l \in Early,
         pc[k] \in Early, Goto(k, l), UNCHANGED <<todo, node>>,
         l \notin {"idle", "select"} => sel'[k] \in Topic,
         l \in {"priority", "priority_ready"} => Quiet(sel[k])',
         l = "plan" /\ saw'[k] => nodes'[PriorityNode[sel'[k]]].status = "ready"
  PROVE  TickInv(k)'
<1>1. pc'[k] = l
  BY DEF Goto, FrameInv, FrameType
<1>2. Hand(k) = {} /\ Hand(k)' = {} /\ DOMAIN todo[k] = {} /\ todo' = todo /\ node' = node
  BY DEF HandInv, Hand
<1>3. HandInv(k)'
  BY <1>1, <1>2 DEF HandInv, Early
<1>4. AloneInv(k)'
  BY <1>1, <1>2 DEF AloneInv
<1>5. Layered(k)'
  BY <1>2 DEF Layered
<1> QED
  BY <1>3, <1>4, <1>5 DEF TickInv

LEMMA PromoteOrder ==
  ASSUME OneProcess, FrameInv, OrderInv, NEW k \in Ticker, PromoteAgedTopics(k)
  PROVE  OrderInv'
<1>1. /\ pc[k] = "idle" /\ Goto(k, "select")
      /\ UNCHANGED <<nodes, sel, saw, todo, node, assign>>
  BY DEF PromoteAgedTopics
<1>2. HandInv(k)
  BY DEF OrderInv, TickInv
<1>3. "select" \in Early /\ "idle" \in Early
  BY DEF Early
<1>4. TickInv(k)'
  BY <1>1, <1>2, <1>3, EarlyTick
<1> QED
  BY <1>1, <1>4, RowsUnchanged, TheTick DEF OrderInv

(* A dirty topic is taken only when its running list is empty.              *)
LEMMA SelectOrder ==
  ASSUME OneProcess, FrameInv, ListInv, OrderInv,
         NEW k \in Ticker, NEW t \in Topic, SelectTopic(k, t)
  PROVE  OrderInv'
<1> DEFINE l == IF topics[t].dirty THEN "priority" ELSE "plan"
<1>1. /\ pc[k] = "select" /\ Goto(k, l)
      /\ UNCHANGED <<nodes, todo, node>>
      /\ sel'[k] = t /\ saw'[k] = topics[t].dirty
      /\ topics[t].dirty => topics[t].running = {}
  BY DEF SelectTopic, Selects, tables, FrameInv, FrameType
<1>2. HandInv(k)
  BY DEF OrderInv, TickInv
<1>3. /\ l \in Early /\ pc[k] \in Early
      /\ l = "plan" => ~topics[t].dirty
      /\ l \in {"priority", "priority_ready"} => topics[t].dirty
  BY <1>1 DEF Early
<1>4. topics[t].dirty => Quiet(sel[k])'
  BY <1>1, PriorityIds DEF ListInv, RunningListed, Quiet
<1> HIDE DEF l
<1>5. TickInv(k)'
  BY <1>1, <1>2, <1>3, <1>4, EarlyTick
<1> QED
  BY <1>1, <1>5, RowsUnchanged, TheTick DEF OrderInv

(* The priority node gets ready while nothing of its topic runs.            *)
LEMMA ReadyRank ==
  ASSUME RankInv, BeforeNow(nodes), NEW t \in Topic, Quiet(t),
         \A n \in Node :
           /\ \/ nodes'[n].status = nodes[n].status
              \/ n = PriorityNode[t] /\ nodes'[n].status = "ready"
           /\ \/ nodes'[n].rank = nodes[n].rank
              \/ n = PriorityNode[t] /\ nodes'[n].rank = 0
           /\ nodes'[n].entered = nodes[n].entered
  PROVE  RankInv' /\ BeforeNow(nodes)' /\ (\A m \in NodesOf(t) : nodes'[m].status # "running")
<1>1. PriorityNode[t] \in Node /\ IsPriority(PriorityNode[t]) /\ TopicOf[PriorityNode[t]] = t
  BY PriorityIds
<1>2. /\ \A n \in Node : IsPriority(n) => nodes'[n].rank = 0
      /\ \A n \in Business : nodes'[n].status # "absent" => nodes'[n].rank >= 1
  BY <1>1 DEF RankInv, Business
<1>3. ASSUME NEW m \in NodesOf(t) PROVE nodes'[m].status # "running"
  BY <1>3, PriorityIds DEF Quiet
<1>4. ASSUME NEW n \in Node, IsPriority(n), ~Closed(n)', NEW m \in NodesOf(TopicOf[n]) \ {n}
      PROVE  nodes'[m].status # "running"
  <2>1. CASE TopicOf[n] = t
    BY <1>3, <1>4, <2>1
  <2>2. CASE TopicOf[n] # t
    <3>1. m \in Node /\ n # PriorityNode[t] /\ m # PriorityNode[t]
      BY <1>1, <1>4, <2>2, PriorityIds
    <3>2. ~Closed(n)
      BY <1>4, <3>1 DEF Closed
    <3> QED
      BY <1>4, <3>1, <3>2 DEF RankInv
  <2> QED
    BY <2>1, <2>2
<1>5. RankInv'
  BY <1>2, <1>4 DEF RankInv
<1> QED
  BY <1>3, <1>5, SameEntered

LEMMA PriorityRow ==
  ASSUME TableType, NEW p, NEW st,
         nodes' = [nodes EXCEPT ![p].status = st, ![p].rank = 0, ![p].label = "priority"]
  PROVE  \A n \in Node :
           /\ nodes'[n].status = IF n = p THEN st ELSE nodes[n].status
           /\ nodes'[n].rank = IF n = p THEN 0 ELSE nodes[n].rank
           /\ nodes'[n].entered = nodes[n].entered
<1> SUFFICES ASSUME NEW n \in Node
             PROVE  /\ nodes'[n].status = IF n = p THEN st ELSE nodes[n].status
                    /\ nodes'[n].rank = IF n = p THEN 0 ELSE nodes[n].rank
                    /\ nodes'[n].entered = nodes[n].entered
  OBVIOUS
<1> DEFINE r1 == [nodes[n] EXCEPT !.status = st]
           r2 == [r1 EXCEPT !.rank = 0]
           r3 == [r2 EXCEPT !.label = "priority"]
<1>1. nodes[n] \in NodeRow /\ nodes \in [Node -> NodeRow]
  BY DEF TableType
<1>2. nodes'[n] = IF n = p THEN r3 ELSE nodes[n]
  BY <1>1
<1>3. /\ r1.status = st /\ r1.entered = nodes[n].entered
      /\ r2.status = r1.status /\ r2.rank = 0 /\ r2.entered = r1.entered
      /\ r3.status = r2.status /\ r3.rank = r2.rank /\ r3.entered = r2.entered
  BY <1>1 DEF NodeRow
<1> HIDE DEF r1, r2, r3
<1>4. CASE n = p
  BY <1>2, <1>3, <1>4
<1>5. CASE n # p
  BY <1>2, <1>5
<1> QED
  BY <1>4, <1>5

LEMMA PriorityNodeOrder ==
  ASSUME OneProcess, FrameInv, ListInv, OrderInv, NEW k \in Ticker,
         EnsurePriorityNode(k) \/ MarkPriorityNodeReady(k)
  PROVE  OrderInv'
<1> DEFINE t == sel[k]
           p == PriorityNode[t]
<1>1. HandInv(k) /\ AloneInv(k) /\ RankInv /\ BeforeNow(nodes) /\ TableType
  BY DEF OrderInv, TickInv, ListInv
<1>2. pc[k] \in {"priority", "priority_ready"} /\ UNCHANGED <<sel, saw, todo, node>>
  BY DEF EnsurePriorityNode, MarkPriorityNodeReady
<1>3. t \in Topic /\ Quiet(t)
  BY <1>1, <1>2 DEF HandInv, AloneInv
<1>4. PriorityNode[t] \in Node
  BY <1>3, PriorityIds
<1>5. CASE EnsurePriorityNode(k)
  <2> DEFINE st == IF nodes[p].status = "absent" THEN "ready" ELSE nodes[p].status
  <2>1. /\ Goto(k, "priority_ready")
        /\ \/ UNCHANGED nodes
           \/ nodes' = [nodes EXCEPT ![p].status = st, ![p].rank = 0, ![p].label = "priority"]
    BY <1>5 DEF EnsurePriorityNode
  <2>2. st = nodes[p].status \/ st = "ready"
    OBVIOUS
  <2> HIDE DEF st
  <2>3. \A n \in Node :
          /\ \/ nodes'[n].status = nodes[n].status
             \/ n = PriorityNode[t] /\ nodes'[n].status = "ready"
          /\ \/ nodes'[n].rank = nodes[n].rank
             \/ n = PriorityNode[t] /\ nodes'[n].rank = 0
          /\ nodes'[n].entered = nodes[n].entered
    <3>1. CASE UNCHANGED nodes
      BY <3>1
    <3>2. CASE nodes' = [nodes EXCEPT ![p].status = st, ![p].rank = 0, ![p].label = "priority"]
      <4>1. \A n \in Node :
              /\ nodes'[n].status = IF n = p THEN st ELSE nodes[n].status
              /\ nodes'[n].rank = IF n = p THEN 0 ELSE nodes[n].rank
              /\ nodes'[n].entered = nodes[n].entered
        BY <1>1, <3>2, PriorityRow
      <4> QED
        BY <2>2, <4>1
    <3> QED
      BY <2>1, <3>1, <3>2
  <2>4. RankInv' /\ BeforeNow(nodes)' /\ (\A m \in NodesOf(t) : nodes'[m].status # "running")
    BY <1>1, <1>3, <2>3, ReadyRank
  <2>5. Quiet(sel[k])'
    BY <1>2, <2>4 DEF Quiet
  <2>6. TickInv(k)'
    BY <1>1, <1>2, <1>3, <2>1, <2>5, EarlyTick DEF Early
  <2> QED
    BY <2>4, <2>6, TheTick
<1>6. CASE MarkPriorityNodeReady(k)
  <2>1. /\ Goto(k, "plan")
        /\ nodes' = [nodes EXCEPT ![p].status = "ready", ![p].rank = 0, ![p].label = "priority"]
    BY <1>6 DEF MarkPriorityNodeReady
  <2>2. \A n \in Node :
          /\ nodes'[n].status = IF n = p THEN "ready" ELSE nodes[n].status
          /\ nodes'[n].rank = IF n = p THEN 0 ELSE nodes[n].rank
          /\ nodes'[n].entered = nodes[n].entered
    BY <1>1, <2>1, PriorityRow
  <2>3. RankInv' /\ BeforeNow(nodes)'
    <3>1. \A n \in Node :
            /\ \/ nodes'[n].status = nodes[n].status
               \/ n = PriorityNode[t] /\ nodes'[n].status = "ready"
            /\ \/ nodes'[n].rank = nodes[n].rank
               \/ n = PriorityNode[t] /\ nodes'[n].rank = 0
            /\ nodes'[n].entered = nodes[n].entered
      BY <2>2
    <3> QED
      BY <1>1, <1>3, <3>1, ReadyRank
  <2>4. nodes'[PriorityNode[sel'[k]]].status = "ready"
    BY <1>2, <1>4, <2>2
  <2>5. TickInv(k)'
    BY <1>1, <1>2, <1>3, <2>1, <2>4, EarlyTick DEF Early
  <2> QED
    BY <2>3, <2>5, TheTick
<1> QED
  BY <1>5, <1>6

-----------------------------------------------------------------------------
(* Planning: the nodes of the smallest rank that wait.                      *)

LEMMA PlanNodes ==
  ASSUME TableType, RunningListed, NEW t \in Topic, NEW n \in DOMAIN Plan(Snapshot(t), Slots)
  PROVE  /\ n \in NodesOf(t) /\ Waits(n)
         /\ \A m \in NodesOf(t) : ~Closed(m) => nodes[n].rank <= nodes[m].rank
<1> DEFINE s == Snapshot(t)
<1>1. /\ DOMAIN s.rows = Rows(t) /\ \A m \in Rows(t) : s.rows[m] = nodes[m]
      /\ s.running = topics[t].running
  BY DEF Snapshot
<1>2. n \in Dispatchable(s)
  BY DEF Plan
<1> HIDE DEF s
<1>3. n \in ActiveLayer(s) /\ s.rows[n].status \notin Blocking /\ n \notin s.running
  BY <1>2 DEF Dispatchable, ActiveCandidates
<1>4. /\ n \in Rows(t) /\ nodes[n].status \notin Terminal
      /\ \A m \in Rows(t) :
           nodes[m].status \notin Terminal => nodes[n].rank <= nodes[m].rank
  BY <1>1, <1>3 DEF ActiveLayer, NonTerminal
<1>5. n \in NodesOf(t) /\ n \in Node /\ TopicOf[n] = t
  BY <1>4, PriorityIds DEF Rows
<1>6. nodes[n].status # "running"
  BY <1>1, <1>3, <1>5 DEF RunningListed
<1>7. nodes[n].status \in NodeStatus
  BY <1>4, <1>5 DEF TableType, NodeRow, Rows
<1>8. Waits(n)
  BY <1>1, <1>3, <1>4, <1>6, <1>7 DEF Waits, NodeStatus
<1>9. ASSUME NEW m \in NodesOf(t), ~Closed(m) PROVE nodes[n].rank <= nodes[m].rank
  BY <1>4, <1>9 DEF Rows, Closed
<1> QED
  BY <1>5, <1>8, <1>9

LEMMA PlanOrder ==
  ASSUME OneProcess, FrameInv, ListInv, OrderInv, NEW k \in Ticker, PlanTopic(k)
  PROVE  OrderInv'
<1> DEFINE t == sel[k]
           p == PriorityNode[t]
           plan == Plan(Snapshot(t), Slots)
           D == DOMAIN plan
<1>1. HandInv(k) /\ AloneInv(k) /\ RankInv /\ TableType /\ RunningListed
  BY DEF OrderInv, TickInv, ListInv
<1>2. /\ pc[k] = "plan" /\ pc'[k] = "dispatch" /\ todo'[k] = plan
      /\ UNCHANGED <<nodes, sel, saw, node>>
  BY DEF PlanTopic, Goto, tables, FrameInv, FrameType
<1>3. t \in Topic /\ Hand(k) = {}
  BY <1>1, <1>2 DEF HandInv, Early
<1>4. node[k] = NoNode /\ NoNode \notin Node
  BY <1>3, IdAssumption DEF Hand, FrameInv, FrameType
<1>5. p \in NodesOf(t) /\ p \in Node /\ IsPriority(p)
  BY <1>3, PriorityIds
<1>6. ASSUME NEW n \in D
      PROVE  /\ n \in NodesOf(t) /\ n \in Node /\ Waits(n)
             /\ \A m \in NodesOf(t) : ~Closed(m) => nodes[n].rank <= nodes[m].rank
  BY <1>1, <1>3, PlanNodes, PriorityIds
<1>7. \A n \in Node : nodes[n].rank \in Nat
  BY <1>1 DEF TableType, NodeRow
<1> HIDE DEF plan
<1>8. ASSUME NEW n \in D, ~IsPriority(n) PROVE Closed(p)
  <2>1. nodes[n].rank >= 1
    BY <1>1, <1>6, <1>8 DEF RankInv, Business, Waits
  <2>2. nodes[p].rank = 0
    BY <1>1, <1>5 DEF RankInv
  <2> QED
    BY <1>5, <1>6, <1>7, <2>1, <2>2
<1>9. ASSUME NEW n \in D, IsPriority(n) PROVE D = {n}
  <2>1. n = p /\ ~Closed(p)
    BY <1>6, <1>9, PriorityIds DEF Waits, Closed, Terminal
  <2>2. ASSUME NEW m \in D PROVE m = n
    <3>1. IsPriority(m)
      BY <1>8, <2>1
    <3> QED
      BY <1>6, <2>1, <3>1, PriorityIds
  <2> QED
    BY <2>2
<1>10. Hand(k)' = D
  BY <1>2, <1>4 DEF Hand
<1>11. HandInv(k)'
  BY <1>2, <1>3, <1>4, <1>6 DEF HandInv, Early, Waits
<1>12. AloneInv(k)'
  <2>1. \A n \in Hand(k)' : IsPriority(n) => Hand(k)' = {n}
    BY <1>9, <1>10
  <2>2. \A n \in Hand(k)' : ~IsPriority(n) => Closed(PriorityNode[sel[k]])'
    BY <1>2, <1>8, <1>10 DEF Closed
  <2>3. saw[k] => \A n \in D : IsPriority(n)
    BY <1>1, <1>2, <1>8 DEF AloneInv, Closed, Terminal
  <2> QED
    BY <1>2, <2>1, <2>2, <2>3 DEF AloneInv
<1>13. Layered(k)'
  <2> SUFFICES ASSUME NEW n \in D, NEW m \in NodesOf(t), ~Closed(m),
                      nodes[m].rank < nodes[n].rank
               PROVE  FALSE
    BY <1>2 DEF Layered, Closed
  <2>1. m \in Node /\ n \in Node /\ nodes[n].rank <= nodes[m].rank
    BY <1>3, <1>6, PriorityIds
  <2> QED
    BY <1>7, <2>1
<1>14. TickInv(k)'
  BY <1>11, <1>12, <1>13 DEF TickInv
<1> QED
  BY <1>2, <1>14, RowsUnchanged, TheTick DEF OrderInv

(* The next node starts: it waited, and it is in hand still.                *)
LEMMA RunningOrder ==
  ASSUME OneProcess, FrameInv, ListInv, OrderInv, NEW k \in Ticker, MarkNodeRunning(k)
  PROVE  OrderInv'
<1>1. HandInv(k) /\ AloneInv(k) /\ Layered(k) /\ RankInv /\ BeforeNow(nodes) /\ TableType
  BY DEF OrderInv, TickInv, ListInv
<1>2. PICK x \in DOMAIN todo[k] :
        /\ nodes' = [nodes EXCEPT ![x].status = "running"]
        /\ node' = [node EXCEPT ![k] = x]
        /\ todo' = [todo EXCEPT ![k] = [m \in DOMAIN @ \ {x} |-> @[m]]]
  BY DEF MarkNodeRunning
<1>3. /\ pc[k] = "dispatch" /\ pc'[k] = "prepare" /\ UNCHANGED <<sel, saw>>
      /\ node'[k] = x /\ DOMAIN todo'[k] = DOMAIN todo[k] \ {x}
  BY <1>2 DEF MarkNodeRunning, Goto, FrameInv, FrameType
<1>4. /\ DOMAIN todo[k] \subseteq Node
      /\ x \in Hand(k) /\ x \in Node /\ TopicOf[x] = sel[k]
      /\ ~IsPriority(x) => Closed(PriorityNode[TopicOf[x]])
      /\ Waits(x)
  <2>1. x \in Hand(k)
    BY DEF Hand
  <2> QED
    BY <1>1, <2>1, InHand, PartialElim DEF HandInv, FrameInv, FrameType
<1>5. ~Closed(x)
  BY <1>4 DEF Waits, Closed, Terminal
<1>6. OnlyStatus(x, "running") /\ "running" \in NodeStatus
  BY <1>1, <1>2, StatusWritten DEF NodeStatus
<1>7. RankInv' /\ BeforeNow(nodes)'
  BY <1>1, <1>4, <1>5, <1>6, WriteOrder
<1>8. Hand(k)' = Hand(k)
  <2>1. node[k] = NoNode /\ NoNode \notin Node
    BY <1>1, <1>3, IdAssumption DEF HandInv
  <2> QED
    BY <1>3, <1>4, <2>1 DEF Hand
<1>9. sel[k] \in Topic
  BY <1>1, <1>3 DEF HandInv
<1>10. HandInv(k)'
  <2>1. \A n \in DOMAIN todo'[k] : Waits(n)'
    BY <1>1, <1>3, <1>4, <1>6 DEF HandInv, OnlyStatus, Waits
  <2>2. ~Closed(node[k])'
    BY <1>3, <1>4, <1>6 DEF OnlyStatus, Closed, Terminal
  <2> QED
    BY <1>3, <1>4, <1>9, <2>1, <2>2 DEF HandInv, Early
<1>11. AloneInv(k)'
  <2>1. ASSUME NEW n \in Hand(k), ~IsPriority(n) PROVE Closed(PriorityNode[sel[k]])'
    <3>1. Closed(PriorityNode[sel[k]]) /\ PriorityNode[sel[k]] \in Node
      BY <1>1, <1>9, <2>1, PriorityIds DEF AloneInv
    <3>2. PriorityNode[sel[k]] # x
      BY <1>5, <3>1
    <3> QED
      BY <1>3, <1>6, <3>1, <3>2 DEF OnlyStatus, Closed
  <2> QED
    BY <1>1, <1>3, <1>8, <2>1 DEF AloneInv
<1>12. Layered(k)'
  <2>1. \A n \in Node : ~Closed(n)' => ~Closed(n)
    BY <1>5, <1>6 DEF OnlyStatus, Closed
  <2> QED
    BY <1>1, <1>3, <1>4, <1>6, <2>1, LayeredKept DEF OnlyStatus
<1> QED
  BY <1>7, <1>10, <1>11, <1>12, TheTick DEF TickInv

LEMMA StartOrder ==
  ASSUME OneProcess, FrameInv, OrderInv, NEW k \in Ticker, StartWorker(k)
  PROVE  OrderInv'
<1>1. HandInv(k) /\ AloneInv(k) /\ Layered(k) /\ RankInv /\ BeforeNow(nodes)
  BY DEF OrderInv, TickInv
<1>2. /\ pc[k] = "prepare" /\ pc'[k] = "execute"
      /\ UNCHANGED <<nodes, sel, saw, todo, node>>
  BY DEF StartWorker, Goto, tables, FrameInv, FrameType
<1>3. Hand(k)' = Hand(k)
  BY <1>2 DEF Hand
<1>4. HandInv(k)'
  BY <1>1, <1>2, <1>3 DEF HandInv, Early, Waits, Closed
<1>5. AloneInv(k)'
  BY <1>1, <1>2, <1>3 DEF AloneInv, Closed
<1>6. Layered(k)'
  BY <1>1, <1>2 DEF Layered, Closed
<1> QED
  BY <1>1, <1>2, <1>4, <1>5, <1>6, RowsUnchanged, TheTick DEF TickInv

-----------------------------------------------------------------------------
(* The worker ends, and what follows.                                       *)

LEMMA FinishedRows ==
  ASSUME FrameInv, ListInv, OrderInv, NEW k \in Ticker, pc[k] = "execute",
         NEW st \in NodeStatus, MarkNodeFinished(k, st)
  PROVE  /\ RankInv' /\ BeforeNow(nodes)'
         /\ node[k] \in Node /\ node[k] \in Hand(k) /\ ~Closed(node[k])
         /\ OnlyStatus(node[k], st)
<1>1. HandInv(k) /\ RankInv /\ BeforeNow(nodes) /\ TableType
  BY DEF OrderInv, TickInv, ListInv
<1>2. node[k] \in Node /\ ~Closed(node[k]) /\ node[k] \in Hand(k)
  BY <1>1 DEF HandInv, Hand
<1>3. ~IsPriority(node[k]) => Closed(PriorityNode[TopicOf[node[k]]])
  BY <1>2, InHand
<1>4. OnlyStatus(node[k], st)
  BY <1>1, StatusWritten DEF MarkNodeFinished
<1> QED
  BY <1>1, <1>2, <1>3, <1>4, WriteOrder

LEMMA AnswerOrder ==
  ASSUME OneProcess, FrameInv, ListInv, OrderInv, NEW k \in Ticker,
         NEW a \in Answers \cup PriorityAnswers, WorkerAnswers(k, a)
  PROVE  OrderInv'
<1> DEFINE st == ResolveNodeStatus(node[k], a)
<1>1. HandInv(k) /\ AloneInv(k) /\ Layered(k)
  BY DEF OrderInv, TickInv
<1>2. pc[k] = "execute" /\ MarkNodeFinished(k, st) /\ a # ExecuteError
  BY DEF WorkerAnswers
<1>3. st \in NodeStatus
  BY <1>2, ResolvedStatus
<1>4. /\ pc'[k] = IF ~IsPriority(node[k]) THEN NextNode(k)
                  ELSE IF a.ok THEN "apply" ELSE "clear"
      /\ node'[k] = IF IsPriority(node[k]) THEN node[k] ELSE NoNode
      /\ UNCHANGED <<sel, saw, todo>>
  BY DEF WorkerAnswers, Goto, FrameInv, FrameType
<1> HIDE DEF st
<1>5. /\ RankInv' /\ BeforeNow(nodes)'
      /\ node[k] \in Node /\ node[k] \in Hand(k) /\ ~Closed(node[k])
      /\ OnlyStatus(node[k], st)
  BY <1>2, <1>3, FinishedRows
<1>6. DOMAIN todo[k] \subseteq Node /\ NoNode \notin Node /\ sel[k] \in Topic
  BY <1>1, <1>2, PartialElim, IdAssumption DEF FrameInv, FrameType, HandInv
<1>7. Layered(k)'
  <2>1. \A n \in Node : ~Closed(n)' => ~Closed(n)
    BY <1>5 DEF OnlyStatus, Closed
  <2> QED
    BY <1>1, <1>4, <1>5, <1>6, <2>1, LayeredKept DEF OnlyStatus
<1>8. CASE IsPriority(node[k])
  <2>1. DOMAIN todo[k] = {}
    BY <1>1, <1>5, <1>8 DEF AloneInv, HandInv, Hand
  <2>2. pc'[k] \in {"apply", "clear"} /\ node'[k] = node[k]
    BY <1>4, <1>8
  <2>3. Hand(k)' = {node[k]}
    BY <1>4, <1>5, <2>1, <2>2 DEF Hand
  <2>4. HandInv(k)'
    BY <1>4, <1>5, <1>6, <1>8, <2>1, <2>2 DEF HandInv, Early
  <2>5. AloneInv(k)'
    BY <1>4, <1>8, <2>1, <2>2, <2>3 DEF AloneInv
  <2> QED
    BY <1>5, <1>7, <2>4, <2>5, TheTick DEF TickInv
<1>9. CASE ~IsPriority(node[k])
  <2>1. pc'[k] \in {"served", "dispatch"} /\ node'[k] = NoNode
    BY <1>4, <1>9 DEF NextNode
  <2>2. Hand(k)' = DOMAIN todo[k] /\ DOMAIN todo[k] \subseteq Hand(k)
    BY <1>4, <1>6, <2>1 DEF Hand
  <2>3. HandInv(k)'
    <3>1. \A n \in DOMAIN todo[k] : Waits(n)'
      BY <1>1, <1>5, <1>6 DEF HandInv, OnlyStatus, Waits
    <3> QED
      BY <1>4, <1>6, <2>1, <3>1 DEF HandInv, Early
  <2>4. \A n \in Hand(k) : ~IsPriority(n)
    BY <1>1, <1>5, <1>9 DEF AloneInv
  <2>5. Closed(PriorityNode[sel[k]])'
    <3>1. Closed(PriorityNode[sel[k]]) /\ PriorityNode[sel[k]] \in Node
      BY <1>1, <1>5, <1>6, <1>9, PriorityIds DEF AloneInv
    <3> QED
      BY <1>4, <1>5, <3>1 DEF OnlyStatus, Closed
  <2>6. AloneInv(k)'
    BY <1>1, <1>4, <2>1, <2>2, <2>4, <2>5 DEF AloneInv
  <2> QED
    BY <1>5, <1>7, <2>3, <2>6, TheTick DEF TickInv
<1> QED
  BY <1>8, <1>9

LEMMA FailOrder ==
  ASSUME OneProcess, FrameInv, ListInv, OrderInv, NEW k \in Ticker, WorkerFails(k)
  PROVE  OrderInv'
<1>1. /\ pc[k] = "execute" /\ MarkNodeFinished(k, "failed") /\ Return(k)
      /\ "failed" \in NodeStatus
  BY DEF WorkerFails, NodeStatus, Terminal
<1>2. RankInv' /\ BeforeNow(nodes)'
  BY <1>1, FinishedRows
<1> QED
  BY <1>1, <1>2, ReturnTick, TheTick DEF FrameInv

(* The plan gives ranks from one to business nodes; the priority node ends. *)
LEMMA PlannedRows ==
  ASSUME FrameInv, ListInv, OrderInv, NEW k \in Ticker, ApplyPriorityPlan(k)
  PROVE  /\ BeforeNow(nodes)'
         /\ DOMAIN assign[k] \subseteq Business
         /\ \A n \in DOMAIN assign[k] : assign[k][n] \in Nat \ {0}
         /\ \A n \in Node :
              /\ nodes'[n].status = IF n = PriorityNode[sel[k]] THEN "succeeded"
                                    ELSE nodes[n].status
              /\ nodes'[n].rank = IF n \in DOMAIN assign[k] THEN assign[k][n]
                                  ELSE nodes[n].rank
         /\ \A m, n \in Node :
              nodes'[m].entered > nodes'[n].entered <=>
                /\ n \notin DOMAIN assign[k]
                /\ m \in DOMAIN assign[k] \/ nodes[m].entered > nodes[n].entered
<1> DEFINE N == DOMAIN assign[k]
           ranked == [ n \in Node |-> IF n \in N
                         THEN [nodes[n] EXCEPT !.rank = assign[k][n],
                                               !.label = PlanLabel(assign[k][n])]
                         ELSE nodes[n] ]
           entered == Enter(ranked, N)
           p == PriorityNode[sel[k]]
<1>1. RankInv /\ BeforeNow(nodes) /\ nodes \in [Node -> NodeRow]
  BY DEF OrderInv, ListInv, TableType
<1>2. /\ N \subseteq Node /\ N \subseteq Business
      /\ \A n \in N : assign[k][n] \in Nat \ {0}
  <2>1. assign[k] \in Partial(Business, Nat \ {0})
    BY DEF FrameInv, FrameType
  <2>2. N \in SUBSET Business /\ assign[k] \in [N -> Nat \ {0}]
    BY <2>1, PartialElim
  <2> QED
    BY <2>2 DEF Business
<1>3. ASSUME NEW n \in Node
      PROVE  /\ ranked[n] \in NodeRow
             /\ ranked[n].status = nodes[n].status
             /\ ranked[n].entered = nodes[n].entered
             /\ ranked[n].rank = IF n \in N THEN assign[k][n] ELSE nodes[n].rank
  <2> DEFINE r1 == [nodes[n] EXCEPT !.rank = assign[k][n]]
             r2 == [r1 EXCEPT !.label = PlanLabel(assign[k][n])]
  <2>1. nodes[n] \in NodeRow
    BY <1>1
  <2>2. ranked[n] = IF n \in N THEN r2 ELSE nodes[n]
    OBVIOUS
  <2>3. CASE n \in N
    <3>1. assign[k][n] \in Nat /\ PlanLabel(assign[k][n]) \in Label
      BY <1>2, <2>3 DEF PlanLabel, Label
    <3>2. /\ r1 \in NodeRow /\ r1.rank = assign[k][n]
          /\ r1.status = nodes[n].status /\ r1.entered = nodes[n].entered
      BY <2>1, <3>1 DEF NodeRow
    <3> HIDE DEF r1
    <3>3. /\ r2 \in NodeRow /\ r2.rank = r1.rank
          /\ r2.status = r1.status /\ r2.entered = r1.entered
      BY <3>1, <3>2 DEF NodeRow
    <3> HIDE DEF r2, ranked
    <3> QED
      BY <2>2, <2>3, <3>2, <3>3
  <2>4. CASE n \notin N
    BY <2>1, <2>2, <2>4
  <2> QED
    BY <2>3, <2>4
<1>4. ranked \in [Node -> NodeRow]
  <2>1. ranked = [n \in Node |-> ranked[n]]
    OBVIOUS
  <2> HIDE DEF ranked
  <2> QED
    BY <1>3, <2>1
<1>5. nodes' = [entered EXCEPT ![p].status = "succeeded"]
  BY DEF ApplyPriorityPlan
<1> HIDE DEF ranked
<1>6. BeforeNow(ranked)
  BY <1>1, <1>3 DEF BeforeNow
<1>7. /\ entered \in [Node -> NodeRow]
      /\ BeforeNow(entered)
      /\ \A n \in Node : entered[n].status = ranked[n].status /\ entered[n].rank = ranked[n].rank
      /\ \A m, n \in Node :
           entered[m].entered > entered[n].entered <=>
             n \notin N /\ (m \in N \/ ranked[m].entered > ranked[n].entered)
  BY <1>2, <1>4, <1>6, EnterType, EnterOrder
<1> HIDE DEF entered
<1>8. ASSUME NEW n \in Node
      PROVE  /\ nodes'[n].status = IF n = p THEN "succeeded" ELSE entered[n].status
             /\ nodes'[n].rank = entered[n].rank
             /\ nodes'[n].entered = entered[n].entered
  <2> DEFINE r == [entered[n] EXCEPT !.status = "succeeded"]
  <2>1. r.status = "succeeded" /\ r.rank = entered[n].rank /\ r.entered = entered[n].entered
    BY <1>7 DEF NodeRow
  <2>2. nodes'[n] = IF n = p THEN r ELSE entered[n]
    BY <1>5, <1>7
  <2> HIDE DEF r, p
  <2>3. CASE n = p
    BY <2>1, <2>2, <2>3
  <2>4. CASE n # p
    BY <2>2, <2>4
  <2> QED
    BY <2>3, <2>4
<1>9. BeforeNow(nodes)'
  BY <1>7, <1>8 DEF BeforeNow, Now
<1>10. \A n \in Node :
         /\ nodes'[n].status = IF n = p THEN "succeeded" ELSE nodes[n].status
         /\ nodes'[n].rank = IF n \in N THEN assign[k][n] ELSE nodes[n].rank
  BY <1>3, <1>7, <1>8
<1>11. \A m, n \in Node :
         nodes'[m].entered > nodes'[n].entered <=>
           n \notin N /\ (m \in N \/ nodes[m].entered > nodes[n].entered)
  BY <1>3, <1>7, <1>8
<1> QED
  BY <1>2, <1>9, <1>10, <1>11

LEMMA ApplyRows ==
  ASSUME FrameInv, ListInv, OrderInv, NEW k \in Ticker, ApplyPriorityPlan(k)
  PROVE  RankInv' /\ BeforeNow(nodes)'
<1> DEFINE N == DOMAIN assign[k]
           p == PriorityNode[sel[k]]
<1>1. p \notin Business
  <2>1. sel[k] \in Topic
    BY DEF OrderInv, TickInv, HandInv, ApplyPriorityPlan
  <2> QED
    BY <2>1, PriorityIds
<1>2. RankInv /\ BeforeNow(nodes)' /\ N \subseteq Business
  BY PlannedRows DEF OrderInv
<1>3. \A n \in Node :
        /\ nodes'[n].status = IF n = p THEN "succeeded" ELSE nodes[n].status
        /\ nodes'[n].rank = IF n \in N THEN assign[k][n] ELSE nodes[n].rank
        /\ n \in N => assign[k][n] \in Nat \ {0}
  BY PlannedRows
<1> HIDE DEF N, p
<1>4. \A n \in Node : IsPriority(n) => nodes'[n].rank = 0
  BY <1>2, <1>3 DEF RankInv, Business
<1>5. \A n \in Business : nodes'[n].status # "absent" => nodes'[n].rank >= 1
  BY <1>1, <1>2, <1>3 DEF RankInv, Business
<1>6. ASSUME NEW n \in Node, IsPriority(n), ~Closed(n)', NEW m \in NodesOf(TopicOf[n]) \ {n}
      PROVE  nodes'[m].status # "running"
  <2>1. ~Closed(n)
    BY <1>3, <1>6 DEF Closed, Terminal
  <2>2. m \in Node /\ nodes[m].status # "running"
    BY <1>2, <1>6, <2>1, PriorityIds DEF RankInv
  <2> QED
    BY <1>3, <2>2
<1> QED
  BY <1>2, <1>4, <1>5, <1>6 DEF RankInv

LEMMA PlannedOrder ==
  ASSUME OneProcess, FrameInv, ListInv, OrderInv, NEW k \in Ticker,
         ApplyPriorityPlan(k) \/ ClearPriorityDirty(k)
  PROVE  OrderInv'
<1>1. HandInv(k) /\ AloneInv(k) /\ RankInv /\ BeforeNow(nodes)
  BY DEF OrderInv, TickInv
<1>2. /\ pc[k] \in {"apply", "clear"} /\ pc'[k] = NextNode(k) /\ node'[k] = NoNode
      /\ UNCHANGED <<sel, saw, todo>>
  BY DEF ApplyPriorityPlan, ClearPriorityDirty, Goto, FrameInv, FrameType
<1>3. DOMAIN todo[k] = {} /\ sel[k] \in Topic
  BY <1>1, <1>2 DEF AloneInv, HandInv, Hand
<1>4. pc'[k] = "served" /\ NoNode \notin Node
  BY <1>2, <1>3, IdAssumption DEF NextNode
<1>5. Hand(k)' = {}
  BY <1>2, <1>3, <1>4 DEF Hand
<1>6. HandInv(k)'
  BY <1>2, <1>3, <1>4, <1>5 DEF HandInv
<1>7. AloneInv(k)' /\ Layered(k)'
  BY <1>2, <1>3, <1>4, <1>5 DEF AloneInv, Layered
<1>8. RankInv' /\ BeforeNow(nodes)'
  BY <1>1, ApplyRows, RowsUnchanged DEF ClearPriorityDirty
<1> QED
  BY <1>6, <1>7, <1>8, TheTick DEF TickInv

-----------------------------------------------------------------------------
(* The invariant of the ticks of one process.                               *)

LEMMA OrderStep ==
  ASSUME OneProcess, FrameInv, ListInv, OrderInv, [Next]_vars
  PROVE  OrderInv'
<1>1. ASSUME UNCHANGED vars PROVE OrderInv'
  <2>1. RankInv' /\ BeforeNow(nodes)'
    BY <1>1, RowsUnchanged DEF vars, OrderInv
  <2>2. ASSUME NEW k \in Ticker PROVE TickInv(k)'
    BY <1>1 DEF vars, OrderInv, TickInv, HandInv, AloneInv, Layered, Hand, Waits, Closed, Quiet
  <2> QED
    BY <2>1, <2>2 DEF OrderInv
<1>2. ASSUME NEW x \in Node, Enqueue(x) \/ RefuseEnqueue(x) PROVE OrderInv'
  BY <1>1, <1>2, EnqueueOrder DEF RefuseEnqueue
<1>3. ASSUME NEW k \in Ticker,
             \/ NoRunnableTopic(k) \/ (\E t \in Topic : PriorityWaits(k, t))
             \/ EnsurePriorityNodeFails(k) \/ NothingToDispatch(k) \/ PrepareFails(k)
             \/ EndTick(k) \/ Crash(k)
      PROVE  OrderInv'
  <2>1. Return(k) /\ UNCHANGED nodes
    BY <1>3 DEF NoRunnableTopic, PriorityWaits, EnsurePriorityNodeFails,
                NothingToDispatch, PrepareFails, EndTick, Crash, tables
  <2> QED
    BY <2>1, ReturnOrder
<1>4. ASSUME NEW k \in Ticker, WorkerEnds(k) PROVE OrderInv'
  BY <1>4, FailOrder, AnswerOrder DEF WorkerEnds
<1>5. ASSUME NEW k \in Ticker, TickStep(k) PROVE OrderInv'
  BY <1>3, <1>5, PromoteOrder, SelectOrder, PriorityNodeOrder, PlanOrder, RunningOrder,
     StartOrder, PlannedOrder DEF TickStep
<1> QED
  BY <1>1, <1>2, <1>3, <1>4, <1>5 DEF Next

LEMMA InitOrder == Init => OrderInv
<1> SUFFICES ASSUME Init PROVE OrderInv
  OBVIOUS
<1>1. \A n \in Node : nodes[n] = NoRow
  BY DEF Init
<1>2. RankInv
  BY <1>1 DEF RankInv, NoRow, Business, Closed
<1>3. BeforeNow(nodes)
  <2>1. Cardinality(Node) \in Nat /\ Cardinality(Topic) \in Nat
    BY FiniteAssumption, FS_CardinalityType
  <2> QED
    BY <1>1, <2>1 DEF BeforeNow, NoRow, Now
<1>4. ASSUME NEW k \in Ticker PROVE TickInv(k)
  <2>1. pc[k] = "idle" /\ todo[k] = <<>> /\ node[k] = NoNode /\ DOMAIN <<>> = {}
    BY DEF Init
  <2>2. NoNode \notin Node
    BY IdAssumption
  <2>3. Hand(k) = {}
    BY <2>1, <2>2 DEF Hand
  <2> QED
    BY <2>1, <2>2, <2>3 DEF TickInv, HandInv, AloneInv, Layered
<1> QED
  BY <1>2, <1>3, <1>4 DEF OrderInv

LEMMA OrderHolds == ASSUME OneProcess PROVE Spec => [](FrameInv /\ ListInv /\ OrderInv)
<1>1. Init => FrameInv /\ ListInv /\ OrderInv
  BY InitBoth, InitOrder
<1>2. FrameInv /\ ListInv /\ OrderInv /\ [Next]_vars => (FrameInv /\ ListInv /\ OrderInv)'
  BY BothStep, OrderStep
<1> QED
  BY <1>1, <1>2, PTL DEF Spec

(* While one process ticks, no layer is passed over, however nodes enter    *)
(* and workers end between the planning and the last dispatch.              *)
THEOREM LayersKept == ASSUME OneProcess PROVE Spec => []LayerOrder
<1>1. FrameInv /\ ListInv /\ OrderInv => LayerOrder
  <2> SUFFICES ASSUME OrderInv, NEW k \in Ticker, NEW n \in DOMAIN todo[k],
                      NEW m \in Rows(sel[k]),
                      nodes[m].status \notin Terminal, nodes[m].rank < nodes[n].rank
               PROVE  nodes[m].entered > nodes[n].entered
    BY DEF LayerOrder
  <2>1. m \in NodesOf(sel[k]) /\ ~Closed(m)
    BY DEF Rows, Closed
  <2> QED
    BY <2>1 DEF OrderInv, TickInv, Layered
<1> QED
  BY <1>1, OrderHolds, PTL

(* Of a step that starts a node.                                            *)
LEMMA DispatchStep ==
  ASSUME OneProcess, FrameInv, OrderInv, [Next]_vars, NEW k \in Ticker,
         pc[k] = "dispatch", pc'[k] = "prepare"
  PROVE  node'[k] \in DOMAIN todo[k]
<1>1. PICK j \in Ticker : TickStep(j) \/ WorkerEnds(j) \/ Crash(j)
  BY DEF Next, vars, Enqueue, RefuseEnqueue, frames
<1>2. j = k
  BY DEF OneProcess
<1>3. pc \in [Ticker -> PcLabel] /\ node \in [Ticker -> Node \cup {NoNode}]
  BY DEF FrameInv, FrameType
<1>4. MarkNodeRunning(k) \/ Return(k)
  BY <1>1, <1>2
     DEF TickStep, WorkerEnds, Crash, PromoteAgedTopics, NoRunnableTopic, PriorityWaits,
         SelectTopic, Selects, EnsurePriorityNode, EnsurePriorityNodeFails,
         MarkPriorityNodeReady, PlanTopic, NothingToDispatch, StartWorker, PrepareFails,
         ApplyPriorityPlan, ClearPriorityDirty, EndTick, WorkerFails, WorkerAnswers
<1>5. ~Return(k)
  BY <1>3 DEF Return, Goto
<1> QED
  BY <1>3, <1>4, <1>5 DEF MarkNodeRunning

(* While one process ticks, a worker is started only for a node that waits, *)
(* however old the plan is by then and whatever enqueues, failures and      *)
(* crashes lie in between.                                                  *)
THEOREM OnlyWaitingStarted == ASSUME OneProcess PROVE Spec => StartsOnlyWaiting
<1> DEFINE Step ==
      \A k \in Ticker : pc[k] = "dispatch" /\ pc'[k] = "prepare" =>
        nodes[node'[k]].status \in {"pending", "ready"}
<1>1. FrameInv /\ ListInv /\ OrderInv /\ [Next]_vars => Step
  BY DispatchStep DEF OrderInv, TickInv, HandInv, Waits
<1> QED
  BY <1>1, OrderHolds, PTL DEF Spec, StartsOnlyWaiting

(* While one process ticks, a tick that finds its topic dirty runs the      *)
(* priority node or nothing, and no node of the topic is running then.      *)
THEOREM PriorityRunsFirst == ASSUME OneProcess PROVE Spec => PriorityFirst
<1> DEFINE Step ==
      \A k \in Ticker : pc[k] = "dispatch" /\ pc'[k] = "prepare" =>
        /\ saw[k] => IsPriority(node'[k])
        /\ IsPriority(node'[k]) =>
             \A m \in NodesOf(sel[k]) \ {node'[k]} : nodes[m].status # "running"
<1>1. FrameInv /\ ListInv /\ OrderInv /\ [Next]_vars => Step
  <2> SUFFICES ASSUME FrameInv, ListInv, OrderInv, [Next]_vars, NEW k \in Ticker,
                      pc[k] = "dispatch", pc'[k] = "prepare"
               PROVE  /\ saw[k] => IsPriority(node'[k])
                      /\ IsPriority(node'[k]) =>
                           \A m \in NodesOf(sel[k]) \ {node'[k]} :
                             nodes[m].status # "running"
    OBVIOUS
  <2>1. node'[k] \in DOMAIN todo[k]
    BY DispatchStep
  <2>2. PICK n \in DOMAIN todo[k] : n = node'[k]
    BY <2>1
  <2>3. HandInv(k) /\ AloneInv(k) /\ RankInv
    BY DEF OrderInv, TickInv
  <2>4. n \in Node /\ TopicOf[n] = sel[k] /\ ~Closed(n)
    <3>1. n \in Hand(k)
      BY DEF Hand
    <3> QED
      BY <2>3, <3>1, InHand DEF HandInv, Waits, Closed, Terminal
  <2>5. saw[k] => IsPriority(n)
    BY <2>3 DEF AloneInv
  <2>6. IsPriority(n) => \A m \in NodesOf(sel[k]) \ {n} : nodes[m].status # "running"
    BY <2>3, <2>4 DEF RankInv
  <2> QED
    BY <2>2, <2>5, <2>6
<1> QED
  BY <1>1, OrderHolds, PTL DEF Spec, PriorityFirst

-----------------------------------------------------------------------------
(* The dirty mark of a topic: set by an enqueue, cleared when its priority  *)
(* work ends, and left alone by every other step.                           *)

LEMMA EnqueueDirty ==
  ASSUME ListInv, NEW x \in Node, Enqueue(x)
  PROVE  \A t \in Topic : /\ t = TopicOf[x] => topics'[t].dirty = TRUE
                          /\ t # TopicOf[x] => topics'[t].dirty = topics[t].dirty
<1> DEFINE there == SetExists(topics, TopicOf[x])
<1>1. /\ there \in [Topic -> TopicRow]
      /\ \A t \in Topic : there[t].dirty = topics[t].dirty
  BY WriteExists DEF ListInv, TableType
<1>2. topics' = [there EXCEPT ![TopicOf[x]].dirty = TRUE]
  BY DEF Enqueue, SetExists
<1> HIDE DEF there
<1> QED
  BY <1>1, <1>2 DEF TopicRow

LEMMA ClearedDirty ==
  ASSUME ListInv, NEW k \in Ticker, ApplyPriorityPlan(k) \/ ClearPriorityDirty(k)
  PROVE  \A t \in Topic : /\ t = sel[k] => topics'[t].dirty = FALSE
                          /\ t # sel[k] => topics'[t].dirty = topics[t].dirty
<1>1. topics' = [topics EXCEPT ![sel[k]].dirty = FALSE]
  BY DEF ApplyPriorityPlan, ClearPriorityDirty
<1> QED
  BY <1>1 DEF ListInv, TableType, TopicRow

LEMMA RunningDirty ==
  ASSUME FrameInv, ListInv, NEW k \in Ticker, MarkNodeRunning(k)
  PROVE  \A t \in Topic : topics'[t].dirty = topics[t].dirty
<1>1. PICK x \in DOMAIN todo[k] :
        topics' = [topics EXCEPT ![sel[k]].running = RunningIn(nodes', sel[k]),
                                 ![sel[k]].current = x]
  BY DEF MarkNodeRunning
<1> DEFINE listed == SetRunning(topics, sel[k], RunningIn(nodes', sel[k]))
<1>2. x \in Node /\ RunningIn(nodes', sel[k]) \in SUBSET Node
  BY PartialElim DEF FrameInv, FrameType, RunningIn, NodesOf
<1>3. /\ listed \in [Topic -> TopicRow]
      /\ \A t \in Topic : listed[t].dirty = topics[t].dirty
  BY <1>2, WriteRunning DEF ListInv, TableType
<1>4. topics' = SetCurrent(listed, sel[k], x)
  BY <1>1 DEF SetCurrent, SetRunning
<1> HIDE DEF listed
<1> QED
  BY <1>2, <1>3, <1>4, WriteCurrent

LEMMA FinishedDirty ==
  ASSUME FrameInv, ListInv, NEW k \in Ticker, NEW status, MarkNodeFinished(k, status)
  PROVE  \A t \in Topic : topics'[t].dirty = topics[t].dirty
<1> DEFINE x == node[k]
           listed == SetRunning(topics, sel[k], RunningIn(nodes', sel[k]))
           worked == SetLastWorked(listed, sel[k], x)
<1>1. x \in Node \cup {NoNode} /\ RunningIn(nodes', sel[k]) \in SUBSET Node
  BY DEF FrameInv, FrameType, RunningIn, NodesOf
<1>2. /\ listed \in [Topic -> TopicRow]
      /\ \A t \in Topic : listed[t].dirty = topics[t].dirty
  BY <1>1, WriteRunning DEF ListInv, TableType
<1>3. topics' = SetCurrent(worked, sel[k], x)
  BY DEF MarkNodeFinished, SetCurrent, SetLastWorked, SetRunning
<1> HIDE DEF listed
<1>4. /\ worked \in [Topic -> TopicRow]
      /\ \A t \in Topic : worked[t].dirty = listed[t].dirty
  BY <1>1, <1>2, WriteLastWorked
<1> HIDE DEF worked
<1>5. \A t \in Topic : topics'[t].dirty = worked[t].dirty
  BY <1>1, <1>3, <1>4, WriteCurrent
<1> QED
  BY <1>2, <1>4, <1>5

LEMMA OtherDirty ==
  ASSUME ListInv, NEW k \in Ticker, PromoteAgedTopics(k) \/ EnsurePriorityNode(k) \/ EndTick(k)
  PROVE  \A t \in Topic : topics'[t].dirty = topics[t].dirty
<1> SUFFICES ASSUME NEW t \in Topic PROVE topics'[t].dirty = topics[t].dirty
  OBVIOUS
<1>1. topics \in [Topic -> TopicRow] /\ topics[t] \in TopicRow
  BY DEF ListInv, TableType
<1>2. CASE PromoteAgedTopics(k)
  BY <1>1, <1>2 DEF PromoteAgedTopics, TopicRow
<1>3. CASE EnsurePriorityNode(k)
  BY <1>1, <1>3 DEF EnsurePriorityNode, TopicRow
<1>4. CASE EndTick(k)
  <2> DEFINE at == Renumber([u \in Topic |-> IF u = sel[k] THEN Now ELSE topics[u].served])
             lower == t = sel[k] /\ Runnable(sel[k])
  <2>1. topics'[t] = [ topics[t] EXCEPT !.served = at[t],
                         !.level = IF lower /\ @ < 3 THEN @ + 1 ELSE @ ]
    BY <1>1, <1>4 DEF EndTick
  <2> HIDE DEF at, lower
  <2> QED
    BY <1>1, <2>1 DEF TopicRow
<1> QED
  BY <1>2, <1>3, <1>4

-----------------------------------------------------------------------------
(* What priority work makes of the candidates: each has a rank of its own.  *)

LEMMA PlannedBeforeLinear ==
  ASSUME TableType
  PROVE  /\ \A m, n \in Node : m # n => PlannedBefore(m, n) \/ PlannedBefore(n, m)
         /\ \A m, n \in Node : ~(PlannedBefore(m, n) /\ PlannedBefore(n, m))
         /\ \A l, m, n \in Node :
              PlannedBefore(l, m) /\ PlannedBefore(m, n) => PlannedBefore(l, n)
<1> DEFINE rank(n) == nodes[n].rank
           entered(n) == nodes[n].entered
<1>1. \A n \in Node : n \in Nat /\ Bucket(n) \in Nat /\ rank(n) \in Nat /\ entered(n) \in Nat
  BY IdAssumption DEF TableType, NodeRow, Bucket
<1>2. \A m, n : PlannedBefore(m, n) <=>
        \/ Bucket(m) < Bucket(n)
        \/ /\ Bucket(m) = Bucket(n)
           /\ \/ rank(m) < rank(n)
              \/ /\ rank(m) = rank(n)
                 /\ \/ entered(m) < entered(n)
                    \/ entered(m) = entered(n) /\ m < n
  BY DEF PlannedBefore, Before
<1> HIDE DEF rank, entered
<1> QED
  BY <1>1, <1>2

LEMMA PlanRanksApart ==
  ASSUME TableType, NEW t
  PROVE  PriorityPlan(t) \in Injection(Candidates(t), 1..Cardinality(Candidates(t)))
<1> DEFINE C == Candidates(t)
           Better(n) == {m \in C : m # n /\ PlannedBefore(m, n)}
<1>1. C \subseteq Node /\ IsFiniteSet(C)
  <2>1. C \subseteq Node
    BY DEF Candidates, Rows, NodesOf
  <2> QED
    BY <2>1, FiniteAssumption, FS_Subset
<1>2. /\ DOMAIN PriorityPlan(t) = C
      /\ \A n \in C : PriorityPlan(t)[n] = 1 + Cardinality(Better(n))
      /\ PriorityPlan(t) = [n \in C |-> PriorityPlan(t)[n]]
  BY DEF PriorityPlan
<1>3. ASSUME NEW n \in C
      PROVE  /\ Better(n) \in SUBSET C /\ IsFiniteSet(Better(n)) /\ n \notin Better(n)
             /\ Cardinality(Better(n)) \in Nat /\ Cardinality(C) \in Nat
             /\ Cardinality(Better(n)) < Cardinality(C)
  <2>1. Better(n) \in SUBSET C /\ n \notin Better(n)
    OBVIOUS
  <2> HIDE DEF Better
  <2> QED
    BY <1>1, <2>1, SmallerSet, FS_Subset
<1>4. ASSUME NEW m \in C, NEW n \in C, m # n, PlannedBefore(m, n)
      PROVE  Cardinality(Better(m)) < Cardinality(Better(n))
  <2>1. Better(m) \in SUBSET Better(n)
    <3> SUFFICES ASSUME NEW l \in C, l # m, PlannedBefore(l, m)
                 PROVE  l # n /\ PlannedBefore(l, n)
      OBVIOUS
    <3> QED
      BY <1>1, <1>4, PlannedBeforeLinear
  <2>2. m \in Better(n)
    BY <1>4
  <2>3. IsFiniteSet(Better(n)) /\ m \notin Better(m)
    BY <1>3
  <2> HIDE DEF Better
  <2> QED
    BY <2>1, <2>2, <2>3, SmallerSet
<1> HIDE DEF Better
<1>5. \A n \in C : PriorityPlan(t)[n] \in 1..Cardinality(C)
  BY <1>2, <1>3
<1>6. ASSUME NEW m \in C, NEW n \in C, m # n
      PROVE  PriorityPlan(t)[m] # PriorityPlan(t)[n]
  <2>1. PlannedBefore(m, n) \/ PlannedBefore(n, m)
    BY <1>1, <1>6, PlannedBeforeLinear
  <2>2. /\ Cardinality(Better(m)) \in Nat /\ Cardinality(Better(n)) \in Nat
        /\ Cardinality(Better(m)) # Cardinality(Better(n))
    BY <1>3, <1>4, <1>6, <2>1
  <2> QED
    BY <1>2, <2>2
<1> HIDE DEF C
<1>7. PriorityPlan(t) \in [C -> 1..Cardinality(C)]
  BY <1>2, <1>5
<1> QED
  BY <1>2, <1>6, <1>7 DEF Injection, IsInjective, C

-----------------------------------------------------------------------------
(* What priority work relies on: its topic is dirty when it is called, it   *)
(* has the topic to itself until its ranks are set, and these are distinct. *)

RanksApart(k) ==
  /\ DOMAIN assign[k] \subseteq NodesOf(sel[k]) \ {PriorityNode[sel[k]]}
  /\ assign[k] \in Injection(DOMAIN assign[k], 1..Cardinality(DOMAIN assign[k]))

DutyInv(k) ==
  /\ pc[k] \in {"priority", "priority_ready"} => topics[sel[k]].dirty
  /\ pc[k] \in {"apply", "clear"} =>
       \A m \in NodesOf(sel[k]) \ {node[k]} : nodes[m].status # "running"
  /\ pc[k] \in {"execute", "apply"} /\ IsPriority(node[k]) => RanksApart(k)

(* Where none of that is asked.                                             *)
LEMMA OffDuty ==
  ASSUME NEW k, pc'[k] \notin {"priority", "priority_ready", "execute", "apply", "clear"}
  PROVE  DutyInv(k)'
  BY DEF DutyInv

LEMMA ReturnDuty ==
  ASSUME FrameType, NEW k \in Ticker, Return(k)
  PROVE  DutyInv(k)'
<1>1. pc'[k] = "idle"
  BY DEF FrameType, Return, Goto
<1> QED
  BY <1>1, OffDuty

(* Nobody starts a node while priority work goes on, an enqueue makes the   *)
(* topic dirty again.                                                       *)
LEMMA EnqueueDuty ==
  ASSUME FrameInv, ListInv, OrderInv, NEW k \in Ticker, DutyInv(k), NEW x \in Node, Enqueue(x)
  PROVE  DutyInv(k)'
<1>1. UNCHANGED <<pc, sel, saw, todo, node, assign>>
  BY DEF Enqueue, frames
<1>2. pc[k] \notin {"idle", "select"} => sel[k] \in Topic
  BY DEF OrderInv, TickInv, HandInv
<1>3. pc[k] \in {"priority", "priority_ready"} => topics'[sel[k]].dirty
  BY <1>2, EnqueueDirty DEF DutyInv
<1>4. \A n \in Node : nodes'[n].status = IF n = x THEN "ready" ELSE nodes[n].status
  BY EnqueueRows DEF OrderInv, ListInv
<1>5. pc[k] \in {"apply", "clear"} =>
        \A m \in NodesOf(sel[k]) \ {node[k]} : nodes'[m].status # "running"
  BY <1>4, PriorityIds DEF DutyInv
<1>6. RanksApart(k) => RanksApart(k)'
  BY <1>1 DEF RanksApart
<1> QED
  BY <1>1, <1>3, <1>5, <1>6 DEF DutyInv

LEMMA CalledDuty ==
  ASSUME FrameInv, ListInv, OrderInv, NEW k \in Ticker, DutyInv(k),
         (\E t \in Topic : SelectTopic(k, t)) \/ EnsurePriorityNode(k)
  PROVE  DutyInv(k)'
<1>1. CASE \E t \in Topic : SelectTopic(k, t)
  <2>1. PICK t \in Topic : SelectTopic(k, t)
    BY <1>1
  <2>2. /\ pc'[k] = IF topics[t].dirty THEN "priority" ELSE "plan"
        /\ sel'[k] = t /\ UNCHANGED topics
    BY <2>1 DEF SelectTopic, Goto, tables, FrameInv, FrameType
  <2> QED
    BY <2>2 DEF DutyInv
<1>2. CASE EnsurePriorityNode(k)
  <2>1. pc[k] = "priority" /\ pc'[k] = "priority_ready" /\ UNCHANGED sel
    BY <1>2 DEF EnsurePriorityNode, Goto, FrameInv, FrameType
  <2>2. sel[k] \in Topic
    BY <2>1 DEF OrderInv, TickInv, HandInv
  <2>3. topics'[sel[k]].dirty
    BY <1>2, <2>1, <2>2, OtherDirty DEF DutyInv
  <2> QED
    BY <2>1, <2>3 DEF DutyInv
<1> QED
  BY <1>1, <1>2

LEMMA StartDuty ==
  ASSUME FrameInv, ListInv, OrderInv, NEW k \in Ticker, StartWorker(k)
  PROVE  DutyInv(k)'
<1>1. /\ pc[k] = "prepare" /\ pc'[k] = "execute" /\ UNCHANGED <<nodes, sel, node>>
      /\ IsPriority(node[k]) => assign'[k] = PriorityPlan(sel[k])
  BY DEF StartWorker, Goto, tables, FrameInv, FrameType
<1>2. IsPriority(node[k]) => RanksApart(k)'
  <2> SUFFICES ASSUME IsPriority(node[k]) PROVE RanksApart(k)'
    OBVIOUS
  <2>1. sel[k] \in Topic
    BY <1>1 DEF OrderInv, TickInv, HandInv
  <2>2. assign'[k] \in Injection(Candidates(sel[k]), 1..Cardinality(Candidates(sel[k])))
    BY <1>1, PlanRanksApart DEF ListInv
  <2>3. DOMAIN assign'[k] = Candidates(sel[k])
    BY <2>2 DEF Injection
  <2>4. Candidates(sel[k]) \subseteq NodesOf(sel[k]) \ {PriorityNode[sel[k]]}
    BY <2>1, PriorityIds DEF Candidates, Rows
  <2> QED
    BY <1>1, <2>2, <2>3, <2>4 DEF RanksApart
<1> QED
  BY <1>1, <1>2 DEF DutyInv

LEMMA AnswerDuty ==
  ASSUME FrameInv, ListInv, OrderInv, NEW k \in Ticker, DutyInv(k),
         NEW a \in Answers \cup PriorityAnswers, WorkerAnswers(k, a)
  PROVE  DutyInv(k)'
<1> DEFINE st == ResolveNodeStatus(node[k], a)
<1>1. pc[k] = "execute" /\ MarkNodeFinished(k, st) /\ a # ExecuteError
  BY DEF WorkerAnswers
<1>2. st \in NodeStatus
  BY <1>1, ResolvedStatus
<1>3. /\ pc'[k] = IF ~IsPriority(node[k]) THEN NextNode(k)
                  ELSE IF a.ok THEN "apply" ELSE "clear"
      /\ node'[k] = IF IsPriority(node[k]) THEN node[k] ELSE NoNode
      /\ UNCHANGED <<sel, assign>>
  BY DEF WorkerAnswers, Goto, FrameInv, FrameType
<1> HIDE DEF st
<1>4. CASE ~IsPriority(node[k])
  BY <1>3, <1>4, OffDuty DEF NextNode
<1>5. CASE IsPriority(node[k])
  <2>1. /\ node[k] \in Node /\ node[k] \in Hand(k) /\ ~Closed(node[k])
        /\ OnlyStatus(node[k], st) /\ RankInv
    BY <1>1, <1>2, FinishedRows DEF OrderInv
  <2>2. TopicOf[node[k]] = sel[k]
    BY <2>1, InHand
  <2>3. \A m \in NodesOf(sel[k]) \ {node[k]} : nodes[m].status # "running"
    BY <1>5, <2>1, <2>2 DEF RankInv
  <2>4. \A m \in NodesOf(sel[k]) \ {node[k]} : nodes'[m].status # "running"
    BY <2>1, <2>3, PriorityIds DEF OnlyStatus
  <2>5. RanksApart(k)'
    BY <1>1, <1>3, <1>5 DEF DutyInv, RanksApart
  <2> QED
    BY <1>3, <1>5, <2>4, <2>5 DEF DutyInv
<1> QED
  BY <1>4, <1>5

LEMMA DutyStep ==
  ASSUME OneProcess, FrameInv, ListInv, OrderInv, \A k \in Ticker : DutyInv(k), [Next]_vars
  PROVE  \A k \in Ticker : DutyInv(k)'
<1> SUFFICES ASSUME NEW k \in Ticker PROVE DutyInv(k)'
  OBVIOUS
<1>1. DutyInv(k) /\ FrameType
  BY DEF FrameInv
<1>2. CASE UNCHANGED vars
  <2>1. UNCHANGED <<pc, sel, node, assign, topics, nodes>>
    BY <1>2 DEF vars
  <2> QED
    BY <1>1, <2>1 DEF DutyInv, RanksApart
<1>3. ASSUME NEW x \in Node, Enqueue(x) \/ RefuseEnqueue(x) PROVE DutyInv(k)'
  BY <1>1, <1>2, <1>3, EnqueueDuty DEF RefuseEnqueue
<1>4. CASE \/ NoRunnableTopic(k) \/ (\E t \in Topic : PriorityWaits(k, t))
           \/ EnsurePriorityNodeFails(k) \/ NothingToDispatch(k) \/ PrepareFails(k)
           \/ EndTick(k) \/ Crash(k) \/ WorkerFails(k)
  <2>1. Return(k)
    BY <1>4 DEF NoRunnableTopic, PriorityWaits, EnsurePriorityNodeFails, NothingToDispatch,
                PrepareFails, EndTick, Crash, WorkerFails
  <2> QED
    BY <1>1, <2>1, ReturnDuty
<1>5. CASE \/ PromoteAgedTopics(k) \/ MarkPriorityNodeReady(k) \/ PlanTopic(k)
           \/ MarkNodeRunning(k) \/ ApplyPriorityPlan(k) \/ ClearPriorityDirty(k)
  <2>1. pc'[k] \in {"select", "plan", "dispatch", "prepare", "served"}
    BY <1>1, <1>5 DEF PromoteAgedTopics, MarkPriorityNodeReady, PlanTopic, MarkNodeRunning,
                      ApplyPriorityPlan, ClearPriorityDirty, Goto, NextNode, FrameType
  <2> QED
    BY <2>1, OffDuty
<1>6. ASSUME NEW j \in Ticker, TickStep(j) \/ WorkerEnds(j) \/ Crash(j)
      PROVE  DutyInv(k)'
  <2>1. j = k
    BY DEF OneProcess
  <2>2. CASE TickStep(k)
    BY <1>1, <1>4, <1>5, <2>2, CalledDuty, StartDuty DEF TickStep
  <2>3. CASE WorkerEnds(k)
    BY <1>1, <1>4, <2>3, AnswerDuty DEF WorkerEnds
  <2> QED
    BY <1>4, <1>6, <2>1, <2>2, <2>3
<1> QED
  BY <1>2, <1>3, <1>6 DEF Next

QueueInv == FrameInv /\ ListInv /\ OrderInv /\ \A k \in Ticker : DutyInv(k)

LEMMA QueueHolds == ASSUME OneProcess PROVE Spec => []QueueInv
<1>1. Init => QueueInv
  <2>1. Init => \A k \in Ticker : DutyInv(k)
    BY DEF Init, DutyInv
  <2> QED
    BY <2>1, InitBoth, InitOrder DEF QueueInv
<1>2. QueueInv /\ [Next]_vars => QueueInv'
  BY BothStep, OrderStep, DutyStep DEF QueueInv
<1> QED
  BY <1>1, <1>2, PTL DEF Spec

-----------------------------------------------------------------------------
(* The scheduler implements WorkQueue: what the tables show, and how each   *)
(* step changes it.                                                         *)

Standings == [n \in Node |-> StandingOf(nodes[n].status)]
Ranks == [n \in Node |-> nodes[n].rank]
Newer == {p \in Node \X Node : nodes[p[1]].entered > nodes[p[2]].entered}
Dirty == [t \in Topic |-> topics[t].dirty]
Busy == {node[k] : k \in Ticker} \ {NoNode}
Shown == <<Standings, Ranks, Newer, Dirty, Busy>>

LEMMA StandingsOf ==
  /\ StandingOf("absent") = "absent" /\ StandingOf("running") = "running"
  /\ StandingOf("ready") = "waiting" /\ StandingOf("pending") = "waiting"
  /\ StandingOf("succeeded") = "ended"
  /\ \A s \in NodeStatus : StandingOf(s) \in Queue!Standing \ {"absent"}
  /\ \A s \in NodeStatus \cup {"absent"} :
       /\ StandingOf(s) = "running" => s = "running"
       /\ StandingOf(s) \notin {"absent", "ended"} => s \notin Terminal \cup {"absent"}
  BY DEF StandingOf, NodeStatus, Terminal, Blocking, Queue!Standing

LEMMA StandingWritten ==
  ASSUME NEW x \in Node, NEW st,
         \A n \in Node : nodes'[n].status = IF n = x THEN st ELSE nodes[n].status
  PROVE  Standings' = [Standings EXCEPT ![x] = StandingOf(st)]
  BY DEF Standings

LEMMA EntriesKept ==
  ASSUME \A n \in Node : nodes'[n].rank = nodes[n].rank /\ nodes'[n].entered = nodes[n].entered
  PROVE  UNCHANGED <<Ranks, Newer>>
<1>1. Ranks' = Ranks
  BY DEF Ranks
<1>2. ASSUME NEW p \in Node \X Node
      PROVE  nodes'[p[1]].entered > nodes'[p[2]].entered <=>
               nodes[p[1]].entered > nodes[p[2]].entered
  BY <1>2
<1>3. Newer' = Newer
  BY <1>2 DEF Newer
<1> QED
  BY <1>1, <1>3

LEMMA EntriesPlaced ==
  ASSUME NEW N \in SUBSET Node,
         \A m, n \in Node :
           nodes'[m].entered > nodes'[n].entered <=>
             n \notin N /\ (m \in N \/ nodes[m].entered > nodes[n].entered)
  PROVE  Newer' = {p \in Newer : p[1] \notin N /\ p[2] \notin N} \cup (N \X (Node \ N))
<1>1. ASSUME NEW m \in Node, NEW n \in Node
      PROVE  <<m, n>> \in Newer' <=>
               <<m, n>> \in {p \in Newer : p[1] \notin N /\ p[2] \notin N} \cup (N \X (Node \ N))
  BY DEF Newer
<1>2. \A p \in Newer' : p \in Node \X Node
  BY DEF Newer
<1>3. \A p \in {q \in Newer : q[1] \notin N /\ q[2] \notin N} \cup (N \X (Node \ N)) :
        p \in Node \X Node
  BY DEF Newer
<1> DEFINE L == Newer'
           R == {p \in Newer : p[1] \notin N /\ p[2] \notin N} \cup (N \X (Node \ N))
<1> HIDE DEF L, R
<1>4. \A p \in Node \X Node : p \in L <=> p \in R
  BY <1>1 DEF L, R
<1>5. L = R
  BY <1>2, <1>3, <1>4 DEF L, R
<1> QED
  BY <1>5 DEF L, R

LEMMA BusyNode ==
  ASSUME OneProcess, NEW k \in Ticker
  PROVE  Busy = {node[k]} \ {NoNode} /\ Busy' = {node'[k]} \ {NoNode}
  BY DEF OneProcess, Busy

LEMMA DirtyKept ==
  ASSUME \A t \in Topic : topics'[t].dirty = topics[t].dirty
  PROVE  Dirty' = Dirty
  BY DEF Dirty

LEMMA DirtyWritten ==
  ASSUME NEW t \in Topic, NEW b,
         topics'[t].dirty = b,
         \A u \in Topic : u # t => topics'[u].dirty = topics[u].dirty
  PROVE  Dirty' = [Dirty EXCEPT ![t] = b]
  BY DEF Dirty

LEMMA QueueOthers ==
  ASSUME NEW n \in Node
  PROVE  /\ Queue!IsPriority(n) <=> IsPriority(n)
         /\ Queue!Others(n) = NodesOf(TopicOf[n]) \ {n}
  BY DEF Queue!IsPriority, IsPriority, Queue!Others, NodesOf

LEMMA SameShown ==
  ASSUME UNCHANGED nodes, \A t \in Topic : topics'[t].dirty = topics[t].dirty
  PROVE  UNCHANGED <<Standings, Ranks, Newer, Dirty>>
<1>1. UNCHANGED <<Ranks, Newer>>
  BY EntriesKept
<1>2. Standings' = Standings
  BY DEF Standings
<1> QED
  BY <1>1, <1>2, DirtyKept

(* One step of the queue, or none.                                          *)
QueueStep == Queue!Next \/ UNCHANGED Shown

LEMMA PostShown ==
  ASSUME QueueInv, NEW x \in Node, Enqueue(x)
  PROVE  QueueStep
<1>1. /\ \A n \in Node :
           /\ nodes'[n].status = IF n = x THEN "ready" ELSE nodes[n].status
           /\ nodes'[n].rank = IF n = x THEN 1 ELSE nodes[n].rank
      /\ \A m, n \in Node :
           nodes'[m].entered > nodes'[n].entered <=>
             n # x /\ (m = x \/ nodes[m].entered > nodes[n].entered)
  BY EnqueueRows DEF QueueInv, ListInv, OrderInv
<1>2. Standings' = [Standings EXCEPT ![x] = "waiting"]
  BY <1>1, StandingWritten, StandingsOf
<1>3. Ranks' = [Ranks EXCEPT ![x] = 1]
  BY <1>1 DEF Ranks
<1>4. Newer' = {p \in Newer : p[1] \notin {x} /\ p[2] \notin {x}} \cup ({x} \X (Node \ {x}))
  <2> DEFINE N == {x}
  <2>1. /\ N \in SUBSET Node
        /\ \A m, n \in Node :
             nodes'[m].entered > nodes'[n].entered <=>
               n \notin N /\ (m \in N \/ nodes[m].entered > nodes[n].entered)
    BY <1>1
  <2> HIDE DEF N
  <2>2. Newer' = {p \in Newer : p[1] \notin N /\ p[2] \notin N} \cup (N \X (Node \ N))
    BY <2>1, EntriesPlaced
  <2> QED
    BY <2>2 DEF N
<1>5. Dirty' = [Dirty EXCEPT ![TopicOf[x]] = TRUE]
  BY EnqueueDirty, DirtyWritten, PriorityIds DEF QueueInv
<1>6. Busy' = Busy /\ ~Queue!IsPriority(x)
  BY PriorityIds, QueueOthers DEF Enqueue, frames, Busy
<1>7. Queue!Post(x)
  BY <1>2, <1>3, <1>4, <1>5, <1>6
     DEF Queue!Post, Queue!Placed, Standings, Ranks, Newer, Dirty, Busy
<1> QED
  BY <1>7 DEF QueueStep, Queue!Next

(* Steps that leave rows and dirty marks alone.                             *)
LEMMA QuietShown ==
  ASSUME OneProcess, QueueInv, NEW k \in Ticker, UNCHANGED nodes,
         \A t \in Topic : topics'[t].dirty = topics[t].dirty,
         UNCHANGED node \/ Return(k)
  PROVE  QueueStep
<1>1. UNCHANGED <<Standings, Ranks, Newer, Dirty>>
  BY SameShown
<1>2. CASE UNCHANGED node
  <2>1. Busy' = Busy
    BY <1>2 DEF Busy
  <2> QED
    BY <1>1, <2>1 DEF QueueStep, Shown
<1>3. CASE Return(k)
  <2>1. node'[k] = NoNode
    BY <1>3 DEF Return, QueueInv, FrameInv, FrameType
  <2>2. Busy' = {node'[k]} \ {NoNode}
    BY BusyNode
  <2>3. Busy' = {}
    BY <2>1, <2>2
  <2>4. Queue!BreakOff
    BY <1>1, <2>3 DEF Queue!BreakOff, Standings, Ranks, Newer, Dirty, Busy
  <2> QED
    BY <2>4 DEF QueueStep, Queue!Next
<1> QED
  BY <1>2, <1>3

LEMMA CallShown ==
  ASSUME OneProcess, QueueInv, NEW k \in Ticker,
         EnsurePriorityNode(k) \/ MarkPriorityNodeReady(k)
  PROVE  QueueStep
<1> DEFINE p == PriorityNode[sel[k]]
<1>1. /\ HandInv(k) /\ AloneInv(k) /\ DutyInv(k) /\ RankInv /\ TableType
      /\ ListInv
  BY DEF QueueInv, OrderInv, TickInv, ListInv
<1>2. pc[k] \in {"priority", "priority_ready"} /\ UNCHANGED node
  BY DEF EnsurePriorityNode, MarkPriorityNodeReady
<1>3. sel[k] \in Topic /\ Quiet(sel[k]) /\ topics[sel[k]].dirty
  BY <1>1, <1>2 DEF HandInv, AloneInv, DutyInv
<1>4. p \in Node /\ IsPriority(p) /\ TopicOf[p] = sel[k]
  BY <1>3, PriorityIds
<1>5. \A t \in Topic : topics'[t].dirty = topics[t].dirty
  BY <1>1, OtherDirty DEF MarkPriorityNodeReady
<1>6. \/ UNCHANGED nodes
      \/ \E st \in {"ready", nodes[p].status} :
           nodes' = [nodes EXCEPT ![p].status = st, ![p].rank = 0, ![p].label = "priority"]
  BY DEF EnsurePriorityNode, MarkPriorityNodeReady
<1> HIDE DEF p
<1>7. CASE UNCHANGED nodes
  BY <1>2, <1>5, <1>7, QuietShown
<1>8. ASSUME NEW st \in {"ready", nodes[p].status},
             nodes' = [nodes EXCEPT ![p].status = st, ![p].rank = 0, ![p].label = "priority"]
      PROVE  QueueStep
  <2>1. \A n \in Node :
          /\ nodes'[n].status = IF n = p THEN st ELSE nodes[n].status
          /\ nodes'[n].rank = IF n = p THEN 0 ELSE nodes[n].rank
          /\ nodes'[n].entered = nodes[n].entered
    BY <1>1, <1>8, PriorityRow
  <2>2. nodes[p].rank = 0
    BY <1>1, <1>4 DEF RankInv
  <2>3. UNCHANGED <<Ranks, Newer>>
    BY <2>1, <2>2, EntriesKept
  <2>4. UNCHANGED Dirty /\ UNCHANGED Busy
    BY <1>2, <1>5, DirtyKept DEF Busy
  <2>5. CASE st = nodes[p].status
    <3>1. Standings' = Standings
      BY <2>1, <2>5 DEF Standings
    <3> QED
      BY <2>3, <2>4, <3>1 DEF QueueStep, Shown
  <2>6. CASE st = "ready"
    <3>1. Standings' = [Standings EXCEPT ![p] = "waiting"]
      BY <1>4, <2>1, <2>6, StandingWritten, StandingsOf
    <3>2. Busy = {}
      <4>1. node[k] = NoNode
        BY <1>1, <1>2 DEF HandInv, Hand, Early, QueueInv, FrameInv, FrameType
      <4> QED
        BY <4>1, BusyNode
    <3>3. \A m \in NodesOf(TopicOf[p]) \ {p} : Standings[m] # "running"
      <4> SUFFICES ASSUME NEW m \in NodesOf(sel[k]) PROVE Standings[m] # "running"
        BY <1>4
      <4>1. m \in Node /\ nodes[m].status # "running"
        BY <1>3, PriorityIds DEF Quiet
      <4>2. nodes[m].status \in NodeStatus \cup {"absent"}
        BY <1>1, <4>1 DEF TableType, NodeRow
      <4> QED
        BY <4>1, <4>2, StandingsOf DEF Standings
    <3>4. Dirty[TopicOf[p]]
      BY <1>3, <1>4 DEF Dirty
    <3>5. Queue!IsPriority(p) /\ Queue!Others(p) = NodesOf(TopicOf[p]) \ {p}
      BY <1>4, QueueOthers
    <3>6. Queue!CallPriority(p)
      BY <2>3, <2>4, <3>1, <3>2, <3>3, <3>4, <3>5
         DEF Queue!CallPriority, Standings, Ranks, Newer, Dirty, Busy
    <3> QED
      BY <1>4, <3>6 DEF QueueStep, Queue!Next
  <2> QED
    BY <2>5, <2>6
<1> QED
  BY <1>6, <1>7, <1>8

(* A start: nothing better is open that was there before, and priority work *)
(* finds its topic without a running node.                                  *)
LEMMA StartShown ==
  ASSUME OneProcess, QueueInv, NEW k \in Ticker, MarkNodeRunning(k)
  PROVE  QueueStep
<1>1. HandInv(k) /\ Layered(k) /\ RankInv /\ TableType /\ FrameInv /\ OrderInv /\ ListInv
  BY DEF QueueInv, OrderInv, TickInv, ListInv
<1>2. PICK x \in DOMAIN todo[k] :
        /\ nodes' = [nodes EXCEPT ![x].status = "running"]
        /\ node' = [node EXCEPT ![k] = x]
  BY DEF MarkNodeRunning
<1>3. pc[k] = "dispatch" /\ node[k] = NoNode /\ node'[k] = x
  BY <1>1, <1>2 DEF MarkNodeRunning, HandInv, FrameInv, FrameType
<1>4. x \in Node /\ TopicOf[x] = sel[k] /\ Waits(x) /\ ~Closed(x) /\ NoNode \notin Node
  <2>1. x \in Hand(k)
    BY DEF Hand
  <2>2. Waits(x)
    BY <1>1 DEF HandInv
  <2> QED
    BY <1>1, <2>1, <2>2, InHand, IdAssumption DEF Waits, Closed, Terminal
<1>5. OnlyStatus(x, "running")
  BY <1>1, <1>2, StatusWritten
<1>6. \A m \in Node : nodes[m].status \in NodeStatus \cup {"absent"}
  BY <1>1 DEF TableType, NodeRow
<1>7. /\ Standings[x] = "waiting"
      /\ Standings' = [Standings EXCEPT ![x] = "running"]
      /\ UNCHANGED <<Ranks, Newer>>
  <2>1. Standings[x] = "waiting"
    BY <1>4, StandingsOf DEF Standings, Waits
  <2>2. Standings' = [Standings EXCEPT ![x] = "running"]
    BY <1>4, <1>5, StandingWritten, StandingsOf DEF OnlyStatus
  <2>3. UNCHANGED <<Ranks, Newer>>
    BY <1>5, EntriesKept DEF OnlyStatus
  <2> QED
    BY <2>1, <2>2, <2>3
<1>8. UNCHANGED Dirty
  BY <1>1, RunningDirty, DirtyKept
<1>9. Busy = {} /\ Busy' = {x}
  <2>1. Busy = {node[k]} \ {NoNode} /\ Busy' = {node'[k]} \ {NoNode}
    BY BusyNode
  <2> QED
    BY <1>3, <1>4, <2>1
<1>10. /\ Queue!IsPriority(x) <=> IsPriority(x)
       /\ Queue!Others(x) = NodesOf(TopicOf[x]) \ {x}
  BY <1>4, QueueOthers
<1>11. ASSUME NEW m \in NodesOf(TopicOf[x]) \ {x},
              Standings[m] \notin {"absent", "ended"}, Ranks[m] < Ranks[x]
       PROVE  <<m, x>> \in Newer
  <2>1. m \in Node /\ m \in NodesOf(sel[k])
    BY <1>4, PriorityIds
  <2>2. ~Closed(m)
    BY <1>6, <1>11, <2>1, StandingsOf DEF Standings, Closed
  <2>3. nodes[m].rank < nodes[x].rank
    BY <1>4, <1>11, <2>1 DEF Ranks
  <2>4. nodes[m].entered > nodes[x].entered
    BY <1>1, <2>1, <2>2, <2>3 DEF Layered
  <2> QED
    BY <1>4, <2>1, <2>4 DEF Newer
<1>12. ASSUME IsPriority(x), NEW m \in NodesOf(TopicOf[x]) \ {x}
       PROVE  Standings[m] # "running"
  <2>1. m \in Node /\ nodes[m].status # "running"
    BY <1>1, <1>4, <1>12, PriorityIds DEF RankInv
  <2> QED
    BY <1>6, <2>1, StandingsOf DEF Standings
<1>13. /\ \A m \in Queue!Others(x) :
            Standings[m] \notin {"absent", "ended"} /\ Ranks[m] < Ranks[x] => <<m, x>> \in Newer
       /\ Queue!IsPriority(x) => \A m \in Queue!Others(x) : Standings[m] # "running"
  BY <1>10, <1>11, <1>12
<1>14. Queue!Start(x)
  BY <1>7, <1>8, <1>9, <1>13
     DEF Queue!Start, Queue!Open, Standings, Ranks, Newer, Dirty, Busy
<1> QED
  BY <1>4, <1>14 DEF QueueStep, Queue!Next

(* The end of a run.                                                        *)
LEMMA FinishShown ==
  ASSUME OneProcess, QueueInv, NEW k \in Ticker, pc[k] = "execute",
         NEW st \in NodeStatus, MarkNodeFinished(k, st),
         node'[k] = NoNode \/ (IsPriority(node[k]) /\ node'[k] = node[k])
  PROVE  QueueStep
<1>1. FrameInv /\ ListInv /\ OrderInv
  BY DEF QueueInv
<1>2. PICK x \in Node : x = node[k] /\ OnlyStatus(x, st) /\ NoNode \notin Node
  BY <1>1, FinishedRows, IdAssumption
<1>3. Busy = {x} \ {NoNode} /\ Busy' = {node'[k]} \ {NoNode}
  BY <1>2, BusyNode
<1>4. node'[k] = NoNode \/ (IsPriority(x) /\ node'[k] = x)
  BY <1>2
<1>5. UNCHANGED Dirty
  BY <1>1, FinishedDirty, DirtyKept
<1>6. Standings' = [Standings EXCEPT ![x] = StandingOf(st)]
  BY <1>2, StandingWritten DEF OnlyStatus
<1>7. StandingOf(st) \in Queue!Standing \ {"absent"}
  BY StandingsOf
<1>8. UNCHANGED <<Ranks, Newer>>
  BY <1>2, EntriesKept DEF OnlyStatus
<1>9. x \in Busy
  BY <1>2, <1>3
<1>10. Busy' = {} \/ (Queue!IsPriority(x) /\ Busy' = Busy)
  BY <1>2, <1>3, <1>4, QueueOthers
<1>11. Queue!Finish(x)
  BY <1>5, <1>6, <1>7, <1>8, <1>9, <1>10
     DEF Queue!Finish, Standings, Ranks, Newer, Dirty, Busy
<1> QED
  BY <1>2, <1>11 DEF QueueStep, Queue!Next

LEMMA WorkShown ==
  ASSUME OneProcess, QueueInv, NEW k \in Ticker, WorkerEnds(k)
  PROVE  QueueStep
<1>1. FrameType
  BY DEF QueueInv, FrameInv
<1>2. CASE WorkerFails(k)
  <2>1. /\ pc[k] = "execute" /\ MarkNodeFinished(k, "failed") /\ node'[k] = NoNode
        /\ "failed" \in NodeStatus
    BY <1>1, <1>2 DEF WorkerFails, Return, FrameType, NodeStatus, Terminal
  <2> QED
    BY <2>1, FinishShown
<1>3. ASSUME NEW a \in Answers \cup PriorityAnswers, WorkerAnswers(k, a)
      PROVE  QueueStep
  <2>1. /\ pc[k] = "execute" /\ a # ExecuteError
        /\ MarkNodeFinished(k, ResolveNodeStatus(node[k], a))
    BY <1>3 DEF WorkerAnswers
  <2>2. ResolveNodeStatus(node[k], a) \in NodeStatus
    BY <2>1, ResolvedStatus
  <2>3. node'[k] = IF IsPriority(node[k]) THEN node[k] ELSE NoNode
    BY <1>1, <1>3 DEF WorkerAnswers, FrameType
  <2>4. node'[k] = NoNode \/ (IsPriority(node[k]) /\ node'[k] = node[k])
    BY <2>3
  <2> QED
    BY <2>1, <2>2, <2>4, FinishShown
<1> QED
  BY <1>2, <1>3 DEF WorkerEnds

(* The end of priority work: it has the topic to itself still.              *)
LEMMA SettledNode ==
  ASSUME OneProcess, QueueInv, NEW k \in Ticker, ApplyPriorityPlan(k) \/ ClearPriorityDirty(k)
  PROVE  /\ node[k] \in Node /\ IsPriority(node[k]) /\ TopicOf[node[k]] = sel[k]
         /\ node[k] = PriorityNode[sel[k]] /\ sel[k] \in Topic
         /\ Busy = {node[k]} /\ Busy' = {}
         /\ Dirty' = [Dirty EXCEPT ![sel[k]] = FALSE]
<1>1. HandInv(k) /\ FrameInv /\ OrderInv /\ ListInv
  BY DEF QueueInv, OrderInv, TickInv
<1>2. pc[k] \in {"apply", "clear"} /\ node'[k] = NoNode /\ NoNode \notin Node
  BY <1>1, IdAssumption DEF ApplyPriorityPlan, ClearPriorityDirty, FrameInv, FrameType
<1>3. node[k] \in Node /\ IsPriority(node[k])
  BY <1>1, <1>2 DEF HandInv
<1>4. TopicOf[node[k]] = sel[k]
  <2>1. node[k] \in Hand(k)
    BY <1>3 DEF Hand
  <2> QED
    BY <1>1, <2>1, InHand
<1>5. sel[k] \in Topic /\ node[k] = PriorityNode[sel[k]]
  BY <1>3, <1>4, PriorityIds
<1>6. Busy = {node[k]} /\ Busy' = {}
  <2>1. Busy = {node[k]} \ {NoNode} /\ Busy' = {node'[k]} \ {NoNode}
    BY BusyNode
  <2> QED
    BY <1>2, <1>3, <2>1
<1>7. Dirty' = [Dirty EXCEPT ![sel[k]] = FALSE]
  <2>1. /\ topics'[sel[k]].dirty = FALSE
        /\ \A u \in Topic : u # sel[k] => topics'[u].dirty = topics[u].dirty
    BY <1>1, <1>5, ClearedDirty
  <2> QED
    BY <1>5, <2>1, DirtyWritten
<1> QED
  BY <1>3, <1>4, <1>5, <1>6, <1>7

LEMMA KeepShown ==
  ASSUME OneProcess, QueueInv, NEW k \in Ticker, ClearPriorityDirty(k)
  PROVE  QueueStep
<1>1. PICK x \in Node :
        /\ IsPriority(x) /\ TopicOf[x] = sel[k] /\ Busy = {x} /\ Busy' = {}
        /\ Dirty' = [Dirty EXCEPT ![TopicOf[x]] = FALSE]
  BY SettledNode
<1>2. Queue!IsPriority(x) /\ UNCHANGED nodes
  BY <1>1, QueueOthers DEF ClearPriorityDirty
<1>3. UNCHANGED <<Standings, Ranks, Newer>>
  BY <1>2, EntriesKept DEF Standings
<1>4. Queue!KeepRanks(x)
  BY <1>1, <1>2, <1>3 DEF Queue!KeepRanks, Standings, Ranks, Newer, Dirty, Busy
<1> QED
  BY <1>1, <1>4 DEF QueueStep, Queue!Next

LEMMA SamePlaces ==
  ASSUME NEW N
  PROVE  Queue!Injection(N, 1..Queue!Cardinality(N)) = Injection(N, 1..Cardinality(N))
<1>1. Queue!Cardinality(N) = Cardinality(N)
  BY DEF Queue!Cardinality, Cardinality
<1>2. \A S, T : Queue!Injection(S, T) = Injection(S, T)
  BY DEF Queue!Injection, Queue!IsInjective, Injection, IsInjective
<1> QED
  BY <1>1, <1>2

LEMMA RerankShown ==
  ASSUME OneProcess, QueueInv, NEW k \in Ticker, ApplyPriorityPlan(k)
  PROVE  QueueStep
<1>1. PICK x \in Node :
        /\ x = node[k] /\ IsPriority(x) /\ TopicOf[x] = sel[k] /\ x = PriorityNode[sel[k]]
        /\ Busy = {x} /\ Busy' = {}
        /\ Dirty' = [Dirty EXCEPT ![TopicOf[x]] = FALSE]
  BY SettledNode
<1> PICK place : place = assign[k]
  OBVIOUS
<1> DEFINE N == DOMAIN place
<1>2. FrameInv /\ ListInv /\ OrderInv /\ DutyInv(k) /\ TableType /\ pc[k] = "apply"
  BY DEF QueueInv, ListInv, ApplyPriorityPlan
<1>3. /\ N \subseteq NodesOf(sel[k]) \ {x}
      /\ place \in Injection(N, 1..Cardinality(N))
      /\ \A m \in NodesOf(sel[k]) \ {x} : nodes[m].status # "running"
  BY <1>1, <1>2 DEF DutyInv, RanksApart
<1>4. /\ \A n \in Node :
           /\ nodes'[n].status = IF n = x THEN "succeeded" ELSE nodes[n].status
           /\ nodes'[n].rank = IF n \in N THEN place[n] ELSE nodes[n].rank
      /\ \A m, n \in Node :
           nodes'[m].entered > nodes'[n].entered <=>
             n \notin N /\ (m \in N \/ nodes[m].entered > nodes[n].entered)
  BY <1>1, <1>2, PlannedRows
<1>5. /\ Queue!IsPriority(x) /\ Queue!Others(x) = NodesOf(sel[k]) \ {x}
      /\ NodesOf(sel[k]) \ {x} \subseteq Node
  BY <1>1, QueueOthers, PriorityIds
<1> HIDE DEF N
<1>6. Standings' = [Standings EXCEPT ![x] = "ended"]
  <2>1. \A n \in Node : nodes'[n].status = IF n = x THEN "succeeded" ELSE nodes[n].status
    BY <1>4
  <2>2. Standings' = [Standings EXCEPT ![x] = StandingOf("succeeded")]
    BY <2>1, StandingWritten
  <2> QED
    BY <2>2, StandingsOf
<1>7. Ranks' = [m \in Node |-> IF m \in N THEN place[m] ELSE Ranks[m]]
  BY <1>4 DEF Ranks
<1>8. Newer' = {p \in Newer : p[1] \notin N /\ p[2] \notin N} \cup (N \X (Node \ N))
  <2>1. N \in SUBSET Node
    BY <1>3, <1>5
  <2> QED
    BY <1>4, <2>1, EntriesPlaced
<1>9. \A m \in Queue!Others(x) : Standings[m] # "running"
  <2> SUFFICES ASSUME NEW m \in NodesOf(sel[k]) \ {x} PROVE Standings[m] # "running"
    BY <1>5
  <2>1. m \in Node /\ nodes[m].status # "running"
    BY <1>3, <1>5
  <2>2. nodes[m].status \in NodeStatus \cup {"absent"}
    BY <1>2, <2>1 DEF TableType, NodeRow
  <2> QED
    BY <2>1, <2>2, StandingsOf DEF Standings
<1>10. \E M \in SUBSET Queue!Others(x) :
         \E f \in Queue!Injection(M, 1..Queue!Cardinality(M)) :
           /\ Ranks' = [m \in Node |-> IF m \in M THEN f[m] ELSE Ranks[m]]
           /\ Newer' = {p \in Newer : p[1] \notin M /\ p[2] \notin M} \cup (M \X (Node \ M))
  <2>1. N \in SUBSET Queue!Others(x)
    BY <1>3, <1>5
  <2>2. place \in Queue!Injection(N, 1..Queue!Cardinality(N))
    BY <1>3, SamePlaces
  <2> QED
    BY <1>7, <1>8, <2>1, <2>2
<1>11. x \in Busy
  BY <1>1
<1>12. Queue!Rerank(x)
  BY <1>1, <1>5, <1>6, <1>9, <1>10, <1>11
     DEF Queue!Rerank, Queue!Placed, Standings, Ranks, Newer, Dirty, Busy
<1> QED
  BY <1>12 DEF QueueStep, Queue!Next

LEMMA QueueSteps ==
  ASSUME OneProcess, QueueInv, [Next]_vars
  PROVE  QueueStep
<1>1. FrameType /\ FrameInv /\ ListInv
  BY DEF QueueInv, FrameInv
<1>2. ASSUME UNCHANGED vars PROVE QueueStep
  <2>1. UNCHANGED <<topics, nodes, node>>
    BY <1>2 DEF vars
  <2> QED
    BY <2>1 DEF QueueStep, Shown, Standings, Ranks, Newer, Dirty, Busy
<1>3. ASSUME NEW x \in Node, Enqueue(x) \/ RefuseEnqueue(x) PROVE QueueStep
  BY <1>2, <1>3, PostShown DEF RefuseEnqueue
<1>4. ASSUME NEW k \in Ticker,
             \/ NoRunnableTopic(k) \/ (\E t \in Topic : PriorityWaits(k, t) \/ SelectTopic(k, t))
             \/ EnsurePriorityNodeFails(k) \/ NothingToDispatch(k) \/ PrepareFails(k)
             \/ PlanTopic(k) \/ StartWorker(k) \/ Crash(k)
      PROVE  QueueStep
  <2>1. UNCHANGED <<topics, nodes>> /\ (UNCHANGED node \/ Return(k))
    BY <1>4 DEF NoRunnableTopic, PriorityWaits, SelectTopic, EnsurePriorityNodeFails,
                NothingToDispatch, PrepareFails, PlanTopic, StartWorker, Crash, tables
  <2>2. UNCHANGED nodes /\ \A t \in Topic : topics'[t].dirty = topics[t].dirty
    BY <2>1
  <2> QED
    BY <2>1, <2>2, QuietShown
<1>5. ASSUME NEW k \in Ticker, PromoteAgedTopics(k) \/ EndTick(k) PROVE QueueStep
  <2>1. UNCHANGED nodes /\ (UNCHANGED node \/ Return(k))
    BY <1>5 DEF PromoteAgedTopics, EndTick
  <2>2. \A t \in Topic : topics'[t].dirty = topics[t].dirty
    BY <1>1, <1>5, OtherDirty
  <2> QED
    BY <2>1, <2>2, QuietShown
<1>6. ASSUME NEW k \in Ticker, TickStep(k) PROVE QueueStep
  BY <1>4, <1>5, <1>6, CallShown, StartShown, RerankShown, KeepShown DEF TickStep
<1>7. ASSUME NEW k \in Ticker, WorkerEnds(k) PROVE QueueStep
  BY <1>7, WorkShown
<1> QED
  BY <1>2, <1>3, <1>4, <1>6, <1>7 DEF Next

LEMMA QueueInit == Init => Queue!Init
<1> SUFFICES ASSUME Init PROVE Queue!Init
  OBVIOUS
<1>1. \A n \in Node : nodes[n] = NoRow
  BY DEF Init
<1>2. Standings = [n \in Node |-> "absent"] /\ Ranks = [n \in Node |-> 0]
  BY <1>1, StandingsOf DEF Standings, Ranks, NoRow
<1>3. Newer = {}
  <2>1. \A p \in Node \X Node : ~(nodes[p[1]].entered > nodes[p[2]].entered)
    BY <1>1 DEF NoRow
  <2> QED
    BY <2>1 DEF Newer
<1>4. Dirty = [t \in Topic |-> TRUE]
  BY DEF Init, Dirty, NewTopic
<1>5. Busy = {}
  BY DEF Init, Busy
<1> QED
  BY <1>2, <1>3, <1>4, <1>5 DEF Queue!Init, Standings, Ranks, Newer, Dirty, Busy

(* While one process ticks, the scheduler is the work queue of WorkQueue:   *)
(* each start, each change of a rank and each end of priority work is       *)
(* allowed at that moment, however old the plan behind it is.               *)
THEOREM ImplementsWorkQueue == ASSUME OneProcess PROVE Spec => ImplementsQueue
<1>1. Init => Queue!Init
  BY QueueInit
<1>2. QueueInv /\ [Next]_vars => [Queue!Next]_Queue!vars
  <2> SUFFICES ASSUME QueueInv, [Next]_vars PROVE [Queue!Next]_Queue!vars
    OBVIOUS
  <2>1. QueueStep
    BY QueueSteps
  <2> QED
    BY <2>1 DEF QueueStep, Shown, Queue!vars, Standings, Ranks, Newer, Dirty, Busy
<1> QED
  BY <1>1, <1>2, QueueHolds, PTL DEF Spec, ImplementsQueue, Queue!Spec

=============================================================================
