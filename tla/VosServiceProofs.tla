-------------------------- MODULE VosServiceProofs --------------------------
(***************************************************************************)
(* Proofs about VosService.                                                *)
(***************************************************************************)
EXTENDS VosService, FiniteSetTheorems, SequenceTheorems, TLAPS

TreeSame(s, u) ==
  /\ u.topics = s.topics /\ u.rootOf = s.rootOf /\ u.nodes = s.nodes
  /\ u.topicOf = s.topicOf /\ u.parent = s.parent /\ u.children = s.children
ProcessesSame(s, u) == u.procs = s.procs /\ u.processes = s.processes /\ u.strays = s.strays
MemorySame(s, u) == u.proposals = s.proposals /\ u.memory = s.memory /\ u.given = s.given
TallySame(s, u) == u.audits = s.audits /\ u.tally = s.tally /\ u.given = s.given

MemoryOK(s) == MemoryIsApplied(s) /\ ProposalsFollow(s)
TallyOK(s) == AuditsKept(s) /\ TallyAgrees(s)

-----------------------------------------------------------------------------
(* What is untouched stays right.                                          *)
LEMMA TreeFrame == ASSUME NEW s, NEW u, TreeOK(s), TreeSame(s, u) PROVE TreeOK(u)
BY DEF TreeOK, TreeSame, RootsExist, NodesHang, ChildrenAgree, Acyclic

LEMMA ProcessesFrame == ASSUME NEW s, NEW u, ProcessesOwned(s), ProcessesSame(s, u) PROVE ProcessesOwned(u)
BY DEF ProcessesOwned, ProcessesSame

LEMMA MemoryFrame == ASSUME NEW s, NEW u, MemoryOK(s), MemorySame(s, u) PROVE MemoryOK(u)
BY DEF MemoryOK, MemoryIsApplied, ProposalsFollow, MemorySame

LEMMA TallyFrame == ASSUME NEW s, NEW u, TallyOK(s), TallySame(s, u) PROVE TallyOK(u)
BY DEF TallyOK, AuditsKept, TallyAgrees, TallySame

LEMMA FileParts ==
  ASSUME NEW s
  PROVE  FileOK(s) <=> s \in State /\ TreeOK(s) /\ ProcessesOwned(s) /\ MemoryOK(s) /\ TallyOK(s)
BY DEF FileOK, MetadataOK, MemoryOK, TallyOK

LEMMA TouchedType == ASSUME NEW s \in State, NEW S PROVE Touched(s, S) \in [Node -> Nat]
<1>1. s.version \in [Node -> Nat]
  BY DEF State
<1>. QED BY <1>1 DEF Touched

(* A new node under p is no way back to p.                                 *)
LEMMA CreateNodeTree ==
  ASSUME NEW s \in State, NEW u, NEW t \in Topic, NEW n \in Node, NEW p \in Node,
         TreeOK(s), CanCreateNode(s, t, n, p),
         u.topics = s.topics, u.rootOf = s.rootOf, u.nodes = s.nodes \cup {n},
         u.topicOf = [s.topicOf EXCEPT ![n] = t], u.parent = [s.parent EXCEPT ![n] = p],
         u.children = [s.children EXCEPT ![p] = @ \cup {n}]
  PROVE  TreeOK(u)
<1>0. /\ s.topicOf \in [Node -> Topic \cup {NoTopic}] /\ s.parent \in [Node -> Node \cup {NoNode}]
      /\ s.children \in [Node -> SUBSET Node] /\ s.nodes \subseteq Node /\ s.topics \subseteq Topic
      /\ s.rootOf \in [Topic -> Node \cup {NoNode}]
  BY DEF State
<1>1. RootsExist(u)
  BY <1>0 DEF TreeOK, RootsExist, CanCreateNode
<1>2. NodesHang(u)
  BY <1>0, AbsentValues DEF TreeOK, NodesHang, CanCreateNode
<1>3. ChildrenAgree(u)
  BY <1>0 DEF TreeOK, ChildrenAgree, CanCreateNode
<1>4. Acyclic(u)
  <2>. SUFFICES ASSUME NEW S \in SUBSET u.nodes, S # {} PROVE \E m \in S : u.parent[m] \notin S
    BY DEF Acyclic
  <2>1. CASE S \ {n} = {}
    BY <2>1, <1>0 DEF CanCreateNode
  <2>2. CASE S \ {n} # {}
    <3>1. S \ {n} \in SUBSET s.nodes
      OBVIOUS
    <3>2. PICK m \in S \ {n} : s.parent[m] \notin S \ {n}
      BY <3>1, <2>2 DEF TreeOK, Acyclic
    <3>3. s.parent[m] # n
      BY <3>1, <1>0, AbsentValues DEF TreeOK, NodesHang, CanCreateNode
    <3>. QED BY <3>2, <3>3, <1>0
  <2>. QED BY <2>1, <2>2
<1>. QED BY <1>1, <1>2, <1>3, <1>4 DEF TreeOK

(* A new topic brings a root without parent or children.                   *)
LEMMA CreateTopicTree ==
  ASSUME NEW s \in State, NEW u, NEW t \in Topic, NEW r \in Node,
         TreeOK(s), CanCreateTopic(s, t, r),
         u.topics = s.topics \cup {t}, u.rootOf = [s.rootOf EXCEPT ![t] = r],
         u.nodes = s.nodes \cup {r}, u.topicOf = [s.topicOf EXCEPT ![r] = t],
         u.parent = [s.parent EXCEPT ![r] = NoNode], u.children = s.children
  PROVE  TreeOK(u)
<1>0. /\ s.topicOf \in [Node -> Topic \cup {NoTopic}] /\ s.parent \in [Node -> Node \cup {NoNode}]
      /\ s.children \in [Node -> SUBSET Node] /\ s.nodes \subseteq Node /\ s.topics \subseteq Topic
      /\ s.rootOf \in [Topic -> Node \cup {NoNode}]
  BY DEF State
<1>1. RootsExist(u)
  BY <1>0 DEF TreeOK, RootsExist, CanCreateTopic
<1>2. NodesHang(u)
  <2>. SUFFICES ASSUME NEW n \in u.nodes
                PROVE  /\ u.topicOf[n] \in u.topics
                       /\ IF u.parent[n] = NoNode THEN n = u.rootOf[u.topicOf[n]]
                          ELSE /\ u.parent[n] \in u.nodes
                               /\ u.topicOf[u.parent[n]] = u.topicOf[n]
                               /\ n \in u.children[u.parent[n]]
    BY DEF NodesHang
  <2>1. CASE n = r
    BY <2>1, <1>0
  <2>2. CASE n # r
    <3>1. n \in s.nodes /\ u.parent[n] = s.parent[n] /\ u.topicOf[n] = s.topicOf[n]
      BY <2>2, <1>0
    <3>2. s.topicOf[n] \in s.topics /\ s.topicOf[n] # t
      BY <3>1, <1>0 DEF TreeOK, NodesHang, CanCreateTopic
    <3>3. CASE s.parent[n] = NoNode
      BY <3>1, <3>2, <3>3, <1>0 DEF TreeOK, NodesHang
    <3>4. CASE s.parent[n] # NoNode
      BY <3>1, <3>2, <3>4, <1>0 DEF TreeOK, NodesHang, CanCreateTopic
    <3>. QED BY <3>3, <3>4
  <2>. QED BY <2>1, <2>2
<1>3. ChildrenAgree(u)
  BY <1>0 DEF TreeOK, ChildrenAgree, CanCreateTopic
<1>4. Acyclic(u)
  <2>. SUFFICES ASSUME NEW S \in SUBSET u.nodes, S # {} PROVE \E m \in S : u.parent[m] \notin S
    BY DEF Acyclic
  <2>1. CASE r \in S
    BY <2>1, <1>0, AbsentValues
  <2>2. CASE r \notin S
    BY <2>2 DEF TreeOK, Acyclic
  <2>. QED BY <2>1, <2>2
<1>. QED BY <1>1, <1>2, <1>3, <1>4 DEF TreeOK

(* Taking nodes away leaves a tree if what is left names none of them:     *)
(* neither as a parent, nor as a child, nor as the root of a topic.        *)
LEMMA RemovalTree ==
  ASSUME NEW s \in State, NEW u, NEW gone \in SUBSET Node, TreeOK(s),
         u.topics \subseteq s.topics, u.nodes = s.nodes \ gone,
         \A t \in u.topics : u.rootOf[t] = s.rootOf[t] /\ s.rootOf[t] \notin gone,
         \A n \in u.nodes : /\ s.topicOf[n] \in u.topics /\ s.parent[n] \notin gone
                            /\ u.topicOf[n] = s.topicOf[n] /\ u.parent[n] = s.parent[n],
         \A p \in Node : u.children[p] = IF p \in gone THEN {} ELSE s.children[p] \ gone
  PROVE  TreeOK(u)
<1>0. s.nodes \subseteq Node /\ s.topics \subseteq Topic /\ s.parent \in [Node -> Node \cup {NoNode}]
  BY DEF State
<1>1. RootsExist(u)
  BY <1>0 DEF TreeOK, RootsExist
<1>2. NodesHang(u)
  <2>. SUFFICES ASSUME NEW n \in u.nodes
                PROVE  /\ u.topicOf[n] \in u.topics
                       /\ IF u.parent[n] = NoNode THEN n = u.rootOf[u.topicOf[n]]
                          ELSE /\ u.parent[n] \in u.nodes
                               /\ u.topicOf[u.parent[n]] = u.topicOf[n]
                               /\ n \in u.children[u.parent[n]]
    BY DEF NodesHang
  <2>1. /\ n \in s.nodes /\ u.parent[n] = s.parent[n] /\ u.topicOf[n] = s.topicOf[n]
        /\ s.topicOf[n] \in u.topics /\ n \notin gone /\ s.parent[n] \notin gone
    OBVIOUS
  <2>2. CASE s.parent[n] = NoNode
    BY <2>1, <2>2 DEF TreeOK, NodesHang
  <2>3. CASE s.parent[n] # NoNode
    <3>1. /\ s.parent[n] \in s.nodes /\ s.topicOf[s.parent[n]] = s.topicOf[n]
          /\ n \in s.children[s.parent[n]]
      BY <2>1, <2>3 DEF TreeOK, NodesHang
    <3>2. u.parent[n] # NoNode /\ s.parent[n] \in u.nodes /\ s.parent[n] \in Node
      BY <2>1, <2>3, <3>1, <1>0
    <3>3. u.topicOf[s.parent[n]] = s.topicOf[s.parent[n]]
      BY <3>2
    <3>4. u.children[s.parent[n]] = s.children[s.parent[n]] \ gone
      BY <2>1, <3>2
    <3>. QED BY <2>1, <3>1, <3>2, <3>3, <3>4
  <2>. QED BY <2>2, <2>3
<1>3. ChildrenAgree(u)
  <2>. SUFFICES ASSUME NEW p \in Node, NEW n \in u.children[p]
                PROVE  n \in u.nodes /\ p \in u.nodes /\ u.parent[n] = p
    BY DEF ChildrenAgree
  <2>1. p \notin gone /\ n \in s.children[p] /\ n \notin gone
    OBVIOUS
  <2>2. n \in s.nodes /\ p \in s.nodes /\ s.parent[n] = p
    BY <2>1 DEF TreeOK, ChildrenAgree
  <2>. QED BY <2>1, <2>2
<1>4. Acyclic(u)
  BY <1>0 DEF TreeOK, Acyclic
<1>. QED BY <1>1, <1>2, <1>3, <1>4 DEF TreeOK

(* A move keeps the tree because no ancestor of the new parent is the node *)
(* that moves: a cycle would be a set of nodes whose parents are all in    *)
(* it; with the ancestors of the new parent, closed and without the node,  *)
(* taken away from it, it would have been one before.                      *)
LEMMA MoveNodeTree ==
  ASSUME NEW s \in State, NEW u, NEW n \in Node, NEW p \in Node,
         TreeOK(s), CanMoveNode(s, n, p),
         u.topics = s.topics, u.rootOf = s.rootOf, u.nodes = s.nodes, u.topicOf = s.topicOf,
         u.parent = [s.parent EXCEPT ![n] = p],
         u.children = MoveNodeIn(s, n, p).children
  PROVE  TreeOK(u)
<1>0. /\ s.topicOf \in [Node -> Topic \cup {NoTopic}] /\ s.parent \in [Node -> Node \cup {NoNode}]
      /\ s.children \in [Node -> SUBSET Node] /\ s.nodes \subseteq Node /\ s.topics \subseteq Topic
      /\ s.rootOf \in [Topic -> Node \cup {NoNode}]
  BY DEF State
<1>c. /\ u.children \in [Node -> SUBSET Node]
      /\ u.children[p] = s.children[p] \cup {n}
      /\ u.children[s.parent[n]] = s.children[s.parent[n]] \ {n}
      /\ \A m \in Node \ {p, s.parent[n]} : u.children[m] = s.children[m]
  BY <1>0 DEF MoveNodeIn, CanMoveNode
<1>1. RootsExist(u)
  BY <1>0 DEF TreeOK, RootsExist, CanMoveNode
<1>2. NodesHang(u)
  BY <1>0, <1>c, AbsentValues DEF TreeOK, NodesHang, CanMoveNode
<1>3. ChildrenAgree(u)
  BY <1>0, <1>c DEF TreeOK, ChildrenAgree, CanMoveNode
<1>4. Acyclic(u)
  <2>1. PICK A \in SUBSET s.nodes : /\ p \in A /\ n \notin A
                                    /\ \A m \in A : s.parent[m] = NoNode \/ s.parent[m] \in A
    BY DEF CanMoveNode, Above
  <2>. SUFFICES ASSUME NEW S \in SUBSET u.nodes, S # {}, \A m \in S : u.parent[m] \in S PROVE FALSE
    BY DEF Acyclic
  <2>2. CASE n \notin S
    BY <2>2, <1>0 DEF TreeOK, Acyclic
  <2>3. CASE n \in S
    <3>1. p \in S \cap A
      BY <2>1, <2>3, <1>0
    <3>2. PICK m \in S \cap A : s.parent[m] \notin S \cap A
      BY <3>1 DEF TreeOK, Acyclic
    <3>3. u.parent[m] = s.parent[m] /\ u.parent[m] \in S
      BY <2>1, <1>0
    <3>4. s.parent[m] = NoNode \/ s.parent[m] \in A
      BY <2>1
    <3>. QED BY <3>2, <3>3, <3>4, <1>0, AbsentValues
  <2>. QED BY <2>2, <2>3
<1>. QED BY <1>1, <1>2, <1>3, <1>4 DEF TreeOK

-----------------------------------------------------------------------------
(* Every operation turns a right file into a right file.                   *)
LEMMA AddSessionOK ==
  ASSUME NEW s, FileOK(s), NEW n \in Node, NEW x \in Session PROVE FileOK(AddSessionIn(s, n, x))
<1>. DEFINE u == AddSessionIn(s, n, x)
<1>1. u \in State
  BY TouchedType DEF FileOK, State, AddSessionIn
<1>2. TreeSame(s, u) /\ ProcessesSame(s, u) /\ MemorySame(s, u) /\ TallySame(s, u)
  BY DEF AddSessionIn, TreeSame, ProcessesSame, MemorySame, TallySame, FileOK, State
<1>. QED BY <1>1, <1>2, TreeFrame, ProcessesFrame, MemoryFrame, TallyFrame, FileParts

LEMMA PermissionOK ==
  ASSUME NEW s, FileOK(s), NEW t \in Topic, NEW k \in Rule
  PROVE  FileOK(AddToolPermissionIn(s, t, k)) /\ FileOK(DeleteToolPermissionIn(s, t, k))
<1>1. AddToolPermissionIn(s, t, k) \in State /\ DeleteToolPermissionIn(s, t, k) \in State
  BY DEF FileOK, State, AddToolPermissionIn, DeleteToolPermissionIn
<1>2. \A u \in {AddToolPermissionIn(s, t, k), DeleteToolPermissionIn(s, t, k)} :
         TreeSame(s, u) /\ ProcessesSame(s, u) /\ MemorySame(s, u) /\ TallySame(s, u)
  BY DEF AddToolPermissionIn, DeleteToolPermissionIn, TreeSame, ProcessesSame, MemorySame, TallySame, FileOK, State
<1>. QED BY <1>1, <1>2, TreeFrame, ProcessesFrame, MemoryFrame, TallyFrame, FileParts

LEMMA SkillOK ==
  ASSUME NEW s, FileOK(s), NEW k \in Rule
  PROVE  FileOK(AddSkillPermissionIn(s, k)) /\ FileOK(DeleteSkillPermissionIn(s, k))
<1>1. AddSkillPermissionIn(s, k) \in State /\ DeleteSkillPermissionIn(s, k) \in State
  BY DEF FileOK, State, AddSkillPermissionIn, DeleteSkillPermissionIn
<1>2. \A u \in {AddSkillPermissionIn(s, k), DeleteSkillPermissionIn(s, k)} :
         TreeSame(s, u) /\ ProcessesSame(s, u) /\ MemorySame(s, u) /\ TallySame(s, u)
  BY DEF AddSkillPermissionIn, DeleteSkillPermissionIn, TreeSame, ProcessesSame, MemorySame, TallySame, FileOK, State
<1>. QED BY <1>1, <1>2, TreeFrame, ProcessesFrame, MemoryFrame, TallyFrame, FileParts

LEMMA NoMetadataTypes ==
  /\ NoAudits \in Seq(SUBSET Tag) /\ NoTally \in [Tag \cup {NoTag} -> Int]
  /\ NoProposals \in [Proposal -> Statuses] /\ NoMetadata \in Metadata
<1>1. <<>> \in Seq(SUBSET Tag)
  OBVIOUS
<1>2. /\ NoAudits \in Seq(SUBSET Tag) /\ NoTally \in [Tag \cup {NoTag} -> Int]
      /\ NoProposals \in [Proposal -> Statuses]
  BY <1>1 DEF NoAudits, NoTally, NoProposals, Statuses
<1>. QED BY <1>2 DEF NoMetadata, Metadata

(* Nothing is counted of the audits a topic was given with a summary.      *)
LEMMA NothingCounted ==
  ASSUME NEW audits \in Seq(SUBSET Tag), NEW g PROVE Cardinality(Bearers(audits, g, Len(audits))) = 0
<1>1. Len(audits) \in Nat
  OBVIOUS
<1>2. Bearers(audits, g, Len(audits)) = {}
  BY <1>1 DEF Bearers
<1>. QED BY <1>2, FS_EmptySet

(* One more audit is one more bearer of each of its tags, and of no other. *)
LEMMA AuditCounted ==
  ASSUME NEW audits \in Seq(SUBSET Tag), NEW k \in SUBSET Tag, NEW g \in Tag \cup {NoTag},
         NEW from \in Nat, from <= Len(audits)
  PROVE  /\ Cardinality(Bearers(audits, g, from)) \in Nat
         /\ Cardinality(Bearers(Append(audits, k), g, from)) =
               Cardinality(Bearers(audits, g, from)) + (IF Bears(k, g) THEN 1 ELSE 0)
<1>. DEFINE longer == Append(audits, k)
            last == Len(audits) + 1
            before == Bearers(audits, g, from)
<1>1. /\ Len(audits) \in Nat /\ Len(longer) = last /\ longer[last] = k
      /\ \A i \in 1..Len(audits) : longer[i] = audits[i]
  OBVIOUS
<1>2. before \subseteq 1..Len(audits) /\ IsFiniteSet(before)
  <2>1. before \subseteq 1..Len(audits) /\ IsFiniteSet(1..Len(audits))
    BY <1>1, FS_Interval DEF Bearers
  <2>. QED BY <2>1, FS_Subset
<1>3. last \notin before
  BY <1>1, <1>2
<1>4. Cardinality(before) \in Nat
  BY <1>2, FS_CardinalityType
<1>5. CASE Bears(k, g)
  <2>1. Bearers(longer, g, from) = before \cup {last}
    <3>1. \A i : i \in 1..last <=> i \in 1..Len(audits) \/ i = last
      BY <1>1
    <3>2. last > from
      BY <1>1
    <3>. HIDE DEF longer, last
    <3>. QED BY <1>1, <1>5, <3>1, <3>2 DEF Bearers
  <2>. HIDE DEF longer, last, before
  <2>. QED BY <2>1, <1>2, <1>3, <1>4, <1>5, FS_AddElement DEF longer, before
<1>6. CASE ~ Bears(k, g)
  <2>1. Bearers(longer, g, from) = before
    <3>1. \A i : i \in 1..last <=> i \in 1..Len(audits) \/ i = last
      BY <1>1
    <3>. HIDE DEF longer, last
    <3>. QED BY <1>1, <1>6, <3>1 DEF Bearers
  <2>. HIDE DEF longer, before
  <2>. QED BY <2>1, <1>4, <1>6 DEF longer, before
<1>. QED BY <1>4, <1>5, <1>6

LEMMA RecordAuditOK ==
  ASSUME NEW s, FileOK(s), NEW t \in Topic, NEW k \in SUBSET Tag PROVE FileOK(RecordAuditIn(s, t, k))
<1>. DEFINE u == RecordAuditIn(s, t, k)
            longer == Append(s.audits[t], k)
            counts == AuditSummary(s.tally[t], k)
<1>0. /\ s.audits \in [Topic -> Seq(SUBSET Tag)] /\ s.tally \in [Topic -> [Tag \cup {NoTag} -> Int]]
      /\ s.given \in [Topic -> Metadata]
  BY DEF FileOK, State
<1>1. counts \in [Tag \cup {NoTag} -> Int] /\ longer \in Seq(SUBSET Tag)
  BY <1>0 DEF AuditSummary
<1>2. /\ u.audits = [s.audits EXCEPT ![t] = longer] /\ u.tally = [s.tally EXCEPT ![t] = counts]
      /\ u.given = s.given
  BY DEF RecordAuditIn, FileOK, State
<1>3. u \in State
  BY <1>1 DEF FileOK, State, RecordAuditIn
<1>4. TreeSame(s, u) /\ ProcessesSame(s, u) /\ MemorySame(s, u)
  BY DEF RecordAuditIn, TreeSame, ProcessesSame, MemorySame, FileOK, State
<1>5. \A g \in Tag \cup {NoTag} : counts[g] = s.tally[t][g] + (IF Bears(k, g) THEN 1 ELSE 0)
  BY AbsentValues DEF AuditSummary, Bears
<1>. HIDE DEF u
<1>6. \A x \in Topic : /\ s.given[x].audits \in Seq(SUBSET Tag) /\ StartsWith(s.audits[x], s.given[x].audits)
                       /\ s.given[x].tally \in [Tag \cup {NoTag} -> Int]
  BY <1>0, FileParts DEF TallyOK, AuditsKept, Metadata
<1>7. AuditsKept(u)
  <2>1. StartsWith(longer, s.given[t].audits)
    <3>1. s.audits[t] \in Seq(SUBSET Tag)
      BY <1>0
    <3>. DEFINE a == s.audits[t]
                b == s.given[t].audits
    <3>2. a \in Seq(SUBSET Tag) /\ b \in Seq(SUBSET Tag) /\ StartsWith(a, b)
      BY <3>1, <1>6
    <3>. HIDE DEF a, b
    <3>3. StartsWith(Append(a, k), b)
      BY <3>2 DEF StartsWith
    <3>. QED BY <3>3 DEF a, b
  <2>. HIDE DEF longer
  <2>. QED BY <2>1, <1>0, <1>2, <1>6 DEF AuditsKept
<1>8. TallyAgrees(u)
  <2>. SUFFICES ASSUME NEW x \in Topic, NEW g \in Tag \cup {NoTag}
                PROVE  u.tally[x][g] = u.given[x].tally[g]
                                         + Cardinality(Bearers(u.audits[x], g, Len(u.given[x].audits)))
    BY DEF TallyAgrees
  <2>. DEFINE from == Len(s.given[x].audits)
  <2>1. s.tally[x][g] = s.given[x].tally[g] + Cardinality(Bearers(s.audits[x], g, from))
    BY FileParts DEF TallyOK, TallyAgrees
  <2>2. CASE x = t
    <3>1. u.tally[x] = counts /\ u.audits[x] = longer
      BY <2>2, <1>0, <1>2
    <3>2. s.audits[t] \in Seq(SUBSET Tag) /\ from \in Nat /\ from <= Len(s.audits[t])
      BY <2>2, <1>0, <1>6 DEF StartsWith
    <3>3. /\ Cardinality(Bearers(s.audits[t], g, from)) \in Nat
          /\ Cardinality(Bearers(longer, g, from)) =
               Cardinality(Bearers(s.audits[t], g, from)) + (IF Bears(k, g) THEN 1 ELSE 0)
      BY <3>2, AuditCounted
    <3>4. s.given[t].tally[g] \in Int
      BY <1>6
    <3>5. counts[g] = s.given[t].tally[g] + Cardinality(Bearers(longer, g, from))
      <4>. HIDE DEF counts, longer, from
      <4>. QED BY <3>3, <3>4, <2>1, <2>2, <1>5
    <3>. QED BY <3>1, <3>5, <2>2, <1>2
  <2>3. CASE x # t
    BY <2>1, <2>3, <1>0, <1>2
  <2>. QED BY <2>2, <2>3
<1>. QED BY <1>3, <1>4, <1>7, <1>8, TreeFrame, ProcessesFrame, MemoryFrame, FileParts DEF TallyOK, u

(* An update deletes only what the node listed itself, so no other node    *)
(* loses a process.                                                        *)
LEMMA SyncOwned ==
  ASSUME NEW s, FileOK(s), NEW n \in Node, NEW items \in SUBSET Proc, NEW u,
         u.processes = (s.processes \cup items) \ (s.procs[n] \ items),
         u.procs = [s.procs EXCEPT ![n] = items],
         u.strays = s.strays \cup {i \in items : ProcOf[i] # n}
  PROVE  ProcessesOwned(u)
<1>1. s.procs \in [Node -> SUBSET Proc]
  BY DEF FileOK, State
<1>. SUFFICES ASSUME NEW m \in Node, NEW i \in u.procs[m], i \notin u.strays
              PROVE  ProcOf[i] = m /\ i \in u.processes
  BY DEF ProcessesOwned
<1>2. CASE m = n
  BY <1>1, <1>2
<1>3. CASE m # n
  <2>1. i \in s.procs[m] /\ i \notin s.strays
    BY <1>1, <1>3
  <2>2. ProcOf[i] = m /\ i \in s.processes
    BY <2>1 DEF FileOK, ProcessesOwned
  <2>3. i \notin s.procs[n]
    BY <2>1, <2>2, <1>3 DEF FileOK, ProcessesOwned
  <2>. QED BY <2>2, <2>3
<1>. QED BY <1>2, <1>3

LEMMA SyncOK ==
  ASSUME NEW s, FileOK(s), NEW n \in Node, NEW items \in SUBSET Proc
  PROVE  FileOK(SyncNodeProcesses(s, n, items))
<1>. DEFINE u == SyncNodeProcesses(s, n, items)
<1>1. u \in State
  BY DEF FileOK, State, SyncNodeProcesses
<1>2. TreeSame(s, u) /\ MemorySame(s, u) /\ TallySame(s, u)
  BY DEF SyncNodeProcesses, TreeSame, MemorySame, TallySame, FileOK, State
<1>3. /\ u.processes = (s.processes \cup items) \ (s.procs[n] \ items)
      /\ u.procs = [s.procs EXCEPT ![n] = items]
      /\ u.strays = s.strays \cup {i \in items : ProcOf[i] # n}
  BY DEF SyncNodeProcesses, FileOK, State
<1>4. ProcessesOwned(u)
  BY <1>3, SyncOwned
<1>. QED BY <1>1, <1>2, <1>4, TreeFrame, MemoryFrame, TallyFrame, FileParts

(* Versions are no part of what makes a file right.                        *)
LEMMA VersionOK ==
  ASSUME NEW s, FileOK(s), NEW f \in [Node -> Nat] PROVE FileOK([s EXCEPT !.version = f])
<1>. DEFINE u == [s EXCEPT !.version = f]
<1>1. u \in State
  BY DEF FileOK, State
<1>2. TreeSame(s, u) /\ ProcessesSame(s, u) /\ MemorySame(s, u) /\ TallySame(s, u)
  BY DEF TreeSame, ProcessesSame, MemorySame, TallySame, FileOK, State
<1>. QED BY <1>1, <1>2, TreeFrame, ProcessesFrame, MemoryFrame, TallyFrame, FileParts

(* Neither are the session identifiers that callers append.                *)
LEMMA AppendOK ==
  ASSUME NEW s, FileOK(s), NEW f \in [Node -> SUBSET Session], NEW v \in [Node -> Nat]
  PROVE  FileOK([s EXCEPT !.appended = f, !.version = v])
<1>. DEFINE u == [s EXCEPT !.appended = f, !.version = v]
<1>1. u \in State
  BY DEF FileOK, State
<1>2. TreeSame(s, u) /\ ProcessesSame(s, u) /\ MemorySame(s, u) /\ TallySame(s, u)
  BY DEF TreeSame, ProcessesSame, MemorySame, TallySame, FileOK, State
<1>. QED BY <1>1, <1>2, TreeFrame, ProcessesFrame, MemoryFrame, TallyFrame, FileParts

LEMMA UpdateNodeOK ==
  ASSUME NEW s, FileOK(s), NEW n \in Node, NEW x \in NodeUpdate
  PROVE  FileOK(UpdateNodeIn(s, n, x))
<1>. DEFINE c == IF x.itemsGiven THEN SyncNodeProcesses(s, n, x.items) ELSE s
            f == [s.appended EXCEPT ![n] = @ \cup x.sessions]
            S == {n} \cup (IF x.remembered THEN {s.parent[n]} ELSE {})
<1>1. FileOK(c)
  BY SyncOK DEF NodeUpdate
<1>2. f \in [Node -> SUBSET Session]
  BY DEF FileOK, State, NodeUpdate
<1>3. Touched(s, S) \in [Node -> Nat]
  BY TouchedType DEF FileOK
<1>4. UpdateNodeIn(s, n, x) = [c EXCEPT !.appended = f, !.version = Touched(s, S)]
  BY DEF UpdateNodeIn
<1>. HIDE DEF c, f, S
<1>5. FileOK([c EXCEPT !.appended = f, !.version = Touched(s, S)])
  BY <1>1, <1>2, <1>3, AppendOK
<1>. QED BY <1>4, <1>5, Zenon

LEMMA ReplaceMetadataType ==
  ASSUME NEW s \in State, NEW t \in Topic, NEW m \in Metadata PROVE ReplaceMetadataIn(s, t, m) \in State
<1>. DEFINE u == ReplaceMetadataIn(s, t, m)
<1>1. /\ m.allows \in SUBSET Rule /\ m.audits \in Seq(SUBSET Tag) /\ m.tally \in [Tag \cup {NoTag} -> Int]
      /\ m.proposals \in [Proposal -> Statuses] /\ m.memory \in SUBSET Proposal
  BY DEF Metadata
<1>2. /\ [s.allows EXCEPT ![t] = m.allows] \in [Topic -> SUBSET Rule]
      /\ [s.audits EXCEPT ![t] = m.audits] \in [Topic -> Seq(SUBSET Tag)]
      /\ [s.tally EXCEPT ![t] = m.tally] \in [Topic -> [Tag \cup {NoTag} -> Int]]
  BY <1>1 DEF State
<1>3. /\ [s.proposals EXCEPT ![t] = m.proposals] \in [Topic -> [Proposal -> Statuses]]
      /\ [s.memory EXCEPT ![t] = m.memory] \in [Topic -> SUBSET Proposal]
      /\ [s.given EXCEPT ![t] = m] \in [Topic -> Metadata]
      /\ [s.replaced EXCEPT ![t] = @ + 1] \in [Topic -> Nat]
  BY <1>1 DEF State
<1>4. u = [s EXCEPT !.allows = [s.allows EXCEPT ![t] = m.allows],
                    !.audits = [s.audits EXCEPT ![t] = m.audits],
                    !.tally = [s.tally EXCEPT ![t] = m.tally],
                    !.proposals = [s.proposals EXCEPT ![t] = m.proposals],
                    !.memory = [s.memory EXCEPT ![t] = m.memory],
                    !.given = [s.given EXCEPT ![t] = m],
                    !.replaced = [s.replaced EXCEPT ![t] = @ + 1]]
  BY DEF State, ReplaceMetadataIn
<1>. HIDE DEF u
<1>5. u \in State
  BY <1>2, <1>3, <1>4 DEF State
<1>. QED BY <1>5 DEF u

(* Whatever map a caller sends, the topic agrees with it.                  *)
LEMMA ReplaceMetadataOK ==
  ASSUME NEW s, FileOK(s), NEW t \in Topic, NEW m \in Metadata PROVE FileOK(ReplaceMetadataIn(s, t, m))
<1>. DEFINE u == ReplaceMetadataIn(s, t, m)
<1>0. m.audits \in Seq(SUBSET Tag) /\ m.tally \in [Tag \cup {NoTag} -> Int]
  BY DEF Metadata
<1>1. u \in State
  BY ReplaceMetadataType DEF FileOK
<1>2. TreeSame(s, u) /\ ProcessesSame(s, u)
  BY DEF ReplaceMetadataIn, TreeSame, ProcessesSame, FileOK, State
<1>3. /\ u.memory[t] = m.memory /\ u.proposals[t] = m.proposals /\ u.audits[t] = m.audits
      /\ u.tally[t] = m.tally /\ u.given[t] = m
  BY DEF FileOK, State, ReplaceMetadataIn
<1>4. \A k \in Topic \ {t} : /\ u.memory[k] = s.memory[k] /\ u.proposals[k] = s.proposals[k]
                             /\ u.audits[k] = s.audits[k] /\ u.tally[k] = s.tally[k]
                             /\ u.given[k] = s.given[k]
  BY DEF FileOK, State, ReplaceMetadataIn
<1>5. MemoryOK(s) /\ TallyOK(s)
  BY FileParts
<1>. HIDE DEF u
<1>6. MemoryOK(u)
  BY <1>3, <1>4, <1>5 DEF MemoryOK, MemoryIsApplied, ProposalsFollow
<1>7. AuditsKept(u)
  <2>1. StartsWith(m.audits, m.audits)
    BY <1>0 DEF StartsWith
  <2>. QED BY <2>1, <1>3, <1>4, <1>5 DEF TallyOK, AuditsKept
<1>8. TallyAgrees(u)
  <2>. SUFFICES ASSUME NEW k \in Topic, NEW g \in Tag \cup {NoTag}
                PROVE  u.tally[k][g] = u.given[k].tally[g]
                                         + Cardinality(Bearers(u.audits[k], g, Len(u.given[k].audits)))
    BY DEF TallyAgrees
  <2>1. CASE k = t
    <3>1. Cardinality(Bearers(m.audits, g, Len(m.audits))) = 0 /\ m.tally[g] \in Int
      BY <1>0, NothingCounted
    <3>. QED BY <2>1, <3>1, <1>3
  <2>2. CASE k # t
    BY <2>2, <1>4, <1>5 DEF TallyOK, TallyAgrees
  <2>. QED BY <2>1, <2>2
<1>. QED BY <1>1, <1>2, <1>6, <1>7, <1>8, TreeFrame, ProcessesFrame, FileParts DEF TallyOK, u

LEMMA DecideProposalOK ==
  ASSUME NEW s, FileOK(s), NEW t \in Topic, NEW q \in Proposal, NEW c \in BOOLEAN, CanDecideProposal(s, t, q)
  PROVE  FileOK(DecideProposalIn(s, t, q, c))
<1>. DEFINE u == DecideProposalIn(s, t, q, c)
            verdict == IF c THEN "applied" ELSE "rejected"
            entries == IF c THEN s.memory[t] \cup {q} ELSE s.memory[t]
<1>0. s.memory \in [Topic -> SUBSET Proposal] /\ s.proposals \in [Topic -> [Proposal -> Statuses]]
  BY DEF FileOK, State
<1>1. /\ u.memory = [s.memory EXCEPT ![t] = entries] /\ u.given = s.given
      /\ u.proposals = [s.proposals EXCEPT ![t] = [s.proposals[t] EXCEPT ![q] = verdict]]
  BY DEF FileOK, State, DecideProposalIn
<1>2. u.memory \in [Topic -> SUBSET Proposal] /\ u.proposals \in [Topic -> [Proposal -> Statuses]]
  BY <1>0, <1>1 DEF Statuses
<1>3. u \in State
  BY <1>2 DEF FileOK, State, DecideProposalIn
<1>4. TreeSame(s, u) /\ ProcessesSame(s, u) /\ TallySame(s, u)
  BY DEF DecideProposalIn, TreeSame, ProcessesSame, TallySame, FileOK, State
<1>5. MemoryOK(s) /\ s.proposals[t][q] = "pending"
  BY FileParts DEF CanDecideProposal
<1>6. s.given[t].proposals[q] \in {"absent", "pending"}
  BY <1>5 DEF MemoryOK, ProposalsFollow
<1>7. /\ u.proposals[t][q] = verdict /\ u.memory[t] = entries
      /\ \A x \in Proposal \ {q} : u.proposals[t][x] = s.proposals[t][x]
      /\ \A k \in Topic \ {t} : u.proposals[k] = s.proposals[k] /\ u.memory[k] = s.memory[k]
  BY <1>0, <1>1
<1>. HIDE DEF u
<1>8. MemoryIsApplied(u)
  <2>. SUFFICES ASSUME NEW k \in Topic
                PROVE  u.memory[k] = s.given[k].memory \cup
                         {x \in Proposal : u.proposals[k][x] = "applied" /\ s.given[k].proposals[x] # "applied"}
    BY <1>1 DEF MemoryIsApplied
  <2>1. s.memory[k] = s.given[k].memory \cup
          {x \in Proposal : s.proposals[k][x] = "applied" /\ s.given[k].proposals[x] # "applied"}
    BY <1>5 DEF MemoryOK, MemoryIsApplied
  <2>2. CASE k = t
    BY <2>1, <2>2, <1>5, <1>6, <1>7
  <2>3. CASE k # t
    BY <2>1, <2>3, <1>7
  <2>. QED BY <2>2, <2>3
<1>9. ProposalsFollow(u)
  BY <1>1, <1>5, <1>6, <1>7 DEF MemoryOK, ProposalsFollow
<1>. QED BY <1>3, <1>4, <1>8, <1>9, TreeFrame, ProcessesFrame, TallyFrame, FileParts DEF MemoryOK, u

LEMMA ApplyCompactionOK ==
  ASSUME NEW s, FileOK(s), NEW n \in s.nodes, NEW items \in SUBSET Proc,
         NEW created \in SUBSET {q \in Proposal : s.proposals[s.topicOf[n]][q] = "absent"}
  PROVE  FileOK(ApplyCompactionIn(s, n, items, created))
<1>0. n \in Node /\ s.topicOf[n] \in Topic
  BY DEF FileOK, State, TreeOK, NodesHang
<1>. DEFINE t == s.topicOf[n]
            v == SyncNodeProcesses(s, n, items)
            listed == [q \in Proposal |-> IF q \in created THEN "pending" ELSE s.proposals[t][q]]
            x == [v EXCEPT !.proposals = [s.proposals EXCEPT ![t] = listed]]
<1>1. FileOK(v)
  BY <1>0, SyncOK
<1>2. v.proposals = s.proposals /\ v.memory = s.memory /\ v.given = s.given
  BY DEF SyncNodeProcesses, FileOK, State
<1>3. s.proposals \in [Topic -> [Proposal -> Statuses]] /\ s.memory \in [Topic -> SUBSET Proposal]
  BY DEF FileOK, State
<1>4. listed \in [Proposal -> Statuses]
  <2>1. s.proposals[t] \in [Proposal -> Statuses]
    BY <1>0, <1>3
  <2>. QED BY <2>1 DEF Statuses
<1>. HIDE DEF v
<1>5. x \in State
  BY <1>1, <1>3, <1>4 DEF FileOK, State
<1>6. TreeSame(v, x) /\ ProcessesSame(v, x) /\ TallySame(v, x)
  BY <1>1 DEF TreeSame, ProcessesSame, TallySame, FileOK, State
<1>7. x.proposals = [s.proposals EXCEPT ![t] = listed] /\ x.memory = s.memory /\ x.given = s.given
  BY <1>1, <1>2 DEF FileOK, State
<1>8. MemoryOK(x)
  <2>1. MemoryOK(s)
    BY FileParts
  <2>2. /\ \A k \in Topic \ {t} : x.proposals[k] = s.proposals[k]
        /\ \A q \in Proposal : x.proposals[t][q] = IF q \in created THEN "pending" ELSE s.proposals[t][q]
    BY <1>0, <1>3, <1>7
  <2>3. \A q \in created : s.proposals[t][q] = "absent"
    OBVIOUS
  <2>. HIDE DEF x, t
  <2>4. \A k \in Topic, q \in Proposal :
           \/ x.proposals[k][q] = s.proposals[k][q]
           \/ x.proposals[k][q] = "pending" /\ s.proposals[k][q] = "absent"
    BY <2>2, <2>3
  <2>5. MemoryIsApplied(x)
    <3>1. \A k \in Topic, q \in Proposal : x.proposals[k][q] = "applied" <=> s.proposals[k][q] = "applied"
      BY <2>4
    <3>. QED BY <2>1, <3>1, <1>7 DEF MemoryOK, MemoryIsApplied
  <2>6. ProposalsFollow(x)
    BY <2>1, <2>4, <1>7 DEF MemoryOK, ProposalsFollow
  <2>. QED BY <2>5, <2>6 DEF MemoryOK
<1>9. FileOK(x)
  BY <1>1, <1>5, <1>6, <1>8, TreeFrame, ProcessesFrame, TallyFrame, FileParts
<1>10. ApplyCompactionIn(s, n, items, created) = [x EXCEPT !.version = Touched(s, {n})]
  BY <1>1, <1>2 DEF ApplyCompactionIn, v, FileOK, State
<1>. HIDE DEF x
<1>. QED BY <1>9, <1>10, VersionOK, TouchedType DEF FileOK

LEMMA CreateTopicOK ==
  ASSUME NEW s, FileOK(s), NEW t \in Topic, NEW r \in Node, NEW m \in Metadata, CanCreateTopic(s, t, r)
  PROVE  FileOK(CreateTopicIn(s, t, r, m))
<1>. DEFINE v == ReplaceMetadataIn(s, t, m)
            u == CreateTopicIn(s, t, r, m)
<1>1. FileOK(v)
  BY ReplaceMetadataOK
<1>2. /\ v.topics = s.topics /\ v.rootOf = s.rootOf /\ v.nodes = s.nodes /\ v.topicOf = s.topicOf
      /\ v.parent = s.parent /\ v.version = s.version /\ v.children = s.children
  BY DEF ReplaceMetadataIn, FileOK, State
<1>. HIDE DEF v
<1>3. u = [v EXCEPT !.topics = v.topics \cup {t}, !.rootOf = [v.rootOf EXCEPT ![t] = r],
                    !.nodes = v.nodes \cup {r}, !.topicOf = [v.topicOf EXCEPT ![r] = t],
                    !.parent = [v.parent EXCEPT ![r] = NoNode], !.version = [v.version EXCEPT ![r] = 1]]
  BY <1>2 DEF CreateTopicIn, v
<1>. HIDE DEF u
<1>4. u \in State
  BY <1>1, <1>3 DEF FileOK, State
<1>5. ProcessesSame(v, u) /\ MemorySame(v, u) /\ TallySame(v, u)
  BY <1>1, <1>3 DEF ProcessesSame, MemorySame, TallySame, FileOK, State
<1>6. /\ u.topics = v.topics \cup {t} /\ u.rootOf = [v.rootOf EXCEPT ![t] = r]
      /\ u.nodes = v.nodes \cup {r} /\ u.topicOf = [v.topicOf EXCEPT ![r] = t]
      /\ u.parent = [v.parent EXCEPT ![r] = NoNode] /\ u.children = v.children
  BY <1>1, <1>3 DEF FileOK, State
<1>7. CanCreateTopic(v, t, r)
  BY <1>2 DEF CanCreateTopic
<1>8. TreeOK(u)
  BY <1>1, <1>6, <1>7, CreateTopicTree DEF FileOK
<1>. QED BY <1>1, <1>4, <1>5, <1>8, ProcessesFrame, MemoryFrame, TallyFrame, FileParts DEF u

LEMMA CreateNodeOK ==
  ASSUME NEW s, FileOK(s), NEW t \in Topic, NEW n \in Node, NEW p \in Node, CanCreateNode(s, t, n, p)
  PROVE  FileOK(CreateNodeIn(s, t, n, p))
<1>. DEFINE u == CreateNodeIn(s, t, n, p)
<1>1. u \in State
  BY TouchedType DEF FileOK, State, CreateNodeIn
<1>2. ProcessesSame(s, u) /\ MemorySame(s, u) /\ TallySame(s, u)
  BY DEF CreateNodeIn, ProcessesSame, MemorySame, TallySame, FileOK, State
<1>3. /\ u.topics = s.topics /\ u.rootOf = s.rootOf /\ u.nodes = s.nodes \cup {n}
      /\ u.topicOf = [s.topicOf EXCEPT ![n] = t] /\ u.parent = [s.parent EXCEPT ![n] = p]
      /\ u.children = [s.children EXCEPT ![p] = @ \cup {n}]
  BY DEF CreateNodeIn, FileOK, State
<1>4. TreeOK(u)
  BY <1>3, CreateNodeTree DEF FileOK
<1>. QED BY <1>1, <1>2, <1>4, ProcessesFrame, MemoryFrame, TallyFrame, FileParts

LEMMA MoveNodeOK ==
  ASSUME NEW s, FileOK(s), NEW n \in Node, NEW p \in Node, CanMoveNode(s, n, p)
  PROVE  FileOK(MoveNodeIn(s, n, p))
<1>. DEFINE u == MoveNodeIn(s, n, p)
<1>1. u \in State
  BY TouchedType DEF FileOK, State, MoveNodeIn
<1>2. ProcessesSame(s, u) /\ MemorySame(s, u) /\ TallySame(s, u)
  BY DEF MoveNodeIn, ProcessesSame, MemorySame, TallySame, FileOK, State
<1>3. /\ u.topics = s.topics /\ u.rootOf = s.rootOf /\ u.nodes = s.nodes
      /\ u.topicOf = s.topicOf /\ u.parent = [s.parent EXCEPT ![n] = p]
  BY DEF MoveNodeIn, FileOK, State
<1>4. TreeOK(u)
  BY <1>3, MoveNodeTree DEF FileOK
<1>. QED BY <1>1, <1>2, <1>4, ProcessesFrame, MemoryFrame, TallyFrame, FileParts

(* A leaf that is not a root is nobody's parent.                           *)
LEMMA DeleteNodeOK ==
  ASSUME NEW s, FileOK(s), NEW n \in Node, CanDeleteNode(s, n) PROVE FileOK(DeleteNodeIn(s, n))
<1>. DEFINE u == DeleteNodeIn(s, n)
<1>0. /\ s.topicOf \in [Node -> Topic \cup {NoTopic}] /\ s.parent \in [Node -> Node \cup {NoNode}]
      /\ s.children \in [Node -> SUBSET Node] /\ s.procs \in [Node -> SUBSET Proc] /\ s.nodes \subseteq Node
  BY DEF FileOK, State
<1>1. u \in State
  BY TouchedType DEF FileOK, State, DeleteNodeIn
<1>2. MemorySame(s, u) /\ TallySame(s, u)
  BY DEF DeleteNodeIn, MemorySame, TallySame, FileOK, State
<1>3. /\ u.topics = s.topics /\ u.rootOf = s.rootOf /\ u.nodes = s.nodes \ {n}
      /\ u.topicOf = [s.topicOf EXCEPT ![n] = NoTopic] /\ u.parent = [s.parent EXCEPT ![n] = NoNode]
      /\ u.children = [s.children EXCEPT ![s.parent[n]] = @ \ {n}]
      /\ u.processes = s.processes /\ u.procs = [s.procs EXCEPT ![n] = {}] /\ u.strays = s.strays
  BY DEF DeleteNodeIn, FileOK, State
<1>4. ProcessesOwned(u)
  BY <1>0, <1>3 DEF ProcessesOwned, FileOK
<1>5. \A m \in s.nodes : s.parent[m] # n
  BY <1>0, AbsentValues DEF CanDeleteNode, FileOK, TreeOK, NodesHang
<1>6. \A p \in Node : u.children[p] = IF p \in {n} THEN {} ELSE s.children[p] \ {n}
  <2>1. s.parent[n] \in Node /\ s.parent[n] # n /\ s.children[n] = {}
    BY <1>0, <1>5 DEF CanDeleteNode
  <2>2. \A p \in Node : p # s.parent[n] => n \notin s.children[p]
    BY DEF FileOK, TreeOK, ChildrenAgree
  <2>3. u.children[s.parent[n]] = s.children[s.parent[n]] \ {n}
    BY <2>1, <1>0, <1>3
  <2>4. \A p \in Node : p # s.parent[n] => u.children[p] = s.children[p] /\ s.children[p] = s.children[p] \ {n}
    BY <2>2, <1>0, <1>3
  <2>. HIDE DEF u
  <2>. QED BY <2>1, <2>3, <2>4
<1>7. \A t \in s.topics : s.rootOf[t] # n
  BY DEF CanDeleteNode, FileOK, TreeOK, RootsExist
<1>8. \A m \in u.nodes : s.topicOf[m] \in s.topics
  BY <1>3 DEF FileOK, TreeOK, NodesHang
<1>9. TreeOK(u)
  <2>1. {n} \in SUBSET Node
    OBVIOUS
  <2>2. \A m \in u.nodes : /\ s.topicOf[m] \in u.topics /\ s.parent[m] \notin {n}
                           /\ u.topicOf[m] = s.topicOf[m] /\ u.parent[m] = s.parent[m]
    BY <1>0, <1>3, <1>5, <1>8
  <2>3. \A t \in u.topics : u.rootOf[t] = s.rootOf[t] /\ s.rootOf[t] \notin {n}
    BY <1>3, <1>7
  <2>. HIDE DEF u
  <2>. QED BY <2>1, <2>2, <2>3, <1>3, <1>6, RemovalTree DEF FileOK
<1>. QED BY <1>1, <1>2, <1>4, <1>9, MemoryFrame, TallyFrame, FileParts

(* The nodes of other topics name none of the topic that goes.             *)
LEMMA DeleteTopicOK ==
  ASSUME NEW s, FileOK(s), NEW t \in s.topics PROVE FileOK(DeleteTopicIn(s, t))
<1>. DEFINE u == DeleteTopicIn(s, t)
            v == ReplaceMetadataIn(s, t, NoMetadata)
            gone == {n \in s.nodes : s.topicOf[n] = t}
            Reset(f, d) == [n \in Node |-> IF n \in gone THEN d ELSE f[n]]
<1>0. /\ t \in Topic
      /\ s.topicOf \in [Node -> Topic \cup {NoTopic}] /\ s.parent \in [Node -> Node \cup {NoNode}]
      /\ s.children \in [Node -> SUBSET Node] /\ s.procs \in [Node -> SUBSET Proc] /\ s.nodes \subseteq Node
      /\ s.refs \in [Node -> SUBSET Session] /\ s.appended \in [Node -> SUBSET Session] /\ s.version \in [Node -> Nat] /\ s.topics \subseteq Topic
      /\ s.rootOf \in [Topic -> Node \cup {NoNode}]
  BY DEF FileOK, State
<1>1. FileOK(v)
  BY <1>0, ReplaceMetadataOK, NoMetadataTypes
<1>. HIDE DEF v
<1>2. u = [v EXCEPT !.topics = s.topics \ {t}, !.rootOf = [s.rootOf EXCEPT ![t] = NoNode],
                    !.nodes = s.nodes \ gone, !.topicOf = Reset(s.topicOf, NoTopic),
                    !.parent = Reset(s.parent, NoNode), !.children = Reset(s.children, {}),
                    !.version = Reset(s.version, 0), !.procs = Reset(s.procs, {}),
                    !.refs = Reset(s.refs, {}), !.appended = Reset(s.appended, {})]
  BY DEF DeleteTopicIn, v
<1>3. /\ u.topics = s.topics \ {t} /\ u.rootOf = [s.rootOf EXCEPT ![t] = NoNode]
      /\ u.nodes = s.nodes \ gone /\ u.topicOf = Reset(s.topicOf, NoTopic)
      /\ u.parent = Reset(s.parent, NoNode) /\ u.children = Reset(s.children, {})
      /\ u.procs = Reset(s.procs, {}) /\ MemorySame(v, u) /\ TallySame(v, u) /\ u.processes = v.processes
      /\ u.strays = v.strays
  BY <1>1, <1>2 DEF FileOK, State, MemorySame, TallySame
<1>4. v.processes = s.processes /\ v.strays = s.strays
  BY DEF v, ReplaceMetadataIn, FileOK, State
<1>5. u \in State
  <2>1. /\ Reset(s.topicOf, NoTopic) \in [Node -> Topic \cup {NoTopic}]
        /\ Reset(s.parent, NoNode) \in [Node -> Node \cup {NoNode}]
        /\ Reset(s.children, {}) \in [Node -> SUBSET Node] /\ Reset(s.procs, {}) \in [Node -> SUBSET Proc]
        /\ Reset(s.refs, {}) \in [Node -> SUBSET Session] /\ Reset(s.appended, {}) \in [Node -> SUBSET Session]
    BY <1>0
  <2>2. Reset(s.version, 0) \in [Node -> Nat]
    BY <1>0
  <2>3. s.topics \ {t} \in SUBSET Topic /\ s.nodes \ gone \in SUBSET Node
        /\ [s.rootOf EXCEPT ![t] = NoNode] \in [Topic -> Node \cup {NoNode}]
    BY <1>0
  <2>. HIDE DEF Reset, gone, u
  <2>. QED BY <1>1, <1>2, <2>1, <2>2, <2>3 DEF FileOK, State
<1>6. ProcessesOwned(u)
  BY <1>0, <1>3, <1>4 DEF ProcessesOwned, FileOK
<1>7. \A n \in s.nodes \ gone : s.topicOf[n] \in s.topics \ {t} /\ s.parent[n] \notin gone
  <2>. SUFFICES ASSUME NEW n \in s.nodes, s.topicOf[n] # t
                PROVE  s.topicOf[n] \in s.topics \ {t} /\ ~ (s.parent[n] \in s.nodes /\ s.topicOf[s.parent[n]] = t)
    OBVIOUS
  <2>1. s.parent[n] = NoNode => s.parent[n] \notin s.nodes
    BY <1>0, AbsentValues
  <2>2. s.parent[n] # NoNode => s.topicOf[s.parent[n]] = s.topicOf[n]
    BY DEF FileOK, TreeOK, NodesHang
  <2>. QED BY <2>1, <2>2 DEF FileOK, TreeOK, NodesHang
<1>8. \A p \in Node : p \notin gone => s.children[p] \cap gone = {}
  <2>. SUFFICES ASSUME NEW p \in Node, p \notin gone, NEW n \in s.children[p], n \in gone PROVE FALSE
    OBVIOUS
  <2>1. {n, p} \subseteq s.nodes /\ s.parent[n] = p
    BY DEF FileOK, TreeOK, ChildrenAgree
  <2>2. s.topicOf[p] = s.topicOf[n]
    BY <2>1, <1>0, AbsentValues DEF FileOK, TreeOK, NodesHang
  <2>. QED BY <2>1, <2>2
<1>9. TreeOK(u)
  <2>1. gone \in SUBSET Node /\ u.topics \subseteq s.topics
    BY <1>0, <1>3
  <2>2. \A m \in u.nodes : /\ s.topicOf[m] \in u.topics /\ s.parent[m] \notin gone
                           /\ u.topicOf[m] = s.topicOf[m] /\ u.parent[m] = s.parent[m]
    BY <1>0, <1>3, <1>7
  <2>3. \A k \in u.topics : u.rootOf[k] = s.rootOf[k] /\ s.rootOf[k] \notin gone
    BY <1>0, <1>3 DEF FileOK, TreeOK, RootsExist
  <2>4. \A p \in Node : u.children[p] = IF p \in gone THEN {} ELSE s.children[p] \ gone
    BY <1>0, <1>3, <1>8
  <2>5. u.nodes = s.nodes \ gone
    BY <1>3
  <2>. HIDE DEF u, gone, Reset
  <2>. QED BY <2>1, <2>2, <2>3, <2>4, <2>5, RemovalTree DEF FileOK
<1>. QED BY <1>1, <1>3, <1>5, <1>6, <1>9, MemoryFrame, TallyFrame, FileParts

-----------------------------------------------------------------------------
(* The file and every copy that may replace it stay right, whatever the    *)
(* writers do in between.                                                  *)
FileInv ==
  /\ FileOK(file)
  /\ rows \in SUBSET Session /\ saves \in Nat /\ deleted \in SUBSET Node /\ raced \in BOOLEAN
  /\ pc \in [Writer -> Steps] /\ copy \in [Writer -> State] /\ base \in [Writer -> Nat]
  /\ sid \in [Writer -> Session \cup {NoSession}] /\ held \in [Writer -> Reading]
  /\ \A w \in Writer :
        /\ pc[w] \in {"save", "insert"} => FileOK(copy[w])
        /\ pc[w] = "insert" => sid[w] \in Session

LEMMA EmptyStateType == EmptyState \in State
BY NoMetadataTypes DEF EmptyState, State

LEMMA NoReadingType == NoReading \in Reading
BY TasksAssumption DEF NoReading, Reading

LEMMA PrepareFile ==
  ASSUME FileInv, NEW w \in Writer, NEW c, FileOK(c), Prepare(w, c), UNCHANGED held PROVE FileInv'
BY DEF FileInv, Prepare, Goto, Steps, vosVars, FileOK

LEMMA EndOfFile ==
  ASSUME FileInv, NEW w \in Writer, EndOf(w), FileOK(file'),
         rows' \in SUBSET Session, saves' \in Nat, deleted' \in SUBSET Node, raced' \in BOOLEAN
  PROVE  FileInv'
BY EmptyStateType, NoReadingType DEF FileInv, EndOf, Goto, Steps

(* What an operation that starts and ends without an agent makes of the    *)
(* file.                                                                   *)
LEMMA OperationFile ==
  ASSUME FileInv, NEW w \in Writer, NEW c, FileOK(c), Operation(w, c) PROVE FileInv'
BY PrepareFile DEF Operation

LEMMA FileStep == FileInv /\ [Next]_vars => FileInv'
<1>. SUFFICES ASSUME FileInv, [Next]_vars PROVE FileInv'
  OBVIOUS
<1>0. FileOK(file) /\ file.nodes \subseteq Node /\ file.topics \subseteq Topic
  BY DEF FileInv, FileOK, State
<1>1. CASE UNCHANGED vars
  BY <1>1 DEF FileInv, vars, vosVars, writerVars
<1>2. ASSUME NEW w \in Writer, CreateTopic(w) PROVE FileInv'
  BY <1>2, <1>0, OperationFile, CreateTopicOK, CallerAssumption DEF CreateTopic
<1>3. ASSUME NEW w \in Writer, UpdateTopic(w) PROVE FileInv'
  BY <1>3, <1>0, OperationFile, ReplaceMetadataOK, CallerAssumption DEF UpdateTopic
<1>4. ASSUME NEW w \in Writer, DeleteTopic(w) PROVE FileInv'
  BY <1>4, <1>0, OperationFile, DeleteTopicOK DEF DeleteTopic
<1>5. ASSUME NEW w \in Writer, CreateNode(w) PROVE FileInv'
  BY <1>5, <1>0, OperationFile, CreateNodeOK DEF CreateNode
<1>6. ASSUME NEW w \in Writer, MoveNode(w) PROVE FileInv'
  BY <1>6, <1>0, OperationFile, MoveNodeOK DEF MoveNode
<1>7. ASSUME NEW w \in Writer, DeleteNode(w) PROVE FileInv'
  BY <1>7, <1>0, OperationFile, DeleteNodeOK DEF DeleteNode
<1>8. ASSUME NEW w \in Writer, UpdateNode(w) PROVE FileInv'
  BY <1>8, <1>0, OperationFile, UpdateNodeOK, CallerAssumption DEF UpdateNode
<1>9. ASSUME NEW w \in Writer, UpdateExpected(w) PROVE FileInv'
  <2>1. PICK x \in CallerUpdates : Prepare(w, UpdateNodeIn(file, held[w].node, x))
    BY <1>9 DEF UpdateExpected
  <2>2. held[w].node \in Node /\ x \in NodeUpdate
    BY <1>9, <1>0, CallerAssumption DEF UpdateExpected
  <2>3. FileOK(UpdateNodeIn(file, held[w].node, x))
    BY <1>0, <2>2, UpdateNodeOK
  <2>. QED BY <1>9, <2>1, <2>3, PrepareFile DEF UpdateExpected
<1>10. ASSUME NEW w \in Writer, ToolPermission(w) PROVE FileInv'
  BY <1>10, <1>0, OperationFile, PermissionOK DEF ToolPermission
<1>11. ASSUME NEW w \in Writer, SkillPermission(w) PROVE FileInv'
  <2>1. PICK k \in Rule : \/ Operation(w, AddSkillPermissionIn(file, k))
                          \/ Operation(w, DeleteSkillPermissionIn(file, k))
    BY <1>11 DEF SkillPermission
  <2>2. FileOK(AddSkillPermissionIn(file, k)) /\ FileOK(DeleteSkillPermissionIn(file, k))
    BY <1>0, SkillOK
  <2>. QED BY <2>1, <2>2, OperationFile
<1>12. ASSUME NEW w \in Writer, RecordAudit(w) PROVE FileInv'
  BY <1>12, <1>0, OperationFile, RecordAuditOK, AuditedAssumption DEF RecordAudit
<1>13. ASSUME NEW w \in Writer, DecideProposal(w) PROVE FileInv'
  BY <1>13, <1>0, OperationFile, DecideProposalOK DEF DecideProposal
<1>14. ASSUME NEW w \in Writer, CreateSession(w) PROVE FileInv'
  <2>1. PICK n \in file.nodes, x \in Session : /\ Goto(w, "insert")
                                               /\ copy' = [copy EXCEPT ![w] = AddSessionIn(file, n, x)]
                                               /\ base' = [base EXCEPT ![w] = saves]
                                               /\ sid' = [sid EXCEPT ![w] = x]
                                               /\ UNCHANGED <<vosVars, held>>
    BY <1>14 DEF CreateSession
  <2>2. FileOK(AddSessionIn(file, n, x))
    BY <1>0, AddSessionOK
  <2>. QED BY <2>1, <2>2 DEF FileInv, Goto, Steps, vosVars, FileOK
<1>15. ASSUME NEW w \in Writer, InsertSession(w) PROVE FileInv'
  BY <1>15 DEF InsertSession, FileInv, Goto, Steps
<1>16. ASSUME NEW w \in Writer, InsertDuplicate(w) PROVE FileInv'
  BY <1>16, EndOfFile DEF InsertDuplicate, FileInv, vosVars
<1>17. ASSUME NEW w \in Writer, DeleteSession(w) PROVE FileInv'
  BY <1>17, EndOfFile DEF DeleteSession, FileInv
<1>18. ASSUME NEW w \in Writer, Save(w) PROVE FileInv'
  <2>1. FileOK(file') /\ rows' \in SUBSET Session /\ saves' \in Nat /\ deleted' \in SUBSET Node
        /\ raced' \in BOOLEAN
    BY <1>18, <1>0 DEF Save, FileInv
  <2>2. CASE EndOf(w)
    BY <2>1, <2>2, EndOfFile
  <2>3. CASE ~ EndOf(w)
    BY <2>1, <2>3, <1>18, EmptyStateType DEF Save, FileInv, Goto, Steps
  <2>. QED BY <2>2, <2>3
<1>19. ASSUME NEW w \in Writer, SaveFails(w) PROVE FileInv'
  <2>2. CASE EndOf(w)
    BY <1>19, <2>2, EndOfFile DEF SaveFails, FileInv, vosVars
  <2>3. CASE ~ EndOf(w)
    BY <2>3, <1>19, EmptyStateType DEF SaveFails, FileInv, Goto, Steps, vosVars
  <2>. QED BY <2>2, <2>3
<1>20. ASSUME NEW w \in Writer, GetNode(w) PROVE FileInv'
  <2>1. PICK n \in file.nodes : /\ Goto(w, "read")
                                /\ held' = [held EXCEPT ![w] = [node |-> n, topic |-> file.topicOf[n],
                                       version |-> file.version[n], procs |-> {}, refs |-> {}, appended |-> {}, tasks |-> 0]]
                                /\ UNCHANGED <<vosVars, copy, base, sid>>
    BY <1>20 DEF GetNode
  <2>2. n \in Node /\ file.topicOf[n] \in Topic \cup {NoTopic} /\ file.version[n] \in Nat
    BY <1>0 DEF FileOK, State
  <2>. DEFINE r == [node |-> n, topic |-> file.topicOf[n], version |-> file.version[n], procs |-> {},
                   refs |-> {}, appended |-> {}, tasks |-> 0]
  <2>4. r \in Reading
    BY <2>2, TasksAssumption DEF Reading
  <2>5. held' = [held EXCEPT ![w] = r]
    BY <2>1
  <2>. HIDE DEF r
  <2>. QED BY <2>1, <2>4, <2>5 DEF FileInv, Goto, Steps, vosVars
<1>21. ASSUME NEW w \in Writer, GetContextSnapshot(w) PROVE FileInv'
  <2>1. file.refs[held[w].node] \subseteq Session /\ file.appended[held[w].node] \subseteq Session
    BY <1>21, <1>0 DEF GetContextSnapshot, FileOK, State
  <2>2. held'[w] \in Reading
    BY <1>21, <2>1 DEF GetContextSnapshot, FileInv, Reading
  <2>. QED BY <1>21, <2>2 DEF GetContextSnapshot, FileInv, Goto, Steps, vosVars
<1>22. ASSUME NEW w \in Writer, ListNodeProcesses(w) PROVE FileInv'
  <2>1. ListedProcesses(held[w].node) \subseteq Proc
    BY <1>22, <1>0 DEF ListNodeProcesses, ListedProcesses, FileOK, State
  <2>2. held'[w] \in Reading
    BY <1>22, <2>1 DEF ListNodeProcesses, FileInv, Reading
  <2>. QED BY <1>22, <2>2 DEF ListNodeProcesses, FileInv, Goto, Steps, vosVars
<1>23. ASSUME NEW w \in Writer, ApplyCompactionResults(w) PROVE FileInv'
  <2>1. PICK created \in SUBSET {q \in Proposal : file.proposals[file.topicOf[held[w].node]][q] = "absent"} :
           Prepare(w, ApplyCompactionIn(file, held[w].node, held[w].procs, created))
    BY <1>23 DEF ApplyCompactionResults
  <2>2. FileOK(ApplyCompactionIn(file, held[w].node, held[w].procs, created))
    BY <1>23, <1>0, ApplyCompactionOK DEF ApplyCompactionResults, FileInv, Reading
  <2>. QED BY <1>23, <2>1, <2>2, PrepareFile DEF ApplyCompactionResults
<1>24. ASSUME NEW w \in Writer, DecomposeAnswer(w) PROVE FileInv'
  <2>. DEFINE r == [held[w] EXCEPT !.tasks = Tasks]
  <2>1. held[w] \in Reading
    BY DEF FileInv
  <2>2. r \in Reading
    BY <2>1, TasksAssumption DEF Reading
  <2>3. /\ pc' = [pc EXCEPT ![w] = "tasks"] /\ held' = [held EXCEPT ![w] = r]
        /\ UNCHANGED <<vosVars, copy, base, sid>>
    BY <1>24 DEF DecomposeAnswer, Goto
  <2>. HIDE DEF r
  <2>. QED BY <2>2, <2>3 DEF FileInv, Steps, vosVars
<1>25. ASSUME NEW w \in Writer, CreateTaskNode(w) PROVE FileInv'
  <2>1. PICK n \in Node : /\ CanCreateNode(file, held[w].topic, n, held[w].node)
                          /\ Prepare(w, CreateNodeIn(file, held[w].topic, n, held[w].node))
    BY <1>25 DEF CreateTaskNode
  <2>2. held[w].topic \in Topic /\ held[w].node \in Node
    BY <2>1, <1>0 DEF CanCreateNode
  <2>3. FileOK(CreateNodeIn(file, held[w].topic, n, held[w].node))
    BY <1>0, <2>1, <2>2, CreateNodeOK
  <2>5. held[w] \in Reading /\ held[w].tasks \in 0..Tasks /\ held[w].tasks > 0
        /\ held' = [held EXCEPT ![w] = [held[w] EXCEPT !.tasks = held[w].tasks - 1]]
    BY <1>25 DEF CreateTaskNode, FileInv, Reading
  <2>6. held[w].tasks - 1 \in 0..Tasks
    BY <2>5, TasksAssumption
  <2>4. held'[w] \in Reading
    BY <2>5, <2>6 DEF FileInv, Reading
  <2>. QED BY <1>25, <2>1, <2>3, <2>4 DEF CreateTaskNode, FileInv, Prepare, Goto, Steps, vosVars, FileOK
<1>26. ASSUME NEW w \in Writer, Fail(w) \/ Crash(w) PROVE FileInv'
  BY <1>26, EndOfFile DEF Fail, Crash, FileInv, vosVars
<1>27. CASE Next
  <2>1. PICK w \in Writer : Step(w)
    BY <1>27 DEF Next
  <2>. QED BY <2>1, <1>2, <1>3, <1>4, <1>5, <1>6, <1>7, <1>8, <1>9, <1>10, <1>11, <1>12, <1>13, <1>14, <1>15,
              <1>16, <1>17, <1>18, <1>19, <1>20, <1>21, <1>22, <1>23, <1>24, <1>25, <1>26 DEF Step
<1>. QED BY <1>1, <1>27

LEMMA FileAlways == Spec => []FileInv
<1>1. Init => FileInv
  <2>. SUFFICES ASSUME Init PROVE FileInv
    OBVIOUS
  <2>1. FileOK(file) /\ raced \in BOOLEAN
    BY InitialFilesValid DEF Init
  <2>2. /\ pc \in [Writer -> Steps] /\ copy \in [Writer -> State] /\ base \in [Writer -> Nat]
        /\ sid \in [Writer -> Session \cup {NoSession}] /\ held \in [Writer -> Reading]
    BY EmptyStateType, NoReadingType DEF Init, Steps
  <2>3. \A w \in Writer : pc[w] = "idle"
    BY DEF Init
  <2>. QED BY <2>1, <2>2, <2>3 DEF Init, FileInv
<1>. QED BY <1>1, FileStep, PTL DEF Spec

(* The types of the file, of the database and of what the requests hold.   *)
THEOREM VosTypes == Spec => []TypeOK
<1>1. FileInv => TypeOK
  BY DEF FileInv, FileOK, TypeOK
<1>. QED BY <1>1, FileAlways, PTL

(* Every file that is ever on disk holds a tree: requests that load, check *)
(* and save without a lock can undo each other, but not tear it.           *)
THEOREM TreeStaysWellFormed == Spec => []TreeWellFormed
<1>1. FileInv => TreeWellFormed
  BY DEF FileInv, FileOK, TreeWellFormed
<1>. QED BY <1>1, FileAlways, PTL

(* What is written together agrees in every file that is ever on disk,     *)
(* whatever maps callers send for their topics: since the last of them, no *)
(* save mixes the audits of one request with the summary of another, or a  *)
(* decision with the topic memory of before it.                            *)
THEOREM MetadataStaysAgreed == Spec => []MetadataAgrees
<1>1. FileInv => MetadataAgrees
  BY DEF FileInv, FileOK, MetadataAgrees
<1>. QED BY <1>1, FileAlways, PTL

=============================================================================
