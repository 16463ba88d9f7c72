-------------------------- MODULE VosVersionProofs --------------------------
(***************************************************************************)
(* Versions of VosService: what a save that met no other save may change.  *)
(***************************************************************************)
EXTENDS VosServiceProofs

(* The metadata of every topic is as it was, or topic t was given m.       *)
MetadataSame(s, u) ==
  /\ u.audits = s.audits /\ u.proposals = s.proposals /\ u.memory = s.memory
  /\ u.given = s.given /\ u.replaced = s.replaced

MetadataGiven(s, u, t, m) ==
  /\ u.allows = [s.allows EXCEPT ![t] = m.allows] /\ u.audits = [s.audits EXCEPT ![t] = m.audits]
  /\ u.tally = [s.tally EXCEPT ![t] = m.tally] /\ u.proposals = [s.proposals EXCEPT ![t] = m.proposals]
  /\ u.memory = [s.memory EXCEPT ![t] = m.memory] /\ u.given = [s.given EXCEPT ![t] = m]
  /\ u.replaced = [s.replaced EXCEPT ![t] = s.replaced[t] + 1]

LEMMA StartsWithItself == ASSUME NEW S, NEW a \in Seq(S) PROVE StartsWith(a, a)
<1>1. Len(a) <= Len(a)
  OBVIOUS
<1>. QED BY <1>1 DEF StartsWith

LEMMA SameMetadata ==
  ASSUME NEW s \in State, NEW u, MetadataSame(s, u), NEW t \in Topic PROVE MetadataAdvances(s, u, t)
<1>1. s.audits[t] \in Seq(SUBSET Tag)
  BY DEF State
<1>2. StartsWith(s.audits[t], s.audits[t])
  BY <1>1, StartsWithItself
<1>. QED BY <1>2 DEF MetadataAdvances, MetadataSame

LEMMA GivenMetadata ==
  ASSUME NEW s \in State, NEW u, NEW t \in Topic, NEW m \in Metadata, MetadataGiven(s, u, t, m), NEW k \in Topic
  PROVE  MetadataAdvances(s, u, k)
<1>1. CASE k = t
  <2>1. MetadataOf(u, t) = m /\ u.given[t] = m
    BY DEF MetadataGiven, MetadataOf, Metadata, State
  <2>2. s.replaced[t] \in Nat /\ u.replaced[t] = s.replaced[t] + 1
    BY DEF MetadataGiven, State
  <2>. QED BY <1>1, <2>1, <2>2 DEF MetadataAdvances
<1>2. CASE k # t
  <2>1. /\ u.audits[k] = s.audits[k] /\ u.proposals[k] = s.proposals[k] /\ u.memory[k] = s.memory[k]
        /\ u.given[k] = s.given[k] /\ u.replaced[k] = s.replaced[k]
    BY <1>2 DEF MetadataGiven, State
  <2>2. s.audits[k] \in Seq(SUBSET Tag)
    BY DEF State
  <2>3. StartsWith(s.audits[k], s.audits[k])
    BY <2>2, StartsWithItself
  <2>. QED BY <2>1, <2>3 DEF MetadataAdvances
<1>. QED BY <1>1, <1>2

LEMMA AdvancesParts ==
  ASSUME NEW s, NEW u, \A t \in Topic : MetadataAdvances(s, u, t), s.strays \subseteq u.strays,
         \A n \in s.nodes \cap u.nodes : RowAdvances(s, u, n)
  PROVE  Advances(s, u)
BY DEF Advances

LEMMA SameRow ==
  ASSUME NEW s, NEW u, NEW n, u.version[n] = s.version[n], u.topicOf[n] = s.topicOf[n],
         u.parent[n] = s.parent[n], u.children[n] = s.children[n], u.procs[n] = s.procs[n],
         u.refs[n] = s.refs[n], u.appended[n] = s.appended[n]
  PROVE  RowAdvances(s, u, n)
BY DEF RowAdvances, NodeRow

NodesSame(s, u) ==
  /\ u.version = s.version /\ u.topicOf = s.topicOf /\ u.parent = s.parent /\ u.children = s.children
  /\ u.procs = s.procs /\ u.refs = s.refs /\ u.appended = s.appended /\ u.strays = s.strays

LEMMA SameNodes ==
  ASSUME NEW s, NEW u, NodesSame(s, u), \A t \in Topic : MetadataAdvances(s, u, t)
  PROVE  Advances(s, u)
BY AdvancesParts, SameRow DEF NodesSame

LEMMA TouchedVersion ==
  ASSUME NEW s \in State, NEW S, NEW n \in Node
  PROVE  Touched(s, S)[n] = s.version[n] + (IF n \in S THEN 1 ELSE 0) /\ s.version[n] \in Nat
BY DEF Touched, State

-----------------------------------------------------------------------------
LEMMA CreateTopicAdvances ==
  ASSUME NEW s \in State, NEW t \in Topic, NEW r \in Node, NEW m \in Metadata, CanCreateTopic(s, t, r)
  PROVE  Advances(s, CreateTopicIn(s, t, r, m))
<1>. DEFINE u == CreateTopicIn(s, t, r, m)
<1>1. /\ u.topicOf = [s.topicOf EXCEPT ![r] = t] /\ u.parent = [s.parent EXCEPT ![r] = NoNode]
      /\ u.version = [s.version EXCEPT ![r] = 1] /\ u.children = s.children /\ u.procs = s.procs
      /\ u.refs = s.refs /\ u.appended = s.appended /\ u.strays = s.strays
  BY DEF CreateTopicIn, ReplaceMetadataIn, State
<1>0. MetadataGiven(s, u, t, m)
  BY DEF MetadataGiven, CreateTopicIn, ReplaceMetadataIn, State
<1>. HIDE DEF u
<1>2. ASSUME NEW n \in s.nodes PROVE RowAdvances(s, u, n)
  <2>1. n # r /\ n \in Node
    BY DEF CanCreateTopic, State
  <2>. QED BY <1>1, <2>1, SameRow DEF State
<1>. QED BY <1>0, <1>1, <1>2, AdvancesParts, GivenMetadata DEF u

LEMMA ReplaceMetadataAdvances ==
  ASSUME NEW s \in State, NEW t \in Topic, NEW m \in Metadata PROVE Advances(s, ReplaceMetadataIn(s, t, m))
<1>. DEFINE u == ReplaceMetadataIn(s, t, m)
<1>1. NodesSame(s, u)
  BY DEF NodesSame, ReplaceMetadataIn, State
<1>2. MetadataGiven(s, u, t, m)
  BY DEF MetadataGiven, ReplaceMetadataIn, State
<1>. HIDE DEF u
<1>. QED BY <1>1, <1>2, SameNodes, GivenMetadata DEF u

LEMMA DeleteTopicAdvances ==
  ASSUME NEW s \in State, NEW t \in Topic PROVE Advances(s, DeleteTopicIn(s, t))
<1>. DEFINE v == ReplaceMetadataIn(s, t, NoMetadata)
            gone == {n \in s.nodes : s.topicOf[n] = t}
            Reset(f, d) == [n \in Node |-> IF n \in gone THEN d ELSE f[n]]
            u == DeleteTopicIn(s, t)
<1>1. v \in State /\ v.strays = s.strays
  <2>1. v \in State
    BY ReplaceMetadataType, NoMetadataTypes
  <2>2. v.strays = s.strays
    BY DEF ReplaceMetadataIn, State
  <2>. QED BY <2>1, <2>2
<1>2. MetadataGiven(s, v, t, NoMetadata)
  BY DEF MetadataGiven, ReplaceMetadataIn, State
<1>. HIDE DEF v
<1>3. u = [v EXCEPT !.topics = s.topics \ {t}, !.rootOf = [s.rootOf EXCEPT ![t] = NoNode],
                    !.nodes = s.nodes \ gone, !.topicOf = Reset(s.topicOf, NoTopic),
                    !.parent = Reset(s.parent, NoNode), !.children = Reset(s.children, {}),
                    !.version = Reset(s.version, 0), !.procs = Reset(s.procs, {}),
                    !.refs = Reset(s.refs, {}), !.appended = Reset(s.appended, {})]
  BY DEF DeleteTopicIn, v
<1>4. /\ u.nodes = s.nodes \ gone /\ u.topicOf = Reset(s.topicOf, NoTopic)
      /\ u.parent = Reset(s.parent, NoNode) /\ u.children = Reset(s.children, {})
      /\ u.version = Reset(s.version, 0) /\ u.procs = Reset(s.procs, {}) /\ u.refs = Reset(s.refs, {})
      /\ u.appended = Reset(s.appended, {}) /\ u.strays = s.strays
  BY <1>1, <1>3 DEF State
<1>5. MetadataGiven(s, u, t, NoMetadata)
  <2>1. /\ u.allows = v.allows /\ u.audits = v.audits /\ u.tally = v.tally /\ u.proposals = v.proposals
        /\ u.memory = v.memory /\ u.given = v.given /\ u.replaced = v.replaced
    BY <1>1, <1>3 DEF State
  <2>. HIDE DEF u
  <2>. QED BY <1>2, <2>1 DEF MetadataGiven
<1>. HIDE DEF u
<1>6. \A n \in s.nodes \cap u.nodes : RowAdvances(s, u, n)
  <2>. SUFFICES ASSUME NEW n \in s.nodes \ gone PROVE RowAdvances(s, u, n)
    BY <1>4
  <2>1. n \in Node
    BY DEF State
  <2>. QED BY <1>4, <2>1, SameRow
<1>7. \A k \in Topic : MetadataAdvances(s, u, k)
  BY <1>5, NoMetadataTypes, GivenMetadata
<1>. QED BY <1>4, <1>6, <1>7, AdvancesParts DEF u

LEMMA CreateNodeAdvances ==
  ASSUME NEW s \in State, NEW t \in Topic, NEW n \in Node, NEW p \in Node, CanCreateNode(s, t, n, p)
  PROVE  Advances(s, CreateNodeIn(s, t, n, p))
<1>. DEFINE u == CreateNodeIn(s, t, n, p)
<1>1. /\ u.topicOf = [s.topicOf EXCEPT ![n] = t] /\ u.parent = [s.parent EXCEPT ![n] = p]
      /\ u.version = [Touched(s, {p}) EXCEPT ![n] = 1]
      /\ u.children = [s.children EXCEPT ![p] = s.children[p] \cup {n}] /\ u.procs = s.procs
      /\ u.refs = s.refs /\ u.appended = s.appended /\ u.strays = s.strays
  BY DEF CreateNodeIn, State
<1>3. MetadataSame(s, u)
  BY DEF MetadataSame, CreateNodeIn, State
<1>. HIDE DEF u
<1>2. ASSUME NEW m \in s.nodes PROVE RowAdvances(s, u, m)
  <2>1. m # n /\ m \in Node
    BY DEF CanCreateNode, State
  <2>2. u.version[m] = s.version[m] + (IF m = p THEN 1 ELSE 0) /\ s.version[m] \in Nat
    BY <1>1, <2>1, TouchedVersion, TouchedType
  <2>3. CASE m = p
    BY <2>2, <2>3 DEF RowAdvances
  <2>4. CASE m # p
    <3>1. /\ u.topicOf[m] = s.topicOf[m] /\ u.parent[m] = s.parent[m]
          /\ u.children[m] = s.children[m] /\ u.procs[m] = s.procs[m] /\ u.refs[m] = s.refs[m]
          /\ u.appended[m] = s.appended[m]
      BY <1>1, <2>1, <2>4 DEF State
    <3>2. u.version[m] = s.version[m]
      BY <2>2, <2>4
    <3>. QED BY <3>1, <3>2, SameRow
  <2>. QED BY <2>3, <2>4
<1>. QED BY <1>1, <1>2, <1>3, AdvancesParts, SameMetadata DEF u

LEMMA MoveNodeAdvances ==
  ASSUME NEW s \in State, NEW n \in Node, NEW p \in Node PROVE Advances(s, MoveNodeIn(s, n, p))
<1>. DEFINE u == MoveNodeIn(s, n, p)
            S == {n, p, s.parent[n]}
<1>1. /\ u.topicOf = s.topicOf /\ u.parent = [s.parent EXCEPT ![n] = p] /\ u.version = Touched(s, S)
      /\ u.children = [m \in Node |-> CASE m = p -> s.children[m] \cup {n}
                                        [] m = s.parent[n] -> s.children[m] \ {n}
                                        [] OTHER -> s.children[m]]
      /\ u.procs = s.procs /\ u.refs = s.refs /\ u.appended = s.appended /\ u.strays = s.strays
  BY DEF MoveNodeIn, State
<1>3. MetadataSame(s, u)
  BY DEF MetadataSame, MoveNodeIn, State
<1>. HIDE DEF u
<1>2. ASSUME NEW m \in s.nodes PROVE RowAdvances(s, u, m)
  <2>1. m \in Node
    BY DEF State
  <2>2. u.version[m] = s.version[m] + (IF m \in S THEN 1 ELSE 0) /\ s.version[m] \in Nat
    BY <1>1, <2>1, TouchedVersion
  <2>3. CASE m \in S
    BY <2>2, <2>3 DEF RowAdvances
  <2>4. CASE m \notin S
    <3>1. u.children[m] = s.children[m] /\ u.parent[m] = s.parent[m]
      BY <1>1, <2>1, <2>4 DEF State
    <3>2. u.version[m] = s.version[m]
      BY <2>2, <2>4
    <3>. QED BY <1>1, <3>1, <3>2, SameRow
  <2>. QED BY <2>3, <2>4
<1>. QED BY <1>1, <1>2, <1>3, AdvancesParts, SameMetadata DEF u

LEMMA DeleteNodeAdvances ==
  ASSUME NEW s \in State, NEW n \in Node PROVE Advances(s, DeleteNodeIn(s, n))
<1>. DEFINE u == DeleteNodeIn(s, n)
            p == s.parent[n]
<1>1. /\ u.nodes = s.nodes \ {n} /\ u.topicOf = [s.topicOf EXCEPT ![n] = NoTopic]
      /\ u.parent = [s.parent EXCEPT ![n] = NoNode] /\ u.version = [Touched(s, {p}) EXCEPT ![n] = 0]
      /\ u.children = [s.children EXCEPT ![p] = s.children[p] \ {n}]
      /\ u.procs = [s.procs EXCEPT ![n] = {}] /\ u.refs = [s.refs EXCEPT ![n] = {}]
      /\ u.appended = [s.appended EXCEPT ![n] = {}] /\ u.strays = s.strays
  BY DEF DeleteNodeIn, State
<1>3. MetadataSame(s, u)
  BY DEF MetadataSame, DeleteNodeIn, State
<1>. HIDE DEF u, p
<1>2. \A m \in s.nodes \cap u.nodes : RowAdvances(s, u, m)
  <2>. SUFFICES ASSUME NEW m \in s.nodes, m # n PROVE RowAdvances(s, u, m)
    BY <1>1
  <2>1. m \in Node
    BY DEF State
  <2>2. u.version[m] = s.version[m] + (IF m = p THEN 1 ELSE 0) /\ s.version[m] \in Nat
    BY <1>1, <2>1, TouchedVersion, TouchedType
  <2>3. CASE m = p
    BY <2>2, <2>3 DEF RowAdvances
  <2>4. CASE m # p
    <3>1. /\ u.topicOf[m] = s.topicOf[m] /\ u.parent[m] = s.parent[m]
          /\ u.children[m] = s.children[m] /\ u.procs[m] = s.procs[m] /\ u.refs[m] = s.refs[m]
          /\ u.appended[m] = s.appended[m]
      BY <1>1, <2>1, <2>4 DEF State
    <3>2. u.version[m] = s.version[m]
      BY <2>2, <2>4
    <3>. QED BY <3>1, <3>2, SameRow
  <2>. QED BY <2>3, <2>4
<1>. QED BY <1>1, <1>2, <1>3, AdvancesParts, SameMetadata DEF u

LEMMA UpdateNodeAdvances ==
  ASSUME NEW s \in State, NEW n \in Node, NEW x \in NodeUpdate
  PROVE  Advances(s, UpdateNodeIn(s, n, x))
<1>. DEFINE c == IF x.itemsGiven THEN SyncNodeProcesses(s, n, x.items) ELSE s
            u == UpdateNodeIn(s, n, x)
            S == {n} \cup (IF x.remembered THEN {s.parent[n]} ELSE {})
<1>1. /\ c.topicOf = s.topicOf /\ c.parent = s.parent /\ c.children = s.children /\ c.refs = s.refs
      /\ \A k \in Node \ {n} : c.procs[k] = s.procs[k]
      /\ s.strays \subseteq c.strays /\ MetadataSame(s, c)
  BY DEF SyncNodeProcesses, MetadataSame, State
<1>2. c = [topics |-> c.topics, rootOf |-> c.rootOf, nodes |-> c.nodes, topicOf |-> c.topicOf,
           parent |-> c.parent, children |-> c.children, version |-> c.version, procs |-> c.procs,
           refs |-> c.refs, appended |-> c.appended, processes |-> c.processes, skills |-> c.skills,
           allows |-> c.allows, audits |-> c.audits, tally |-> c.tally, proposals |-> c.proposals,
           memory |-> c.memory, given |-> c.given, replaced |-> c.replaced, strays |-> c.strays]
  BY DEF SyncNodeProcesses, State
<1>3. u = [c EXCEPT !.appended = [s.appended EXCEPT ![n] = @ \cup x.sessions], !.version = Touched(s, S)]
  BY DEF UpdateNodeIn
<1>. HIDE DEF c, u, S
<1>4. /\ u.topicOf = s.topicOf /\ u.parent = s.parent /\ u.version = Touched(s, S)
      /\ u.children = s.children /\ u.refs = s.refs
      /\ u.appended = [s.appended EXCEPT ![n] = s.appended[n] \cup x.sessions]
      /\ s.strays \subseteq u.strays /\ \A k \in Node \ {n} : u.procs[k] = s.procs[k]
  BY <1>1, <1>2, <1>3
<1>5. MetadataSame(s, u)
  BY <1>1, <1>2, <1>3 DEF MetadataSame
<1>6. ASSUME NEW k \in s.nodes PROVE RowAdvances(s, u, k)
  <2>1. k \in Node
    BY DEF State
  <2>2. u.version[k] = s.version[k] + (IF k \in S THEN 1 ELSE 0) /\ s.version[k] \in Nat
    BY <1>4, <2>1, TouchedVersion
  <2>3. CASE k \in S
    BY <2>2, <2>3 DEF RowAdvances
  <2>4. CASE k \notin S
    <3>1. u.procs[k] = s.procs[k] /\ u.appended[k] = s.appended[k]
      BY <1>4, <2>1, <2>4 DEF State, S
    <3>2. u.version[k] = s.version[k]
      BY <2>2, <2>4
    <3>. QED BY <1>4, <3>1, <3>2, SameRow
  <2>. QED BY <2>3, <2>4
<1>. QED BY <1>4, <1>5, <1>6, AdvancesParts, SameMetadata DEF u

LEMMA AddSessionAdvances ==
  ASSUME NEW s \in State, NEW n \in Node, NEW x PROVE Advances(s, AddSessionIn(s, n, x))
<1>. DEFINE u == AddSessionIn(s, n, x)
<1>1. /\ u.topicOf = s.topicOf /\ u.parent = s.parent /\ u.version = Touched(s, {n})
      /\ u.children = s.children /\ u.procs = s.procs
      /\ u.refs = [s.refs EXCEPT ![n] = s.refs[n] \cup {x}] /\ u.appended = s.appended
      /\ u.strays = s.strays
  BY DEF AddSessionIn, State
<1>3. MetadataSame(s, u)
  BY DEF MetadataSame, AddSessionIn, State
<1>. HIDE DEF u
<1>2. ASSUME NEW k \in s.nodes PROVE RowAdvances(s, u, k)
  <2>1. k \in Node
    BY DEF State
  <2>2. u.version[k] = s.version[k] + (IF k = n THEN 1 ELSE 0) /\ s.version[k] \in Nat
    BY <1>1, <2>1, TouchedVersion
  <2>3. CASE k = n
    BY <2>2, <2>3 DEF RowAdvances
  <2>4. CASE k # n
    <3>1. /\ u.topicOf[k] = s.topicOf[k] /\ u.parent[k] = s.parent[k]
          /\ u.children[k] = s.children[k] /\ u.procs[k] = s.procs[k] /\ u.refs[k] = s.refs[k]
          /\ u.appended[k] = s.appended[k]
      BY <1>1, <2>1, <2>4 DEF State
    <3>2. u.version[k] = s.version[k]
      BY <2>2, <2>4
    <3>. QED BY <3>1, <3>2, SameRow
  <2>. QED BY <2>3, <2>4
<1>. QED BY <1>1, <1>2, <1>3, AdvancesParts, SameMetadata DEF u

LEMMA ApplyCompactionAdvances ==
  ASSUME NEW s \in State, NEW n \in s.nodes, NEW items, s.topicOf[n] \in Topic,
         NEW created \in SUBSET {q \in Proposal : s.proposals[s.topicOf[n]][q] = "absent"}
  PROVE  Advances(s, ApplyCompactionIn(s, n, items, created))
<1>. DEFINE u == ApplyCompactionIn(s, n, items, created)
            t == s.topicOf[n]
<1>1. /\ u.topicOf = s.topicOf /\ u.parent = s.parent /\ u.version = Touched(s, {n})
      /\ u.children = s.children /\ u.procs = [s.procs EXCEPT ![n] = items] /\ u.refs = s.refs
      /\ u.appended = s.appended /\ s.strays \subseteq u.strays
      /\ u.audits = s.audits /\ u.memory = s.memory /\ u.given = s.given /\ u.replaced = s.replaced
      /\ u.proposals = [s.proposals EXCEPT ![t] =
                          [q \in Proposal |-> IF q \in created THEN "pending" ELSE s.proposals[t][q]]]
  BY DEF ApplyCompactionIn, SyncNodeProcesses, State
<1>. HIDE DEF u
<1>2. ASSUME NEW k \in s.nodes PROVE RowAdvances(s, u, k)
  <2>1. k \in Node
    BY DEF State
  <2>2. u.version[k] = s.version[k] + (IF k = n THEN 1 ELSE 0) /\ s.version[k] \in Nat
    BY <1>1, <2>1, TouchedVersion
  <2>3. CASE k = n
    BY <2>2, <2>3 DEF RowAdvances
  <2>4. CASE k # n
    <3>1. /\ u.topicOf[k] = s.topicOf[k] /\ u.parent[k] = s.parent[k]
          /\ u.children[k] = s.children[k] /\ u.procs[k] = s.procs[k] /\ u.refs[k] = s.refs[k]
          /\ u.appended[k] = s.appended[k]
      BY <1>1, <2>1, <2>4 DEF State
    <3>2. u.version[k] = s.version[k]
      BY <2>2, <2>4
    <3>. QED BY <3>1, <3>2, SameRow
  <2>. QED BY <2>3, <2>4
<1>3. ASSUME NEW k \in Topic PROVE MetadataAdvances(s, u, k)
  <2>1. s.proposals \in [Topic -> [Proposal -> Statuses]] /\ s.audits[k] \in Seq(SUBSET Tag)
    BY DEF State
  <2>2. \A q \in Proposal : s.proposals[k][q] \in {"applied", "rejected"} => u.proposals[k][q] = s.proposals[k][q]
    BY <1>1, <2>1
  <2>3. StartsWith(u.audits[k], s.audits[k])
    BY <1>1, <2>1, StartsWithItself
  <2>. QED BY <1>1, <2>2, <2>3 DEF MetadataAdvances
<1>. QED BY <1>1, <1>2, <1>3, AdvancesParts DEF u

LEMMA DecideProposalAdvances ==
  ASSUME NEW s \in State, NEW t \in Topic, NEW q \in Proposal, NEW c, CanDecideProposal(s, t, q)
  PROVE  Advances(s, DecideProposalIn(s, t, q, c))
<1>. DEFINE u == DecideProposalIn(s, t, q, c)
            d == IF c THEN "applied" ELSE "rejected"
            M == IF c THEN s.memory[t] \cup {q} ELSE s.memory[t]
<1>1. NodesSame(s, u)
  BY DEF NodesSame, DecideProposalIn, State
<1>2. /\ u.audits = s.audits /\ u.given = s.given /\ u.replaced = s.replaced
      /\ u.proposals = [s.proposals EXCEPT ![t] = [s.proposals[t] EXCEPT ![q] = d]]
      /\ u.memory = [s.memory EXCEPT ![t] = M]
  BY DEF DecideProposalIn, State
<1>3. s.memory[t] \subseteq M
  OBVIOUS
<1>. HIDE DEF u, d, M
<1>4. ASSUME NEW k \in Topic PROVE MetadataAdvances(s, u, k)
  <2>1. /\ s.proposals \in [Topic -> [Proposal -> Statuses]] /\ s.proposals[t][q] = "pending"
        /\ s.audits[k] \in Seq(SUBSET Tag) /\ s.memory \in [Topic -> SUBSET Proposal]
    BY DEF State, CanDecideProposal
  <2>2. \A x \in Proposal : s.proposals[k][x] \in {"applied", "rejected"} => u.proposals[k][x] = s.proposals[k][x]
    BY <1>2, <2>1
  <2>3. s.memory[k] \subseteq u.memory[k]
    BY <1>2, <1>3, <2>1
  <2>4. StartsWith(u.audits[k], s.audits[k])
    BY <1>2, <2>1, StartsWithItself
  <2>. QED BY <1>2, <2>2, <2>3, <2>4 DEF MetadataAdvances
<1>. QED BY <1>1, <1>4, SameNodes DEF u

LEMMA RecordAuditAdvances ==
  ASSUME NEW s \in State, NEW t \in Topic, NEW tags \in SUBSET Tag
  PROVE  Advances(s, RecordAuditIn(s, t, tags))
<1>. DEFINE u == RecordAuditIn(s, t, tags)
<1>1. NodesSame(s, u)
  BY DEF NodesSame, RecordAuditIn, State
<1>2. /\ u.proposals = s.proposals /\ u.memory = s.memory /\ u.given = s.given /\ u.replaced = s.replaced
      /\ u.audits = [s.audits EXCEPT ![t] = Append(s.audits[t], tags)]
  BY DEF RecordAuditIn, State
<1>. HIDE DEF u
<1>3. ASSUME NEW k \in Topic PROVE MetadataAdvances(s, u, k)
  <2>1. s.audits[k] \in Seq(SUBSET Tag) /\ s.audits \in [Topic -> Seq(SUBSET Tag)]
    BY DEF State
  <2>2. CASE k = t
    <3>1. StartsWith(Append(s.audits[t], tags), s.audits[t])
      BY <2>1, <2>2 DEF StartsWith
    <3>. QED BY <1>2, <2>1, <2>2, <3>1 DEF MetadataAdvances
  <2>3. CASE k # t
    <3>1. StartsWith(u.audits[k], s.audits[k])
      BY <1>2, <2>1, <2>3, StartsWithItself
    <3>. QED BY <1>2, <3>1 DEF MetadataAdvances
  <2>. QED BY <2>2, <2>3
<1>. QED BY <1>1, <1>3, SameNodes DEF u

(* Permissions touch nothing that Advances looks at.                       *)
LEMMA UntouchedAdvances ==
  ASSUME NEW s \in State, NEW u, NodesSame(s, u), MetadataSame(s, u) PROVE Advances(s, u)
BY SameNodes, SameMetadata

LEMMA SkillAdvances ==
  ASSUME NEW s \in State, NEW k
  PROVE  Advances(s, AddSkillPermissionIn(s, k)) /\ Advances(s, DeleteSkillPermissionIn(s, k))
<1>1. NodesSame(s, AddSkillPermissionIn(s, k)) /\ NodesSame(s, DeleteSkillPermissionIn(s, k))
  BY DEF NodesSame, AddSkillPermissionIn, DeleteSkillPermissionIn, State
<1>2. MetadataSame(s, AddSkillPermissionIn(s, k)) /\ MetadataSame(s, DeleteSkillPermissionIn(s, k))
  BY DEF MetadataSame, AddSkillPermissionIn, DeleteSkillPermissionIn, State
<1>. QED BY <1>1, <1>2, UntouchedAdvances

LEMMA RuleAdvances ==
  ASSUME NEW s \in State, NEW t \in Topic, NEW k
  PROVE  Advances(s, AddToolPermissionIn(s, t, k)) /\ Advances(s, DeleteToolPermissionIn(s, t, k))
<1>1. NodesSame(s, AddToolPermissionIn(s, t, k)) /\ NodesSame(s, DeleteToolPermissionIn(s, t, k))
  BY DEF NodesSame, AddToolPermissionIn, DeleteToolPermissionIn, State
<1>2. MetadataSame(s, AddToolPermissionIn(s, t, k)) /\ MetadataSame(s, DeleteToolPermissionIn(s, t, k))
  BY DEF MetadataSame, AddToolPermissionIn, DeleteToolPermissionIn, State
<1>. QED BY <1>1, <1>2, UntouchedAdvances

-----------------------------------------------------------------------------
(* A copy made from the file as it is now advances it.                     *)
AdvanceInv ==
  \A w \in Writer :
     /\ base[w] <= saves
     /\ pc[w] \in {"save", "insert"} /\ base[w] = saves => Advances(file, copy[w])

LEMMA PrepareAdvances ==
  ASSUME FileInv, AdvanceInv, NEW w \in Writer, NEW c, Advances(file, c), Prepare(w, c)
  PROVE  AdvanceInv' /\ saves' = saves
<1>1. /\ \A v \in Writer \ {w} : pc'[v] = pc[v] /\ copy'[v] = copy[v] /\ base'[v] = base[v]
      /\ copy'[w] = c /\ base'[w] = saves /\ UNCHANGED <<file, saves>>
  BY DEF FileInv, Prepare, Goto, vosVars
<1>2. saves <= saves
  BY DEF FileInv
<1>. QED BY <1>1, <1>2 DEF AdvanceInv

LEMMA OperationAdvances ==
  ASSUME FileInv, AdvanceInv, NEW w \in Writer, NEW c, Advances(file, c), Operation(w, c)
  PROVE  AdvanceInv' /\ saves' = saves
BY PrepareAdvances DEF Operation

LEMMA EndAdvances ==
  ASSUME FileInv, AdvanceInv, NEW w \in Writer, EndOf(w), UNCHANGED <<file, saves>>
  PROVE  AdvanceInv' /\ saves' = saves
<1>1. /\ \A v \in Writer \ {w} : pc'[v] = pc[v] /\ copy'[v] = copy[v] /\ base'[v] = base[v]
      /\ pc'[w] = "idle" /\ base'[w] = 0
  BY DEF FileInv, EndOf, Goto
<1>2. 0 <= saves
  BY DEF FileInv
<1>. QED BY <1>1, <1>2 DEF AdvanceInv

LEMMA WaitAdvances ==
  ASSUME FileInv, AdvanceInv, NEW w \in Writer, NEW step, step \notin {"save", "insert"},
         pc' = [pc EXCEPT ![w] = step], UNCHANGED <<file, saves, copy, base>>
  PROVE  AdvanceInv' /\ saves' = saves
BY DEF FileInv, AdvanceInv

LEMMA SaveAdvances ==
  ASSUME FileInv, AdvanceInv, NEW w \in Writer, Save(w)
  PROVE  AdvanceInv' /\ (~ raced' => Advances(file, file'))
<1>1. /\ file' = copy[w] /\ saves' = saves + 1 /\ pc[w] = "save" /\ raced' = (raced \/ base[w] # saves)
      /\ saves \in Nat /\ \A v \in Writer : base[v] \in Nat
  BY DEF Save, FileInv
<1>2. /\ \A v \in Writer \ {w} : base'[v] = base[v]
      /\ base'[w] = 0
  BY DEF Save, FileInv, EndOf
<1>3. \A v \in Writer : base'[v] < saves'
  BY <1>1, <1>2 DEF AdvanceInv
<1>4. \A v \in Writer : base'[v] <= saves' /\ base'[v] # saves'
  <2>1. \A v \in Writer : base'[v] \in Nat
    BY <1>1, <1>2
  <2>. QED BY <1>1, <1>3, <2>1
<1>. QED BY <1>1, <1>4 DEF AdvanceInv

LEMMA SaveFailsAdvances ==
  ASSUME FileInv, AdvanceInv, NEW w \in Writer, SaveFails(w) PROVE AdvanceInv' /\ saves' = saves
<1>1. UNCHANGED <<file, saves>>
  BY DEF SaveFails, vosVars
<1>2. CASE EndOf(w)
  BY <1>1, <1>2, EndAdvances
<1>3. CASE ~ EndOf(w)
  <2>1. /\ \A v \in Writer \ {w} : pc'[v] = pc[v] /\ copy'[v] = copy[v] /\ base'[v] = base[v]
        /\ pc'[w] = "rollback" /\ base'[w] = 0
    BY <1>3 DEF SaveFails, FileInv, Goto
  <2>2. 0 <= saves
    BY DEF FileInv
  <2>. QED BY <1>1, <2>1, <2>2 DEF AdvanceInv
<1>. QED BY <1>2, <1>3

LEMMA SessionAdvances ==
  ASSUME FileInv, AdvanceInv, NEW w \in Writer, CreateSession(w) \/ InsertSession(w)
  PROVE  AdvanceInv' /\ saves' = saves
<1>1. CASE CreateSession(w)
  <2>1. PICK n \in file.nodes, x \in Session : /\ Goto(w, "insert")
                                               /\ copy' = [copy EXCEPT ![w] = AddSessionIn(file, n, x)]
                                               /\ base' = [base EXCEPT ![w] = saves]
                                               /\ UNCHANGED <<vosVars, held>>
    BY <1>1 DEF CreateSession
  <2>2. n \in Node /\ file \in State
    BY DEF FileInv, FileOK, State
  <2>3. Advances(file, AddSessionIn(file, n, x))
    BY <2>2, AddSessionAdvances
  <2>4. /\ \A v \in Writer \ {w} : pc'[v] = pc[v] /\ copy'[v] = copy[v] /\ base'[v] = base[v]
        /\ copy'[w] = AddSessionIn(file, n, x) /\ base'[w] = saves /\ UNCHANGED <<file, saves>>
    BY <2>1 DEF FileInv, Goto, vosVars
  <2>5. saves <= saves
    BY DEF FileInv
  <2>. QED BY <2>3, <2>4, <2>5 DEF AdvanceInv
<1>2. CASE InsertSession(w)
  BY <1>2 DEF InsertSession, FileInv, AdvanceInv, Goto
<1>. QED BY <1>1, <1>2

(* What each request makes of a file advances it, and it is saved by Save  *)
(* only.                                                                   *)
LEMMA WriterAdvances ==
  ASSUME FileInv, AdvanceInv, NEW w \in Writer, Step(w), ~ Save(w) PROVE AdvanceInv' /\ saves' = saves
<1>0. file \in State /\ file.nodes \subseteq Node /\ file.topics \subseteq Topic
  BY DEF FileInv, FileOK, State
<1>1. CASE CreateTopic(w) \/ UpdateTopic(w) \/ DeleteTopic(w)
  <2>1. CASE CreateTopic(w)
    <3>1. PICK t \in Topic, r \in Node, m \in CallerMetadata :
             CanCreateTopic(file, t, r) /\ Operation(w, CreateTopicIn(file, t, r, m))
      BY <2>1 DEF CreateTopic
    <3>2. m \in Metadata
      BY CallerAssumption
    <3>. QED BY <1>0, <3>1, <3>2, OperationAdvances, CreateTopicAdvances
  <2>2. CASE UpdateTopic(w)
    <3>1. CASE Operation(w, file)
      <4>1. Advances(file, file)
        BY <1>0, UntouchedAdvances DEF NodesSame, MetadataSame
      <4>. QED BY <3>1, <4>1, OperationAdvances
    <3>2. CASE \E t \in file.topics, m \in CallerMetadata : Operation(w, ReplaceMetadataIn(file, t, m))
      <4>1. PICK t \in file.topics, m \in CallerMetadata : Operation(w, ReplaceMetadataIn(file, t, m))
        BY <3>2
      <4>2. t \in Topic /\ m \in Metadata
        BY <1>0, CallerAssumption
      <4>. QED BY <1>0, <4>1, <4>2, OperationAdvances, ReplaceMetadataAdvances
    <3>. QED BY <2>2, <3>1, <3>2 DEF UpdateTopic
  <2>3. CASE DeleteTopic(w)
    BY <1>0, <2>3, OperationAdvances, DeleteTopicAdvances DEF DeleteTopic
  <2>. QED BY <1>1, <2>1, <2>2, <2>3
<1>2. CASE CreateNode(w) \/ MoveNode(w) \/ DeleteNode(w)
  BY <1>0, <1>2, OperationAdvances, CreateNodeAdvances, MoveNodeAdvances, DeleteNodeAdvances
  DEF CreateNode, MoveNode, DeleteNode
<1>3. CASE UpdateNode(w)
  BY <1>0, <1>3, CallerAssumption, OperationAdvances, UpdateNodeAdvances DEF UpdateNode
<1>4. CASE UpdateExpected(w)
  <2>1. PICK x \in CallerUpdates : Prepare(w, UpdateNodeIn(file, held[w].node, x))
    BY <1>4 DEF UpdateExpected
  <2>2. held[w].node \in Node /\ x \in NodeUpdate
    BY <1>0, <1>4, CallerAssumption DEF UpdateExpected
  <2>. QED BY <1>0, <2>1, <2>2, PrepareAdvances, UpdateNodeAdvances
<1>5. CASE ToolPermission(w) \/ SkillPermission(w)
  <2>1. CASE ToolPermission(w)
    BY <1>0, <2>1, OperationAdvances, RuleAdvances DEF ToolPermission
  <2>2. CASE SkillPermission(w)
    <3>1. PICK k \in Rule : \/ Operation(w, AddSkillPermissionIn(file, k))
                            \/ Operation(w, DeleteSkillPermissionIn(file, k))
      BY <2>2 DEF SkillPermission
    <3>2. Advances(file, AddSkillPermissionIn(file, k)) /\ Advances(file, DeleteSkillPermissionIn(file, k))
      BY <1>0, SkillAdvances
    <3>. QED BY <3>1, <3>2, OperationAdvances
  <2>. QED BY <1>5, <2>1, <2>2
<1>6. CASE RecordAudit(w)
  BY <1>0, <1>6, AuditedAssumption, OperationAdvances, RecordAuditAdvances DEF RecordAudit
<1>7. CASE DecideProposal(w)
  BY <1>0, <1>7, OperationAdvances, DecideProposalAdvances DEF DecideProposal
<1>8. CASE CreateSession(w) \/ InsertSession(w)
  BY <1>8, SessionAdvances
<1>9. CASE InsertDuplicate(w) \/ DeleteSession(w) \/ Fail(w) \/ Crash(w)
  BY <1>9, EndAdvances DEF InsertDuplicate, DeleteSession, Fail, Crash, vosVars
<1>10. CASE SaveFails(w)
  BY <1>10, SaveFailsAdvances
<1>11. CASE GetNode(w) \/ GetContextSnapshot(w) \/ ListNodeProcesses(w) \/ DecomposeAnswer(w)
  <2>1. CASE GetNode(w)
    BY <2>1, WaitAdvances DEF GetNode, Goto, vosVars
  <2>. QED BY <1>11, <2>1, WaitAdvances DEF GetContextSnapshot, ListNodeProcesses, DecomposeAnswer, Goto, vosVars
<1>12. CASE ApplyCompactionResults(w)
  <2>1. PICK created \in SUBSET {q \in Proposal : file.proposals[file.topicOf[held[w].node]][q] = "absent"} :
           Prepare(w, ApplyCompactionIn(file, held[w].node, held[w].procs, created))
    BY <1>12 DEF ApplyCompactionResults
  <2>2. held[w].node \in file.nodes /\ file.topicOf[held[w].node] \in Topic
    BY <1>12 DEF ApplyCompactionResults, FileInv, FileOK, State, TreeOK, NodesHang
  <2>3. Advances(file, ApplyCompactionIn(file, held[w].node, held[w].procs, created))
    BY <1>0, <2>2, ApplyCompactionAdvances
  <2>. QED BY <2>1, <2>3, PrepareAdvances
<1>13. CASE CreateTaskNode(w)
  <2>1. PICK n \in Node : /\ CanCreateNode(file, held[w].topic, n, held[w].node)
                          /\ Prepare(w, CreateNodeIn(file, held[w].topic, n, held[w].node))
    BY <1>13 DEF CreateTaskNode
  <2>2. held[w].topic \in Topic /\ held[w].node \in Node
    BY <2>1, <1>0 DEF CanCreateNode
  <2>. QED BY <1>0, <2>1, <2>2, PrepareAdvances, CreateNodeAdvances
<1>. QED BY <1>1, <1>2, <1>3, <1>4, <1>5, <1>6, <1>7, <1>8, <1>9, <1>10, <1>11, <1>12, <1>13 DEF Step

LEMMA AdvanceStep ==
  FileInv /\ AdvanceInv /\ [Next]_vars
    => AdvanceInv' /\ (saves' # saves /\ ~ raced' => Advances(file, file'))
<1>. SUFFICES ASSUME FileInv, AdvanceInv, [Next]_vars
              PROVE  AdvanceInv' /\ (saves' # saves /\ ~ raced' => Advances(file, file'))
  OBVIOUS
<1>1. CASE UNCHANGED vars
  BY <1>1 DEF AdvanceInv, vars, vosVars, writerVars
<1>2. CASE Next
  <2>1. PICK w \in Writer : Step(w)
    BY <1>2 DEF Next
  <2>. QED BY <2>1, SaveAdvances, WriterAdvances
<1>. QED BY <1>1, <1>2

LEMMA AdvanceAlways == Spec => []AdvanceInv
<1>1. Init => AdvanceInv
  BY DEF Init, AdvanceInv
<1>. QED BY <1>1, AdvanceStep, FileAlways, PTL DEF Spec

(* A save that replaces the file its writer had loaded takes no node back  *)
(* to an earlier version and changes none without a new version; and it    *)
(* leaves decided proposals decided, and keeps audits and topic memory,    *)
(* unless it put in their place, whole, the map that its own request was   *)
(* sent with.                                                              *)
THEOREM SavesOnlyAdvance == Spec => SavesAdvance
<1>1. FileInv /\ AdvanceInv /\ [Next]_vars => [saves' # saves /\ ~ raced' => Advances(file, file')]_vars
  BY AdvanceStep
<1>. QED BY <1>1, FileAlways, AdvanceAlways, PTL DEF Spec, SavesAdvance

-----------------------------------------------------------------------------
(* Once a node is read its version can only rise, until a save meets       *)
(* another or the node is removed; while it has not, what was read since   *)
(* is what the file holds.                                                 *)
ReadingHolds(w) ==
  LET n == held[w].node IN
  pc[w] \in {"read", "context", "compact"} /\ n \notin deleted =>
    /\ n \in file.nodes /\ held[w].version <= file.version[n]
    /\ held[w].version = file.version[n] =>
         /\ pc[w] # "read" => held[w].refs = file.refs[n] /\ held[w].appended = file.appended[n]
         /\ pc[w] = "compact" => held[w].procs \ file.strays = file.procs[n] \ file.strays

VersionInv == ~ raced => \A w \in Writer : ReadingHolds(w)

(* A step that reads leaves the file alone.                                *)
LEMMA OthersHold ==
  ASSUME FileInv, VersionInv, ~ raced', NEW w \in Writer, UNCHANGED <<file, deleted, raced>>,
         \A v \in Writer \ {w} : pc'[v] = pc[v] /\ held'[v] = held[v],
         pc'[w] \in {"read", "context", "compact"} => ReadingHolds(w)'
  PROVE  VersionInv'
<1>1. \A v \in Writer \ {w} : ReadingHolds(v)'
  BY DEF VersionInv, ReadingHolds
<1>2. ReadingHolds(w)'
  BY DEF ReadingHolds
<1>. QED BY <1>1, <1>2 DEF VersionInv

LEMMA SaveHolds ==
  ASSUME FileInv, AdvanceInv, VersionInv, ~ raced', NEW w \in Writer, Save(w) PROVE VersionInv'
<1>1. /\ Advances(file, file') /\ ~ raced /\ file' = copy[w] /\ file' \in State /\ file \in State
      /\ deleted' = deleted \cup (file.nodes \ file'.nodes)
  BY SaveAdvances DEF Save, FileInv, FileOK
<1>2. pc'[w] \notin {"read", "context", "compact"} /\ \A v \in Writer \ {w} : pc'[v] = pc[v] /\ held'[v] = held[v]
  BY DEF Save, EndOf, Goto, FileInv
<1>3. ASSUME NEW v \in Writer \ {w}, pc[v] \in {"read", "context", "compact"}, held[v].node \notin deleted'
      PROVE  ReadingHolds(v)'
  <2>. DEFINE n == held[v].node
  <2>1. ReadingHolds(v) /\ n \notin deleted /\ n \in file.nodes /\ n \in file'.nodes /\ n \in Node
    BY <1>1, <1>3 DEF VersionInv, ReadingHolds, State
  <2>2. \/ file'.version[n] > file.version[n]
        \/ /\ file'.version[n] = file.version[n] /\ file'.refs[n] = file.refs[n]
           /\ file'.appended[n] = file.appended[n] /\ file'.procs[n] = file.procs[n]
    BY <1>1, <2>1 DEF Advances, RowAdvances, NodeRow
  <2>3. file'.version[n] \in Nat /\ file.version[n] \in Nat /\ held[v].version \in Nat
    BY <1>1, <2>1 DEF State, FileInv, Reading
  <2>4. held[v].version <= file.version[n]
    BY <1>3, <2>1 DEF ReadingHolds
  <2>5. held[v].version <= file'.version[n]
        /\ (held[v].version = file'.version[n] => file'.version[n] = file.version[n])
    BY <2>2, <2>3, <2>4
  <2>6. held[v].version = file'.version[n] =>
          /\ held[v].version = file.version[n] /\ file'.refs[n] = file.refs[n]
          /\ file'.appended[n] = file.appended[n] /\ file'.procs[n] = file.procs[n]
    BY <2>2, <2>3, <2>5
  <2>7. file.strays \subseteq file'.strays
    BY <1>1 DEF Advances
  <2>8. ASSUME held[v].version = file'.version[n], pc[v] = "compact"
        PROVE  held[v].procs \ file'.strays = file'.procs[n] \ file'.strays
    <3>1. held[v].procs \ file.strays = file.procs[n] \ file.strays
      BY <1>3, <2>1, <2>6, <2>8 DEF ReadingHolds
    <3>. QED BY <2>6, <2>7, <2>8, <3>1
  <2>. QED BY <1>2, <1>3, <2>1, <2>5, <2>6, <2>8 DEF ReadingHolds
<1>4. ASSUME NEW v \in Writer PROVE ReadingHolds(v)'
  BY <1>2, <1>3 DEF ReadingHolds
<1>. QED BY <1>4 DEF VersionInv

LEMMA OperationHolds ==
  ASSUME FileInv, VersionInv, ~ raced', NEW w \in Writer, NEW c, Prepare(w, c),
         \A v \in Writer \ {w} : held'[v] = held[v]
  PROVE  VersionInv'
BY OthersHold DEF Prepare, Goto, vosVars, FileInv

LEMMA EndHolds ==
  ASSUME FileInv, VersionInv, ~ raced', NEW w \in Writer, EndOf(w), UNCHANGED <<file, deleted, raced>>
  PROVE  VersionInv'
BY OthersHold DEF EndOf, Goto, FileInv

LEMMA ReadHolds ==
  ASSUME FileInv, VersionInv, ~ raced', NEW w \in Writer,
         GetNode(w) \/ GetContextSnapshot(w) \/ ListNodeProcesses(w) \/ DecomposeAnswer(w)
  PROVE  VersionInv'
<1>0. /\ UNCHANGED <<file, deleted, raced>> /\ file \in State
      /\ \A v \in Writer \ {w} : pc'[v] = pc[v] /\ held'[v] = held[v]
  BY DEF GetNode, GetContextSnapshot, ListNodeProcesses, DecomposeAnswer, Goto, vosVars, FileInv, FileOK
<1>. SUFFICES ASSUME pc'[w] \in {"read", "context", "compact"} PROVE ReadingHolds(w)'
  BY <1>0, OthersHold
<1>1. CASE GetNode(w)
  <2>1. PICK n \in file.nodes : held' = [held EXCEPT ![w] =
          [node |-> n, topic |-> file.topicOf[n], version |-> file.version[n], procs |-> {}, refs |-> {},
           appended |-> {}, tasks |-> 0]]
    BY <1>1 DEF GetNode
  <2>2. held'[w].node = n /\ held'[w].version = file.version[n] /\ file.version[n] \in Nat /\ pc'[w] = "read"
    BY <1>0, <1>1, <2>1 DEF GetNode, Goto, FileInv, State
  <2>3. file.version[n] <= file.version[n]
    BY <2>2
  <2>. QED BY <1>0, <2>2, <2>3 DEF ReadingHolds
<1>2. CASE GetContextSnapshot(w)
  <2>1. /\ held'[w].node = held[w].node /\ held'[w].version = held[w].version
        /\ held'[w].refs = file.refs[held[w].node] /\ held'[w].appended = file.appended[held[w].node]
        /\ pc'[w] = "context" /\ pc[w] = "read" /\ ~ raced
    BY <1>0, <1>2 DEF GetContextSnapshot, Goto, FileInv, Reading
  <2>2. ReadingHolds(w)
    BY <2>1 DEF VersionInv
  <2>. QED BY <1>0, <2>1, <2>2 DEF ReadingHolds
<1>3. CASE ListNodeProcesses(w)
  <2>. DEFINE n == held[w].node
  <2>1. /\ held'[w].node = n /\ held'[w].version = held[w].version /\ held'[w].refs = held[w].refs
        /\ held'[w].appended = held[w].appended /\ held'[w].procs = file.procs[n] \cap file.processes
        /\ pc'[w] = "compact" /\ pc[w] = "context" /\ ~ raced /\ n \in file.nodes /\ n \in Node
    BY <1>0, <1>3 DEF ListNodeProcesses, ListedProcesses, Goto, FileInv, Reading, State
  <2>2. ReadingHolds(w)
    BY <2>1 DEF VersionInv
  <2>3. \A i \in file.procs[n] : i \in file.strays \/ i \in file.processes
    BY <2>1 DEF FileInv, FileOK, ProcessesOwned
  <2>4. held'[w].procs \ file.strays = file.procs[n] \ file.strays
    BY <2>1, <2>3
  <2>. QED BY <1>0, <2>1, <2>2, <2>4 DEF ReadingHolds
<1>4. CASE DecomposeAnswer(w)
  BY <1>4 DEF DecomposeAnswer, Goto, FileInv
<1>. QED BY <1>1, <1>2, <1>3, <1>4

LEMMA VersionStep == FileInv /\ AdvanceInv /\ VersionInv /\ [Next]_vars => VersionInv'
<1>. SUFFICES ASSUME FileInv, AdvanceInv, VersionInv, [Next]_vars, ~ raced' PROVE VersionInv'
  BY DEF VersionInv
<1>1. CASE UNCHANGED vars
  BY <1>1 DEF VersionInv, ReadingHolds, vars, vosVars, writerVars
<1>2. ASSUME NEW w \in Writer, NEW c, Operation(w, c) PROVE VersionInv'
  BY <1>2, OperationHolds DEF Operation
<1>3. ASSUME NEW w \in Writer,
             \/ CreateTopic(w) \/ UpdateTopic(w) \/ DeleteTopic(w) \/ CreateNode(w) \/ MoveNode(w) \/ DeleteNode(w)
             \/ UpdateNode(w) \/ ToolPermission(w) \/ SkillPermission(w) \/ RecordAudit(w) \/ DecideProposal(w)
      PROVE  VersionInv'
  BY <1>2, <1>3 DEF CreateTopic, UpdateTopic, DeleteTopic, CreateNode, MoveNode, DeleteNode, UpdateNode,
                    ToolPermission, SkillPermission, RecordAudit, DecideProposal
<1>4. ASSUME NEW w \in Writer, UpdateExpected(w) \/ ApplyCompactionResults(w) \/ CreateTaskNode(w) PROVE VersionInv'
  <2>1. \A v \in Writer \ {w} : held'[v] = held[v]
    BY <1>4 DEF UpdateExpected, ApplyCompactionResults, CreateTaskNode, FileInv
  <2>. QED BY <1>4, <2>1, OperationHolds DEF UpdateExpected, ApplyCompactionResults, CreateTaskNode
<1>5. ASSUME NEW w \in Writer, CreateSession(w) \/ InsertSession(w) PROVE VersionInv'
  BY <1>5, OthersHold DEF CreateSession, InsertSession, Goto, vosVars, FileInv
<1>6. ASSUME NEW w \in Writer, InsertDuplicate(w) \/ DeleteSession(w) \/ Fail(w) \/ Crash(w) PROVE VersionInv'
  BY <1>6, EndHolds DEF InsertDuplicate, DeleteSession, Fail, Crash, vosVars
<1>7. ASSUME NEW w \in Writer, SaveFails(w) PROVE VersionInv'
  <2>1. CASE EndOf(w)
    BY <1>7, <2>1, EndHolds DEF SaveFails, vosVars
  <2>2. CASE ~ EndOf(w)
    BY <1>7, <2>2, OthersHold DEF SaveFails, Goto, vosVars, FileInv
  <2>. QED BY <2>1, <2>2
<1>8. CASE Next
  <2>1. PICK w \in Writer : Step(w)
    BY <1>8 DEF Next
  <2>. QED BY <2>1, <1>3, <1>4, <1>5, <1>6, <1>7, SaveHolds, ReadHolds DEF Step
<1>. QED BY <1>1, <1>8

(* As long as no save has met another, an unchanged version means that     *)
(* what was read is still what the file holds: a compaction result that    *)
(* passes the version check undoes nobody's update.                        *)
THEOREM VersionsNameContent == Spec => []VersionNamesContent
<1>1. Init => VersionInv
  BY DEF Init, VersionInv, ReadingHolds
<1>2. VersionInv => VersionNamesContent
  BY DEF VersionInv, ReadingHolds, VersionNamesContent
<1>. QED BY <1>1, <1>2, VersionStep, FileAlways, AdvanceAlways, PTL DEF Spec

-----------------------------------------------------------------------------
(* The operators of the abstract document are those of the file.           *)
LEMMA SameTopicOperators ==
  ASSUME NEW s, NEW t, NEW r, NEW m
  PROVE  /\ Document!CanCreateTopic(s, t, r) <=> CanCreateTopic(s, t, r)
         /\ Document!CreateTopicIn(s, t, r, m) = CreateTopicIn(s, t, r, m)
         /\ Document!ReplaceMetadataIn(s, t, m) = ReplaceMetadataIn(s, t, m)
         /\ Document!DeleteTopicIn(s, t) = DeleteTopicIn(s, t)
BY DEF Document!CanCreateTopic, CanCreateTopic, Document!CreateTopicIn, CreateTopicIn,
       Document!ReplaceMetadataIn, ReplaceMetadataIn, Document!DeleteTopicIn, DeleteTopicIn,
       Document!NoMetadata, NoMetadata, Document!NoAudits, NoAudits, Document!NoTally, NoTally, Document!NoProposals, NoProposals

LEMMA SameNodeOperators ==
  ASSUME NEW s, NEW t, NEW n, NEW p, NEW x
  PROVE  /\ Document!CanCreateNode(s, t, n, p) <=> CanCreateNode(s, t, n, p)
         /\ Document!CreateNodeIn(s, t, n, p) = CreateNodeIn(s, t, n, p)
         /\ Document!CanMoveNode(s, n, p) <=> CanMoveNode(s, n, p)
         /\ Document!MoveNodeIn(s, n, p) = MoveNodeIn(s, n, p)
         /\ Document!CanDeleteNode(s, n) <=> CanDeleteNode(s, n)
         /\ Document!DeleteNodeIn(s, n) = DeleteNodeIn(s, n)
         /\ Document!UpdateNodeIn(s, n, x) = UpdateNodeIn(s, n, x)
         /\ Document!AddSessionIn(s, n, x) = AddSessionIn(s, n, x)
BY DEF Document!CanCreateNode, CanCreateNode, Document!CreateNodeIn, CreateNodeIn,
       Document!CanMoveNode, CanMoveNode, Document!Above, Above, Document!MoveNodeIn, MoveNodeIn,
       Document!CanDeleteNode, CanDeleteNode, Document!DeleteNodeIn, DeleteNodeIn,
       Document!UpdateNodeIn, UpdateNodeIn,
       Document!SyncNodeProcesses, SyncNodeProcesses, Document!AddSessionIn, AddSessionIn,
       Document!Touched, Touched

LEMMA SameRuleOperators ==
  ASSUME NEW s, NEW t, NEW k
  PROVE  /\ Document!AddToolPermissionIn(s, t, k) = AddToolPermissionIn(s, t, k)
         /\ Document!DeleteToolPermissionIn(s, t, k) = DeleteToolPermissionIn(s, t, k)
         /\ Document!AddSkillPermissionIn(s, k) = AddSkillPermissionIn(s, k)
         /\ Document!DeleteSkillPermissionIn(s, k) = DeleteSkillPermissionIn(s, k)
         /\ Document!RecordAuditIn(s, t, k) = RecordAuditIn(s, t, k)
BY DEF Document!AddToolPermissionIn, AddToolPermissionIn, Document!DeleteToolPermissionIn, DeleteToolPermissionIn,
       Document!AddSkillPermissionIn, AddSkillPermissionIn, Document!DeleteSkillPermissionIn, DeleteSkillPermissionIn,
       Document!RecordAuditIn, RecordAuditIn, Document!AuditSummary, AuditSummary

LEMMA SameDecision ==
  ASSUME NEW s, NEW t, NEW q, NEW c
  PROVE  /\ Document!CanDecideProposal(s, t, q) <=> CanDecideProposal(s, t, q)
         /\ Document!DecideProposalIn(s, t, q, c) = DecideProposalIn(s, t, q, c)
BY DEF Document!CanDecideProposal, CanDecideProposal, Document!DecideProposalIn, DecideProposalIn

LEMMA SameCompaction ==
  ASSUME NEW s, NEW n, NEW items, NEW created
  PROVE  Document!ApplyCompactionIn(s, n, items, created) = ApplyCompactionIn(s, n, items, created)
BY DEF Document!ApplyCompactionIn, ApplyCompactionIn,
       Document!SyncNodeProcesses, SyncNodeProcesses, Document!Touched, Touched

LEMMA SameTally == ASSUME NEW s PROVE Document!TallyAgrees(s) <=> TallyAgrees(s)
<1>1. ASSUME NEW a, NEW g, NEW from PROVE Document!Bearers(a, g, from) = Bearers(a, g, from)
  BY DEF Document!Bearers, Bearers, Document!Bears, Bears
<1>2. ASSUME NEW S PROVE Document!Cardinality(S) = Cardinality(S)
  BY DEF Document!Cardinality, Cardinality
<1>3. ASSUME NEW a, NEW g, NEW from
      PROVE  Document!Cardinality(Document!Bearers(a, g, from)) = Cardinality(Bearers(a, g, from))
  BY <1>1, <1>2
<1>. QED BY <1>3 DEF Document!TallyAgrees, TallyAgrees

LEMMA SameFileOK == ASSUME NEW s PROVE Document!FileOK(s) <=> FileOK(s)
<1>1. Document!State = State
  BY DEF Document!State, State, Document!Metadata, Metadata, Document!Statuses, Statuses
<1>2. Document!TreeOK(s) <=> TreeOK(s)
  BY DEF Document!TreeOK, TreeOK, Document!RootsExist, RootsExist, Document!NodesHang, NodesHang,
         Document!ChildrenAgree, ChildrenAgree, Document!Acyclic, Acyclic
<1>3. Document!ProcessesOwned(s) <=> ProcessesOwned(s)
  BY DEF Document!ProcessesOwned, ProcessesOwned
<1>4. Document!MemoryIsApplied(s) <=> MemoryIsApplied(s)
  BY DEF Document!MemoryIsApplied, MemoryIsApplied
<1>5. Document!ProposalsFollow(s) <=> ProposalsFollow(s)
  BY DEF Document!ProposalsFollow, ProposalsFollow
<1>6. Document!AuditsKept(s) <=> AuditsKept(s)
  BY DEF Document!AuditsKept, AuditsKept, Document!StartsWith, StartsWith
<1>7. Document!MetadataOK(s) <=> MetadataOK(s)
  BY <1>4, <1>5, <1>6, SameTally DEF Document!MetadataOK, MetadataOK
<1>. QED BY <1>1, <1>2, <1>3, <1>7 DEF Document!FileOK, FileOK

(* What one request makes of a file.                                       *)
Requested(d, e) ==
  \/ Document!TopicRequest(d, e) \/ Document!NodeRequest(d, e)
  \/ Document!RuleRequest(d, e) \/ Document!MemoryRequest(d, e)

LEMMA OperationCopies ==
  ASSUME FileInv, NEW w \in Writer, NEW e, Operation(w, e) \/ Prepare(w, e) PROVE copy'[w] = e
BY DEF FileInv, Operation, Prepare

LEMMA TopicRequested ==
  ASSUME NEW w \in Writer, NEW c, CreateTopic(w) \/ UpdateTopic(w) \/ DeleteTopic(w),
         FileInv, copy'[w] = c
  PROVE  c = file \/ Requested(file, c)
<1>1. CASE CreateTopic(w)
  <2>1. PICK t \in Topic, r \in Node, m \in CallerMetadata :
           CanCreateTopic(file, t, r) /\ c = CreateTopicIn(file, t, r, m)
    BY <1>1, OperationCopies DEF CreateTopic
  <2>2. Document!TopicRequest(file, c)
    BY <2>1, SameTopicOperators DEF Document!TopicRequest
  <2>. QED BY <2>2 DEF Requested
<1>2. CASE UpdateTopic(w)
  <2>1. PICK t \in file.topics : c = file \/ \E m \in CallerMetadata : c = ReplaceMetadataIn(file, t, m)
    BY <1>2, OperationCopies DEF UpdateTopic
  <2>2. c = file \/ Document!TopicRequest(file, c)
    BY <2>1, SameTopicOperators DEF Document!TopicRequest
  <2>. QED BY <2>2 DEF Requested
<1>3. CASE DeleteTopic(w)
  <2>1. PICK t \in file.topics : c = DeleteTopicIn(file, t)
    BY <1>3, OperationCopies DEF DeleteTopic
  <2>2. Document!TopicRequest(file, c)
    BY <2>1, SameTopicOperators DEF Document!TopicRequest
  <2>. QED BY <2>2 DEF Requested
<1>. QED BY <1>1, <1>2, <1>3

LEMMA NodeRequested ==
  ASSUME NEW w \in Writer, NEW c, CreateNode(w) \/ MoveNode(w) \/ DeleteNode(w) \/ UpdateNode(w),
         FileInv, copy'[w] = c
  PROVE  Requested(file, c)
<1>1. CASE CreateNode(w)
  <2>1. \E t \in Topic, n, p \in Node : CanCreateNode(file, t, n, p) /\ c = CreateNodeIn(file, t, n, p)
    BY <1>1, OperationCopies DEF CreateNode
  <2>2. Document!NodeRequest(file, c)
    BY <2>1, SameNodeOperators DEF Document!NodeRequest
  <2>. QED BY <2>2 DEF Requested
<1>2. CASE MoveNode(w)
  <2>1. \E n, p \in Node : CanMoveNode(file, n, p) /\ c = MoveNodeIn(file, n, p)
    BY <1>2, OperationCopies DEF MoveNode
  <2>2. Document!NodeRequest(file, c)
    BY <2>1, SameNodeOperators DEF Document!NodeRequest
  <2>. QED BY <2>2 DEF Requested
<1>3. CASE DeleteNode(w)
  <2>1. \E n \in Node : CanDeleteNode(file, n) /\ c = DeleteNodeIn(file, n)
    BY <1>3, OperationCopies DEF DeleteNode
  <2>2. Document!NodeRequest(file, c)
    BY <2>1, SameNodeOperators DEF Document!NodeRequest
  <2>. QED BY <2>2 DEF Requested
<1>4. CASE UpdateNode(w)
  <2>1. \E n \in file.nodes, x \in CallerUpdates : c = UpdateNodeIn(file, n, x)
    BY <1>4, OperationCopies DEF UpdateNode
  <2>2. Document!NodeRequest(file, c)
    BY <2>1, SameNodeOperators DEF Document!NodeRequest
  <2>. QED BY <2>2 DEF Requested
<1>. QED BY <1>1, <1>2, <1>3, <1>4

LEMMA RuleRequested ==
  ASSUME NEW w \in Writer, NEW c, ToolPermission(w) \/ SkillPermission(w) \/ RecordAudit(w) \/ DecideProposal(w),
         FileInv, copy'[w] = c
  PROVE  Requested(file, c)
<1>1. CASE ToolPermission(w)
  <2>1. \E t \in file.topics, k \in Rule :
           \/ k \notin file.allows[t] /\ c = AddToolPermissionIn(file, t, k)
           \/ k \in file.allows[t] /\ c = DeleteToolPermissionIn(file, t, k)
    BY <1>1, OperationCopies DEF ToolPermission
  <2>2. Document!RuleRequest(file, c)
    BY <2>1, SameRuleOperators DEF Document!RuleRequest
  <2>. QED BY <2>2 DEF Requested
<1>2. CASE SkillPermission(w)
  <2>1. \E k \in Rule : \/ c = AddSkillPermissionIn(file, k)
                        \/ k \in file.skills /\ c = DeleteSkillPermissionIn(file, k)
    BY <1>2, OperationCopies DEF SkillPermission
  <2>2. Document!RuleRequest(file, c)
    BY <2>1, SameRuleOperators DEF Document!RuleRequest
  <2>. QED BY <2>2 DEF Requested
<1>3. CASE RecordAudit(w)
  <2>1. \E t \in file.topics, tags \in Audited : c = RecordAuditIn(file, t, tags)
    BY <1>3, OperationCopies DEF RecordAudit
  <2>2. Document!RuleRequest(file, c)
    BY <2>1, SameRuleOperators DEF Document!RuleRequest
  <2>. QED BY <2>2 DEF Requested
<1>4. CASE DecideProposal(w)
  <2>1. \E t \in Topic, q \in Proposal, x \in BOOLEAN :
           CanDecideProposal(file, t, q) /\ c = DecideProposalIn(file, t, q, x)
    BY <1>4, OperationCopies DEF DecideProposal
  <2>2. Document!MemoryRequest(file, c)
    BY <2>1, SameDecision DEF Document!MemoryRequest
  <2>. QED BY <2>2 DEF Requested
<1>. QED BY <1>1, <1>2, <1>3, <1>4

LEMMA SessionRequested ==
  ASSUME FileInv, NEW w \in Writer, CreateSession(w) PROVE Requested(file, copy'[w])
<1>1. \E n \in file.nodes, x \in Session :
         x \notin file.refs[n] \cup file.appended[n] /\ copy'[w] = AddSessionIn(file, n, x)
  BY DEF CreateSession, FileInv
<1>2. Document!NodeRequest(file, copy'[w])
  BY <1>1, SameNodeOperators DEF Document!NodeRequest
<1>. QED BY <1>2 DEF Requested

LEMMA ExpectedRequested ==
  ASSUME FileInv, NEW w \in Writer, UpdateExpected(w) PROVE Requested(file, copy'[w])
<1>1. held[w].node \in file.nodes
  BY DEF UpdateExpected
<1>2. \E x \in CallerUpdates : copy'[w] = UpdateNodeIn(file, held[w].node, x)
  BY OperationCopies DEF UpdateExpected
<1>3. Document!NodeRequest(file, copy'[w])
  BY <1>1, <1>2, SameNodeOperators DEF Document!NodeRequest
<1>. QED BY <1>3 DEF Requested

LEMMA TaskRequested ==
  ASSUME FileInv, NEW w \in Writer, CreateTaskNode(w) PROVE Requested(file, copy'[w])
<1>1. PICK n \in Node : /\ CanCreateNode(file, held[w].topic, n, held[w].node)
                       /\ Prepare(w, CreateNodeIn(file, held[w].topic, n, held[w].node))
  BY DEF CreateTaskNode
<1>2. held[w].topic \in Topic /\ held[w].node \in Node
  BY <1>1 DEF CanCreateNode, FileInv, FileOK, State
<1>3. copy'[w] = CreateNodeIn(file, held[w].topic, n, held[w].node)
  BY <1>1, OperationCopies
<1>4. Document!NodeRequest(file, copy'[w])
  BY <1>1, <1>2, <1>3, SameNodeOperators DEF Document!NodeRequest
<1>. QED BY <1>4 DEF Requested

(* The version names the processes that were read, so the result of a      *)
(* compaction is about the processes the node has, those that went astray  *)
(* apart.                                                                  *)
LEMMA CompactionRequested ==
  ASSUME FileInv, VersionInv, ~ raced, NEW w \in Writer, ApplyCompactionResults(w)
  PROVE  Requested(file, copy'[w])
<1>. DEFINE n == held[w].node
            items == held[w].procs
<1>1. PICK created \in SUBSET {q \in Proposal : file.proposals[file.topicOf[n]][q] = "absent"} :
         Prepare(w, ApplyCompactionIn(file, n, items, created))
  BY DEF ApplyCompactionResults
<1>2. copy'[w] = ApplyCompactionIn(file, n, items, created)
  BY <1>1, OperationCopies
<1>3. n \in file.nodes /\ items \in SUBSET Proc
  BY DEF ApplyCompactionResults, FileInv, Reading
<1>4. n \notin deleted => items \ file.strays = file.procs[n] \ file.strays
  <2>1. ReadingHolds(w) /\ pc[w] = "compact" /\ file.version[n] = held[w].version
    BY DEF ApplyCompactionResults, VersionInv
  <2>. QED BY <2>1 DEF ReadingHolds
<1>5. created \in SUBSET Proposal /\ \A q \in created : file.proposals[file.topicOf[n]][q] = "absent"
  BY <1>1
<1>6. Document!MemoryRequest(file, copy'[w])
  <2>1. copy'[w] = Document!ApplyCompactionIn(file, n, items, created)
    BY <1>2, SameCompaction
  <2>. HIDE DEF n, items
  <2>. QED BY <2>1, <1>3, <1>4, <1>5 DEF Document!MemoryRequest
<1>. QED BY <1>6 DEF Requested

-----------------------------------------------------------------------------
(* A copy made from the file as it is now is what one request makes of it. *)
RequestInv ==
  ~ raced => \A w \in Writer : pc[w] \in {"save", "insert"} /\ base[w] = saves =>
                copy[w] = file \/ Requested(file, copy[w])

(* Only a save changes what a request makes of the file.                   *)
LEMMA RequestFrame ==
  ASSUME RequestInv, NEW w \in Writer, UNCHANGED <<file, saves, deleted, raced>>,
         \A v \in Writer \ {w} : pc'[v] = pc[v] /\ copy'[v] = copy[v] /\ base'[v] = base[v],
         ~ raced /\ pc'[w] \in {"save", "insert"} /\ base'[w] = saves =>
            copy'[w] = file \/ Requested(file, copy'[w])
  PROVE  RequestInv'
<1>1. ASSUME ~ raced', NEW v \in Writer, pc'[v] \in {"save", "insert"} /\ base'[v] = saves'
      PROVE  copy'[v] = file' \/ Requested(file, copy[v])'
  <2>1. CASE v = w
    <3>1. copy'[w] = file \/ Requested(file, copy'[w])
      BY <1>1, <2>1
    <3>. QED BY <2>1, <3>1 DEF Requested, Document!TopicRequest, Document!NodeRequest,
                               Document!RuleRequest, Document!MemoryRequest
  <2>2. CASE v # w
    <3>1. copy[v] = file \/ Requested(file, copy[v])
      BY <1>1, <2>2 DEF RequestInv
    <3>2. copy'[v] = copy[v]
      BY <2>2
    <3>. QED BY <3>1, <3>2 DEF Requested, Document!TopicRequest, Document!NodeRequest,
                               Document!RuleRequest, Document!MemoryRequest
  <2>. QED BY <2>1, <2>2
<1>. QED BY <1>1 DEF RequestInv

LEMMA PrepareRequested ==
  ASSUME FileInv, RequestInv, NEW w \in Writer, NEW c, Prepare(w, c),
         ~ raced => copy'[w] = file \/ Requested(file, copy'[w])
  PROVE  RequestInv'
<1>1. /\ UNCHANGED <<file, saves, deleted, raced>>
      /\ \A v \in Writer \ {w} : pc'[v] = pc[v] /\ copy'[v] = copy[v] /\ base'[v] = base[v]
  BY DEF Prepare, Goto, vosVars, FileInv
<1>. QED BY <1>1, RequestFrame

LEMMA EndRequested ==
  ASSUME FileInv, RequestInv, NEW w \in Writer, EndOf(w), UNCHANGED <<file, saves, deleted, raced>>
  PROVE  RequestInv'
<1>1. /\ pc'[w] = "idle"
      /\ \A v \in Writer \ {w} : pc'[v] = pc[v] /\ copy'[v] = copy[v] /\ base'[v] = base[v]
  BY DEF EndOf, Goto, FileInv
<1>. QED BY <1>1, RequestFrame

(* A save that met no other performs a request, one that did overwrites.   *)
LEMMA SaveRequested ==
  ASSUME FileInv, AdvanceInv, RequestInv, NEW w \in Writer, Save(w)
  PROVE  RequestInv' /\ [Document!Next]_(Document!vars)
<1>1. /\ file' = copy[w] /\ pc[w] = "save" /\ raced' = (raced \/ base[w] # saves) /\ FileOK(file')
      /\ deleted' = deleted \cup (file.nodes \ file'.nodes) /\ raced \in BOOLEAN
  BY DEF Save, FileInv
<1>2. RequestInv'
  <2>1. \A v \in Writer : base'[v] # saves'
    <3>1. saves \in Nat /\ saves' = saves + 1 /\ \A v \in Writer : base[v] \in Nat /\ base[v] <= saves
      BY DEF Save, FileInv, AdvanceInv
    <3>2. \A v \in Writer : base'[v] = base[v] \/ base'[v] = 0
      BY DEF Save, EndOf, FileInv
    <3>. QED BY <3>1, <3>2
  <2>. QED BY <2>1 DEF RequestInv
<1>3. CASE raced'
  <2>1. Document!FileOK(file') /\ raced' = TRUE
    BY <1>1, <1>3, SameFileOK
  <2>. QED BY <1>1, <1>2, <2>1 DEF Document!Next, Document!Overwrite
<1>4. CASE ~ raced'
  <2>1. ~ raced /\ base[w] = saves /\ raced' = raced
    BY <1>1, <1>4
  <2>2. file' = file \/ Requested(file, file')
    BY <1>1, <2>1 DEF RequestInv
  <2>3. CASE file' = file
    <3>1. deleted' = deleted
      BY <1>1, <2>3
    <3>. QED BY <1>2, <2>1, <2>3, <3>1 DEF Document!vars
  <2>4. CASE file' # file
    <3>1. Document!Perform
      BY <2>1, <2>2, <2>4 DEF Requested, Document!Perform
    <3>. QED BY <1>1, <1>2, <3>1 DEF Document!Next
  <2>. QED BY <2>3, <2>4
<1>. QED BY <1>3, <1>4

(* No other step of a request changes the file.                            *)
LEMMA OtherRequested ==
  ASSUME FileInv, VersionInv, RequestInv, NEW w \in Writer, Step(w), ~ Save(w)
  PROVE  RequestInv' /\ UNCHANGED <<file, deleted, raced>>
<1>1. CASE CreateTopic(w) \/ UpdateTopic(w) \/ DeleteTopic(w)
  <2>1. PICK c : Operation(w, c)
    BY <1>1 DEF CreateTopic, UpdateTopic, DeleteTopic
  <2>2. copy'[w] = file \/ Requested(file, copy'[w])
    BY <1>1, TopicRequested
  <2>. QED BY <2>1, <2>2, PrepareRequested DEF Operation, Prepare, vosVars
<1>2. CASE CreateNode(w) \/ MoveNode(w) \/ DeleteNode(w) \/ UpdateNode(w)
  <2>1. PICK c : Operation(w, c)
    BY <1>2 DEF CreateNode, MoveNode, DeleteNode, UpdateNode
  <2>2. Requested(file, copy'[w])
    BY <1>2, NodeRequested
  <2>. QED BY <2>1, <2>2, PrepareRequested DEF Operation, Prepare, vosVars
<1>3. CASE ToolPermission(w) \/ SkillPermission(w) \/ RecordAudit(w) \/ DecideProposal(w)
  <2>1. PICK c : Operation(w, c)
    BY <1>3 DEF ToolPermission, SkillPermission, RecordAudit, DecideProposal
  <2>2. Requested(file, copy'[w])
    BY <1>3, RuleRequested
  <2>. QED BY <2>1, <2>2, PrepareRequested DEF Operation, Prepare, vosVars
<1>4. CASE UpdateExpected(w) \/ ApplyCompactionResults(w) \/ CreateTaskNode(w)
  <2>1. PICK c : Prepare(w, c)
    BY <1>4 DEF UpdateExpected, ApplyCompactionResults, CreateTaskNode
  <2>2. ~ raced => Requested(file, copy'[w])
    BY <1>4, ExpectedRequested, CompactionRequested, TaskRequested
  <2>. QED BY <2>1, <2>2, PrepareRequested DEF Prepare, vosVars
<1>5. CASE CreateSession(w)
  <2>1. Requested(file, copy'[w])
    BY <1>5, SessionRequested
  <2>2. /\ UNCHANGED <<file, saves, deleted, raced>>
        /\ \A v \in Writer \ {w} : pc'[v] = pc[v] /\ copy'[v] = copy[v] /\ base'[v] = base[v]
    BY <1>5 DEF CreateSession, Goto, vosVars, FileInv
  <2>. QED BY <2>1, <2>2, RequestFrame
<1>6. CASE InsertSession(w)
  <2>1. /\ UNCHANGED <<file, saves, deleted, raced, copy, base>> /\ pc[w] = "insert"
        /\ \A v \in Writer \ {w} : pc'[v] = pc[v]
    BY <1>6 DEF InsertSession, Goto, FileInv
  <2>2. ~ raced /\ base[w] = saves => copy[w] = file \/ Requested(file, copy[w])
    BY <2>1 DEF RequestInv
  <2>3. copy'[w] = copy[w] /\ base'[w] = base[w]
    BY <2>1
  <2>. QED BY <2>1, <2>2, <2>3, RequestFrame
<1>7. CASE InsertDuplicate(w) \/ DeleteSession(w) \/ Fail(w) \/ Crash(w)
  BY <1>7, EndRequested DEF InsertDuplicate, DeleteSession, Fail, Crash, vosVars
<1>8. CASE SaveFails(w)
  <2>1. UNCHANGED <<file, saves, deleted, raced>>
    BY <1>8 DEF SaveFails, vosVars
  <2>2. CASE EndOf(w)
    BY <2>1, <2>2, EndRequested
  <2>3. CASE ~ EndOf(w)
    <3>1. /\ pc'[w] = "rollback"
          /\ \A v \in Writer \ {w} : pc'[v] = pc[v] /\ copy'[v] = copy[v] /\ base'[v] = base[v]
      BY <1>8, <2>3 DEF SaveFails, Goto, FileInv
    <3>. QED BY <2>1, <3>1, RequestFrame
  <2>. QED BY <2>2, <2>3
<1>9. CASE GetNode(w) \/ GetContextSnapshot(w) \/ ListNodeProcesses(w) \/ DecomposeAnswer(w)
  <2>1. /\ UNCHANGED <<file, saves, deleted, raced, copy, base>>
        /\ pc'[w] \in {"read", "context", "compact", "tasks"} /\ \A v \in Writer \ {w} : pc'[v] = pc[v]
    BY <1>9 DEF GetNode, GetContextSnapshot, ListNodeProcesses, DecomposeAnswer, Goto, vosVars, FileInv
  <2>. QED BY <2>1, RequestFrame
<1>. QED BY <1>1, <1>2, <1>3, <1>4, <1>5, <1>6, <1>7, <1>8, <1>9 DEF Step

LEMMA RequestStep ==
  FileInv /\ AdvanceInv /\ VersionInv /\ RequestInv /\ [Next]_vars
    => RequestInv' /\ [Document!Next]_(Document!vars)
<1>. SUFFICES ASSUME FileInv, AdvanceInv, VersionInv, RequestInv, [Next]_vars
              PROVE  RequestInv' /\ [Document!Next]_(Document!vars)
  OBVIOUS
<1>1. CASE UNCHANGED vars
  <2>1. UNCHANGED <<file, saves, deleted, raced, pc, copy, base>>
    BY <1>1 DEF vars, vosVars, writerVars
  <2>2. UNCHANGED Document!vars
    BY <2>1 DEF Document!vars
  <2>3. CASE Writer = {}
    BY <2>2, <2>3 DEF RequestInv
  <2>4. CASE Writer # {}
    <3>1. PICK w \in Writer : TRUE
      BY <2>4
    <3>2. ~ raced /\ pc'[w] \in {"save", "insert"} /\ base'[w] = saves =>
             copy'[w] = file \/ Requested(file, copy'[w])
      BY <2>1 DEF RequestInv
    <3>3. /\ UNCHANGED <<file, saves, deleted, raced>>
          /\ \A v \in Writer \ {w} : pc'[v] = pc[v] /\ copy'[v] = copy[v] /\ base'[v] = base[v]
      BY <2>1
    <3>4. RequestInv'
      BY <3>2, <3>3, RequestFrame
    <3>. QED BY <2>2, <3>4
  <2>. QED BY <2>2, <2>3, <2>4
<1>2. CASE Next
  <2>1. PICK w \in Writer : Step(w)
    BY <1>2 DEF Next
  <2>2. CASE Save(w)
    BY <2>2, SaveRequested
  <2>3. CASE ~ Save(w)
    BY <2>1, <2>3, OtherRequested DEF Document!vars
  <2>. QED BY <2>2, <2>3
<1>. QED BY <1>1, <1>2

(* Until a save overwrites another the service is a document that requests *)
(* change one at a time, each at once: loading, changing a copy, running   *)
(* an agent between three reads and saving cannot be told from that.       *)
THEOREM ImplementsDocuments == Spec => ImplementsDocument
<1>1. Init => VersionInv /\ RequestInv
  BY DEF Init, VersionInv, ReadingHolds, RequestInv
<1>2. Init => Document!Init
  BY DEF Init, Document!Init
<1>. QED BY <1>1, <1>2, VersionStep, RequestStep, FileAlways, AdvanceAlways, PTL
         DEF Spec, ImplementsDocument, Document!Spec


(* A request that is alone saves over the file it loaded.                  *)
SerialInv == ~ raced /\ \A w \in Writer : pc[w] \in {"save", "insert"} => base[w] = saves

LEMMA SerialStep ==
  ASSUME FileInv, SerialInv, NEW w \in Writer, Writer = {w}, Step(w)
  PROVE  SerialInv'
<1>1. /\ ~ raced
      /\ pc[w] \in {"save", "insert"} => base[w] = saves
      /\ pc \in [Writer -> Steps] /\ base \in [Writer -> Nat]
  BY DEF SerialInv, FileInv
<1>2. CASE \E c : Prepare(w, c)
  BY <1>1, <1>2 DEF SerialInv, Prepare, Goto, vosVars
<1>3. CASE CreateSession(w)
  BY <1>1, <1>3 DEF SerialInv, CreateSession, Goto, vosVars
<1>4. CASE InsertSession(w)
  BY <1>1, <1>4 DEF SerialInv, InsertSession, Goto
<1>5. CASE Save(w)
  <2>1. ~ raced' /\ pc'[w] \in {"tasks", "idle"}
    BY <1>1, <1>5 DEF Save, EndOf, Goto
  <2>. QED BY <2>1 DEF SerialInv
<1>6. CASE \/ InsertDuplicate(w) \/ DeleteSession(w) \/ SaveFails(w) \/ Fail(w) \/ Crash(w)
           \/ GetNode(w) \/ GetContextSnapshot(w) \/ ListNodeProcesses(w) \/ DecomposeAnswer(w)
  <2>1. raced' = raced /\ pc'[w] \in {"idle", "rollback", "read", "context", "compact", "tasks"}
    BY <1>1, <1>6 DEF InsertDuplicate, DeleteSession, SaveFails, Fail, Crash, GetNode, GetContextSnapshot,
                      ListNodeProcesses, DecomposeAnswer, EndOf, Goto, vosVars
  <2>. QED BY <1>1, <2>1 DEF SerialInv
<1>7. \/ CreateTopic(w) \/ UpdateTopic(w) \/ DeleteTopic(w)
      \/ CreateNode(w) \/ MoveNode(w) \/ DeleteNode(w) \/ UpdateNode(w) \/ UpdateExpected(w)
      \/ ToolPermission(w) \/ SkillPermission(w) \/ RecordAudit(w) \/ DecideProposal(w)
      \/ ApplyCompactionResults(w) \/ CreateTaskNode(w)
      => \E c : Prepare(w, c)
  BY DEF CreateTopic, UpdateTopic, DeleteTopic, CreateNode, MoveNode, DeleteNode, UpdateNode,
         UpdateExpected, ToolPermission, SkillPermission, RecordAudit, DecideProposal,
         ApplyCompactionResults, CreateTaskNode, Operation
<1>. QED BY <1>2, <1>3, <1>4, <1>5, <1>6, <1>7 DEF Step

NotRaced == ~ raced

(* It takes two requests at once to lose a save: where they come one after *)
(* the other, the abstract document never has to allow for it.             *)
THEOREM SerialRequestsNeverRace ==
  ASSUME NEW w, Writer = {w} PROVE Spec => []NotRaced
<1>1. Init => SerialInv
  BY DEF Init, SerialInv
<1>2. FileInv /\ SerialInv /\ [Next]_vars => SerialInv'
  <2>1. FileInv /\ SerialInv /\ Next => SerialInv'
    BY SerialStep DEF Next
  <2>2. SerialInv /\ UNCHANGED vars => SerialInv'
    BY DEF SerialInv, vars, vosVars, writerVars
  <2>. QED BY <2>1, <2>2
<1>3. SerialInv => NotRaced
  BY DEF SerialInv, NotRaced
<1>. QED BY <1>1, <1>2, <1>3, FileAlways, PTL DEF Spec
=============================================================================
