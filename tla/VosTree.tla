------------------------------ MODULE VosTree ------------------------------
(***************************************************************************)
(* The state file of the VOS service (domain.VfsState, one JSON document)  *)
(* and what each operation of internal/vos/service makes of it.  An        *)
(* operation loads the file, checks its arguments, changes the copy and    *)
(* saves it whole; here it is a condition on the copy (Can...) and an      *)
(* operator from the copy to the changed copy.                             *)
(*                                                                         *)
(* Rows that do not exist hold the default of their table.  Names, texts,  *)
(* statuses, tags, workspaces and timestamps are left out; a list whose    *)
(* order no property reads (children, processes, sessions) is a set.       *)
(***************************************************************************)
EXTENDS Integers, FiniteSets, Sequences

CONSTANTS Topic, Node, Proc, Session, Rule, Tag, Proposal, NoTopic, NoNode, NoTag,
          ProcOf   \* the node an item was first given to: identifiers are made up once

ASSUME ProcOfAssumption == ProcOf \in [Proc -> Node]
ASSUME AbsentValues == NoTopic \notin Topic /\ NoNode \notin Node /\ NoTag \notin Tag

-----------------------------------------------------------------------------
(* The metadata of a topic: allow rules, policy audits and their summary,  *)
(* memory proposals and the topic memory.  It is one map, which callers    *)
(* may replace by any other (topics are created and patched with it): the  *)
(* summary may count what no audit shows, the memory hold what no proposal *)
(* brought.  An audit is told apart by its set of risk tags, the topic     *)
(* memory by the proposals whose entries it holds; any status but pending  *)
(* is final.                                                               *)
Statuses == {"absent", "pending", "applied", "rejected"}

Metadata == [allows: SUBSET Rule, audits: Seq(SUBSET Tag), tally: [Tag \cup {NoTag} -> Int],
             proposals: [Proposal -> Statuses], memory: SUBSET Proposal]

(* The document: topics with their metadata, nodes, the items of           *)
(* state.Processes, and the skills the user allows.  The sessions a node   *)
(* names are the references CreateSession left and those that callers      *)
(* appended.                                                               *)
(*                                                                         *)
(* Three fields are history, kept in the document because every copy of it *)
(* has its own: the metadata that was last given to a topic, how often it  *)
(* was, and the items that an update put in a node they were not made for. *)
State == [topics: SUBSET Topic, rootOf: [Topic -> Node \cup {NoNode}],
          nodes: SUBSET Node, topicOf: [Node -> Topic \cup {NoTopic}],
          parent: [Node -> Node \cup {NoNode}], children: [Node -> SUBSET Node],
          version: [Node -> Nat], procs: [Node -> SUBSET Proc],
          refs: [Node -> SUBSET Session], appended: [Node -> SUBSET Session],
          processes: SUBSET Proc, skills: SUBSET Rule,
          allows: [Topic -> SUBSET Rule], audits: [Topic -> Seq(SUBSET Tag)],
          tally: [Topic -> [Tag \cup {NoTag} -> Int]],
          proposals: [Topic -> [Proposal -> Statuses]], memory: [Topic -> SUBSET Proposal],
          given: [Topic -> Metadata], replaced: [Topic -> Nat], strays: SUBSET Proc]

MetadataOf(s, t) == [allows |-> s.allows[t], audits |-> s.audits[t], tally |-> s.tally[t],
                     proposals |-> s.proposals[t], memory |-> s.memory[t]]

NoAudits == <<>>
NoTally == [g \in Tag \cup {NoTag} |-> 0]
NoProposals == [q \in Proposal |-> "absent"]
NoMetadata == [allows |-> {}, audits |-> NoAudits, tally |-> NoTally,
               proposals |-> NoProposals, memory |-> {}]

EmptyState ==
  [topics |-> {}, rootOf |-> [t \in Topic |-> NoNode],
   nodes |-> {}, topicOf |-> [n \in Node |-> NoTopic], parent |-> [n \in Node |-> NoNode],
   children |-> [n \in Node |-> {}], version |-> [n \in Node |-> 0],
   procs |-> [n \in Node |-> {}], refs |-> [n \in Node |-> {}],
   appended |-> [n \in Node |-> {}], processes |-> {}, skills |-> {},
   allows |-> [t \in Topic |-> {}], audits |-> [t \in Topic |-> NoAudits],
   tally |-> [t \in Topic |-> NoTally], proposals |-> [t \in Topic |-> NoProposals],
   memory |-> [t \in Topic |-> {}], given |-> [t \in Topic |-> NoMetadata],
   replaced |-> [t \in Topic |-> 0], strays |-> {}]

(* touchNode on every node of S.                                           *)
Touched(s, S) == [n \in Node |-> s.version[n] + (IF n \in S THEN 1 ELSE 0)]

(* Whether a node is met on the way from p to the root: every set that     *)
(* holds p and the parents of its members holds the node.                  *)
FaultAbove(s, p, n) == p = n  \* a fault: the walk stops at its first step
Above(s, p, n) ==
  \A S \in SUBSET s.nodes :
     p \in S /\ (\A m \in S : s.parent[m] = NoNode \/ s.parent[m] \in S) => n \in S

-----------------------------------------------------------------------------
(* A map that a caller sends becomes the metadata of the topic: what was   *)
(* kept there is gone unless the caller sends it along, and what the       *)
(* caller makes up is there from now on.                                   *)
FaultReplaceMetadataIn(s, t, m) ==  \* a fault: the topic memory, a key of its own, stays
  [s EXCEPT !.allows[t] = m.allows, !.audits[t] = m.audits, !.tally[t] = m.tally,
            !.proposals[t] = m.proposals, !.given[t] = m, !.replaced[t] = @ + 1]
ReplaceMetadataIn(s, t, m) ==
  [s EXCEPT !.allows[t] = m.allows, !.audits[t] = m.audits, !.tally[t] = m.tally,
            !.proposals[t] = m.proposals, !.memory[t] = m.memory, !.given[t] = m, !.replaced[t] = @ + 1]

(* Topics.  The root may carry an identifier of the caller's choice, the   *)
(* topic a metadata map of the caller's.                                   *)
CanCreateTopic(s, t, r) == t \notin s.topics /\ r \notin s.nodes

CreateTopicIn(s, t, r, m) ==
  [ReplaceMetadataIn(s, t, m) EXCEPT
     !.topics = s.topics \cup {t}, !.rootOf = [s.rootOf EXCEPT ![t] = r],
     !.nodes = s.nodes \cup {r}, !.topicOf = [s.topicOf EXCEPT ![r] = t],
     !.parent = [s.parent EXCEPT ![r] = NoNode],
     !.version = [s.version EXCEPT ![r] = 1]]

(* The nodes of the topic go with it; their processes stay in the file and *)
(* their sessions in the database.                                         *)
DeleteTopicIn(s, t) ==
  LET gone == {n \in s.nodes : s.topicOf[n] = t}
      Reset(f, d) == [n \in Node |-> IF n \in gone THEN d ELSE f[n]]
  IN [ReplaceMetadataIn(s, t, NoMetadata) EXCEPT
        !.topics = s.topics \ {t}, !.rootOf = [s.rootOf EXCEPT ![t] = NoNode],
        !.nodes = s.nodes \ gone, !.topicOf = Reset(s.topicOf, NoTopic),
        !.parent = Reset(s.parent, NoNode), !.children = Reset(s.children, {}),
        !.version = Reset(s.version, 0), !.procs = Reset(s.procs, {}),
        !.refs = Reset(s.refs, {}), !.appended = Reset(s.appended, {})]

-----------------------------------------------------------------------------
(* Nodes.  A node is created in a topic, under a parent of that topic.     *)
CanCreateNode(s, t, n, p) ==
  t \in s.topics /\ p \in s.nodes /\ s.topicOf[p] = t /\ n \notin s.nodes

CreateNodeIn(s, t, n, p) ==
  [s EXCEPT !.nodes = s.nodes \cup {n}, !.topicOf = [s.topicOf EXCEPT ![n] = t],
            !.parent = [s.parent EXCEPT ![n] = p],
            !.children = [s.children EXCEPT ![p] = @ \cup {n}],
            !.version = [Touched(s, {p}) EXCEPT ![n] = 1]]

(* A move under the parent the node already has changes nothing and is not *)
(* saved.                                                                  *)
CanMoveNode(s, n, p) ==
  /\ n \in s.nodes /\ s.parent[n] # NoNode
  /\ p \in s.nodes /\ s.topicOf[p] = s.topicOf[n]
  /\ ~ Above(s, p, n)
  /\ p # s.parent[n]

(* A fault: the parent it had is not touched.                              *)
FaultMoveNodeIn(s, n, p) ==
  [s EXCEPT !.parent = [s.parent EXCEPT ![n] = p],
            !.children = [m \in Node |-> CASE m = p -> s.children[m] \cup {n}
                                           [] m = s.parent[n] -> s.children[m] \ {n}
                                           [] OTHER -> s.children[m]],
            !.version = Touched(s, {n, p})]
MoveNodeIn(s, n, p) ==
  [s EXCEPT !.parent = [s.parent EXCEPT ![n] = p],
            !.children = [m \in Node |-> CASE m = p -> s.children[m] \cup {n}
                                           [] m = s.parent[n] -> s.children[m] \ {n}
                                           [] OTHER -> s.children[m]],
            !.version = Touched(s, {n, p, s.parent[n]})]

(* The processes of the node stay in the file and its sessions in the      *)
(* database; what its parent remembers of it stays too.                    *)
CanDeleteNode(s, n) == n \in s.nodes /\ s.parent[n] # NoNode /\ s.children[n] = {}

DeleteNodeIn(s, n) ==
  [s EXCEPT !.nodes = s.nodes \ {n}, !.topicOf = [s.topicOf EXCEPT ![n] = NoTopic],
            !.parent = [s.parent EXCEPT ![n] = NoNode],
            !.children = [s.children EXCEPT ![s.parent[n]] = @ \ {n}],
            !.version = [Touched(s, {s.parent[n]}) EXCEPT ![n] = 0],
            !.procs = [s.procs EXCEPT ![n] = {}], !.refs = [s.refs EXCEPT ![n] = {}],
            !.appended = [s.appended EXCEPT ![n] = {}]]

(* The items of the node become exactly those of the update: the new ones  *)
(* are added to the file and the ones it no longer lists are deleted.      *)
SyncNodeProcesses(s, n, items) ==
  [s EXCEPT !.processes = (s.processes \cup items) \ (s.procs[n] \ items),
            !.procs = [s.procs EXCEPT ![n] = items],
            !.strays = s.strays \cup {i \in items : ProcOf[i] # n}]

(* What an update to a node may bring: items or none, with identifiers     *)
(* that nothing compares with those of other nodes, session identifiers    *)
(* that nothing looks up, and a memory or none.                            *)
NodeUpdate == [itemsGiven: BOOLEAN, items: SUBSET Proc, sessions: SUBSET Session, remembered: BOOLEAN]

(* The session identifiers are appended to what the node names; a memory   *)
(* for the node also changes the memory its parent keeps of its children,  *)
(* and the version of the parent with it.                                  *)
UpdateNodeIn(s, n, x) ==
  [(IF x.itemsGiven THEN SyncNodeProcesses(s, n, x.items) ELSE s) EXCEPT
     !.appended = [s.appended EXCEPT ![n] = @ \cup x.sessions],
     !.version = Touched(s, {n} \cup (IF x.remembered THEN {s.parent[n]} ELSE {}))]

(* The reference a new session leaves in its node.                         *)
AddSessionIn(s, n, sid) ==
  [s EXCEPT !.refs = [s.refs EXCEPT ![n] = @ \cup {sid}], !.version = Touched(s, {n})]

-----------------------------------------------------------------------------
(* Permissions and audits.  A rule equal to one the topic has is not added *)
(* again.                                                                  *)
AddToolPermissionIn(s, t, k) == [s EXCEPT !.allows[t] = @ \cup {k}]
DeleteToolPermissionIn(s, t, k) == [s EXCEPT !.allows[t] = @ \ {k}]
AddSkillPermissionIn(s, k) == [s EXCEPT !.skills = s.skills \cup {k}]
DeleteSkillPermissionIn(s, k) == [s EXCEPT !.skills = s.skills \ {k}]

(* The summary counts an audit once under each of its risk tags, under     *)
(* "none" when it has no tag.                                              *)
AuditSummary(counts, tags) ==
  LET keys == IF tags = {} THEN {NoTag} ELSE tags
  IN [g \in Tag \cup {NoTag} |-> counts[g] + (IF g \in keys THEN 1 ELSE 0)]

RecordAuditIn(s, t, tags) ==
  [s EXCEPT !.audits[t] = Append(@, tags), !.tally[t] = AuditSummary(@, tags)]

-----------------------------------------------------------------------------
(* Compaction results and the memory proposals that come with them.        *)
ApplyCompactionIn(s, n, items, created) ==
  [SyncNodeProcesses(s, n, items) EXCEPT
     !.proposals[s.topicOf[n]] = [q \in Proposal |-> IF q \in created THEN "pending" ELSE @[q]],
     !.version = Touched(s, {n})]

CanDecideProposal(s, t, q) == t \in s.topics /\ s.proposals[t][q] = "pending"

FaultDecideProposalIn(s, t, q, confirmed) ==  \* a fault: the row keeps the request's word
  [s EXCEPT !.proposals[t][q] = IF confirmed THEN "confirm" ELSE "reject",
            !.memory[t] = IF confirmed THEN @ \cup {q} ELSE @]
DecideProposalIn(s, t, q, confirmed) ==
  [s EXCEPT !.proposals[t][q] = IF confirmed THEN "applied" ELSE "rejected",
            !.memory[t] = IF confirmed THEN @ \cup {q} ELSE @]

-----------------------------------------------------------------------------
(* What a file must be for the service to work on it.                      *)

(* Parents and children name each other within one topic, every topic has  *)
(* one root, and following parents ends there: requireNode never fails on  *)
(* a parent or child the file itself names (service.go:508, 702, 728), and *)
(* ensureNoCycle and the tree view terminate.                              *)
RootsExist(s) ==
  \A t \in s.topics : /\ s.rootOf[t] \in s.nodes
                      /\ s.topicOf[s.rootOf[t]] = t
                      /\ s.parent[s.rootOf[t]] = NoNode
NodesHang(s) ==
  \A n \in s.nodes :
     /\ s.topicOf[n] \in s.topics
     /\ IF s.parent[n] = NoNode THEN n = s.rootOf[s.topicOf[n]]
        ELSE /\ s.parent[n] \in s.nodes
             /\ s.topicOf[s.parent[n]] = s.topicOf[n]
             /\ n \in s.children[s.parent[n]]
ChildrenAgree(s) == \A p \in Node : \A n \in s.children[p] : {n, p} \subseteq s.nodes /\ s.parent[n] = p
Acyclic(s) == \A S \in SUBSET s.nodes : S # {} => \E n \in S : s.parent[n] \notin S

TreeOK(s) == RootsExist(s) /\ NodesHang(s) /\ ChildrenAgree(s) /\ Acyclic(s)

(* Every process a node lists is in the file, and is its own: an update    *)
(* elsewhere does not delete it.  This is promised of items that no update *)
(* has put in another node.                                                *)
ProcessesOwned(s) ==
  \A n \in Node : \A i \in s.procs[n] : i \in s.strays \/ (ProcOf[i] = n /\ i \in s.processes)

(* The topic memory holds what it was given and what was applied since.    *)
MemoryIsApplied(s) ==
  \A t \in Topic :
     s.memory[t] = s.given[t].memory
                     \cup {q \in Proposal : s.proposals[t][q] = "applied" /\ s.given[t].proposals[q] # "applied"}

(* A proposal that was given with a decision keeps it, and none is lost.   *)
ProposalsFollow(s) ==
  \A t \in Topic, q \in Proposal :
     \/ s.proposals[t][q] = s.given[t].proposals[q]
     \/ s.given[t].proposals[q] \in {"absent", "pending"} /\ s.proposals[t][q] # "absent"

(* The audits are those that were given and more.                          *)
StartsWith(audits, first) ==
  Len(first) <= Len(audits) /\ \A i \in 1..Len(first) : audits[i] = first[i]
AuditsKept(s) == \A t \in Topic : StartsWith(s.audits[t], s.given[t].audits)

(* The summary counts what it was given to count and the audits since that *)
(* bear the tag, or have none.                                             *)
Bears(tags, g) == g \in tags \/ (g = NoTag /\ tags = {})
Bearers(audits, g, from) == {i \in 1..Len(audits) : i > from /\ Bears(audits[i], g)}
TallyAgrees(s) ==
  \A t \in Topic, g \in Tag \cup {NoTag} :
     s.tally[t][g] = s.given[t].tally[g] + Cardinality(Bearers(s.audits[t], g, Len(s.given[t].audits)))

MetadataOK(s) == MemoryIsApplied(s) /\ ProposalsFollow(s) /\ AuditsKept(s) /\ TallyAgrees(s)

(* The state of a file that the operations rely on and leave behind.       *)
FileOK(s) == s \in State /\ TreeOK(s) /\ ProcessesOwned(s) /\ MetadataOK(s)

(* What the node's version stands for.                                     *)
NodeRow(s, n) == <<s.topicOf[n], s.parent[n], s.children[n], s.procs[n], s.refs[n], s.appended[n]>>

(* What one saved operation may do to the file it loaded.  A changed row   *)
(* has a greater version.  The metadata of a topic is what a caller gave   *)
(* it with this save, or else goes on from what it was: a decided proposal *)
(* stays decided, no audit and no memory is lost.                          *)
RowAdvances(s, u, n) ==
  u.version[n] > s.version[n] \/ (u.version[n] = s.version[n] /\ NodeRow(u, n) = NodeRow(s, n))

MetadataAdvances(s, u, t) ==
  \/ u.replaced[t] > s.replaced[t] /\ MetadataOf(u, t) = u.given[t]
  \/ /\ u.replaced[t] = s.replaced[t] /\ u.given[t] = s.given[t]
     /\ \A q \in Proposal :
           s.proposals[t][q] \in {"applied", "rejected"} => u.proposals[t][q] = s.proposals[t][q]
     /\ StartsWith(u.audits[t], s.audits[t])
     /\ s.memory[t] \subseteq u.memory[t]

Advances(s, u) ==
  /\ \A n \in s.nodes \cap u.nodes : RowAdvances(s, u, n)
  /\ \A t \in Topic : MetadataAdvances(s, u, t)
  /\ s.strays \subseteq u.strays
=============================================================================
