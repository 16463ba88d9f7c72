---------------------------- MODULE VosDocument ----------------------------
(***************************************************************************)
(* What the VOS service promises the requests that change its tree, with   *)
(* no loads, copies, saves or agents at work in between: each request      *)
(* takes effect at once, on the document as it is then.                    *)
(*                                                                         *)
(* The promise ends when a save overwrites one its writer had not seen.    *)
(* All that is promised then is a document the service can work on.        *)
(***************************************************************************)
EXTENDS VosTree

CONSTANTS InitialDocs, Audited, CallerMetadata, CallerUpdates

VARIABLES doc,        \* the document
          deleted,    \* the nodes that were ever removed
          overwritten \* whether a save undid another

vars == <<doc, deleted, overwritten>>

Init == doc \in InitialDocs /\ deleted = {} /\ overwritten = FALSE

-----------------------------------------------------------------------------
(* What one request may make of the document d.                            *)
TopicRequest(d, e) ==
  \/ \E t \in Topic, r \in Node : CanCreateTopic(d, t, r) /\ \E m \in CallerMetadata : e = CreateTopicIn(d, t, r, m)
  \/ \E t \in d.topics : e = DeleteTopicIn(d, t) \/ \E m \in CallerMetadata : e = ReplaceMetadataIn(d, t, m)

NodeRequest(d, e) ==
  \/ \E t \in Topic, n, p \in Node : CanCreateNode(d, t, n, p) /\ e = CreateNodeIn(d, t, n, p)
  \/ \E n, p \in Node : CanMoveNode(d, n, p) /\ e = MoveNodeIn(d, n, p)
  \/ \E n \in Node : CanDeleteNode(d, n) /\ e = DeleteNodeIn(d, n)
  \/ \E n \in d.nodes, x \in CallerUpdates : e = UpdateNodeIn(d, n, x)
  \/ \E n \in d.nodes, s \in Session : s \notin d.refs[n] \cup d.appended[n] /\ e = AddSessionIn(d, n, s)

RuleRequest(d, e) ==
  \/ \E t \in d.topics, k \in Rule :
        \/ k \notin d.allows[t] /\ e = AddToolPermissionIn(d, t, k)
        \/ k \in d.allows[t] /\ e = DeleteToolPermissionIn(d, t, k)
  \/ \E k \in Rule : e = AddSkillPermissionIn(d, k) \/ (k \in d.skills /\ e = DeleteSkillPermissionIn(d, k))
  \/ \E t \in d.topics, tags \in Audited : e = RecordAuditIn(d, t, tags)

(* A compaction rewrites the processes the node has, and no others; only   *)
(* of a node that was removed and made again, or of items that went astray *)
(* between nodes, may it bring some back.                                  *)
MemoryRequest(d, e) ==
  \/ \E t \in Topic, q \in Proposal, c \in BOOLEAN :
        CanDecideProposal(d, t, q) /\ e = DecideProposalIn(d, t, q, c)
  \/ \E n \in d.nodes : \E items \in SUBSET Proc, created \in SUBSET Proposal :
        /\ n \notin deleted => items \ d.strays = d.procs[n] \ d.strays
        /\ \A q \in created : d.proposals[d.topicOf[n]][q] = "absent"
        /\ e = ApplyCompactionIn(d, n, items, created)

Perform ==
  /\ ~ overwritten /\ UNCHANGED overwritten
  /\ doc' # doc
  /\ \/ TopicRequest(doc, doc') \/ NodeRequest(doc, doc')
     \/ RuleRequest(doc, doc') \/ MemoryRequest(doc, doc')

Overwrite == overwritten' = TRUE /\ FileOK(doc')

Next == (Perform \/ Overwrite) /\ deleted' = deleted \cup (doc.nodes \ doc'.nodes)

Spec == Init /\ [][Next]_vars
=============================================================================
