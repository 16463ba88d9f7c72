---------------------------- MODULE MCVosService ----------------------------
(* Instances of VosService for TLC.                                        *)
EXTENDS VosService, TLC

CONSTANTS w1, w2, t1, t2, n1, n2, n3, p1, s1, r1, g1, q1

(* Items are first given to the root.                                      *)
RootItems == [i \in Proc |-> n1]

(* The updates callers send for nodes: the process with its identifier,    *)
(* whatever the node; no process, and a memory; a session that may not     *)
(* exist, and a memory.                                                    *)
WithItems == [itemsGiven |-> TRUE, items |-> Proc, sessions |-> {}, remembered |-> FALSE]
Emptied == [itemsGiven |-> TRUE, items |-> {}, sessions |-> {}, remembered |-> TRUE]
WithSession == [itemsGiven |-> FALSE, items |-> {}, sessions |-> Session, remembered |-> TRUE]

Updates == {WithItems, Emptied, WithSession}

(* A topic whose root has a child and a process, with an audit that bears  *)
(* no risk tag.                                                            *)
Grown ==
  LET grown == CreateNodeIn(CreateTopicIn(EmptyState, t1, n1, NoMetadata), t1, n2, n1)
  IN RecordAuditIn(UpdateNodeIn(grown, n1, WithItems), t1, {})

(* The same with a grandchild, a rule and a proposal to decide.            *)
Deep ==
  LET deep == AddToolPermissionIn(CreateNodeIn(Grown, t1, n3, n2), t1, r1)
  IN ApplyCompactionIn(deep, n1, Proc, Proposal)

Files == {EmptyState, Grown, Deep}

(* The maps callers send: the one Deep had before its proposal was         *)
(* decided, and one with memory that no proposal brought, a decision that  *)
(* brought none and a summary without audits.                              *)
OddMetadata ==
  [NoMetadata EXCEPT !.memory = Proposal, !.proposals = [q \in Proposal |-> "rejected"],
                     !.tally = [NoTally EXCEPT ![NoTag] = 2]]

CallerMaps == {MetadataOf(Deep, t1), OddMetadata}

AllTags == {Tag}

Writers == Permutations(Writer)
=============================================================================
