----------------------------- MODULE VosService -----------------------------
(***************************************************************************)
(* The operations of internal/vos/service as processes run them: HTTP      *)
(* handlers, the vos command line and the agents' tools share one state    *)
(* file and one session database, and nothing locks the file.  A writer    *)
(* loads the file, changes its copy and replaces the file by it some time  *)
(* later; longer operations read the file several times, or let an agent   *)
(* run between reading and writing.                                        *)
(***************************************************************************)
EXTENDS VosTree

CONSTANTS Writer,        \* requests under way at a time
          InitialFiles,  \* the files an earlier run may have left
          Audited,       \* the sets of risk tags audits come with
          CallerMetadata, CallerUpdates, \* what callers send for topics and nodes
          Tasks,         \* tasks a decomposition agent answers with
          MaxSaves,      \* bound on the times the file is replaced
          NoSession

ASSUME InitialFilesValid ==
  \A s \in InitialFiles : FileOK(s) /\ \A n \in Node : s.refs[n] = {}
ASSUME SessionAssumption == NoSession \notin Session
ASSUME AuditedAssumption == Audited \subseteq SUBSET Tag
ASSUME CallerAssumption == CallerMetadata \subseteq Metadata /\ CallerUpdates \subseteq NodeUpdate
ASSUME TasksAssumption == Tasks \in Nat \ {0}

VARIABLES file,     \* the state file
          rows,     \* the sessions of the database
          saves,    \* how often the file was replaced
          deleted,  \* the nodes that were ever removed (history)
          raced,    \* whether a save replaced a file its writer had not loaded (history)
          pc, copy, base, sid,  \* per writer: step, changed copy, saves at the load, new session
          held      \* per writer: what an earlier read of a node returned

vosVars == <<file, rows, saves, deleted, raced>>
writerVars == <<pc, copy, base, sid, held>>
vars == <<vosVars, writerVars>>

NoReading == [node |-> NoNode, topic |-> NoTopic, version |-> 0, procs |-> {}, refs |-> {},
              appended |-> {}, tasks |-> 0]
Reading == [node: Node \cup {NoNode}, topic: Topic \cup {NoTopic}, version: Nat, procs: SUBSET Proc,
            refs: SUBSET Session, appended: SUBSET Session, tasks: 0..Tasks]

Init ==
  /\ file \in InitialFiles
  /\ rows = {} /\ saves = 0 /\ deleted = {} /\ raced = FALSE
  /\ pc = [w \in Writer |-> "idle"]
  /\ copy = [w \in Writer |-> EmptyState]
  /\ base = [w \in Writer |-> 0]
  /\ sid = [w \in Writer |-> NoSession]
  /\ held = [w \in Writer |-> NoReading]

Goto(w, step) == pc' = [pc EXCEPT ![w] = step]

(* Load and the change of the copy; the writer still has to save it.       *)
Prepare(w, changed) ==
  /\ saves < MaxSaves
  /\ Goto(w, "save")
  /\ copy' = [copy EXCEPT ![w] = changed]
  /\ base' = [base EXCEPT ![w] = saves]
  /\ UNCHANGED <<vosVars, sid>>

Operation(w, changed) == pc[w] = "idle" /\ Prepare(w, changed) /\ UNCHANGED held

(* The writer is done, or gives its operation up with an error.            *)
EndOf(w) ==
  /\ Goto(w, "idle")
  /\ copy' = [copy EXCEPT ![w] = EmptyState]
  /\ base' = [base EXCEPT ![w] = 0]
  /\ sid' = [sid EXCEPT ![w] = NoSession]
  /\ held' = [held EXCEPT ![w] = NoReading]

-----------------------------------------------------------------------------
(* Topics and nodes.                                                       *)
CreateTopic(w) ==
  \E t \in Topic, r \in Node, m \in CallerMetadata :
     CanCreateTopic(file, t, r) /\ Operation(w, CreateTopicIn(file, t, r, m))

(* A map with metadata replaces what the topic has, however old what the   *)
(* caller made it from.  Without one nothing this model keeps changes, and *)
(* the file is replaced by what it was; the same goes for another          *)
(* workspace.                                                              *)
UpdateTopic(w) ==
  \E t \in file.topics :
     \/ Operation(w, file)
     \/ \E m \in CallerMetadata : Operation(w, ReplaceMetadataIn(file, t, m))

DeleteTopic(w) == \E t \in file.topics : Operation(w, DeleteTopicIn(file, t))

CreateNode(w) ==
  \E t \in Topic, n, p \in Node : CanCreateNode(file, t, n, p) /\ Operation(w, CreateNodeIn(file, t, n, p))

MoveNode(w) == \E n, p \in Node : CanMoveNode(file, n, p) /\ Operation(w, MoveNodeIn(file, n, p))

DeleteNode(w) == \E n \in Node : CanDeleteNode(file, n) /\ Operation(w, DeleteNodeIn(file, n))

UpdateNode(w) ==
  \E n \in file.nodes, x \in CallerUpdates : Operation(w, UpdateNodeIn(file, n, x))

(* An update with ExpectedVersion follows a read of the node.              *)
UpdateExpected(w) ==
  LET n == held[w].node IN
  /\ pc[w] = "read"
  /\ n \in file.nodes /\ file.version[n] = held[w].version
  /\ \E x \in CallerUpdates : Prepare(w, UpdateNodeIn(file, n, x))
  /\ UNCHANGED held

-----------------------------------------------------------------------------
(* Permissions, audits and memory proposals.  Adding a rule the topic has  *)
(* and deleting one it does not have return without a save.                *)
ToolPermission(w) ==
  \E t \in file.topics, k \in Rule :
     \/ k \notin file.allows[t] /\ Operation(w, AddToolPermissionIn(file, t, k))
     \/ k \in file.allows[t] /\ Operation(w, DeleteToolPermissionIn(file, t, k))

SkillPermission(w) ==
  \E k \in Rule : \/ Operation(w, AddSkillPermissionIn(file, k))
                  \/ k \in file.skills /\ Operation(w, DeleteSkillPermissionIn(file, k))

RecordAudit(w) == \E t \in file.topics, tags \in Audited : Operation(w, RecordAuditIn(file, t, tags))

DecideProposal(w) ==
  \E t \in Topic, q \in Proposal, c \in BOOLEAN :
     CanDecideProposal(file, t, q) /\ Operation(w, DecideProposalIn(file, t, q, c))

-----------------------------------------------------------------------------
(* A session is a row of the database and a reference in its node: the row *)
(* is written between the load and the save, and deleted when the save     *)
(* fails.                                                                  *)
CreateSession(w) ==
  \E n \in file.nodes, s \in Session :
     /\ pc[w] = "idle" /\ saves < MaxSaves
     /\ s \notin file.refs[n] \cup file.appended[n]
     /\ Goto(w, "insert")
     /\ copy' = [copy EXCEPT ![w] = AddSessionIn(file, n, s)]
     /\ base' = [base EXCEPT ![w] = saves]
     /\ sid' = [sid EXCEPT ![w] = s]
     /\ UNCHANGED <<vosVars, held>>

InsertSession(w) ==
  /\ pc[w] = "insert" /\ sid[w] \notin rows
  /\ rows' = rows \cup {sid[w]}
  /\ Goto(w, "save")
  /\ UNCHANGED <<file, saves, deleted, raced, copy, base, sid, held>>

(* A fault: the row that was there is taken for the writer's own.          *)
FaultInsertDuplicate(w) ==
  /\ pc[w] = "insert" /\ sid[w] \in rows
  /\ Goto(w, "rollback")
  /\ UNCHANGED <<vosVars, copy, base, sid, held>>

InsertDuplicate(w) ==
  /\ pc[w] = "insert" /\ sid[w] \in rows
  /\ EndOf(w)
  /\ UNCHANGED vosVars

DeleteSession(w) ==
  /\ pc[w] = "rollback"
  /\ rows' = rows \ {sid[w]}
  /\ EndOf(w)
  /\ UNCHANGED <<file, saves, deleted, raced>>

-----------------------------------------------------------------------------
(* Save replaces the file by a rename, whatever happened to it since the   *)
(* load.  A decomposition then goes on with its next task.                 *)
Save(w) ==
  /\ pc[w] = "save"
  /\ file' = copy[w]
  /\ saves' = saves + 1
  /\ deleted' = deleted \cup (file.nodes \ copy[w].nodes)
  /\ raced' = (raced \/ base[w] # saves)
  /\ IF held[w].tasks > 0
     THEN /\ Goto(w, "tasks")
          /\ copy' = [copy EXCEPT ![w] = EmptyState]
          /\ base' = [base EXCEPT ![w] = 0]
          /\ UNCHANGED <<sid, held>>
     ELSE EndOf(w)
  /\ UNCHANGED rows

SaveFails(w) ==
  /\ pc[w] = "save"
  /\ IF sid[w] = NoSession
     THEN EndOf(w)
     ELSE /\ Goto(w, "rollback")
          /\ copy' = [copy EXCEPT ![w] = EmptyState]
          /\ base' = [base EXCEPT ![w] = 0]
          /\ UNCHANGED <<sid, held>>
  /\ UNCHANGED vosVars

-----------------------------------------------------------------------------
(* Operations around an agent start by reading the node, then its context: *)
(* the file, and the row of every session it names.                        *)
GetNode(w) ==
  \E n \in file.nodes :
     /\ pc[w] = "idle" /\ saves < MaxSaves
     /\ Goto(w, "read")
     /\ held' = [held EXCEPT ![w] = [node |-> n, topic |-> file.topicOf[n], version |-> file.version[n],
                                     procs |-> {}, refs |-> {}, appended |-> {}, tasks |-> 0]]
     /\ UNCHANGED <<vosVars, copy, base, sid>>

GetContextSnapshot(w) ==
  /\ pc[w] = "read" /\ held[w].node \in file.nodes
  /\ Goto(w, "context")
  /\ held' = [held EXCEPT ![w].refs = file.refs[held[w].node],
                          ![w].appended = file.appended[held[w].node]]
  /\ UNCHANGED <<vosVars, copy, base, sid>>

(* A context whose sessions are not all in the database is refused.        *)
ContextComplete(w) == held[w].refs \cup held[w].appended \subseteq rows

(* Compaction reads the processes of the node in a third load, those of    *)
(* the file among the ones it lists, and gives up when none is left to     *)
(* compact.                                                                *)
ListedProcesses(n) == file.procs[n] \cap file.processes

FaultListNodeProcesses(w) ==  \* a fault: the version is taken from this load
  /\ pc[w] = "context" /\ ContextComplete(w)
  /\ held[w].node \in file.nodes /\ ListedProcesses(held[w].node) # {}
  /\ Goto(w, "compact")
  /\ held' = [held EXCEPT ![w].procs = ListedProcesses(held[w].node),
                          ![w].version = file.version[held[w].node]]
  /\ UNCHANGED <<vosVars, copy, base, sid>>
ListNodeProcesses(w) ==
  /\ pc[w] = "context" /\ ContextComplete(w)
  /\ held[w].node \in file.nodes /\ ListedProcesses(held[w].node) # {}
  /\ Goto(w, "compact")
  /\ held' = [held EXCEPT ![w].procs = ListedProcesses(held[w].node)]
  /\ UNCHANGED <<vosVars, copy, base, sid>>

(* The agent has answered: the processes it was given, with summaries, and *)
(* perhaps proposals for the topic memory.                                 *)
FaultApplyCompactionResults(w) ==  \* a fault: the version is not compared
  LET n == held[w].node IN
  /\ pc[w] = "compact"
  /\ n \in file.nodes
  /\ \E created \in SUBSET {q \in Proposal : file.proposals[file.topicOf[n]][q] = "absent"} :
        Prepare(w, ApplyCompactionIn(file, n, held[w].procs, created))
  /\ UNCHANGED held
ApplyCompactionResults(w) ==
  LET n == held[w].node IN
  /\ pc[w] = "compact"
  /\ n \in file.nodes /\ file.version[n] = held[w].version
  /\ \E created \in SUBSET {q \in Proposal : file.proposals[file.topicOf[n]][q] = "absent"} :
        Prepare(w, ApplyCompactionIn(file, n, held[w].procs, created))
  /\ UNCHANGED held

(* An answer of fewer tasks does what one that fails early does.           *)
DecomposeAnswer(w) ==
  /\ pc[w] = "context" /\ ContextComplete(w)
  /\ Goto(w, "tasks")
  /\ held' = [held EXCEPT ![w].tasks = Tasks]
  /\ UNCHANGED <<vosVars, copy, base, sid>>

(* Each task is a CreateNode of its own; one that fails ends the request   *)
(* and leaves the nodes made before.                                       *)
CreateTaskNode(w) ==
  /\ pc[w] = "tasks" /\ held[w].tasks > 0
  /\ \E n \in Node :
        /\ CanCreateNode(file, held[w].topic, n, held[w].node)
        /\ Prepare(w, CreateNodeIn(file, held[w].topic, n, held[w].node))
  /\ held' = [held EXCEPT ![w].tasks = @ - 1]

(* A conflict, a node that is gone, a context that lacks a session, an     *)
(* agent's error, a request that is dropped.                               *)
Fail(w) ==
  /\ pc[w] \in {"read", "context", "compact", "tasks"}
  /\ EndOf(w)
  /\ UNCHANGED vosVars

(* The process dies: the file and the rows stay as they are.               *)
Crash(w) ==
  /\ pc[w] # "idle"
  /\ EndOf(w)
  /\ UNCHANGED vosVars

-----------------------------------------------------------------------------
Step(w) ==
  \/ CreateTopic(w) \/ UpdateTopic(w) \/ DeleteTopic(w)
  \/ CreateNode(w) \/ MoveNode(w) \/ DeleteNode(w) \/ UpdateNode(w) \/ UpdateExpected(w)
  \/ ToolPermission(w) \/ SkillPermission(w) \/ RecordAudit(w) \/ DecideProposal(w)
  \/ CreateSession(w) \/ InsertSession(w) \/ InsertDuplicate(w) \/ DeleteSession(w)
  \/ Save(w) \/ SaveFails(w)
  \/ GetNode(w) \/ GetContextSnapshot(w) \/ ListNodeProcesses(w) \/ ApplyCompactionResults(w)
  \/ DecomposeAnswer(w) \/ CreateTaskNode(w)
  \/ Fail(w) \/ Crash(w)

Next == \E w \in Writer : Step(w)

Spec == Init /\ [][Next]_vars

-----------------------------------------------------------------------------
Steps == {"idle", "save", "insert", "rollback", "read", "context", "compact", "tasks"}

TypeOK ==
  /\ file \in State /\ rows \subseteq Session /\ saves \in Nat
  /\ deleted \subseteq Node /\ raced \in BOOLEAN
  /\ pc \in [Writer -> Steps] /\ copy \in [Writer -> State] /\ base \in [Writer -> Nat]
  /\ sid \in [Writer -> Session \cup {NoSession}] /\ held \in [Writer -> Reading]

(* However the saves interleave, the tree of the file hangs together: the  *)
(* checks of CreateNode, MoveNode, DeleteNode and CreateTopic, made on     *)
(* copies that may be stale, let no cycle, orphan or second root through.  *)
TreeWellFormed == TreeOK(file)

(* Every session that CreateSession left in a node of the file, or of a    *)
(* context being read, has its row, whatever its two stores and its        *)
(* rollback went through: no context is refused because of a session the   *)
(* service made.  Identifiers that callers append are not covered; nothing *)
(* checks them, and a context with one that has no row is refused.         *)
SessionsExist ==
  /\ \A n \in Node : file.refs[n] \subseteq rows
  /\ \A w \in Writer : held[w].refs \subseteq rows

(* The parts of the document that are written together agree: processes    *)
(* with the nodes that list them, and, counted from the map a topic was    *)
(* last given, the topic memory with the decisions on its proposals and    *)
(* the audit summary with the audits.                                      *)
MetadataAgrees == ProcessesOwned(file) /\ MetadataOK(file)

(* As long as no save overwrote another, the version a request read tells  *)
(* it whether what it read since is still what the file holds: compaction  *)
(* results, which are the processes of a later load, never undo an update  *)
(* (items that another node took over apart).                              *)
VersionNamesContent ==
  \A w \in Writer :
     LET n == held[w].node IN
     /\ pc[w] \in {"context", "compact"} /\ ~ raced
     /\ n \in file.nodes \ deleted /\ file.version[n] = held[w].version
     => /\ held[w].refs = file.refs[n] /\ held[w].appended = file.appended[n]
        /\ pc[w] = "compact" => held[w].procs \ file.strays = file.procs[n] \ file.strays

(* A save that replaces the file its writer had loaded never takes a node  *)
(* back to an earlier version and changes none without a new version; and  *)
(* a topic's metadata is afterwards the map a caller sent with this very   *)
(* request, or it goes on from what it was: decided proposals stay         *)
(* decided, audits and topic memory stay.                                  *)
SavesAdvance == [][saves' # saves /\ ~ raced' => Advances(file, file')]_vars

(* Until a save overwrites another, requests take effect one at a time and *)
(* each at once, although some read the file three times and let an agent  *)
(* run before they write; and a file that was overwritten is a right one.  *)
Document == INSTANCE VosDocument WITH doc <- file, overwritten <- raced, InitialDocs <- InitialFiles
ImplementsDocument == Document!Spec

=============================================================================
