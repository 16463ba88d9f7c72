-------------------------- MODULE VosSessionProofs --------------------------
(***************************************************************************)
(* Sessions of VosService: references in the file, rows in the database.   *)
(***************************************************************************)
EXTENDS VosServiceProofs

(* No operation but CreateSession adds a reference of its own making; what *)
(* callers append is kept apart.                                           *)
RefsKept(s, u) == \A n \in Node : u.refs[n] \subseteq s.refs[n]
RefsIn(s, S) == \A n \in Node : s.refs[n] \subseteq S

LEMMA KeptReplaced ==
  ASSUME NEW s \in State, NEW t, NEW m PROVE RefsKept(s, ReplaceMetadataIn(s, t, m))
BY DEF RefsKept, State, ReplaceMetadataIn

LEMMA KeptTopic ==
  ASSUME NEW s \in State, NEW t \in Topic, NEW r \in Node, NEW m
  PROVE  RefsKept(s, CreateTopicIn(s, t, r, m))
<1>1. CreateTopicIn(s, t, r, m).refs = s.refs
  BY DEF State, ReplaceMetadataIn, CreateTopicIn
<1>. QED BY <1>1 DEF RefsKept

LEMMA KeptDeleteTopic ==
  ASSUME NEW s \in State, NEW t \in Topic PROVE RefsKept(s, DeleteTopicIn(s, t))
<1>. DEFINE v == ReplaceMetadataIn(s, t, NoMetadata)
            gone == {n \in s.nodes : s.topicOf[n] = t}
            Reset(f, d) == [n \in Node |-> IF n \in gone THEN d ELSE f[n]]
            u == DeleteTopicIn(s, t)
<1>1. v = [s EXCEPT !.allows = v.allows, !.audits = v.audits, !.tally = v.tally,
                    !.proposals = v.proposals, !.memory = v.memory, !.given = v.given,
                    !.replaced = v.replaced]
  BY DEF ReplaceMetadataIn, State
<1>. HIDE DEF v
<1>2. u = [v EXCEPT !.topics = s.topics \ {t}, !.rootOf = [s.rootOf EXCEPT ![t] = NoNode],
                    !.nodes = s.nodes \ gone, !.topicOf = Reset(s.topicOf, NoTopic),
                    !.parent = Reset(s.parent, NoNode), !.children = Reset(s.children, {}),
                    !.version = Reset(s.version, 0), !.procs = Reset(s.procs, {}),
                    !.refs = Reset(s.refs, {}), !.appended = Reset(s.appended, {})]
  BY DEF DeleteTopicIn, v
<1>3. u.refs = Reset(s.refs, {})
  BY <1>1, <1>2 DEF State
<1>. QED BY <1>3 DEF RefsKept, State

LEMMA KeptNode ==
  ASSUME NEW s \in State, NEW t \in Topic, NEW n \in Node, NEW p \in Node
  PROVE  /\ RefsKept(s, CreateNodeIn(s, t, n, p)) /\ RefsKept(s, MoveNodeIn(s, n, p))
         /\ RefsKept(s, DeleteNodeIn(s, n))
BY DEF RefsKept, State, CreateNodeIn, MoveNodeIn, DeleteNodeIn

LEMMA KeptUpdate ==
  ASSUME NEW s \in State, NEW n \in Node, NEW x, NEW items, NEW created
  PROVE  RefsKept(s, UpdateNodeIn(s, n, x)) /\ RefsKept(s, ApplyCompactionIn(s, n, items, created))
<1>1. CASE x.itemsGiven
  BY <1>1 DEF RefsKept, State, UpdateNodeIn, ApplyCompactionIn, SyncNodeProcesses
<1>2. CASE ~ x.itemsGiven
  BY <1>2 DEF RefsKept, State, UpdateNodeIn, ApplyCompactionIn, SyncNodeProcesses
<1>. QED BY <1>1, <1>2

LEMMA KeptMetadata ==
  ASSUME NEW s \in State, NEW t \in Topic, NEW k, NEW q, NEW c
  PROVE  /\ RefsKept(s, AddToolPermissionIn(s, t, k)) /\ RefsKept(s, DeleteToolPermissionIn(s, t, k))
         /\ RefsKept(s, AddSkillPermissionIn(s, k)) /\ RefsKept(s, DeleteSkillPermissionIn(s, k))
         /\ RefsKept(s, RecordAuditIn(s, t, k)) /\ RefsKept(s, DecideProposalIn(s, t, q, c))
BY DEF RefsKept, State, AddToolPermissionIn, DeleteToolPermissionIn, AddSkillPermissionIn,
       DeleteSkillPermissionIn, RecordAuditIn, DecideProposalIn

LEMMA AddedSession ==
  ASSUME NEW s \in State, NEW n \in Node, NEW x, NEW S, RefsIn(s, S)
  PROVE  RefsIn(AddSessionIn(s, n, x), S \cup {x})
BY DEF RefsIn, State, AddSessionIn

-----------------------------------------------------------------------------
(* A request has a session of its own between the insertion of the row and *)
(* the end of the save or the rollback: until then nothing on disk and     *)
(* nothing anybody else would save names it.  This is what allows the      *)
(* rollback to delete the row.                                             *)
Mine(w) == pc[w] \in {"save", "rollback"} /\ sid[w] # NoSession
Names(s, x) == \E n \in Node : x \in s.refs[n]

WriterSessions(w) ==
  /\ held[w].refs \subseteq rows
  /\ pc[w] = "save" => RefsIn(copy[w], rows)
  /\ pc[w] = "insert" => RefsIn(copy[w], rows \cup {sid[w]})
  /\ sid[w] # NoSession => pc[w] \in {"insert", "save", "rollback"} /\ held[w].tasks = 0
  /\ pc[w] = "idle" => held[w].tasks = 0
  /\ Mine(w) => sid[w] \in rows /\ ~ Names(file, sid[w])

Private(w, v) ==
  Mine(w) =>
    /\ sid[w] \notin held[v].refs
    /\ v # w =>
         /\ Mine(v) => sid[v] # sid[w]
         /\ pc[v] = "save" => ~ Names(copy[v], sid[w])
         /\ pc[v] = "insert" /\ sid[v] # sid[w] => ~ Names(copy[v], sid[w])

SessionInv ==
  /\ RefsIn(file, rows)
  /\ \A w \in Writer : WriterSessions(w)
  /\ \A w, v \in Writer : Private(w, v)

(* A request that has no session yet gets ready to save, or reads.         *)
LEMMA PrepareSessions ==
  ASSUME FileInv, SessionInv, NEW w \in Writer, NEW c, RefsKept(file, c), Prepare(w, c),
         pc[w] \notin {"insert", "save", "rollback"},
         held' = held \/ \E k : held' = [held EXCEPT ![w].tasks = k]
  PROVE  SessionInv'
<1>1. sid[w] = NoSession
  BY DEF SessionInv, WriterSessions
<1>2. /\ \A v \in Writer : held'[v].refs = held[v].refs
      /\ \A v \in Writer \ {w} : held'[v] = held[v] /\ pc'[v] = pc[v] /\ copy'[v] = copy[v]
      /\ pc'[w] = "save" /\ copy'[w] = c
      /\ UNCHANGED <<file, rows, sid>>
  BY DEF FileInv, Prepare, Goto, vosVars, Reading
<1>3. RefsIn(c, rows) /\ \A x : Names(c, x) => Names(file, x)
  BY DEF RefsKept, RefsIn, Names, SessionInv
<1>4. \A v \in Writer : WriterSessions(v)'
  BY <1>1, <1>2, <1>3 DEF SessionInv, WriterSessions, Mine
<1>5. \A v, u \in Writer : Private(v, u)'
  <2>. SUFFICES ASSUME NEW v \in Writer, NEW u \in Writer, Mine(v)' PROVE Private(v, u)'
    BY DEF Private
  <2>1. v # w /\ Mine(v) /\ ~ Names(c, sid[v])
    BY <1>1, <1>2, <1>3 DEF SessionInv, WriterSessions, Mine
  <2>2. Private(v, u)
    BY DEF SessionInv
  <2>. QED BY <1>1, <1>2, <2>1, <2>2 DEF Private, Mine
<1>. QED BY <1>2, <1>4, <1>5 DEF SessionInv

LEMMA OperationSessions ==
  ASSUME FileInv, SessionInv, NEW w \in Writer, NEW c, RefsKept(file, c), Operation(w, c) PROVE SessionInv'
BY PrepareSessions DEF Operation

(* A request ends: what it had prepared is forgotten, or saved, or deleted *)
(* with its row.                                                           *)
LEMMA EndSessions ==
  ASSUME FileInv, SessionInv, NEW w \in Writer, EndOf(w), RefsIn(file', rows'),
         \A v \in Writer \ {w} : Mine(v) => sid[v] \in rows' /\ ~ Names(file', sid[v]),
         rows' = rows \/ (rows' = rows \ {sid[w]} /\ Mine(w))
  PROVE  SessionInv'
<1>1. /\ \A v \in Writer \ {w} : held'[v] = held[v] /\ pc'[v] = pc[v] /\ copy'[v] = copy[v] /\ sid'[v] = sid[v]
      /\ pc'[w] = "idle" /\ held'[w] = NoReading /\ sid'[w] = NoSession
  BY DEF FileInv, EndOf, Goto
<1>2. NoReading.refs = {} /\ NoReading.tasks = 0
  BY DEF NoReading
<1>3. \A v \in Writer : WriterSessions(v)'
  <2>. SUFFICES ASSUME NEW v \in Writer \ {w} PROVE WriterSessions(v)'
    BY <1>1, <1>2 DEF WriterSessions, Mine
  <2>1. CASE rows' = rows
    BY <1>1, <2>1 DEF SessionInv, WriterSessions, Mine
  <2>2. CASE rows' = rows \ {sid[w]} /\ Mine(w)
    <3>1. WriterSessions(v) /\ Private(w, v)
      BY DEF SessionInv
    <3>2. held[v].refs \subseteq rows'
      BY <2>2, <3>1 DEF WriterSessions, Private
    <3>3. pc[v] = "save" => RefsIn(copy[v], rows')
      BY <2>2, <3>1 DEF WriterSessions, Private, RefsIn, Names
    <3>4. pc[v] = "insert" => RefsIn(copy[v], rows' \cup {sid[v]})
      BY <2>2, <3>1 DEF WriterSessions, Private, RefsIn, Names
    <3>. QED BY <1>1, <3>1, <3>2, <3>3, <3>4 DEF WriterSessions, Mine
  <2>. QED BY <2>1, <2>2
<1>4. \A v, u \in Writer : Private(v, u)'
  BY <1>1, <1>2 DEF SessionInv, Private, Mine
<1>. QED BY <1>3, <1>4 DEF SessionInv

-----------------------------------------------------------------------------
(* The steps of CreateSession, and of a save.                              *)
LEMMA CreateSessionSessions ==
  ASSUME FileInv, SessionInv, NEW w \in Writer, CreateSession(w) PROVE SessionInv'
<1>1. PICK n \in file.nodes, x \in Session : /\ pc[w] = "idle"
                                             /\ Goto(w, "insert")
                                             /\ copy' = [copy EXCEPT ![w] = AddSessionIn(file, n, x)]
                                             /\ sid' = [sid EXCEPT ![w] = x]
                                             /\ UNCHANGED <<vosVars, held>>
  BY DEF CreateSession
<1>2. file \in State /\ n \in Node
  BY DEF FileInv, FileOK, State
<1>3. /\ \A v \in Writer \ {w} : pc'[v] = pc[v] /\ copy'[v] = copy[v] /\ sid'[v] = sid[v]
      /\ pc'[w] = "insert" /\ copy'[w] = AddSessionIn(file, n, x) /\ sid'[w] = x
      /\ UNCHANGED <<file, rows, held>>
  BY <1>1 DEF FileInv, Goto, vosVars
<1>4. RefsIn(AddSessionIn(file, n, x), rows \cup {x})
  BY <1>2, AddedSession DEF SessionInv
<1>5. ASSUME NEW y, y # x, ~ Names(file, y) PROVE ~ Names(AddSessionIn(file, n, x), y)
  BY <1>2, <1>5 DEF Names, AddSessionIn, State
<1>6. held[w].tasks = 0
  BY <1>1 DEF SessionInv, WriterSessions
<1>7. \A v \in Writer : WriterSessions(v)'
  BY <1>3, <1>4, <1>6 DEF SessionInv, WriterSessions, Mine
<1>8. \A v, u \in Writer : Private(v, u)'
  <2>. SUFFICES ASSUME NEW v \in Writer, NEW u \in Writer, Mine(v)' PROVE Private(v, u)'
    BY DEF Private
  <2>1. v # w /\ Mine(v) /\ ~ Names(file, sid[v])
    BY <1>3 DEF Mine, SessionInv, WriterSessions
  <2>2. Private(v, u)
    BY DEF SessionInv
  <2>. QED BY <1>3, <1>5, <2>1, <2>2 DEF Private, Mine
<1>. QED BY <1>3, <1>7, <1>8 DEF SessionInv

LEMMA InsertSessions ==
  ASSUME FileInv, SessionInv, NEW w \in Writer, InsertSession(w) PROVE SessionInv'
<1>1. /\ pc[w] = "insert" /\ sid[w] \notin rows /\ rows' = rows \cup {sid[w]}
      /\ \A v \in Writer \ {w} : pc'[v] = pc[v]
      /\ pc'[w] = "save" /\ UNCHANGED <<file, copy, sid, held>>
  BY DEF FileInv, InsertSession, Goto
<1>2. RefsIn(file, rows') /\ ~ Names(file, sid[w])
  BY <1>1 DEF SessionInv, RefsIn, Names
<1>3. \A v \in Writer : WriterSessions(v)'
  BY <1>1, <1>2 DEF SessionInv, WriterSessions, Mine, RefsIn
<1>4. \A v \in Writer : Private(w, v)'
  BY <1>1, <1>2 DEF SessionInv, WriterSessions, Private, Mine, RefsIn, Names
<1>5. \A v \in Writer \ {w} : \A u \in Writer : Private(v, u)'
  <2>. SUFFICES ASSUME NEW v \in Writer \ {w}, NEW u \in Writer, Mine(v)' PROVE Private(v, u)'
    BY DEF Private
  <2>1. Mine(v) /\ sid[v] \in rows /\ Private(v, u) /\ sid[v] # sid[w]
    BY <1>1 DEF Mine, SessionInv, WriterSessions
  <2>. QED BY <1>1, <2>1 DEF Private, Mine
<1>6. \A v, u \in Writer : Private(v, u)'
  BY <1>4, <1>5
<1>7. RefsIn(file, rows)'
  BY <1>1, <1>2
<1>. QED BY <1>3, <1>6, <1>7 DEF SessionInv

LEMMA SaveSessions ==
  ASSUME FileInv, SessionInv, NEW w \in Writer, Save(w) PROVE SessionInv'
<1>1. RefsIn(file', rows') /\ rows' = rows /\ file' = copy[w] /\ pc[w] = "save"
  BY DEF Save, SessionInv, WriterSessions
<1>2. \A v \in Writer \ {w} : Mine(v) => sid[v] \in rows' /\ ~ Names(file', sid[v])
  BY <1>1 DEF SessionInv, WriterSessions, Private
<1>3. CASE EndOf(w)
  BY <1>1, <1>2, <1>3, EndSessions
<1>4. CASE ~ EndOf(w)
  <2>1. /\ held[w].tasks > 0 /\ pc'[w] = "tasks" /\ UNCHANGED <<sid, held>>
        /\ \A v \in Writer \ {w} : pc'[v] = pc[v] /\ copy'[v] = copy[v]
    BY <1>4 DEF Save, FileInv, Goto
  <2>2. sid[w] = NoSession
    <3>1. sid[w] # NoSession => held[w].tasks = 0
      BY DEF SessionInv, WriterSessions
    <3>. QED BY <2>1, <3>1
  <2>3. \A v \in Writer : WriterSessions(v)'
    BY <1>1, <1>2, <2>1, <2>2 DEF SessionInv, WriterSessions, Mine
  <2>4. \A v, u \in Writer : Private(v, u)'
    BY <1>1, <2>1, <2>2 DEF SessionInv, Private, Mine
  <2>. QED BY <1>1, <2>3, <2>4 DEF SessionInv
<1>. QED BY <1>3, <1>4

LEMMA SaveFailsSessions ==
  ASSUME FileInv, SessionInv, NEW w \in Writer, SaveFails(w) PROVE SessionInv'
<1>1. UNCHANGED <<file, rows>> /\ pc[w] = "save"
  BY DEF SaveFails, vosVars
<1>2. CASE EndOf(w)
  BY <1>1, <1>2, EndSessions DEF SessionInv, WriterSessions
<1>3. CASE ~ EndOf(w)
  <2>1. /\ pc'[w] = "rollback" /\ UNCHANGED <<sid, held>> /\ sid[w] # NoSession
        /\ \A v \in Writer \ {w} : pc'[v] = pc[v] /\ copy'[v] = copy[v]
    BY <1>3 DEF SaveFails, FileInv, Goto
  <2>2. \A v \in Writer : WriterSessions(v)'
    BY <1>1, <2>1 DEF SessionInv, WriterSessions, Mine
  <2>3. \A v, u \in Writer : Private(v, u)'
    BY <1>1, <2>1 DEF SessionInv, Private, Mine
  <2>. QED BY <1>1, <2>2, <2>3 DEF SessionInv
<1>. QED BY <1>2, <1>3

(* Steps of an operation that read, or wait for an agent.                  *)
LEMMA ReadSessions ==
  ASSUME FileInv, SessionInv, NEW w \in Writer, NEW r, NEW step, step \in {"read", "context", "compact", "tasks"},
         r.refs \subseteq rows, pc[w] \notin {"insert", "save", "rollback"},
         pc' = [pc EXCEPT ![w] = step], held' = [held EXCEPT ![w] = r],
         UNCHANGED <<vosVars, copy, base, sid>>, \A v \in Writer : Mine(v) => sid[v] \notin r.refs
  PROVE  SessionInv'
<1>1. /\ \A v \in Writer \ {w} : pc'[v] = pc[v] /\ held'[v] = held[v]
      /\ pc'[w] = step /\ held'[w] = r /\ UNCHANGED <<file, rows, copy, sid>>
  BY DEF FileInv, vosVars
<1>2. sid[w] = NoSession
  BY DEF SessionInv, WriterSessions
<1>3. \A v \in Writer : WriterSessions(v)'
  BY <1>1, <1>2 DEF SessionInv, WriterSessions, Mine
<1>4. \A v, u \in Writer : Private(v, u)'
  BY <1>1, <1>2 DEF SessionInv, Private, Mine
<1>. QED BY <1>1, <1>3, <1>4 DEF SessionInv

LEMMA GetNodeSessions ==
  ASSUME FileInv, SessionInv, NEW w \in Writer, GetNode(w) PROVE SessionInv'
<1>1. PICK n \in file.nodes : held' = [held EXCEPT ![w] =
        [node |-> n, topic |-> file.topicOf[n], version |-> file.version[n], procs |-> {}, refs |-> {},
         appended |-> {}, tasks |-> 0]]
  BY DEF GetNode
<1>. DEFINE r == [node |-> n, topic |-> file.topicOf[n], version |-> file.version[n], procs |-> {},
                  refs |-> {}, appended |-> {}, tasks |-> 0]
<1>2. held' = [held EXCEPT ![w] = r] /\ r.refs = {}
  BY <1>1
<1>. HIDE DEF r
<1>. QED BY <1>2, ReadSessions DEF GetNode, Goto

LEMMA ContextSessions ==
  ASSUME FileInv, SessionInv, NEW w \in Writer,
         GetContextSnapshot(w) \/ ListNodeProcesses(w) \/ DecomposeAnswer(w)
  PROVE  SessionInv'
<1>1. held[w].refs \subseteq rows /\ held[w] \in Reading /\ \A v \in Writer : Mine(v) => sid[v] \notin held[w].refs
  BY DEF SessionInv, WriterSessions, Private, FileInv
<1>2. CASE GetContextSnapshot(w)
  <2>. DEFINE n == held[w].node
              r == [held[w] EXCEPT !.refs = file.refs[n], !.appended = file.appended[n]]
  <2>1. n \in Node
    BY <1>2 DEF GetContextSnapshot, FileInv, FileOK, State
  <2>2. r.refs = file.refs[n] /\ held' = [held EXCEPT ![w] = r]
    BY <1>1, <1>2 DEF GetContextSnapshot, Reading
  <2>3. r.refs \subseteq rows /\ \A v \in Writer : Mine(v) => sid[v] \notin r.refs
    BY <2>1, <2>2 DEF SessionInv, WriterSessions, RefsIn, Names
  <2>. HIDE DEF r, n
  <2>. QED BY <1>2, <2>2, <2>3, ReadSessions DEF GetContextSnapshot, Goto
<1>3. CASE ListNodeProcesses(w)
  <2>. DEFINE r == [held[w] EXCEPT !.procs = ListedProcesses(held[w].node)]
  <2>1. r.refs = held[w].refs /\ held' = [held EXCEPT ![w] = r]
    BY <1>1, <1>3 DEF ListNodeProcesses, Reading
  <2>. HIDE DEF r
  <2>. QED BY <1>1, <1>3, <2>1, ReadSessions DEF ListNodeProcesses, Goto
<1>4. CASE DecomposeAnswer(w)
  <2>. DEFINE r == [held[w] EXCEPT !.tasks = Tasks]
  <2>1. r.refs = held[w].refs /\ held' = [held EXCEPT ![w] = r]
    BY <1>1, <1>4 DEF DecomposeAnswer, Reading
  <2>. HIDE DEF r
  <2>. QED BY <1>1, <1>4, <2>1, ReadSessions DEF DecomposeAnswer, Goto
<1>. QED BY <1>2, <1>3, <1>4

LEMMA SessionStep == FileInv /\ SessionInv /\ [Next]_vars => SessionInv'
<1>. SUFFICES ASSUME FileInv, SessionInv, [Next]_vars PROVE SessionInv'
  OBVIOUS
<1>0. file \in State /\ file.nodes \subseteq Node /\ file.topics \subseteq Topic
  BY DEF FileInv, FileOK, State
<1>1. CASE UNCHANGED vars
  BY <1>1 DEF SessionInv, WriterSessions, Private, Mine, vars, vosVars, writerVars
<1>2. ASSUME NEW w \in Writer, CreateTopic(w) \/ UpdateTopic(w) \/ DeleteTopic(w) PROVE SessionInv'
  <2>1. RefsKept(file, file)
    BY DEF RefsKept
  <2>2. CASE CreateTopic(w)
    <3>1. PICK t \in Topic, r \in Node, m \in CallerMetadata : Operation(w, CreateTopicIn(file, t, r, m))
      BY <2>2 DEF CreateTopic
    <3>. QED BY <1>0, <3>1, OperationSessions, KeptTopic
  <2>3. CASE UpdateTopic(w)
    <3>1. CASE Operation(w, file)
      BY <2>1, <3>1, OperationSessions
    <3>2. CASE \E t \in file.topics, m \in CallerMetadata : Operation(w, ReplaceMetadataIn(file, t, m))
      <4>1. PICK t \in file.topics, m \in CallerMetadata : Operation(w, ReplaceMetadataIn(file, t, m))
        BY <3>2
      <4>2. RefsKept(file, ReplaceMetadataIn(file, t, m))
        BY <1>0, KeptReplaced
      <4>. QED BY <4>1, <4>2, OperationSessions
    <3>. QED BY <2>3, <3>1, <3>2 DEF UpdateTopic
  <2>4. CASE DeleteTopic(w)
    BY <1>0, <2>4, OperationSessions, KeptDeleteTopic DEF DeleteTopic
  <2>. QED BY <1>2, <2>2, <2>3, <2>4
<1>3. ASSUME NEW w \in Writer, CreateNode(w) \/ MoveNode(w) \/ DeleteNode(w) PROVE SessionInv'
  <2>1. CASE CreateNode(w)
    BY <1>0, <2>1, OperationSessions, KeptNode DEF CreateNode
  <2>2. CASE MoveNode(w)
    <3>1. PICK n, p \in Node : CanMoveNode(file, n, p) /\ Operation(w, MoveNodeIn(file, n, p))
      BY <2>2 DEF MoveNode
    <3>2. RefsKept(file, MoveNodeIn(file, n, p))
      BY <1>0 DEF RefsKept, State, MoveNodeIn
    <3>. QED BY <3>1, <3>2, OperationSessions
  <2>3. CASE DeleteNode(w)
    <3>1. PICK n \in Node : Operation(w, DeleteNodeIn(file, n))
      BY <2>3 DEF DeleteNode
    <3>2. RefsKept(file, DeleteNodeIn(file, n))
      BY <1>0 DEF RefsKept, State, DeleteNodeIn
    <3>. QED BY <3>1, <3>2, OperationSessions
  <2>. QED BY <1>3, <2>1, <2>2, <2>3
<1>4. ASSUME NEW w \in Writer, UpdateNode(w) PROVE SessionInv'
  <2>1. PICK n \in file.nodes, x \in CallerUpdates : Operation(w, UpdateNodeIn(file, n, x))
    BY <1>4 DEF UpdateNode
  <2>2. RefsKept(file, UpdateNodeIn(file, n, x))
    BY <1>0, KeptUpdate
  <2>. QED BY <2>1, <2>2, OperationSessions
<1>5. ASSUME NEW w \in Writer, UpdateExpected(w) PROVE SessionInv'
  <2>1. PICK x \in CallerUpdates : Prepare(w, UpdateNodeIn(file, held[w].node, x))
    BY <1>5 DEF UpdateExpected
  <2>2. RefsKept(file, UpdateNodeIn(file, held[w].node, x))
    BY <1>0, <1>5, KeptUpdate DEF UpdateExpected
  <2>. QED BY <1>5, <2>1, <2>2, PrepareSessions DEF UpdateExpected
<1>6. ASSUME NEW w \in Writer, ToolPermission(w) \/ SkillPermission(w) PROVE SessionInv'
  <2>1. CASE ToolPermission(w)
    <3>1. PICK t \in file.topics, k \in Rule : \/ Operation(w, AddToolPermissionIn(file, t, k))
                                            \/ Operation(w, DeleteToolPermissionIn(file, t, k))
      BY <2>1 DEF ToolPermission
    <3>2. RefsKept(file, AddToolPermissionIn(file, t, k)) /\ RefsKept(file, DeleteToolPermissionIn(file, t, k))
      BY <1>0 DEF RefsKept, State, AddToolPermissionIn, DeleteToolPermissionIn
    <3>. QED BY <3>1, <3>2, OperationSessions
  <2>2. CASE SkillPermission(w)
    <3>1. PICK k \in Rule : \/ Operation(w, AddSkillPermissionIn(file, k))
                            \/ Operation(w, DeleteSkillPermissionIn(file, k))
      BY <2>2 DEF SkillPermission
    <3>2. RefsKept(file, AddSkillPermissionIn(file, k)) /\ RefsKept(file, DeleteSkillPermissionIn(file, k))
      BY <1>0 DEF RefsKept, State, AddSkillPermissionIn, DeleteSkillPermissionIn
    <3>. QED BY <3>1, <3>2, OperationSessions
  <2>. QED BY <1>6, <2>1, <2>2
<1>7. ASSUME NEW w \in Writer, RecordAudit(w) \/ DecideProposal(w) PROVE SessionInv'
  BY <1>0, <1>7, OperationSessions, KeptMetadata DEF RecordAudit, DecideProposal, CanDecideProposal
<1>8. ASSUME NEW w \in Writer, InsertDuplicate(w) \/ Fail(w) \/ Crash(w) PROVE SessionInv'
  BY <1>8, EndSessions DEF InsertDuplicate, Fail, Crash, vosVars, SessionInv, WriterSessions
<1>9. ASSUME NEW w \in Writer, DeleteSession(w) PROVE SessionInv'
  <2>1. sid[w] # NoSession => Mine(w) /\ ~ Names(file, sid[w])
    BY <1>9 DEF DeleteSession, Mine, SessionInv, WriterSessions
  <2>2. rows \ {NoSession} = rows
    BY SessionAssumption DEF FileInv
  <2>3. RefsIn(file', rows') /\ UNCHANGED file /\ EndOf(w) /\ rows' = rows \ {sid[w]}
    BY <1>9, <2>1, <2>2 DEF DeleteSession, SessionInv, RefsIn, Names
  <2>4. \A v \in Writer \ {w} : Mine(v) => sid[v] \in rows' /\ ~ Names(file', sid[v])
    BY <2>1, <2>2, <2>3 DEF SessionInv, WriterSessions, Private
  <2>. QED BY <2>1, <2>2, <2>3, <2>4, EndSessions
<1>10. ASSUME NEW w \in Writer, ApplyCompactionResults(w) PROVE SessionInv'
  <2>1. PICK created : Prepare(w, ApplyCompactionIn(file, held[w].node, held[w].procs, created))
    BY <1>10 DEF ApplyCompactionResults
  <2>2. RefsKept(file, ApplyCompactionIn(file, held[w].node, held[w].procs, created))
    BY <1>0, <1>10, KeptUpdate DEF ApplyCompactionResults
  <2>. QED BY <1>10, <2>1, <2>2, PrepareSessions DEF ApplyCompactionResults
<1>11. ASSUME NEW w \in Writer, CreateTaskNode(w) PROVE SessionInv'
  <2>1. PICK n \in Node : /\ CanCreateNode(file, held[w].topic, n, held[w].node)
                          /\ Prepare(w, CreateNodeIn(file, held[w].topic, n, held[w].node))
    BY <1>11 DEF CreateTaskNode
  <2>2. RefsKept(file, CreateNodeIn(file, held[w].topic, n, held[w].node))
    BY <1>0, <2>1, KeptNode DEF CanCreateNode
  <2>3. \E k : held' = [held EXCEPT ![w].tasks = k]
    BY <1>11 DEF CreateTaskNode
  <2>. QED BY <1>11, <2>1, <2>2, <2>3, PrepareSessions DEF CreateTaskNode
<1>12. CASE Next
  <2>1. PICK w \in Writer : Step(w)
    BY <1>12 DEF Next
  <2>. QED BY <2>1, <1>2, <1>3, <1>4, <1>5, <1>6, <1>7, <1>8, <1>9, <1>10, <1>11, CreateSessionSessions,
              InsertSessions, SaveSessions, SaveFailsSessions, GetNodeSessions, ContextSessions DEF Step
<1>. QED BY <1>1, <1>12

(* A reference that CreateSession left in the file, or in a context        *)
(* somebody reads, always has its row: whatever order the row, save and    *)
(* rollback of sessions fall in, whatever identifiers callers append to    *)
(* nodes meanwhile, and wherever a process dies.  Of the appended          *)
(* identifiers themselves nothing is promised.                             *)
THEOREM SessionsAlwaysExist == Spec => []SessionsExist
<1>1. Init => SessionInv
  <2>. SUFFICES ASSUME Init PROVE SessionInv
    OBVIOUS
  <2>1. RefsIn(file, rows)
    BY InitialFilesValid DEF Init, RefsIn
  <2>2. \A w \in Writer : pc[w] = "idle" /\ sid[w] = NoSession /\ held[w].refs = {} /\ held[w].tasks = 0
    BY DEF Init, NoReading
  <2>. QED BY <2>1, <2>2 DEF SessionInv, WriterSessions, Private, Mine
<1>2. SessionInv => SessionsExist
  BY DEF SessionInv, WriterSessions, RefsIn, SessionsExist
<1>. QED BY <1>1, <1>2, SessionStep, FileAlways, PTL DEF Spec

=============================================================================
