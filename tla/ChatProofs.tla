----------------------------- MODULE ChatProofs -----------------------------
(***************************************************************************)
(* Proofs about Chat.                                                      *)
(***************************************************************************)
EXTENDS Chat, SequenceTheorems, TLAPS

-----------------------------------------------------------------------------
(* The types, by module, and what the handlers rely on for theirs: a       *)
(* request that subscribes has a run, a tick has a request and a session,  *)
(* a runnable node has a session.                                          *)
StoreTypes == status \in [Chat -> SessionStatus] /\ log \in [Chat -> Seq(Event)]
RequestTypes == at \in [Request -> Steps] /\ gone \subseteq Request
RunTypes ==
  /\ registry \subseteq Streamed /\ closed \subseteq Streamed /\ cancelled \subseteq Streamed
  /\ goroutine \in [Streamed -> RunSteps] /\ published \in [Streamed -> Seq(StreamEvent)]
  /\ unsaved \subseteq Streamed
Watching == {"subscribe", "start", "stream", "leave", "close"}
ListTypes ==
  /\ subscribers \in [Streamed -> SUBSET Request] /\ closing \in [Streamed -> SUBSET Request]
  /\ open \subseteq Request /\ missed \subseteq Request
  /\ watched \in [Request -> Streamed \cup {NoChat}]
  /\ \A c \in Request : at[c] \in Watching => watched[c] \in Streamed
ChannelTypes ==
  /\ channel \in [Request -> Seq(StreamEvent)] /\ seen \in [Request -> Seq(StreamEvent)]
  /\ first \in [Request -> Nat]
ScheduleTypes ==
  /\ sessionID \in [ChatNode -> Direct \cup {NoChat}] /\ runnable \subseteq ChatNode
  /\ dispatches \in [Direct -> Nat]
  /\ ticker \in Direct \cup {NoChat} /\ job \in Direct \cup {NoChat}
  /\ work \in {"none", "authorize", "work", "succeeded", "failed"}
  /\ ticker # NoChat \/ work # "none" =>
       ticker \in Direct /\ job \in Direct /\ sessionID[NodeOf[job]] \in Direct
  /\ \A n \in runnable : sessionID[n] \in Direct
  /\ \A n \in ChatNode : sessionID[n] \in Direct => NodeOf[sessionID[n]] = n
PollTypes ==
  /\ lastSeq \in [Direct -> Nat] /\ read \in [Direct -> Seq(Event)]
  /\ answer \in [Direct -> {"none", "completed", "failed", "error"}]

TypeInv ==
  /\ StoreTypes /\ RequestTypes /\ RunTypes /\ ListTypes /\ ChannelTypes
  /\ ScheduleTypes /\ PollTypes

LEMMA Kinds ==
  /\ Streamed \subseteq Chat /\ Direct \subseteq Chat /\ Chat \subseteq Request
  /\ Watcher \subseteq Request /\ Streamed \cap Direct = {} /\ Direct \cap Watcher = {}
  /\ Streamed \cap Watcher = {} /\ NoChat \notin Request
BY RequestAssumption DEF Chat, Request

LEMMA GotoTypes ==
  ASSUME RequestTypes, NEW c \in Request, NEW step \in Steps, Goto(c, step), UNCHANGED gone
  PROVE  RequestTypes' /\ at'[c] = step /\ \A d \in Request \ {c} : at'[d] = at[d]
BY DEF RequestTypes, Goto

LEMMA AppendTypes ==
  ASSUME StoreTypes, NEW s \in Chat, NEW e \in Event, NEW n \in SessionStatus, AppendEvent(s, e, n)
  PROVE  StoreTypes'
<1>1. Append(log[s], e) \in Seq(Event)
  BY DEF StoreTypes
<1>. QED BY <1>1 DEF StoreTypes, AppendEvent

LEMMA PublishTypes ==
  ASSUME RunTypes, ListTypes, ChannelTypes, NEW r \in Streamed, NEW e \in StreamEvent, Publish(r, e)
  PROVE  /\ published' \in [Streamed -> Seq(StreamEvent)]
         /\ channel' \in [Request -> Seq(StreamEvent)] /\ missed' \subseteq Request
<1>1. CASE r \in closed
  BY <1>1 DEF RunTypes, ListTypes, ChannelTypes, Publish
<1>2. CASE r \notin closed
  <2>. DEFINE full == {c \in subscribers[r] : Len(channel[c]) = Capacity}
  <2>1. /\ published' = [published EXCEPT ![r] = Append(published[r], e)]
        /\ channel' = [c \in Request |-> IF c \in subscribers[r] \ full THEN Append(channel[c], e) ELSE channel[c]]
        /\ missed' = missed \cup full
    BY <1>2 DEF Publish
  <2>2. Append(published[r], e) \in Seq(StreamEvent) /\ \A c \in Request : Append(channel[c], e) \in Seq(StreamEvent)
    BY DEF RunTypes, ChannelTypes
  <2>3. full \subseteq Request
    BY DEF ListTypes
  <2>. HIDE DEF full
  <2>. QED BY <2>1, <2>2, <2>3 DEF RunTypes, ListTypes, ChannelTypes
<1>. QED BY <1>1, <1>2

-----------------------------------------------------------------------------
(* The steps of a handler.                                                 *)
LEMMA SessionTypes ==
  ASSUME TypeInv, NEW c \in Chat, CreateChatSession(c) \/ AppendUserMessage(c),
         UNCHANGED <<streamVars, turnVars>>
  PROVE  TypeInv'
<1>0. c \in Request /\ {"message", "prepared", "done"} \subseteq Steps
      /\ "active" \in SessionStatus /\ "user" \in Event
  BY Kinds DEF Steps, SessionStatus, Event
<1>1. StoreTypes'
  BY <1>0, AppendTypes DEF CreateChatSession, AppendUserMessage, InsertSession, TypeInv, StoreTypes, storeVars
<1>2. \E step \in {"message", "prepared", "done"} : Goto(c, step)
  BY DEF CreateChatSession, AppendUserMessage
<1>3. RequestTypes' /\ \A d \in Request : at'[d] \in Watching => at[d] \in Watching
  BY <1>0, <1>2, GotoTypes DEF TypeInv, streamVars, Watching
<1>. QED BY <1>1, <1>3 DEF TypeInv, RunTypes, ListTypes, ChannelTypes, ScheduleTypes, PollTypes,
                         streamVars, runVars, channelVars, turnVars

LEMMA StartTypes ==
  ASSUME TypeInv, NEW c \in Streamed, OpenRun(c) \/ StartChatRun(c), UNCHANGED turnVars PROVE TypeInv'
<1>0. c \in Request /\ {"subscribe", "stream"} \subseteq Steps /\ "invoke" \in RunSteps
  BY Kinds DEF Steps, RunSteps
<1>1. CASE OpenRun(c)
  <2>1. RequestTypes' /\ at'[c] = "subscribe" /\ \A d \in Request \ {c} : at'[d] = at[d]
    BY <1>0, <1>1, GotoTypes DEF TypeInv, OpenRun
  <2>2. ListTypes'
    BY <1>0, <1>1, <2>1 DEF TypeInv, ListTypes, OpenRun
  <2>. QED BY <1>1, <2>1, <2>2 DEF OpenRun, TypeInv, StoreTypes, RunTypes, ChannelTypes, ScheduleTypes,
                                  PollTypes, storeVars, turnVars
<1>2. CASE StartChatRun(c)
  <2>1. RequestTypes' /\ at'[c] = "stream" /\ \A d \in Request \ {c} : at'[d] = at[d]
    BY <1>0, <1>2, GotoTypes DEF TypeInv, StartChatRun
  <2>2. ListTypes' /\ RunTypes'
    BY <1>0, <1>2, <2>1 DEF TypeInv, ListTypes, RunTypes, StartChatRun, channelVars, Watching
  <2>. QED BY <1>2, <2>1, <2>2 DEF StartChatRun, TypeInv, StoreTypes, ChannelTypes, ScheduleTypes,
                                  PollTypes, storeVars, turnVars, channelVars
<1>. QED BY <1>1, <1>2

LEMMA HandlerTypes ==
  ASSUME TypeInv, NEW c \in Streamed \cup Watcher, FindRun(c) \/ HandlerStep(c), UNCHANGED turnVars
  PROVE  TypeInv'
<1>0. /\ c \in Request /\ {"subscribe", "start", "stream", "leave", "close", "done"} \subseteq Steps
      /\ NoChat \notin Streamed
  BY Kinds DEF Steps
<1>1. StoreTypes' /\ RunTypes' /\ ScheduleTypes' /\ PollTypes' /\ UNCHANGED gone
  BY DEF TypeInv, StoreTypes, RunTypes, ScheduleTypes, PollTypes, FindRun, HandlerStep, Subscribe, Receive,
         EndStream, Unsubscribe, CloseOwnChannel, storeVars, runVars, turnVars, streamVars
<1>2. CASE FindRun(c)
  <2>0. ChannelTypes'
    BY <1>2 DEF FindRun, TypeInv, ChannelTypes
  <2>1. CASE \E r \in registry : watched' = [watched EXCEPT ![c] = r] /\ Goto(c, "subscribe")
    <3>1. RequestTypes' /\ at'[c] = "subscribe" /\ \A d \in Request \ {c} : at'[d] = at[d]
      BY <1>0, <1>1, <2>1, GotoTypes DEF TypeInv
    <3>2. ListTypes'
      BY <1>0, <1>2, <2>1, <3>1 DEF TypeInv, ListTypes, RunTypes, FindRun
    <3>. QED BY <1>1, <2>0, <3>1, <3>2 DEF TypeInv
  <2>2. CASE Goto(c, "done") /\ UNCHANGED watched
    <3>1. RequestTypes' /\ at'[c] = "done" /\ \A d \in Request \ {c} : at'[d] = at[d]
      BY <1>0, <1>1, <2>2, GotoTypes DEF TypeInv
    <3>2. ListTypes'
      BY <1>0, <1>2, <2>2, <3>1 DEF TypeInv, ListTypes, FindRun, Watching
    <3>. QED BY <1>1, <2>0, <3>1, <3>2 DEF TypeInv
  <2>. QED BY <1>2, <2>1, <2>2 DEF FindRun
<1>3. CASE Subscribe(c)
  <2>1. \E step \in {"start", "stream", "done"} : Goto(c, step)
    BY <1>3 DEF Subscribe
  <2>2. RequestTypes' /\ (at'[c] \in Watching => at[c] \in Watching) /\ \A d \in Request \ {c} : at'[d] = at[d]
    BY <1>0, <1>1, <1>3, <2>1, GotoTypes DEF TypeInv, Watching, Subscribe
  <2>3. ListTypes'
    BY <1>0, <1>3, <2>2 DEF Subscribe, TypeInv, ListTypes
  <2>4. watched[c] \in Streamed /\ Len(published[watched[c]]) \in Nat
    BY <1>0, <1>3 DEF Subscribe, TypeInv, ListTypes, RunTypes, Watching
  <2>5. ChannelTypes'
    BY <1>0, <1>3, <2>4 DEF Subscribe, TypeInv, ChannelTypes
  <2>. QED BY <1>1, <2>2, <2>3, <2>5 DEF TypeInv
<1>4. CASE Receive(c)
  <2>1. Goto(c, "leave") \/ UNCHANGED at
    BY <1>4 DEF Receive
  <2>2. RequestTypes' /\ \A d \in Request : at'[d] \in Watching => at[d] \in Watching
    BY <1>0, <1>1, <1>4, <2>1, GotoTypes DEF TypeInv, RequestTypes, Receive, Watching
  <2>3. ListTypes'
    BY <1>4, <2>2 DEF Receive, TypeInv, ListTypes
  <2>4. channel[c] \in Seq(StreamEvent) /\ channel[c] # <<>> /\ seen[c] \in Seq(StreamEvent)
    BY <1>0, <1>4 DEF Receive, TypeInv, ChannelTypes
  <2>5. Head(channel[c]) \in StreamEvent /\ Tail(channel[c]) \in Seq(StreamEvent)
        /\ Append(seen[c], Head(channel[c])) \in Seq(StreamEvent)
    BY <2>4
  <2>6. ChannelTypes'
    BY <1>0, <1>4, <2>5 DEF Receive, TypeInv, ChannelTypes
  <2>. QED BY <1>1, <2>2, <2>3, <2>6 DEF TypeInv
<1>5. CASE EndStream(c) \/ Unsubscribe(c) \/ CloseOwnChannel(c)
  <2>1. \E step \in {"leave", "close", "done"} : Goto(c, step)
    BY <1>5 DEF EndStream, Unsubscribe, CloseOwnChannel
  <2>2. RequestTypes' /\ \A d \in Request : at'[d] \in Watching => at[d] \in Watching
    BY <1>0, <1>1, <1>5, <2>1, GotoTypes DEF TypeInv, EndStream, Unsubscribe, CloseOwnChannel, Watching
  <2>3. ChannelTypes' /\ UNCHANGED <<closing, missed, watched>>
    BY <1>5 DEF EndStream, Unsubscribe, CloseOwnChannel, streamVars, channelVars, TypeInv, ChannelTypes
  <2>4. subscribers' \in [Streamed -> SUBSET Request] /\ open' \subseteq Request
    BY <1>5 DEF EndStream, Unsubscribe, CloseOwnChannel, CloseChannel, streamVars, channelVars, TypeInv, ListTypes
  <2>5. ListTypes'
    BY <2>2, <2>3, <2>4 DEF TypeInv, ListTypes
  <2>. QED BY <1>1, <2>2, <2>3, <2>5 DEF TypeInv
<1>. QED BY <1>2, <1>3, <1>4, <1>5 DEF HandlerStep

LEMMA ClientTypes ==
  ASSUME TypeInv, NEW c \in Request, Disconnect(c) \/ CancelRun(c), UNCHANGED turnVars PROVE TypeInv'
BY DEF TypeInv, StoreTypes, RequestTypes, RunTypes, ListTypes, ChannelTypes, ScheduleTypes, PollTypes,
       Disconnect, CancelRun, storeVars, requestVars, runVars, channelVars, turnVars

-----------------------------------------------------------------------------
(* The steps of the goroutine of a run.                                    *)
LEMMA RunTypesStep ==
  ASSUME TypeInv, NEW r \in Streamed, ProviderStep(r) \/ RunStep(r), UNCHANGED turnVars PROVE TypeInv'
<1>0. /\ r \in Chat /\ {"final", "error"} \subseteq Event /\ {"completed", "failed"} \subseteq SessionStatus
      /\ {"invoke", "answered", "append_reply", "summary", "failed", "fatal", "close", "closing", "ended"} \subseteq RunSteps
      /\ {"delta", "assistant_done", "summary", "fatal"} \subseteq StreamEvent
  BY Kinds DEF RunSteps, Event, SessionStatus, StreamEvent
<1>1. RequestTypes' /\ ScheduleTypes' /\ PollTypes' /\ UNCHANGED <<at, gone, first, seen>>
  BY DEF TypeInv, RequestTypes, ScheduleTypes, PollTypes, ProviderStep, RunStep, StreamSink, InvokeSucceeds,
         InvokeFails, InvokeReturns, PublishDone, AppendReply, AppendError, PublishSummary, PublishFatal,
         CloseRun, CloseNextChannel, RemoveRun, Advance, requestVars, channelVars, turnVars
<1>2. ASSUME NEW e \in StreamEvent, NEW from, NEW to \in RunSteps, Advance(r, from, to),
             Publish(r, e) \/ UNCHANGED <<published, channel, missed, panicked>>,
             UNCHANGED <<storeVars, closed, unsaved, subscribers, open>>
      PROVE  TypeInv'
  <2>1. /\ published' \in [Streamed -> Seq(StreamEvent)]
        /\ channel' \in [Request -> Seq(StreamEvent)] /\ missed' \subseteq Request
    BY <1>2, PublishTypes DEF TypeInv, RunTypes, ChannelTypes, ListTypes
  <2>2. StoreTypes' /\ RunTypes'
    BY <1>2, <2>1 DEF TypeInv, StoreTypes, RunTypes, Advance, storeVars
  <2>3. ListTypes' /\ ChannelTypes'
    BY <1>1, <1>2, <2>1 DEF TypeInv, ListTypes, ChannelTypes, Advance
  <2>. QED BY <1>1, <2>2, <2>3 DEF TypeInv
<1>3. ASSUME NEW e \in Event, NEW n \in SessionStatus, NEW from, NEW to \in RunSteps, Advance(r, from, to), Record(r, e, n)
      PROVE  TypeInv'
  <2>1. StoreTypes'
    BY <1>0, <1>3, AppendTypes DEF TypeInv, Record, StoreTypes, storeVars
  <2>2. RunTypes' /\ ListTypes' /\ ChannelTypes'
    BY <1>1, <1>3 DEF TypeInv, RunTypes, ListTypes, ChannelTypes, Advance, Record
  <2>. QED BY <1>1, <2>1, <2>2 DEF TypeInv
<1>4. CASE ProviderStep(r) \/ PublishDone(r) \/ PublishSummary(r) \/ PublishFatal(r)
  BY <1>0, <1>2, <1>4 DEF ProviderStep, StreamSink, InvokeSucceeds, InvokeFails, InvokeReturns, PublishDone,
                          PublishSummary, PublishFatal
<1>5. CASE AppendReply(r) \/ AppendError(r)
  BY <1>0, <1>3, <1>5 DEF AppendReply, AppendError
<1>6. CASE CloseRun(r) \/ CloseNextChannel(r) \/ RemoveRun(r)
  <2>1. StoreTypes' /\ RunTypes'
    BY <1>0, <1>6 DEF TypeInv, StoreTypes, RunTypes, CloseRun, CloseNextChannel, RemoveRun, storeVars, runVars
  <2>2. ListTypes' /\ ChannelTypes'
    BY <1>1, <1>6 DEF TypeInv, ListTypes, ChannelTypes, CloseRun, CloseNextChannel, RemoveRun, CloseChannel,
                      requestVars, channelVars
  <2>. QED BY <1>1, <2>1, <2>2 DEF TypeInv
<1>. QED BY <1>4, <1>5, <1>6 DEF RunStep

-----------------------------------------------------------------------------
(* The steps of a chat that waits for its answer, and of the scheduler.    *)
LEMMA TurnMoves ==
  ASSUME TypeInv, NEW c \in Direct, NEW step \in Steps \ Watching, Goto(c, step), UNCHANGED streamVars
  PROVE  RequestTypes' /\ RunTypes' /\ ListTypes' /\ ChannelTypes'
<1>1. c \in Request /\ UNCHANGED <<gone, runVars, channelVars>>
  BY Kinds DEF streamVars
<1>2. RequestTypes' /\ \A d \in Request : at'[d] \in Watching => at[d] \in Watching
  BY <1>1, GotoTypes DEF TypeInv, Watching
<1>. QED BY <1>1, <1>2 DEF TypeInv, RunTypes, ListTypes, ChannelTypes, runVars, channelVars

LEMMA TurnStays ==
  ASSUME TypeInv, UNCHANGED <<at, streamVars>>
  PROVE  RequestTypes' /\ RunTypes' /\ ListTypes' /\ ChannelTypes'
BY DEF TypeInv, RequestTypes, RunTypes, ListTypes, ChannelTypes, streamVars, runVars, channelVars

(* What a poll reads: the events that follow, up to the limit.             *)
LEMMA EventsRead ==
  ASSUME StoreTypes, NEW c \in Direct, NEW seq \in Nat
  PROVE  /\ EventsAfter(c, seq, PollLimit) \in Seq(Event)
         /\ seq <= Len(log[c]) =>
              /\ seq + Len(EventsAfter(c, seq, PollLimit)) <= Len(log[c])
              /\ EventsAfter(c, seq, PollLimit)
                   = SubSeq(log[c], seq + 1, seq + Len(EventsAfter(c, seq, PollLimit)))
<1>. DEFINE s == log[c]
            n == IF Len(s) < seq + PollLimit THEN Len(s) ELSE seq + PollLimit
<1>1. s \in Seq(Event) /\ Len(s) \in Nat /\ PollLimit \in Nat /\ PollLimit > 0
  BY Kinds, TurnAssumption DEF StoreTypes
<1>2. n \in Nat /\ n <= Len(s) /\ (seq <= Len(s) => seq <= n)
  BY <1>1
<1>3. EventsAfter(c, seq, PollLimit) = SubSeq(s, seq + 1, n)
  BY DEF EventsAfter
<1>. HIDE DEF n
<1>4. \A i \in (seq + 1) .. n : s[i] \in Event
  BY <1>1, <1>2
<1>5. /\ SubSeq(s, seq + 1, n) \in Seq(Event)
      /\ Len(SubSeq(s, seq + 1, n)) = IF seq + 1 <= n THEN n - (seq + 1) + 1 ELSE 0
  BY <1>2, <1>4, SubSeqProperties
<1>6. seq <= Len(s) => seq + Len(SubSeq(s, seq + 1, n)) = n
  BY <1>1, <1>2, <1>5
<1>. QED BY <1>2, <1>3, <1>5, <1>6

LEMMA PollTypesStep ==
  ASSUME TypeInv, NEW c \in Direct, TurnStep(c), UNCHANGED streamVars PROVE TypeInv'
<1>0. /\ c \in Chat /\ {"tick", "ticking", "list", "get", "sleep", "done"} \subseteq Steps \ Watching
      /\ "error" \in Event /\ "failed" \in SessionStatus
  BY Kinds DEF Steps, Event, SessionStatus, Watching
<1>1. \E step \in {"tick", "ticking", "list", "get", "sleep", "done"} : Goto(c, step)
  BY DEF TurnStep, PollStep, EnqueueChatNode, EnqueueFails, StartTick, EmptyTick, ListSessionEvents,
         GetSession, Sleep, WaitFails, Reply
<1>2. RequestTypes' /\ RunTypes' /\ ListTypes' /\ ChannelTypes'
  BY <1>0, <1>1, TurnMoves
<1>3. StoreTypes'
  BY <1>0, AppendTypes DEF TypeInv, StoreTypes, storeVars, TurnStep, PollStep, EnqueueChatNode, EnqueueFails,
         StartTick, EmptyTick, ListSessionEvents, GetSession, Sleep, WaitFails
<1>4. ScheduleTypes'
  <2>1. CASE EnqueueChatNode(c)
    BY <1>0, <2>1, TurnAssumption DEF EnqueueChatNode, TypeInv, ScheduleTypes
  <2>2. CASE StartTick(c)
    <3>1. PICK n \in runnable : /\ dispatches' = [dispatches EXCEPT ![sessionID[n]] = @ + 1]
                                /\ ticker' = c /\ job' = sessionID[n] /\ work' = "authorize"
                                /\ runnable' = runnable \ {n} /\ UNCHANGED sessionID
      BY <2>2 DEF StartTick
    <3>. QED BY <3>1 DEF TypeInv, ScheduleTypes
  <2>3. CASE UNCHANGED scheduleVars
    BY <2>3 DEF scheduleVars, TypeInv, ScheduleTypes
  <2>4. CASE EmptyTick(c) \/ Sleep(c)
    BY <2>4 DEF EmptyTick, Sleep, turnVars, TypeInv, ScheduleTypes
  <2>. QED BY <2>1, <2>2, <2>3, <2>4 DEF TurnStep, PollStep, EnqueueFails, ListSessionEvents, GetSession, WaitFails
<1>5. PollTypes'
  <2>1. CASE ListSessionEvents(c)
    <3>. DEFINE e == EventsAfter(c, lastSeq[c], PollLimit)
    <3>1. lastSeq[c] \in Nat /\ read[c] \in Seq(Event)
      BY DEF TypeInv, PollTypes
    <3>2. e \in Seq(Event) /\ read[c] \o e \in Seq(Event) /\ lastSeq[c] + Len(e) \in Nat
      BY <3>1, EventsRead DEF TypeInv
    <3>3. /\ read' = [read EXCEPT ![c] = read[c] \o e] /\ lastSeq' = [lastSeq EXCEPT ![c] = lastSeq[c] + Len(e)]
          /\ UNCHANGED answer
      BY <2>1 DEF ListSessionEvents
    <3>. QED BY <3>2, <3>3 DEF TypeInv, PollTypes
  <2>2. CASE ~ ListSessionEvents(c)
    <3>1. /\ UNCHANGED <<lastSeq, read>>
          /\ UNCHANGED answer \/ \E a \in {"completed", "failed", "error"} : answer' = [answer EXCEPT ![c] = a]
      BY <2>2 DEF TurnStep, PollStep, EnqueueChatNode, EnqueueFails, StartTick, EmptyTick, GetSession, Sleep,
                  WaitFails, Reply, pollVars, turnVars
    <3>. QED BY <3>1 DEF TypeInv, PollTypes
  <2>. QED BY <2>1, <2>2
<1>. QED BY <1>2, <1>3, <1>4, <1>5 DEF TypeInv

LEMMA TickTypes ==
  ASSUME TypeInv, TickStep \/ TickFails, UNCHANGED streamVars PROVE TypeInv'
<1>0. /\ {"list", "done"} \subseteq Steps \ Watching /\ {"error", "dispatch", "delta", "final"} \subseteq Event
      /\ {"active", "completed", "failed"} \subseteq SessionStatus /\ NoChat \notin Direct /\ Direct \subseteq Chat
  BY Kinds DEF Steps, Event, SessionStatus, Watching
<1>1. job \in Direct /\ ticker \in Direct
  BY DEF TypeInv, ScheduleTypes, TickStep, Authorize, WorkerDelta, WorkerFinal, WorkerError, FinishTick, TickFails
<1>2. UNCHANGED at \/ Goto(ticker, "list") \/ Goto(ticker, "done")
  BY DEF TickStep, Authorize, WorkerDelta, WorkerFinal, WorkerError, FinishTick, TickFails, Reply
<1>3. RequestTypes' /\ RunTypes' /\ ListTypes' /\ ChannelTypes'
  BY <1>0, <1>1, <1>2, TurnMoves, TurnStays
<1>4. StoreTypes'
  <2>1. UNCHANGED storeVars \/ \E e \in Event, n \in SessionStatus : AppendEvent(job, e, n)
    BY <1>0 DEF TickStep, Authorize, WorkerDelta, WorkerFinal, WorkerError, FinishTick, TickFails
  <2>. QED BY <1>0, <1>1, <2>1, AppendTypes DEF TypeInv, StoreTypes, storeVars
<1>5. ScheduleTypes'
  <2>1. CASE UNCHANGED <<sessionID, runnable, dispatches, ticker, job>> /\ work' \in {"work", "succeeded", "failed"}
    BY <1>0, <1>1, <2>1 DEF TypeInv, ScheduleTypes
  <2>2. CASE WorkerDelta
    BY <2>2 DEF WorkerDelta, turnVars, TypeInv, ScheduleTypes
  <2>3. CASE FinishTick \/ TickFails
    <3>1. /\ UNCHANGED <<sessionID, dispatches>> /\ ticker' = NoChat /\ job' = NoChat /\ work' = "none"
          /\ runnable' \subseteq runnable \cup {NodeOf[job]}
      BY <2>3 DEF FinishTick, TickFails
    <3>. QED BY <1>0, <1>1, <3>1, TurnAssumption DEF TypeInv, ScheduleTypes
  <2>. QED BY <2>1, <2>2, <2>3 DEF TickStep, Authorize, WorkerFinal, WorkerError
<1>6. PollTypes'
  <2>1. UNCHANGED <<lastSeq, read>> /\ (UNCHANGED answer \/ answer' = [answer EXCEPT ![ticker] = "error"])
    BY DEF TickStep, Authorize, WorkerDelta, WorkerFinal, WorkerError, FinishTick, TickFails, Reply, pollVars, turnVars
  <2>. QED BY <1>1, <2>1 DEF TypeInv, PollTypes
<1>. QED BY <1>3, <1>4, <1>5, <1>6 DEF TypeInv

LEMMA TypeStep == TypeInv /\ [Next]_vars => TypeInv'
<1>. SUFFICES ASSUME TypeInv, [Next]_vars PROVE TypeInv'
  OBVIOUS
<1>1. CASE UNCHANGED vars
  BY <1>1 DEF vars, storeVars, requestVars, streamVars, runVars, channelVars, turnVars, TypeInv, StoreTypes,
              RequestTypes, RunTypes, ListTypes, ChannelTypes, ScheduleTypes, PollTypes
<1>2. CASE Next
  BY <1>2, Kinds, SessionTypes, StartTypes, HandlerTypes, ClientTypes, RunTypesStep, PollTypesStep, TickTypes
  DEF Next, StarterStep
<1>. QED BY <1>1, <1>2

LEMMA TypeInit == Init => TypeInv
<1>. SUFFICES ASSUME Init PROVE TypeInv
  OBVIOUS
<1>1. StoreTypes /\ RequestTypes
  <2>1. PICK wave \in Waves : at = [c \in Request |-> IF c \in wave THEN "idle" ELSE "done"]
    BY DEF Init, SessionInit
  <2>. QED BY <2>1 DEF Init, SessionInit, StreamInit, StoreTypes, RequestTypes, SessionStatus, Steps
<1>2. \A c \in Request : at[c] \notin Watching
  BY DEF Init, SessionInit, Watching
<1>3. RunTypes /\ ListTypes /\ ChannelTypes
  BY <1>2 DEF Init, StreamInit, RunTypes, ListTypes, ChannelTypes, RunSteps
<1>4. ScheduleTypes /\ PollTypes
  BY Kinds DEF Init, TurnInit, ScheduleTypes, PollTypes
<1>. QED BY <1>1, <1>3, <1>4 DEF TypeInv

-----------------------------------------------------------------------------
(* Channels.  A channel a run knows, or has yet to close, is open, is that *)
(* of a request that streams this run, and is not about to be closed by    *)
(* its own handler; a run that was closed knows none.                      *)
Listed(c, r) == c \in subscribers[r] \cup closing[r]

ChannelInv ==
  /\ panicked = FALSE
  /\ \A r \in Streamed :
       /\ r \in closed => subscribers[r] = {}
       /\ r \notin closed => closing[r] = {}
       /\ \A c \in Request : Listed(c, r) =>
            /\ c \in Streamed \cup Watcher /\ c \in open /\ watched[c] = r
            /\ at[c] \notin {"idle", "message", "prepared", "subscribe", "close"}
  /\ \A c \in Streamed \cup Watcher : at[c] = "close" => c \in open

(* Requests that move where no channel is concerned.                       *)
LEMMA ChannelMoves ==
  ASSUME TypeInv, ChannelInv, NEW c \in Request, UNCHANGED <<closed, subscribers, closing, open, panicked>>,
         \A d \in Request \ {c} : at'[d] = at[d] /\ watched'[d] = watched[d],
         \/ at[c] \in {"idle", "message", "prepared", "subscribe"} /\ at'[c] # "close"
         \/ watched'[c] = watched[c] /\ at'[c] = at[c]
         \/ watched'[c] = watched[c] /\ at'[c] \notin {"idle", "message", "prepared", "subscribe", "close"}
         \/ c \in Direct
  PROVE  ChannelInv'
<1>1. \A r \in Streamed : Listed(c, r) => c \notin Direct
  BY Kinds DEF ChannelInv
<1>2. ASSUME NEW r \in Streamed, NEW d \in Request, Listed(d, r)'
      PROVE  /\ d \in Streamed \cup Watcher /\ d \in open /\ watched'[d] = r
             /\ at'[d] \notin {"idle", "message", "prepared", "subscribe", "close"}
  BY <1>1, <1>2 DEF ChannelInv, Listed
<1>3. ASSUME NEW d \in Streamed \cup Watcher, at'[d] = "close" PROVE d \in open
  BY <1>3, Kinds DEF ChannelInv
<1>. QED BY <1>2, <1>3 DEF ChannelInv, Listed

LEMMA PublishSafe ==
  ASSUME TypeInv, ChannelInv, NEW r \in Streamed, NEW e, Publish(r, e) PROVE panicked' = FALSE
<1>1. subscribers[r] \subseteq open
  BY DEF TypeInv, ListTypes, ChannelInv, Listed
<1>. QED BY <1>1 DEF Publish, ChannelInv

LEMMA ChannelFrame ==
  ASSUME TypeInv, ChannelInv, UNCHANGED <<at, closed, subscribers, closing, open, watched>>, panicked' = FALSE
  PROVE  ChannelInv'
BY DEF ChannelInv, Listed

LEMMA HandlerChannels ==
  ASSUME TypeInv, ChannelInv, NEW c \in Streamed \cup Watcher, FindRun(c) \/ HandlerStep(c) PROVE ChannelInv'
<1>0. c \in Request
  BY Kinds
<1>1. CASE FindRun(c)
  <2>1. at[c] = "idle" /\ UNCHANGED <<closed, subscribers, closing, open, panicked>> /\ at'[c] # "close"
        /\ \A d \in Request \ {c} : at'[d] = at[d] /\ watched'[d] = watched[d]
    BY <1>0, <1>1 DEF FindRun, runVars, Goto, TypeInv, RequestTypes, ListTypes
  <2>. QED BY <1>0, <2>1, ChannelMoves
<1>2. CASE Subscribe(c)
  <2>. DEFINE r == watched[c]
  <2>1. r \in Streamed /\ UNCHANGED <<closed, closing, watched, panicked>> /\ at[c] = "subscribe"
        /\ \A d \in Request \ {c} : at'[d] = at[d]
    BY <1>0, <1>2 DEF Subscribe, runVars, Goto, TypeInv, RequestTypes, ListTypes, Watching
  <2>2. CASE r \in closed
    <3>1. at'[c] = "done" /\ UNCHANGED <<subscribers, open>>
      BY <1>0, <1>2, <2>2 DEF Subscribe, Goto, TypeInv, RequestTypes
    <3>. QED BY <1>0, <2>1, <3>1, ChannelMoves
  <2>3. CASE r \notin closed
    <3>1. /\ at'[c] \in {"start", "stream"} /\ subscribers' = [subscribers EXCEPT ![r] = @ \cup {c}]
          /\ open' = open \cup {c}
      BY <1>0, <1>2, <2>3 DEF Subscribe, Goto, TypeInv, RequestTypes
    <3>2. ASSUME NEW k \in Streamed, NEW d \in Request, Listed(d, k)'
          PROVE  /\ d \in Streamed \cup Watcher /\ d \in open' /\ watched'[d] = k
                 /\ at'[d] \notin {"idle", "message", "prepared", "subscribe", "close"}
      BY <2>1, <3>1, <3>2 DEF ChannelInv, Listed, TypeInv, ListTypes
    <3>3. \A k \in Streamed : /\ k \in closed' => subscribers'[k] = {}
                              /\ k \notin closed' => closing'[k] = {}
      BY <2>1, <2>3, <3>1 DEF ChannelInv, TypeInv, ListTypes
    <3>4. \A d \in Streamed \cup Watcher : at'[d] = "close" => d \in open'
      BY <2>1, <3>1, Kinds DEF ChannelInv
    <3>. QED BY <2>1, <3>2, <3>3, <3>4 DEF ChannelInv
  <2>. QED BY <2>2, <2>3
<1>3. CASE Receive(c) \/ EndStream(c)
  <2>1. UNCHANGED <<closed, subscribers, closing, open, watched, panicked>> /\ at'[c] \in {at[c], "leave"}
        /\ \A d \in Request \ {c} : at'[d] = at[d]
    BY <1>0, <1>3 DEF Receive, EndStream, runVars, streamVars, channelVars, Goto, TypeInv, RequestTypes
  <2>. QED BY <1>0, <2>1, ChannelMoves
<1>4. CASE Unsubscribe(c)
  <2>. DEFINE r == watched[c]
  <2>1. /\ UNCHANGED <<closed, closing, watched, panicked, open>> /\ at[c] = "leave"
        /\ \A d \in Request \ {c} : at'[d] = at[d]
        /\ subscribers' = [subscribers EXCEPT ![r] = @ \ {c}]
        /\ at'[c] = IF c \in subscribers[r] THEN "close" ELSE "done"
    BY <1>0, <1>4 DEF Unsubscribe, runVars, Goto, TypeInv, RequestTypes, ListTypes
  <2>2. ASSUME NEW k \in Streamed, NEW d \in Request, Listed(d, k)'
        PROVE  /\ d \in Streamed \cup Watcher /\ d \in open /\ watched[d] = k
               /\ at'[d] \notin {"idle", "message", "prepared", "subscribe", "close"}
    <3>1. Listed(d, k)
      BY <2>1, <2>2 DEF Listed, TypeInv, ListTypes
    <3>2. CASE d = c
      <4>1. k = r /\ c \in closing[r] /\ r \in closed /\ subscribers[r] = {}
        BY <2>1, <2>2, <3>1, <3>2 DEF Listed, ChannelInv, TypeInv, ListTypes
      <4>. QED BY <2>1, <3>1, <3>2, <4>1 DEF ChannelInv
    <3>3. CASE d # c
      BY <2>1, <3>1, <3>3 DEF ChannelInv
    <3>. QED BY <3>2, <3>3
  <2>3. \A k \in Streamed : /\ k \in closed => subscribers'[k] = {}
                            /\ k \notin closed => closing[k] = {}
    BY <2>1 DEF ChannelInv, TypeInv, ListTypes
  <2>4. \A d \in Streamed \cup Watcher : at'[d] = "close" => d \in open
    <3>1. c \in subscribers[r] /\ r \in Streamed => c \in open
      BY <1>0 DEF ChannelInv, Listed
    <3>2. r \in Streamed
      BY <1>0, <2>1 DEF TypeInv, ListTypes, Watching
    <3>. QED BY <2>1, <3>1, <3>2, Kinds DEF ChannelInv
  <2>. QED BY <2>1, <2>2, <2>3, <2>4 DEF ChannelInv
<1>5. CASE CloseOwnChannel(c)
  <2>1. /\ UNCHANGED <<closed, closing, watched, subscribers>> /\ at[c] = "close"
        /\ \A d \in Request \ {c} : at'[d] = at[d]
        /\ at'[c] = "done" /\ open' = open \ {c} /\ panicked' = (panicked \/ c \notin open)
    BY <1>0, <1>5 DEF CloseOwnChannel, CloseChannel, runVars, Goto, TypeInv, RequestTypes
  <2>2. panicked' = FALSE
    BY <2>1 DEF ChannelInv
  <2>3. \A r \in Streamed : ~ Listed(c, r)
    BY <1>0, <2>1 DEF ChannelInv
  <2>. QED BY <1>0, <2>1, <2>2, <2>3, Kinds DEF ChannelInv, Listed
<1>. QED BY <1>1, <1>2, <1>3, <1>4, <1>5 DEF HandlerStep

LEMMA RunChannels ==
  ASSUME TypeInv, ChannelInv, NEW r \in Streamed, ProviderStep(r) \/ RunStep(r) PROVE ChannelInv'
<1>1. ASSUME UNCHANGED <<at, closed, subscribers, closing, open, watched, panicked>> PROVE ChannelInv'
  BY <1>1, ChannelFrame DEF ChannelInv
<1>2. ASSUME NEW e, NEW from, NEW to, Advance(r, from, to), Publish(r, e) \/ UNCHANGED panicked,
             UNCHANGED <<closed, subscribers, open>>
      PROVE  ChannelInv'
  <2>1. panicked' = FALSE
    BY <1>2, PublishSafe DEF ChannelInv
  <2>. QED BY <1>2, <2>1, ChannelFrame DEF Advance, requestVars
<1>3. CASE ProviderStep(r)
  <2>1. CASE StreamSink(r)
    BY <2>1, <1>2 DEF StreamSink
  <2>2. CASE InvokeSucceeds(r) \/ InvokeFails(r)
    BY <1>2, <2>2 DEF InvokeSucceeds, InvokeFails, InvokeReturns
  <2>. QED BY <1>3, <2>1, <2>2 DEF ProviderStep
<1>4. CASE PublishDone(r) \/ PublishSummary(r) \/ PublishFatal(r)
  BY <1>2, <1>4 DEF PublishDone, PublishSummary, PublishFatal
<1>5. CASE AppendReply(r) \/ AppendError(r)
  BY <1>1, <1>5 DEF AppendReply, AppendError, Advance, Record, requestVars
<1>6. CASE CloseRun(r)
  <2>1. /\ closed' = closed \cup {r} /\ closing' = [closing EXCEPT ![r] = subscribers[r]]
        /\ subscribers' = [subscribers EXCEPT ![r] = {}] /\ UNCHANGED <<at, open, watched, panicked>>
    BY <1>6 DEF CloseRun, requestVars
  <2>2. \A k \in Streamed, d \in Request : Listed(d, k)' => Listed(d, k)
    BY <2>1 DEF Listed, TypeInv, ListTypes
  <2>3. \A k \in Streamed : /\ k \in closed' => subscribers'[k] = {}
                            /\ k \notin closed' => closing'[k] = {}
    BY <2>1 DEF ChannelInv, TypeInv, ListTypes
  <2>. QED BY <2>1, <2>2, <2>3 DEF ChannelInv
<1>7. CASE CloseNextChannel(r)
  <2>1. PICK c \in closing[r] : CloseChannel(c) /\ closing' = [closing EXCEPT ![r] = @ \ {c}]
    BY <1>7 DEF CloseNextChannel
  <2>2. /\ c \in Request /\ Listed(c, r) /\ r \in closed /\ subscribers[r] = {}
        /\ UNCHANGED <<at, closed, subscribers, watched>>
    BY <1>7, <2>1 DEF CloseNextChannel, runVars, requestVars, Listed, ChannelInv, TypeInv, ListTypes
  <2>3. c \in open /\ watched[c] = r /\ at[c] # "close"
    BY <2>2 DEF ChannelInv
  <2>4. open' = open \ {c} /\ panicked' = FALSE
    BY <2>1, <2>3 DEF CloseChannel, ChannelInv
  <2>5. ASSUME NEW k \in Streamed, NEW d \in Request, Listed(d, k)' PROVE Listed(d, k) /\ d # c
    <3>1. Listed(d, k)
      BY <2>1, <2>2, <2>5 DEF Listed, TypeInv, ListTypes
    <3>2. CASE k = r
      BY <2>1, <2>2, <2>5, <3>2 DEF Listed, TypeInv, ListTypes
    <3>3. CASE k # r
      BY <2>3, <3>1, <3>3 DEF ChannelInv
    <3>. QED BY <3>1, <3>2, <3>3
  <2>6. \A k \in Streamed : k \notin closed => closing'[k] = {}
    BY <2>1, <2>2 DEF ChannelInv, TypeInv, ListTypes
  <2>. QED BY <2>2, <2>3, <2>4, <2>5, <2>6 DEF ChannelInv
<1>8. CASE RemoveRun(r)
  BY <1>1, <1>8 DEF RemoveRun, requestVars, channelVars
<1>. QED BY <1>3, <1>4, <1>5, <1>6, <1>7, <1>8 DEF RunStep

LEMMA ChannelStep == TypeInv /\ ChannelInv /\ [Next]_vars => ChannelInv'
<1>. SUFFICES ASSUME TypeInv, ChannelInv, [Next]_vars PROVE ChannelInv'
  OBVIOUS
<1>1. CASE UNCHANGED vars
  BY <1>1, ChannelFrame DEF vars, storeVars, requestVars, streamVars, runVars, channelVars, ChannelInv
<1>2. ASSUME NEW c \in Chat, CreateChatSession(c) \/ AppendUserMessage(c), UNCHANGED streamVars PROVE ChannelInv'
  <2>1. c \in Request /\ at[c] \in {"idle", "message"} /\ at'[c] # "close" /\ \A d \in Request \ {c} : at'[d] = at[d]
    BY <1>2, Kinds DEF CreateChatSession, AppendUserMessage, Goto, TypeInv, RequestTypes
  <2>. QED BY <1>2, <2>1, ChannelMoves DEF streamVars, runVars, channelVars
<1>3. ASSUME NEW c \in Streamed, OpenRun(c) \/ StartChatRun(c) PROVE ChannelInv'
  <2>1. /\ c \in Request /\ UNCHANGED <<closed, subscribers, closing, open, panicked>>
        /\ \A d \in Request \ {c} : at'[d] = at[d] /\ watched'[d] = watched[d]
        /\ \/ at[c] = "prepared" /\ at'[c] = "subscribe"
           \/ watched'[c] = watched[c] /\ at'[c] = "stream"
    BY <1>3, Kinds DEF OpenRun, StartChatRun, Goto, channelVars, TypeInv, RequestTypes, ListTypes
  <2>. QED BY <2>1, ChannelMoves
<1>4. ASSUME NEW c \in Request, Disconnect(c) \/ CancelRun(c) PROVE ChannelInv'
  BY <1>4, ChannelFrame DEF Disconnect, CancelRun, runVars, requestVars, channelVars, ChannelInv
<1>5. ASSUME NEW c \in Direct, UNCHANGED at \/ \E step : Goto(c, step), UNCHANGED streamVars PROVE ChannelInv'
  <2>1. c \in Request /\ \A d \in Request \ {c} : at'[d] = at[d]
    BY <1>5, Kinds DEF Goto, TypeInv, RequestTypes
  <2>. QED BY <1>5, <2>1, ChannelMoves DEF streamVars, runVars, channelVars
<1>6. ASSUME NEW c \in Direct, TurnStep(c), UNCHANGED streamVars PROVE ChannelInv'
  BY <1>5, <1>6 DEF TurnStep, PollStep, EnqueueChatNode, EnqueueFails, StartTick, EmptyTick, ListSessionEvents,
                    GetSession, Sleep, WaitFails, Reply
<1>7. ASSUME TickStep \/ TickFails, UNCHANGED streamVars PROVE ChannelInv'
  <2>1. ticker \in Direct
    BY <1>7 DEF TypeInv, ScheduleTypes, TickStep, Authorize, WorkerDelta, WorkerFinal, WorkerError, FinishTick, TickFails
  <2>2. UNCHANGED at \/ \E step : Goto(ticker, step)
    BY <1>7 DEF TickStep, Authorize, WorkerDelta, WorkerFinal, WorkerError, FinishTick, TickFails, Reply
  <2>. QED BY <1>5, <1>7, <2>1, <2>2
<1>8. CASE Next
  BY <1>8, <1>2, <1>3, <1>4, <1>6, <1>7, Kinds, HandlerChannels, RunChannels DEF Next, StarterStep
<1>. QED BY <1>1, <1>8

LEMMA ChannelInit == Init => ChannelInv
<1>. SUFFICES ASSUME Init PROVE ChannelInv
  OBVIOUS
<1>1. \A c \in Request : at[c] # "close"
  BY DEF Init, SessionInit
<1>. QED BY <1>1, Kinds DEF Init, StreamInit, ChannelInv, Listed

LEMMA TypesAlways == Spec => []TypeInv
BY TypeInit, TypeStep, PTL DEF Spec

LEMMA ChannelsAlways == Spec => []ChannelInv
BY ChannelInit, ChannelStep, TypesAlways, PTL DEF Spec

(* The types of the sessions, of the runs with their channels, and of what *)
(* the polling chats and the scheduler hold.                               *)
THEOREM ChatTypes == Spec => []TypeOK
<1>1. TypeInv /\ ChannelInv => TypeOK
  BY DEF TypeInv, StoreTypes, RequestTypes, RunTypes, ListTypes, ChannelTypes, ScheduleTypes, PollTypes,
         ChannelInv, TypeOK
<1>. QED BY <1>1, TypesAlways, ChannelsAlways, PTL

(* No channel is closed twice and none is sent to once closed, however     *)
(* unsubscribing handlers, a closing run and its last events interleave.   *)
THEOREM ChannelsNeverPanic == Spec => []NoPanic
<1>1. ChannelInv => NoPanic
  BY DEF ChannelInv, NoPanic
<1>. QED BY <1>1, ChannelsAlways, PTL

=============================================================================
