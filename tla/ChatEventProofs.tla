--------------------------- MODULE ChatEventProofs ---------------------------
(***************************************************************************)
(* Proofs about Chat: which events reach whom, and what a client that      *)
(* streams a run gets of it.                                               *)
(***************************************************************************)
EXTENDS ChatProofs

LEMMA PrefixOfAppend ==
  ASSUME NEW S, NEW s \in Seq(S), NEW e \in S, NEW n \in Nat, n <= Len(s)
  PROVE  SubSeq(Append(s, e), 1, n) = SubSeq(s, 1, n)
<1>1. CASE n = 0
  BY <1>1, SubSeqEmpty
<1>2. CASE n # 0
  <2>1. Append(s, e) = s \o <<e>> /\ <<e>> \in Seq(S) /\ 1 \in 1..Len(s) /\ n \in 1..Len(s)
    BY <1>2
  <2>. QED BY <2>1, SubSeqOfConcat1
<1>. QED BY <1>1, <1>2

-----------------------------------------------------------------------------
(* Every step leaves a log alone or appends an event to it.                *)
Grows(s) == log'[s] = log[s] \/ \E e \in Event : log'[s] = Append(log[s], e)

LEMMA LogsGrow ==
  ASSUME TypeInv, [Next]_vars PROVE \A s \in Chat : Grows(s)
<1>1. CASE UNCHANGED log
  BY <1>1 DEF Grows
<1>2. CASE \E s \in Chat, e \in Event, n \in SessionStatus : AppendEvent(s, e, n)
  BY <1>2 DEF AppendEvent, Grows, TypeInv, StoreTypes
<1>3. UNCHANGED log \/ \E s \in Chat, e \in Event, n \in SessionStatus : AppendEvent(s, e, n)
  <2>0. {"user", "final", "error", "dispatch", "delta"} \subseteq Event /\ {"active", "completed", "failed"} \subseteq SessionStatus
        /\ Streamed \subseteq Chat /\ Direct \subseteq Chat
    BY Kinds DEF Event, SessionStatus
  <2>1. CASE UNCHANGED vars
    BY <2>1 DEF vars, storeVars
  <2>2. ASSUME NEW c \in Chat, CreateChatSession(c) \/ AppendUserMessage(c)
        PROVE  UNCHANGED log \/ \E s \in Chat, e \in Event, n \in SessionStatus : AppendEvent(s, e, n)
    BY <2>0, <2>2 DEF CreateChatSession, AppendUserMessage, InsertSession, storeVars
  <2>3. ASSUME NEW c \in Request, Disconnect(c) \/ CancelRun(c) \/ OpenRun(c) \/ StartChatRun(c) \/ FindRun(c) \/ HandlerStep(c)
        PROVE  UNCHANGED log
    BY <2>3 DEF Disconnect, CancelRun, OpenRun, StartChatRun, FindRun, HandlerStep, Subscribe, Receive, EndStream,
                Unsubscribe, CloseOwnChannel, storeVars
  <2>4. ASSUME NEW r \in Streamed, ProviderStep(r) \/ RunStep(r)
        PROVE  UNCHANGED log \/ \E s \in Chat, e \in Event, n \in SessionStatus : AppendEvent(s, e, n)
    BY <2>0, <2>4 DEF ProviderStep, RunStep, StreamSink, InvokeSucceeds, InvokeFails, InvokeReturns, PublishDone,
                      AppendReply, AppendError, PublishSummary, PublishFatal, CloseRun, CloseNextChannel, RemoveRun,
                      Record, storeVars
  <2>5. ASSUME NEW c \in Direct, TurnStep(c)
        PROVE  UNCHANGED log \/ \E s \in Chat, e \in Event, n \in SessionStatus : AppendEvent(s, e, n)
    BY <2>0, <2>5 DEF TurnStep, PollStep, EnqueueChatNode, EnqueueFails, StartTick, EmptyTick, ListSessionEvents,
                      GetSession, Sleep, WaitFails, storeVars
  <2>6. ASSUME TickStep \/ TickFails
        PROVE  UNCHANGED log \/ \E s \in Chat, e \in Event, n \in SessionStatus : AppendEvent(s, e, n)
    <3>1. job \in Chat
      BY <2>0, <2>6 DEF TypeInv, ScheduleTypes, TickStep, Authorize, WorkerDelta, WorkerFinal, WorkerError,
                        FinishTick, TickFails
    <3>. QED BY <2>0, <2>6, <3>1 DEF TickStep, Authorize, WorkerDelta, WorkerFinal, WorkerError, FinishTick,
                                     TickFails, storeVars
  <2>. QED BY <2>1, <2>2, <2>3, <2>4, <2>5, <2>6, Kinds DEF Next, StarterStep
<1>. QED BY <1>1, <1>2, <1>3

LEMMA ReadStep == TypeInv /\ EventsReadOnce /\ [Next]_vars => EventsReadOnce'
<1>. SUFFICES ASSUME TypeInv, EventsReadOnce, [Next]_vars, NEW c \in Direct
              PROVE  lastSeq'[c] <= Len(log'[c]) /\ read'[c] = SubSeq(log'[c], 1, lastSeq'[c])
  BY DEF EventsReadOnce
<1>0. /\ c \in Chat /\ log[c] \in Seq(Event) /\ lastSeq[c] \in Nat /\ read[c] \in Seq(Event)
      /\ lastSeq[c] <= Len(log[c]) /\ read[c] = SubSeq(log[c], 1, lastSeq[c])
  BY Kinds DEF TypeInv, StoreTypes, PollTypes, EventsReadOnce
<1>1. CASE UNCHANGED <<lastSeq[c], read[c]>>
  <2>1. CASE log'[c] = log[c]
    BY <1>0, <1>1, <2>1
  <2>2. CASE \E e \in Event : log'[c] = Append(log[c], e)
    BY <1>0, <1>1, <2>2, PrefixOfAppend
  <2>. QED BY <1>0, <2>1, <2>2, LogsGrow DEF Grows
<1>2. CASE ListSessionEvents(c)
  <2>. DEFINE e == EventsAfter(c, lastSeq[c], PollLimit)
              n == lastSeq[c] + Len(e)
  <2>1. lastSeq'[c] = n /\ read'[c] = read[c] \o e /\ log' = log
    BY <1>2 DEF ListSessionEvents, TypeInv, PollTypes, storeVars
  <2>2. e \in Seq(Event) /\ n <= Len(log[c]) /\ e = SubSeq(log[c], lastSeq[c] + 1, n)
    BY <1>0, EventsRead DEF TypeInv
  <2>. HIDE DEF e
  <2>3. /\ 1 \in 1..Len(log[c]) + 1 /\ lastSeq[c] \in 1 - 1..Len(log[c])
        /\ n \in lastSeq[c]..Len(log[c])
    BY <1>0, <2>2
  <2>4. SubSeq(log[c], 1, lastSeq[c]) \o SubSeq(log[c], lastSeq[c] + 1, n) = SubSeq(log[c], 1, n)
    BY <1>0, <2>3, ConcatAdjacentSubSeq
  <2>. QED BY <1>0, <2>1, <2>2, <2>4
<1>3. UNCHANGED <<lastSeq[c], read[c]>> \/ ListSessionEvents(c)
  <2>1. CASE UNCHANGED pollVars
    BY <2>1 DEF pollVars
  <2>2. ASSUME NEW d \in Direct, TurnStep(d) PROVE UNCHANGED <<lastSeq[c], read[c]>> \/ ListSessionEvents(c)
    <3>1. CASE ListSessionEvents(d)
      BY <3>1 DEF ListSessionEvents, TypeInv, PollTypes
    <3>2. CASE ~ ListSessionEvents(d)
      BY <2>2, <3>2 DEF TurnStep, PollStep, EnqueueChatNode, EnqueueFails, StartTick, EmptyTick, GetSession, Sleep,
                        WaitFails, pollVars, turnVars
    <3>. QED BY <3>1, <3>2
  <2>3. CASE TickStep \/ TickFails
    BY <2>3 DEF TickStep, Authorize, WorkerDelta, WorkerFinal, WorkerError, FinishTick, TickFails, pollVars, turnVars
  <2>4. CASE UNCHANGED turnVars
    BY <2>4 DEF turnVars
  <2>. QED BY <2>1, <2>2, <2>3, <2>4 DEF Next, vars, turnVars
<1>. QED BY <1>1, <1>2, <1>3

(* A chat that polls consumes each event of its session once and none out  *)
(* of order, however many others append to it.                             *)
THEOREM PollsReadOnce == Spec => []EventsReadOnce
<1>1. Init => EventsReadOnce
  <2>. SUFFICES ASSUME Init, NEW c \in Direct
                PROVE  lastSeq[c] <= Len(log[c]) /\ read[c] = SubSeq(log[c], 1, lastSeq[c])
    BY DEF EventsReadOnce
  <2>1. lastSeq[c] = 0 /\ log[c] = <<>> /\ read[c] = <<>>
    BY Kinds DEF Init, SessionInit, TurnInit
  <2>. QED BY <2>1, SubSeqEmpty
<1>. QED BY <1>1, ReadStep, TypesAlways, PTL DEF Spec

-----------------------------------------------------------------------------
(* Runs.  A session that streams is written to by its handler before the   *)
(* run starts and by the goroutine of the run afterwards; once the run has *)
(* announced how it ended, its session says the same for ever, unless the  *)
(* event was lost.                                                         *)
Early == {"idle", "message", "prepared", "subscribe"}
Over == {"close", "closing", "ended"}
Last(s) == s[Len(s)]

RunInv ==
  \A r \in Streamed :
     /\ at[r] \in Early \cup {"start"} => goroutine[r] = "none"
     /\ r \in closed => goroutine[r] \in {"closing", "ended"}
     /\ goroutine[r] \in Over => published[r] # <<>> /\ Last(published[r]) \in {"summary", "fatal"}
     /\ goroutine[r] = "summary" => r \in unsaved \/ status[r] = "completed"
     /\ goroutine[r] = "fatal" => r \in unsaved \/ status[r] = "failed"

Told(r, s) == r \in Streamed /\ goroutine[r] \in Over /\ (r \in unsaved \/ status[r] = s)

(* A run that is not concerned by a step.                                  *)
LEMMA RunFrame ==
  ASSUME RunInv, UNCHANGED <<goroutine, closed, published, unsaved>>,
         \A r \in Streamed : /\ at'[r] \in Early \cup {"start"} => at[r] \in Early \cup {"start"}
                             /\ status'[r] = status[r] \/ goroutine[r] = "none"
  PROVE  RunInv' /\ \A r, s : Told(r, s) => Told(r, s)'
BY DEF RunInv, Told, Over

LEMMA AppendLast ==
  ASSUME NEW S, NEW s \in Seq(S), NEW e \in S PROVE Append(s, e) # <<>> /\ Last(Append(s, e)) = e
BY DEF Last

(* The steps of the goroutine.                                             *)
LEMMA AdvanceRuns ==
  ASSUME TypeInv, RunInv, NEW r \in Streamed, NEW from \in RunSteps, NEW to \in RunSteps, Advance(r, from, to),
         from \notin Over \cup {"none"}, UNCHANGED closed,
         unsaved \subseteq unsaved', unsaved' \subseteq unsaved \cup {r},
         \A k \in Streamed \ {r} : published'[k] = published[k] /\ status'[k] = status[k],
         to \in Over => published'[r] # <<>> /\ Last(published'[r]) \in {"summary", "fatal"},
         to = "summary" => r \in unsaved' \/ status'[r] = "completed",
         to = "fatal" => r \in unsaved' \/ status'[r] = "failed"
  PROVE  RunInv' /\ \A k, s : Told(k, s) => Told(k, s)'
<1>1. /\ UNCHANGED <<at, closed>> /\ goroutine[r] = from /\ goroutine'[r] = to
      /\ \A k \in Streamed \ {r} : goroutine'[k] = goroutine[k]
  BY DEF Advance, requestVars, TypeInv, RunTypes
<1>2. r \notin closed /\ at[r] \notin Early \cup {"start"}
  BY <1>1 DEF RunInv, Over
<1>. QED BY <1>1, <1>2 DEF RunInv, Told

LEMMA RunsOfRun ==
  ASSUME TypeInv, RunInv, NEW r \in Streamed, ProviderStep(r) \/ RunStep(r)
  PROVE  RunInv' /\ \A k, s : Told(k, s) => Told(k, s)'
<1>0. /\ r \in Chat /\ {"invoke", "answered", "append_reply", "summary", "failed", "fatal", "close"} \subseteq RunSteps
      /\ {"delta", "assistant_done", "summary", "fatal"} \subseteq StreamEvent
  BY Kinds DEF RunSteps, StreamEvent
<1>1. ASSUME NEW e \in StreamEvent, Publish(r, e)
      PROVE  /\ \A k \in Streamed \ {r} : published'[k] = published[k]
             /\ r \notin closed => published'[r] # <<>> /\ Last(published'[r]) = e
  <2>1. CASE r \in closed
    BY <1>1, <2>1 DEF Publish
  <2>2. CASE r \notin closed
    <3>1. published' = [published EXCEPT ![r] = Append(published[r], e)] /\ published[r] \in Seq(StreamEvent)
      BY <1>1, <2>2 DEF Publish, TypeInv, RunTypes
    <3>2. published'[r] = Append(published[r], e) /\ \A k \in Streamed \ {r} : published'[k] = published[k]
      BY <3>1 DEF TypeInv, RunTypes
    <3>. QED BY <3>1, <3>2, AppendLast
  <2>. QED BY <2>1, <2>2
<1>2. CASE StreamSink(r) \/ InvokeSucceeds(r) \/ InvokeFails(r) \/ PublishDone(r)
  <2>1. CASE StreamSink(r)
    BY <2>1, <1>0, <1>1, AdvanceRuns DEF StreamSink, Over, storeVars
  <2>2. CASE InvokeSucceeds(r) \/ InvokeFails(r)
    BY <2>2, <1>0, AdvanceRuns DEF InvokeSucceeds, InvokeFails, InvokeReturns, Over, storeVars
  <2>3. CASE PublishDone(r)
    <3>1. \A k \in Streamed \ {r} : published'[k] = published[k]
      BY <1>0, <1>1, <2>3 DEF PublishDone
    <3>. QED BY <2>3, <3>1, <1>0, AdvanceRuns DEF PublishDone, Over, storeVars
  <2>. QED BY <1>2, <2>1, <2>2, <2>3
<1>3. CASE AppendReply(r) \/ AppendError(r)
  <2>1. ASSUME NEW e, NEW n, Record(r, e, n)
        PROVE  /\ UNCHANGED <<closed, published>> /\ unsaved \subseteq unsaved' /\ unsaved' \subseteq unsaved \cup {r}
               /\ r \in unsaved' \/ status'[r] = n
               /\ \A k \in Streamed \ {r} : status'[k] = status[k]
    BY <1>0, <2>1, Kinds DEF Record, AppendEvent, storeVars, TypeInv, StoreTypes
  <2>2. CASE AppendReply(r)
    BY <2>1, <2>2, <1>0, AdvanceRuns DEF AppendReply, Over
  <2>3. CASE AppendError(r)
    BY <2>1, <2>3, <1>0, AdvanceRuns DEF AppendError, Over
  <2>. QED BY <1>3, <2>2, <2>3
<1>4. CASE PublishSummary(r) \/ PublishFatal(r)
  <2>1. goroutine[r] \in {"summary", "fatal"} /\ r \notin closed
    BY <1>4 DEF PublishSummary, PublishFatal, Advance, RunInv
  <2>2. CASE PublishSummary(r)
    BY <1>0, <1>1, <2>1, <2>2, AdvanceRuns DEF PublishSummary, Over, storeVars
  <2>3. CASE PublishFatal(r)
    BY <1>0, <1>1, <2>1, <2>3, AdvanceRuns DEF PublishFatal, Over, storeVars
  <2>. QED BY <1>4, <2>2, <2>3
<1>5. CASE CloseRun(r) \/ RemoveRun(r)
  <2>1. /\ UNCHANGED <<at, published, unsaved, status>> /\ goroutine[r] \in Over /\ goroutine'[r] \in {"closing", "ended"}
        /\ \A k \in Streamed \ {r} : goroutine'[k] = goroutine[k]
        /\ closed' \subseteq closed \cup {r}
    BY <1>5 DEF CloseRun, RemoveRun, Over, requestVars, storeVars, TypeInv, RunTypes
  <2>2. at[r] \notin Early \cup {"start"}
    BY <2>1 DEF RunInv, Over
  <2>. QED BY <2>1, <2>2 DEF RunInv, Told, Over
<1>6. CASE CloseNextChannel(r)
  BY <1>6, RunFrame DEF CloseNextChannel, runVars, requestVars, storeVars
<1>. QED BY <1>2, <1>3, <1>4, <1>5, <1>6 DEF ProviderStep, RunStep

LEMMA RunInvStep == TypeInv /\ RunInv /\ [Next]_vars => RunInv' /\ \A r, s : Told(r, s) => Told(r, s)'
<1>. SUFFICES ASSUME TypeInv, RunInv, [Next]_vars PROVE RunInv' /\ \A r, s : Told(r, s) => Told(r, s)'
  OBVIOUS
<1>1. CASE UNCHANGED vars
  BY <1>1, RunFrame DEF vars, storeVars, requestVars, streamVars, runVars
<1>2. ASSUME NEW c \in Chat, CreateChatSession(c) \/ AppendUserMessage(c), UNCHANGED streamVars
      PROVE  RunInv' /\ \A r, s : Told(r, s) => Told(r, s)'
  <2>1. /\ c \in Request /\ at[c] \in {"idle", "message"} /\ \A d \in Request \ {c} : at'[d] = at[d]
        /\ \A d \in Chat \ {c} : status'[d] = status[d]
    BY <1>2, Kinds DEF CreateChatSession, AppendUserMessage, InsertSession, AppendEvent, Goto, storeVars, TypeInv,
                       RequestTypes, StoreTypes
  <2>2. c \in Streamed => goroutine[c] = "none"
    BY <2>1 DEF RunInv, Early
  <2>. QED BY <1>2, <2>1, <2>2, RunFrame, Kinds DEF streamVars, runVars, Early
<1>3. ASSUME NEW c \in Streamed, OpenRun(c) PROVE RunInv' /\ \A r, s : Told(r, s) => Told(r, s)'
  BY <1>3, RunFrame, Kinds DEF OpenRun, Goto, storeVars, TypeInv, RequestTypes, Early
<1>4. ASSUME NEW c \in Streamed, StartChatRun(c) PROVE RunInv' /\ \A r, s : Told(r, s) => Told(r, s)'
  <2>1. /\ at[c] = "start" /\ goroutine[c] = "none" /\ goroutine'[c] = "invoke" /\ at'[c] = "stream"
        /\ \A d \in Streamed \ {c} : goroutine'[d] = goroutine[d] /\ at'[d] = at[d]
        /\ UNCHANGED <<status, closed, published, unsaved>>
    BY <1>4, Kinds DEF StartChatRun, Goto, storeVars, TypeInv, RequestTypes, RunTypes, RunInv, Early
  <2>2. c \notin closed
    BY <2>1 DEF RunInv
  <2>. QED BY <2>1, <2>2 DEF RunInv, Told, Over, Early
<1>5. ASSUME NEW c \in Streamed \cup Watcher, FindRun(c) \/ HandlerStep(c)
      PROVE  RunInv' /\ \A r, s : Told(r, s) => Told(r, s)'
  <2>1. UNCHANGED <<runVars, storeVars>>
    BY <1>5 DEF FindRun, HandlerStep, Subscribe, Receive, EndStream, Unsubscribe, CloseOwnChannel, streamVars
  <2>2. \A d \in Request : at'[d] \in Early \cup {"start"} => at[d] \in Early \cup {"start"}
    BY <1>5, Kinds DEF FindRun, HandlerStep, Subscribe, Receive, EndStream, Unsubscribe, CloseOwnChannel, Goto,
                       TypeInv, RequestTypes, Early
  <2>. QED BY <2>1, <2>2, RunFrame, Kinds DEF runVars, storeVars
<1>6. ASSUME NEW c \in Request, Disconnect(c) \/ CancelRun(c) PROVE RunInv' /\ \A r, s : Told(r, s) => Told(r, s)'
  BY <1>6, RunFrame DEF Disconnect, CancelRun, runVars, requestVars, storeVars
<1>7. ASSUME NEW c \in Direct, UNCHANGED storeVars \/ \E e, n : AppendEvent(c, e, n), UNCHANGED streamVars,
             NEW d \in Direct, UNCHANGED at \/ \E step : Goto(d, step)
      PROVE  RunInv' /\ \A r, s : Told(r, s) => Told(r, s)'
  <2>1. \A r \in Streamed : status'[r] = status[r] /\ at'[r] = at[r]
    BY <1>7, Kinds DEF storeVars, AppendEvent, Goto, TypeInv, StoreTypes, RequestTypes
  <2>. QED BY <1>7, <2>1, RunFrame DEF streamVars, runVars
<1>8. ASSUME NEW c \in Direct, TurnStep(c), UNCHANGED streamVars PROVE RunInv' /\ \A r, s : Told(r, s) => Told(r, s)'
  BY <1>7, <1>8 DEF TurnStep, PollStep, EnqueueChatNode, EnqueueFails, StartTick, EmptyTick, ListSessionEvents,
                    GetSession, Sleep, WaitFails, Reply
<1>9. ASSUME TickStep \/ TickFails, UNCHANGED streamVars PROVE RunInv' /\ \A r, s : Told(r, s) => Told(r, s)'
  <2>1. ticker \in Direct /\ job \in Direct
    BY <1>9 DEF TypeInv, ScheduleTypes, TickStep, Authorize, WorkerDelta, WorkerFinal, WorkerError, FinishTick, TickFails
  <2>2. UNCHANGED at \/ \E step : Goto(ticker, step)
    BY <1>9 DEF TickStep, Authorize, WorkerDelta, WorkerFinal, WorkerError, FinishTick, TickFails, Reply
  <2>3. UNCHANGED storeVars \/ \E e, n : AppendEvent(job, e, n)
    BY <1>9 DEF TickStep, Authorize, WorkerDelta, WorkerFinal, WorkerError, FinishTick, TickFails
  <2>. QED BY <1>7, <1>9, <2>1, <2>2, <2>3
<1>10. CASE Next
  BY <1>10, <1>2, <1>3, <1>4, <1>5, <1>6, <1>8, <1>9, Kinds, RunsOfRun DEF Next, StarterStep
<1>. QED BY <1>1, <1>10

-----------------------------------------------------------------------------
(* What clients are told.  A request that has not subscribed has nothing.  *)
Marks(r, q) ==
  \A i \in 1..Len(q) : /\ q[i] = "summary" => Told(r, "completed")
                       /\ q[i] = "fatal" => Told(r, "failed")
RecordedOf(c) ==
  /\ at[c] \in Early \/ c \in Direct => c \notin open /\ seen[c] = <<>> /\ channel[c] = <<>>
  /\ Marks(watched[c], seen[c]) /\ Marks(watched[c], channel[c])
RecordedInv == \A c \in Request : RecordedOf(c)

LEMMA MarksStay ==
  ASSUME NEW r, NEW q, Marks(r, q), \A k, s : Told(k, s) => Told(k, s)'
  PROVE  \A i \in 1..Len(q) : /\ q[i] = "summary" => Told(r, "completed")'
                              /\ q[i] = "fatal" => Told(r, "failed")'
BY DEF Marks

LEMMA RecordedFrame ==
  ASSUME NEW c \in Request, RecordedOf(c), \A k, s : Told(k, s) => Told(k, s)',
         seen'[c] = seen[c], channel'[c] = channel[c], watched'[c] = watched[c],
         at'[c] \in Early => at[c] \in Early, c \in open' => c \in open
  PROVE  RecordedOf(c)'
<1>1. Marks(watched[c], seen[c])' /\ Marks(watched[c], channel[c])'
  BY MarksStay DEF RecordedOf, Marks
<1>. QED BY <1>1 DEF RecordedOf

(* The handler of a request, and nothing of the others.                    *)
OnlyMoves(c) ==
  \A d \in Request \ {c} : /\ at'[d] = at[d] /\ watched'[d] = watched[d] /\ seen'[d] = seen[d]
                           /\ channel'[d] = channel[d] /\ (d \in open' <=> d \in open)

LEMMA HandlerMoves ==
  ASSUME TypeInv, NEW c \in Streamed \cup Watcher,
         OpenRun(c) \/ StartChatRun(c) \/ FindRun(c) \/ HandlerStep(c)
  PROVE  OnlyMoves(c)
<1>0. c \in Request
  BY Kinds
<1>1. CASE OpenRun(c) \/ StartChatRun(c) \/ FindRun(c)
  BY <1>0, <1>1 DEF OnlyMoves, OpenRun, StartChatRun, FindRun, Goto, channelVars, TypeInv, RequestTypes, ListTypes
<1>2. CASE Subscribe(c)
  BY <1>0, <1>2 DEF OnlyMoves, Subscribe, Goto, TypeInv, RequestTypes
<1>3. CASE Receive(c)
  BY <1>0, <1>3 DEF OnlyMoves, Receive, Goto, TypeInv, RequestTypes, ChannelTypes
<1>4. CASE EndStream(c) \/ Unsubscribe(c) \/ CloseOwnChannel(c)
  BY <1>0, <1>4 DEF OnlyMoves, EndStream, Unsubscribe, CloseOwnChannel, CloseChannel, Goto, streamVars, channelVars,
                    TypeInv, RequestTypes
<1>. QED BY <1>1, <1>2, <1>3, <1>4 DEF HandlerStep

LEMMA HandlerRecords ==
  ASSUME TypeInv, ChannelInv, RecordedInv, \A k, s : Told(k, s) => Told(k, s)', NEW c \in Streamed \cup Watcher,
         OpenRun(c) \/ StartChatRun(c) \/ FindRun(c) \/ HandlerStep(c)
  PROVE  RecordedInv'
<1>0. c \in Request /\ c \notin Direct /\ RecordedOf(c)
  BY Kinds DEF RecordedInv
<1>1. \A d \in Request \ {c} : RecordedOf(d)'
  BY HandlerMoves, RecordedFrame DEF OnlyMoves, RecordedInv
<1>2. CASE OpenRun(c) \/ FindRun(c)
  <2>1. at[c] \in Early /\ UNCHANGED <<open, seen, channel>>
    BY <1>2 DEF OpenRun, FindRun, Early
  <2>2. c \notin open' /\ seen'[c] = <<>> /\ channel'[c] = <<>>
    BY <1>0, <2>1 DEF RecordedOf
  <2>. QED BY <1>1, <2>2 DEF RecordedInv, RecordedOf, Marks
<1>3. CASE StartChatRun(c)
  BY <1>0, <1>1, <1>3, RecordedFrame DEF StartChatRun, channelVars, Goto, Early, TypeInv, RequestTypes, RecordedInv
<1>4. CASE Subscribe(c)
  <2>1. at[c] \in Early /\ UNCHANGED <<watched, seen, channel>> /\ at'[c] \notin Early
    BY <1>0, <1>4 DEF Subscribe, Early, Goto, TypeInv, RequestTypes
  <2>2. seen'[c] = <<>> /\ channel'[c] = <<>>
    BY <1>0, <2>1 DEF RecordedOf
  <2>. QED BY <1>0, <1>1, <2>1, <2>2 DEF RecordedInv, RecordedOf, Marks
<1>5. CASE Receive(c)
  <2>1. /\ at'[c] \notin Early /\ watched' = watched /\ channel[c] # <<>>
        /\ seen'[c] = Append(seen[c], Head(channel[c])) /\ channel'[c] = Tail(channel[c])
        /\ seen[c] \in Seq(StreamEvent) /\ channel[c] \in Seq(StreamEvent)
    BY <1>0, <1>5 DEF Receive, Goto, Early, TypeInv, RequestTypes, ChannelTypes
  <2>2. Marks(watched[c], seen[c])'
    <3>. SUFFICES ASSUME NEW i \in 1..Len(seen'[c])
                  PROVE  /\ seen'[c][i] = "summary" => Told(watched[c], "completed")'
                         /\ seen'[c][i] = "fatal" => Told(watched[c], "failed")'
      BY <2>1 DEF Marks
    <3>1. CASE i \in 1..Len(seen[c])
      BY <1>0, <2>1, <3>1, MarksStay DEF RecordedOf
    <3>2. CASE i \notin 1..Len(seen[c])
      <4>1. seen'[c][i] = channel[c][1] /\ 1 \in 1..Len(channel[c])
        BY <2>1, <3>2
      <4>. QED BY <1>0, <2>1, <4>1, MarksStay DEF RecordedOf
    <3>. QED BY <3>1, <3>2
  <2>3. Marks(watched[c], channel[c])'
    <3>. SUFFICES ASSUME NEW i \in 1..Len(channel'[c])
                  PROVE  /\ channel'[c][i] = "summary" => Told(watched[c], "completed")'
                         /\ channel'[c][i] = "fatal" => Told(watched[c], "failed")'
      BY <2>1 DEF Marks
    <3>1. channel'[c][i] = channel[c][i + 1] /\ i + 1 \in 1..Len(channel[c])
      BY <2>1
    <3>. QED BY <1>0, <2>1, <3>1, MarksStay DEF RecordedOf
  <2>. QED BY <1>0, <1>1, <2>1, <2>2, <2>3 DEF RecordedInv, RecordedOf
<1>6. CASE EndStream(c) \/ Unsubscribe(c) \/ CloseOwnChannel(c)
  <2>1. /\ UNCHANGED <<seen, channel, watched>> /\ open' \subseteq open /\ at'[c] \notin Early
    BY <1>0, <1>6 DEF EndStream, Unsubscribe, CloseOwnChannel, CloseChannel, streamVars, channelVars, Goto, Early,
                      TypeInv, RequestTypes
  <2>. QED BY <1>0, <1>1, <2>1, RecordedFrame DEF RecordedInv
<1>. QED BY <1>2, <1>3, <1>4, <1>5, <1>6 DEF HandlerStep

(* What Publish does to one channel.                                       *)
LEMMA PublishToOne ==
  ASSUME TypeInv, ChannelInv, NEW r \in Streamed, NEW e, Publish(r, e), NEW c \in Request
  PROVE  \/ channel'[c] = channel[c]
         \/ /\ r \notin closed /\ c \in subscribers[r] /\ watched[c] = r /\ at[c] \notin Early
            /\ c \notin Direct /\ channel'[c] = Append(channel[c], e)
<1>1. CASE r \in closed
  BY <1>1 DEF Publish
<1>2. CASE r \notin closed
  <2>1. c \in subscribers[r] => Listed(c, r)
    BY DEF Listed
  <2>. QED BY <1>2, <2>1, Kinds DEF Publish, ChannelInv, Early
<1>. QED BY <1>1, <1>2

LEMMA PublishRecords ==
  ASSUME TypeInv, ChannelInv, RecordedInv, \A k, s : Told(k, s) => Told(k, s)', NEW r \in Streamed, NEW e \in StreamEvent,
         Publish(r, e), UNCHANGED <<at, watched, seen, open>>,
         e = "summary" /\ r \notin closed => Told(r, "completed")', e = "fatal" /\ r \notin closed => Told(r, "failed")'
  PROVE  RecordedInv'
<1>. SUFFICES ASSUME NEW c \in Request PROVE RecordedOf(c)'
  BY DEF RecordedInv
<1>1. RecordedOf(c)
  BY DEF RecordedInv
<1>2. CASE channel'[c] = channel[c]
  BY <1>1, <1>2, RecordedFrame
<1>3. CASE /\ r \notin closed /\ watched[c] = r /\ at[c] \notin Early /\ c \notin Direct
           /\ channel'[c] = Append(channel[c], e)
  <2>1. Marks(watched[c], channel[c])'
    <3>. SUFFICES ASSUME NEW i \in 1..Len(channel'[c])
                  PROVE  /\ channel'[c][i] = "summary" => Told(r, "completed")'
                         /\ channel'[c][i] = "fatal" => Told(r, "failed")'
      BY <1>3 DEF Marks
    <3>0. channel[c] \in Seq(StreamEvent)
      BY DEF TypeInv, ChannelTypes
    <3>1. CASE i \in 1..Len(channel[c])
      <4>1. channel'[c][i] = channel[c][i]
        BY <1>3, <3>0, <3>1
      <4>. QED BY <1>1, <1>3, <3>1, <4>1, MarksStay DEF RecordedOf
    <3>2. CASE i \notin 1..Len(channel[c])
      BY <1>3, <3>0, <3>2
    <3>. QED BY <3>1, <3>2
  <2>2. Marks(watched[c], seen[c])'
    BY <1>1, MarksStay DEF RecordedOf, Marks
  <2>. QED BY <1>3, <2>1, <2>2 DEF RecordedOf
<1>. QED BY <1>2, <1>3, PublishToOne

LEMMA RunRecords ==
  ASSUME TypeInv, ChannelInv, RunInv, RunInv', RecordedInv, \A k, s : Told(k, s) => Told(k, s)', NEW r \in Streamed,
         ProviderStep(r) \/ RunStep(r)
  PROVE  RecordedInv'
<1>0. {"delta", "assistant_done", "summary", "fatal"} \subseteq StreamEvent
  BY DEF StreamEvent
<1>1. ASSUME UNCHANGED <<at, watched, seen, channel>>, open' \subseteq open PROVE RecordedInv'
  BY <1>1, RecordedFrame DEF RecordedInv
<1>2. CASE StreamSink(r) \/ PublishDone(r)
  <2>1. CASE StreamSink(r)
    BY <1>0, <2>1, PublishRecords DEF StreamSink, Advance, requestVars
  <2>2. CASE PublishDone(r) /\ Publish(r, "assistant_done")
    BY <1>0, <2>2, PublishRecords DEF PublishDone, Advance, requestVars
  <2>3. CASE PublishDone(r) /\ UNCHANGED <<published, channel, missed, panicked>>
    BY <2>3, <1>1 DEF PublishDone, Advance, requestVars
  <2>. QED BY <1>2, <2>1, <2>2, <2>3 DEF PublishDone
<1>3. CASE PublishSummary(r)
  <2>1. Told(r, "completed")'
    BY <1>3 DEF PublishSummary, Advance, storeVars, RunInv, Told, Over, TypeInv, RunTypes
  <2>. QED BY <1>0, <1>3, <2>1, PublishRecords DEF PublishSummary, Advance, requestVars
<1>4. CASE PublishFatal(r)
  <2>1. Told(r, "failed")'
    BY <1>4 DEF PublishFatal, Advance, storeVars, RunInv, Told, Over, TypeInv, RunTypes
  <2>. QED BY <1>0, <1>4, <2>1, PublishRecords DEF PublishFatal, Advance, requestVars
<1>5. CASE InvokeSucceeds(r) \/ InvokeFails(r) \/ AppendReply(r) \/ AppendError(r)
  BY <1>1, <1>5 DEF InvokeSucceeds, InvokeFails, InvokeReturns, AppendReply, AppendError, Advance, Record, requestVars
<1>6. CASE CloseRun(r) \/ CloseNextChannel(r) \/ RemoveRun(r)
  BY <1>1, <1>6 DEF CloseRun, CloseNextChannel, RemoveRun, CloseChannel, requestVars, channelVars
<1>. QED BY <1>2, <1>3, <1>4, <1>5, <1>6 DEF ProviderStep, RunStep

(* Every other step leaves the streams alone.                              *)
LEMMA OtherSteps ==
  ASSUME TypeInv, [Next]_vars,
         ~ \E c \in Streamed : OpenRun(c) \/ StartChatRun(c) \/ HandlerStep(c),
         ~ \E c \in Watcher : FindRun(c) \/ HandlerStep(c),
         ~ \E r \in Streamed : ProviderStep(r) \/ RunStep(r)
  PROVE  /\ UNCHANGED <<goroutine, closed, published, unsaved, channelVars>>
         /\ gone \subseteq gone'
         /\ \A c \in Streamed \cup Watcher :
               at'[c] = at[c] \/ (at[c] \in Early /\ at'[c] \in Early \cup {"done"})
         /\ \A c \in Request : at'[c] \in Early => at[c] \in Early
<1>1. CASE UNCHANGED vars
  BY <1>1 DEF vars, requestVars, streamVars, runVars
<1>2. ASSUME NEW c \in Chat, CreateChatSession(c) \/ AppendUserMessage(c), UNCHANGED streamVars
      PROVE  /\ UNCHANGED <<goroutine, closed, published, unsaved, channelVars, gone>>
             /\ at[c] \in Early /\ at'[c] \in Early \cup {"done"} /\ \A d \in Request \ {c} : at'[d] = at[d]
  BY <1>2, Kinds DEF CreateChatSession, AppendUserMessage, Goto, streamVars, runVars, TypeInv, RequestTypes, Early
<1>3. ASSUME NEW c \in Request, Disconnect(c) \/ CancelRun(c)
      PROVE  UNCHANGED <<goroutine, closed, published, unsaved, channelVars, at>> /\ gone \subseteq gone'
  BY <1>3 DEF Disconnect, CancelRun, runVars, requestVars
<1>4. ASSUME NEW c \in Direct, UNCHANGED at \/ \E step \in {"tick", "ticking", "list", "get", "sleep", "done"} : Goto(c, step)
      PROVE  /\ \A d \in Request \ {c} : at'[d] = at[d]
             /\ at'[c] = at[c] \/ at'[c] \notin Early
  BY <1>4, Kinds DEF Goto, TypeInv, RequestTypes, Early
<1>5. ASSUME NEW c \in Direct, TurnStep(c)
      PROVE  \E step \in {"tick", "ticking", "list", "get", "sleep", "done"} : Goto(c, step)
  BY <1>5 DEF TurnStep, PollStep, EnqueueChatNode, EnqueueFails, StartTick, EmptyTick, ListSessionEvents,
              GetSession, Sleep, WaitFails, Reply
<1>6. ASSUME TickStep \/ TickFails
      PROVE  ticker \in Direct /\ (UNCHANGED at \/ \E step \in {"list", "done"} : Goto(ticker, step))
  <2>1. ticker \in Direct
    BY <1>6 DEF TypeInv, ScheduleTypes, TickStep, Authorize, WorkerDelta, WorkerFinal, WorkerError, FinishTick, TickFails
  <2>. QED BY <1>6, <2>1 DEF TickStep, Authorize, WorkerDelta, WorkerFinal, WorkerError, FinishTick, TickFails, Reply
<1>7. CASE \E c \in Direct : TurnStep(c) /\ UNCHANGED streamVars
  BY <1>4, <1>5, <1>7, Kinds DEF streamVars, runVars
<1>8. CASE (TickStep \/ TickFails) /\ UNCHANGED streamVars
  BY <1>4, <1>6, <1>8, Kinds DEF streamVars, runVars
<1>9. CASE \E c \in Chat : (CreateChatSession(c) \/ AppendUserMessage(c)) /\ UNCHANGED <<streamVars, turnVars>>
  BY <1>2, <1>9, Kinds
<1>10. CASE \E c \in Request : Disconnect(c) \/ CancelRun(c)
  BY <1>3, <1>10
<1>. QED BY <1>1, <1>7, <1>8, <1>9, <1>10, Kinds DEF Next, StarterStep

LEMMA RecordedStep == TypeInv /\ ChannelInv /\ RunInv /\ RecordedInv /\ [Next]_vars => RecordedInv'
<1>. SUFFICES ASSUME TypeInv, ChannelInv, RunInv, RecordedInv, [Next]_vars PROVE RecordedInv'
  OBVIOUS
<1>1. RunInv' /\ \A k, s : Told(k, s) => Told(k, s)'
  BY RunInvStep
<1>2. CASE \/ \E c \in Streamed : OpenRun(c) \/ StartChatRun(c) \/ HandlerStep(c)
           \/ \E c \in Watcher : FindRun(c) \/ HandlerStep(c)
  BY <1>1, <1>2, HandlerRecords
<1>3. CASE \E r \in Streamed : ProviderStep(r) \/ RunStep(r)
  BY <1>1, <1>3, RunRecords
<1>4. CASE ~ \/ \E c \in Streamed : OpenRun(c) \/ StartChatRun(c) \/ HandlerStep(c)
             \/ \E c \in Watcher : FindRun(c) \/ HandlerStep(c)
             \/ \E r \in Streamed : ProviderStep(r) \/ RunStep(r)
  <2>1. UNCHANGED channelVars /\ \A c \in Request : at'[c] \in Early => at[c] \in Early
    BY <1>4, OtherSteps
  <2>. QED BY <1>1, <2>1, RecordedFrame DEF RecordedInv, channelVars
<1>. QED BY <1>2, <1>3, <1>4

LEMMA RunsAlways == Spec => []RunInv
<1>1. Init => RunInv
  BY DEF Init, StreamInit, RunInv, Over
<1>. QED BY <1>1, RunInvStep, TypesAlways, PTL DEF Spec

(* Who is told that a run succeeded, or failed, finds its session completed *)
(* or failed: the event is written before it is told, and nothing changes  *)
(* the session of a run that is over.                                      *)
THEOREM ToldAsRecorded == Spec => []EndsAreRecorded
<1>1. Init => RecordedInv
  BY DEF Init, StreamInit, RecordedInv, RecordedOf, Marks
<1>2. RecordedInv => EndsAreRecorded
  BY DEF RecordedInv, RecordedOf, Marks, Told, EndsAreRecorded
<1>. QED BY <1>1, <1>2, RecordedStep, TypesAlways, ChannelsAlways, RunsAlways, PTL DEF Spec

-----------------------------------------------------------------------------
(* What a client that streams a run gets of it.                            *)

Client == Streamed \cup Watcher
Streaming == {"start", "stream"}
Got(c) == seen[c] \o channel[c]

(* g is what p holds after its first f events, or the beginning of that.   *)
Follows(g, p, f) == f + Len(g) <= Len(p) /\ \A i \in 1..Len(g) : g[i] = p[f + i]

LEMMA FollowsAppend ==
  ASSUME NEW S, NEW g \in Seq(S), NEW p \in Seq(S), NEW e \in S, NEW f \in Nat, Follows(g, p, f)
  PROVE  /\ Follows(g, Append(p, e), f)
         /\ f + Len(g) = Len(p) => /\ Follows(Append(g, e), Append(p, e), f)
                                   /\ f + Len(Append(g, e)) = Len(Append(p, e))
<1>1. Len(Append(p, e)) = Len(p) + 1 /\ Len(Append(g, e)) = Len(g) + 1 /\ Len(g) \in Nat /\ Len(p) \in Nat
  BY AppendProperties
<1>2. \A i \in 1..Len(g) : Append(p, e)[f + i] = p[f + i] /\ Append(g, e)[i] = g[i]
  BY AppendProperties DEF Follows
<1>3. Append(g, e)[Len(g) + 1] = e /\ Append(p, e)[Len(p) + 1] = e
  BY AppendProperties
<1>4. Follows(g, Append(p, e), f)
  BY <1>1, <1>2 DEF Follows
<1>5. ASSUME f + Len(g) = Len(p) PROVE Follows(Append(g, e), Append(p, e), f)
  <2>. DEFINE h == Append(g, e)
              q == Append(p, e)
  <2>0. /\ Len(h) = Len(g) + 1 /\ Len(q) = Len(p) + 1 /\ h[Len(g) + 1] = e /\ q[Len(p) + 1] = e
        /\ \A i \in 1..Len(g) : q[f + i] = p[f + i] /\ h[i] = g[i] /\ g[i] = p[f + i]
    BY <1>1, <1>2, <1>3 DEF Follows
  <2>. HIDE DEF h, q
  <2>1. Follows(h, q, f)
    BY <1>1, <1>5, <2>0 DEF Follows
  <2>. QED BY <2>1 DEF h, q
<1>. QED BY <1>1, <1>4, <1>5

LEMMA FollowsSubSeq ==
  ASSUME NEW S, NEW g \in Seq(S), NEW p \in Seq(S), NEW f \in Nat, Follows(g, p, f)
  PROVE  g = SubSeq(p, f + 1, f + Len(g))
<1>1. \A i \in f + 1..f + Len(g) : p[i] \in S
  BY DEF Follows
<1>2. /\ SubSeq(p, f + 1, f + Len(g)) \in Seq(S) /\ Len(SubSeq(p, f + 1, f + Len(g))) = Len(g)
      /\ \A i \in 1..Len(g) : SubSeq(p, f + 1, f + Len(g))[i] = p[f + i]
  <2>1. f + 1 \in Int /\ f + Len(g) \in Int /\ Len(g) \in Nat
    OBVIOUS
  <2>2. SubSeq(p, f + 1, f + Len(g)) \in Seq(S)
    BY <1>1, <2>1, SubSeqProperties
  <2>3. Len(SubSeq(p, f + 1, f + Len(g))) = Len(g)
    BY <2>1
  <2>4. \A i \in 1..Len(g) : SubSeq(p, f + 1, f + Len(g))[i] = p[f + i]
    BY <2>1
  <2>. QED BY <2>2, <2>3, <2>4
<1>. QED BY <1>2, SeqEqual DEF Follows

LEMMA GotAppend ==
  ASSUME NEW S, NEW s \in Seq(S), NEW q \in Seq(S), NEW e \in S
  PROVE  s \o Append(q, e) = Append(s \o q, e)
BY ConcatAssociative, AppendIsConcat

LEMMA GotReceive ==
  ASSUME NEW S, NEW s \in Seq(S), NEW q \in Seq(S), q # <<>>
  PROVE  Append(s, Head(q)) \o Tail(q) = s \o q
<1>1. q = <<Head(q)>> \o Tail(q) /\ Head(q) \in S /\ Tail(q) \in Seq(S) /\ <<Head(q)>> \in Seq(S)
  OBVIOUS
<1>2. Append(s, Head(q)) = s \o <<Head(q)>>
  BY <1>1, AppendIsConcat
<1>. QED BY <1>1, <1>2, ConcatAssociative

-----------------------------------------------------------------------------
(* A client that missed nothing has what its run published since it        *)
(* subscribed, and all of it while the run knows it or it goes on reading; *)
(* a client that reads is known to its run until the run is closed; one    *)
(* that stopped reading without leaving was told how the run ended.        *)
StreamOf(c) ==
  /\ c \in open \/ Got(c) # <<>>
       => /\ watched[c] \in Streamed
          /\ c \notin missed => Follows(Got(c), published[watched[c]], first[c])
  /\ c \notin missed /\ watched[c] \in Streamed /\ (c \in subscribers[watched[c]] \/ at[c] \in Streaming)
       => first[c] + Len(Got(c)) = Len(published[watched[c]])
  /\ at[c] \in Streaming /\ watched[c] \notin closed => c \in subscribers[watched[c]]
  /\ at[c] \notin Early \cup Streaming /\ c \notin missed \cup gone /\ seen[c] # <<>>
       => Last(seen[c]) \in {"summary", "fatal"}
StreamInv == \A c \in Client : StreamOf(c)

(* A client whose stream is not concerned by a step.                       *)
LEMMA StreamFrame ==
  ASSUME NEW c \in Client, StreamOf(c), seen'[c] = seen[c], channel'[c] = channel[c], watched'[c] = watched[c],
         first'[c] = first[c],
         watched[c] \in Streamed =>
           /\ published'[watched[c]] = published[watched[c]]
           /\ c \in subscribers'[watched[c]] => c \in subscribers[watched[c]],
         at[c] \in Streaming /\ watched[c] \notin closed' =>
           watched[c] \notin closed /\ (c \in subscribers[watched[c]] => c \in subscribers'[watched[c]]),
         c \in open' => c \in open, c \in missed' <=> c \in missed, gone \subseteq gone',
         \/ at'[c] = at[c]
         \/ at[c] \in Early /\ at'[c] \notin Streaming /\ seen[c] = <<>>
  PROVE  StreamOf(c)'
<1>1. Got(c)' = Got(c)
  BY DEF Got
<1>2. at'[c] \in Streaming => at[c] \in Streaming
  BY DEF Streaming, Early
<1>3. c \in open' \/ Got(c)' # <<>>
       => /\ watched'[c] \in Streamed
          /\ c \notin missed' => Follows(Got(c)', published'[watched'[c]], first'[c])
  BY <1>1 DEF StreamOf
<1>4. c \notin missed' /\ watched'[c] \in Streamed /\ (c \in subscribers'[watched'[c]] \/ at'[c] \in Streaming)
       => first'[c] + Len(Got(c)') = Len(published'[watched'[c]])
  BY <1>1, <1>2 DEF StreamOf
<1>5. at'[c] \in Streaming /\ watched'[c] \notin closed' => c \in subscribers'[watched'[c]]
  BY <1>2 DEF StreamOf
<1>6. at'[c] \notin Early \cup Streaming /\ c \notin missed' \cup gone' /\ seen'[c] # <<>>
       => Last(seen'[c]) \in {"summary", "fatal"}
  BY DEF StreamOf
<1>. QED BY <1>3, <1>4, <1>5, <1>6 DEF StreamOf, Follows

-----------------------------------------------------------------------------
(* The handler of a client.                                                *)
LEMMA HandlerLeavesOthers ==
  ASSUME TypeInv, NEW c \in Client, OpenRun(c) \/ StartChatRun(c) \/ FindRun(c) \/ HandlerStep(c)
  PROVE  /\ UNCHANGED <<published, closed, gone, missed>>
         /\ \A d \in Request \ {c} : /\ first'[d] = first[d]
                                     /\ \A k \in Streamed : d \in subscribers'[k] <=> d \in subscribers[k]
<1>0. c \in Request
  BY Kinds DEF Client
<1>1. CASE OpenRun(c) \/ StartChatRun(c) \/ FindRun(c) \/ Receive(c) \/ EndStream(c)
  BY <1>1 DEF OpenRun, StartChatRun, FindRun, Receive, EndStream, channelVars, runVars, streamVars
<1>2. CASE Subscribe(c)
  <2>. DEFINE r == watched[c]
  <2>1. UNCHANGED <<published, closed, gone, missed>>
    BY <1>2 DEF Subscribe, runVars
  <2>2. /\ first' = first \/ first' = [first EXCEPT ![c] = Len(published[r])]
        /\ subscribers' = subscribers \/ subscribers' = [subscribers EXCEPT ![r] = @ \cup {c}]
    BY <1>2 DEF Subscribe
  <2>. HIDE DEF r
  <2>3. \A d \in Request \ {c} : first'[d] = first[d]
    BY <2>2 DEF TypeInv, ChannelTypes
  <2>4. ASSUME NEW d \in Request \ {c}, NEW k \in Streamed PROVE d \in subscribers'[k] <=> d \in subscribers[k]
    <3>1. subscribers'[k] = subscribers[k] \/ subscribers'[k] = subscribers[k] \cup {c}
      BY <2>2 DEF TypeInv, ListTypes
    <3>. QED BY <3>1
  <2>. QED BY <2>1, <2>3, <2>4
<1>3. CASE Unsubscribe(c) \/ CloseOwnChannel(c)
  BY <1>3 DEF Unsubscribe, CloseOwnChannel, runVars, TypeInv, ListTypes
<1>. QED BY <1>1, <1>2, <1>3 DEF HandlerStep

LEMMA OthersStream ==
  ASSUME TypeInv, StreamInv, NEW c \in Client, OpenRun(c) \/ StartChatRun(c) \/ FindRun(c) \/ HandlerStep(c)
  PROVE  \A d \in Client \ {c} : StreamOf(d)'
<1>. SUFFICES ASSUME NEW d \in Client \ {c} PROVE StreamOf(d)'
  OBVIOUS
<1>1. d \in Request \ {c} /\ StreamOf(d)
  BY Kinds DEF Client, StreamInv
<1>2. OnlyMoves(c)
  BY HandlerMoves DEF Client
<1>3. /\ at'[d] = at[d] /\ watched'[d] = watched[d] /\ seen'[d] = seen[d] /\ channel'[d] = channel[d]
      /\ d \in open' <=> d \in open
  BY <1>1, <1>2 DEF OnlyMoves
<1>4. /\ UNCHANGED <<published, closed, gone, missed>> /\ first'[d] = first[d]
      /\ \A k \in Streamed : d \in subscribers'[k] <=> d \in subscribers[k]
  BY <1>1, HandlerLeavesOthers
<1>5. watched[d] \in Streamed \/ at[d] \notin Streaming
  BY <1>1 DEF TypeInv, ListTypes, Watching, Streaming
<1>. QED BY <1>1, <1>3, <1>4, <1>5, StreamFrame

LEMMA HandlerStreams ==
  ASSUME TypeInv, ChannelInv, RunInv, RecordedInv, StreamInv, NEW c \in Client,
         OpenRun(c) \/ StartChatRun(c) \/ FindRun(c) \/ HandlerStep(c)
  PROVE  StreamInv'
<1>. SUFFICES StreamOf(c)'
  BY OthersStream DEF StreamInv
<1>0. /\ c \in Request /\ RecordedOf(c) /\ StreamOf(c)
      /\ seen[c] \in Seq(StreamEvent) /\ channel[c] \in Seq(StreamEvent) /\ first[c] \in Nat
  BY Kinds DEF Client, RecordedInv, StreamInv, TypeInv, ChannelTypes
<1>1. CASE OpenRun(c) \/ FindRun(c)
  <2>1. at[c] \in Early /\ at'[c] \notin Streaming /\ UNCHANGED <<open, seen, channel, first, missed, gone, subscribers>>
    BY <1>0, <1>1 DEF OpenRun, FindRun, Early, Streaming, Goto, TypeInv, RequestTypes
  <2>2. /\ c \notin open' /\ seen'[c] = <<>> /\ channel'[c] = <<>>
        /\ \A k \in Streamed : c \notin subscribers'[k]
    BY <1>0, <2>1 DEF RecordedOf, ChannelInv, Listed, Early
  <2>3. Got(c)' = <<>>
    BY <2>2 DEF Got
  <2>. QED BY <2>1, <2>2, <2>3 DEF StreamOf
<1>2. CASE StartChatRun(c)
  <2>1. at[c] \in Streaming /\ at'[c] \in Streaming /\ UNCHANGED <<published, closed, gone, channelVars>>
    BY <1>0, <1>2 DEF StartChatRun, Streaming, Goto, TypeInv, RequestTypes
  <2>2. Got(c)' = Got(c)
    BY <2>1 DEF Got, channelVars
  <2>. QED BY <1>0, <2>1, <2>2 DEF StreamOf, Follows, channelVars
<1>3. CASE Subscribe(c)
  <2>. DEFINE r == watched[c]
  <2>1. /\ r \in Streamed /\ at[c] = "subscribe" /\ UNCHANGED <<watched, seen, channel, published, closed, missed, gone>>
    BY <1>0, <1>3 DEF Subscribe, runVars, TypeInv, ListTypes, Watching
  <2>2. seen'[c] = <<>> /\ channel'[c] = <<>> /\ Got(c)' = <<>> /\ c \notin open /\ c \notin subscribers[r]
    BY <1>0, <2>1 DEF Got, RecordedOf, Early, ChannelInv, Listed
  <2>3. CASE r \in closed
    <3>1. at'[c] = "done" /\ UNCHANGED <<subscribers, open, first>>
      BY <1>0, <1>3, <2>3 DEF Subscribe, Goto, TypeInv, RequestTypes
    <3>. QED BY <2>1, <2>2, <3>1 DEF StreamOf, Streaming
  <2>4. CASE r \notin closed
    <3>1. /\ at'[c] \in Streaming /\ subscribers'[r] = subscribers[r] \cup {c} /\ first'[c] = Len(published[r])
      BY <1>0, <1>3, <2>1, <2>4 DEF Subscribe, Goto, Streaming, TypeInv, RequestTypes, ListTypes, ChannelTypes
    <3>2. Len(published[r]) \in Nat /\ Len(<<>>) = 0
      BY <2>1 DEF TypeInv, RunTypes
    <3>3. Follows(<<>>, published[r], Len(published[r])) /\ Len(published[r]) + Len(<<>>) = Len(published[r])
      BY <3>2 DEF Follows
    <3>. QED BY <2>1, <2>2, <3>1, <3>3 DEF StreamOf, Follows
  <2>. QED BY <2>3, <2>4
<1>4. CASE Receive(c)
  <2>1. /\ at[c] = "stream" /\ channel[c] # <<>> /\ UNCHANGED <<watched, first, published, closed, missed, gone, open, subscribers>>
        /\ seen'[c] = Append(seen[c], Head(channel[c])) /\ channel'[c] = Tail(channel[c])
        /\ at'[c] = IF Head(channel[c]) = "fatal" THEN "leave" ELSE "stream"
    BY <1>0, <1>4 DEF Receive, runVars, Goto, TypeInv, RequestTypes, ChannelTypes
  <2>2. Got(c)' = Got(c)
    BY <1>0, <2>1, GotReceive DEF Got
  <2>3. at'[c] \notin Early \cup Streaming => Last(seen'[c]) \in {"summary", "fatal"}
    <3>1. Head(channel[c]) \in StreamEvent
      BY <1>0, <2>1
    <3>2. Last(seen'[c]) = Head(channel[c])
      BY <1>0, <2>1, <3>1, AppendLast
    <3>. QED BY <2>1, <3>2 DEF Streaming
  <2>4. at[c] \in Streaming
    BY <2>1 DEF Streaming
  <2>. QED BY <1>0, <2>1, <2>2, <2>3, <2>4 DEF StreamOf, Follows
<1>5. CASE EndStream(c)
  <2>1. /\ at[c] = "stream" /\ at'[c] = "leave" /\ UNCHANGED <<streamVars>>
        /\ c \in gone \/ (channel[c] = <<>> /\ c \notin open)
    BY <1>0, <1>5 DEF EndStream, Goto, TypeInv, RequestTypes
  <2>2. Got(c)' = Got(c) /\ at[c] \in Streaming /\ at'[c] \notin Streaming
    BY <2>1 DEF Got, Streaming, streamVars, channelVars
  <2>3. ASSUME c \notin missed \cup gone, seen[c] # <<>> PROVE Last(seen[c]) \in {"summary", "fatal"}
    <3>. DEFINE r == watched[c]
                p == published[r]
    <3>1. r \in Streamed /\ p \in Seq(StreamEvent)
      BY <1>0, <2>1 DEF TypeInv, RunTypes, ListTypes, Watching
    <3>2. r \in closed
      BY <1>0, <2>1, <2>2, <2>3, <3>1 DEF StreamOf, ChannelInv, Listed
    <3>3. p # <<>> /\ Last(p) \in {"summary", "fatal"}
      BY <3>1, <3>2 DEF RunInv, Over
    <3>4. Got(c) = seen[c]
      BY <1>0, <2>1, <2>3, ConcatEmptySeq DEF Got
    <3>5. Follows(seen[c], p, first[c]) /\ first[c] + Len(seen[c]) = Len(p)
      BY <1>0, <2>2, <2>3, <3>1, <3>4 DEF StreamOf
    <3>6. Len(seen[c]) \in 1..Len(seen[c])
      BY <1>0, <2>3
    <3>. QED BY <3>3, <3>5, <3>6 DEF Follows, Last
  <2>. QED BY <1>0, <2>1, <2>2, <2>3 DEF StreamOf, Follows, streamVars, channelVars, runVars
<1>6. CASE Unsubscribe(c) \/ CloseOwnChannel(c)
  <2>1. /\ UNCHANGED <<watched, seen, channel, first, published, closed, missed, gone>> /\ open' \subseteq open
        /\ at[c] \in {"leave", "close"} /\ at'[c] \in {"close", "done"}
    BY <1>0, <1>6 DEF Unsubscribe, CloseOwnChannel, CloseChannel, runVars, Goto, TypeInv, RequestTypes
  <2>2. watched[c] \in Streamed => (c \in subscribers'[watched[c]] => c \in subscribers[watched[c]])
    BY <1>6 DEF Unsubscribe, CloseOwnChannel, TypeInv, ListTypes
  <2>3. Got(c)' = Got(c) /\ {at[c], at'[c]} \cap (Early \cup Streaming) = {}
    BY <2>1 DEF Got, Early, Streaming
  <2>. QED BY <1>0, <2>1, <2>2, <2>3 DEF StreamOf, Follows
<1>. QED BY <1>1, <1>2, <1>3, <1>4, <1>5, <1>6 DEF HandlerStep

-----------------------------------------------------------------------------
(* The goroutine of a run.                                                 *)
LEMMA PublishStream ==
  ASSUME TypeInv, ChannelInv, StreamInv, NEW r \in Streamed, NEW e \in StreamEvent, Publish(r, e), r \notin closed,
         NEW c \in Client, UNCHANGED <<at, watched, seen, first, open, subscribers, closed, gone>>
  PROVE  StreamOf(c)'
<1>. DEFINE full == {d \in subscribers[r] : Len(channel[d]) = Capacity}
<1>0. /\ c \in Request /\ StreamOf(c) /\ seen[c] \in Seq(StreamEvent) /\ channel[c] \in Seq(StreamEvent)
      /\ first[c] \in Nat /\ published[r] \in Seq(StreamEvent) /\ Got(c) \in Seq(StreamEvent)
  BY Kinds DEF Client, StreamInv, TypeInv, ChannelTypes, RunTypes, Got
<1>1. /\ published'[r] = Append(published[r], e) /\ \A k \in Streamed \ {r} : published'[k] = published[k]
      /\ channel'[c] = IF c \in subscribers[r] \ full THEN Append(channel[c], e) ELSE channel[c]
      /\ missed' = missed \cup full
  BY <1>0 DEF Publish, TypeInv, RunTypes
<1>2. c \in subscribers[r] => watched[c] = r /\ c \in open
  BY <1>0 DEF ChannelInv, Listed
<1>3. CASE c \notin subscribers[r]
  <2>1. channel'[c] = channel[c] /\ (c \in missed' <=> c \in missed) /\ Got(c)' = Got(c)
    BY <1>1, <1>3 DEF Got
  <2>2. CASE watched[c] = r
    <3>1. at[c] \notin Streaming
      BY <1>0, <1>3, <2>2 DEF StreamOf
    <3>2. (c \in open \/ Got(c) # <<>>) /\ c \notin missed => Follows(Got(c), published'[r], first[c])
      BY <1>0, <1>1, <2>2, FollowsAppend DEF StreamOf
    <3>. QED BY <1>0, <1>3, <2>1, <2>2, <3>1, <3>2 DEF StreamOf, Follows
  <2>3. CASE watched[c] # r
    BY <1>0, <1>1, <2>1, <2>3, StreamFrame
  <2>. QED BY <2>2, <2>3
<1>4. CASE c \in full
  <2>1. c \in missed' /\ watched[c] = r /\ c \in subscribers[r]
    BY <1>1, <1>2, <1>4
  <2>2. c \in subscribers'[watched'[c]] /\ watched'[c] \in Streamed
    BY <2>1
  <2>3. c \notin missed' <=> FALSE
    BY <2>1
  <2>. HIDE DEF full
  <2>. QED BY <2>2, <2>3, Zenon DEF StreamOf
<1>5. CASE c \in subscribers[r] \ full
  <2>0. channel'[c] = Append(channel[c], e) /\ seen'[c] = seen[c]
    BY <1>1, <1>5
  <2>. HIDE DEF full
  <2>1. Got(c)' = Append(Got(c), e)
    <3>. DEFINE s == seen[c]
                q == channel[c]
    <3>1. s \in Seq(StreamEvent) /\ q \in Seq(StreamEvent)
      BY <1>0
    <3>2. Got(c)' = s \o Append(q, e) /\ Got(c) = s \o q
      BY <2>0 DEF Got
    <3>. HIDE DEF s, q
    <3>. QED BY <3>1, <3>2, GotAppend
  <2>2. watched[c] = r /\ c \in open /\ (c \in missed' <=> c \in missed)
    BY <1>1, <1>2, <1>5
  <2>3. c \notin missed => /\ Follows(Got(c)', published'[r], first[c])
                           /\ first[c] + Len(Got(c)') = Len(published'[r])
    <3>. SUFFICES ASSUME c \notin missed
                  PROVE  /\ Follows(Append(Got(c), e), Append(published[r], e), first[c])
                         /\ first[c] + Len(Append(Got(c), e)) = Len(Append(published[r], e))
      BY <1>1, <2>1
    <3>1. Follows(Got(c), published[r], first[c]) /\ first[c] + Len(Got(c)) = Len(published[r])
      BY <1>0, <1>5, <2>2 DEF StreamOf
    <3>. QED BY <1>0, <3>1, FollowsAppend
  <2>. QED BY <1>0, <1>5, <2>2, <2>3 DEF StreamOf, Follows
<1>. QED BY <1>3, <1>4, <1>5

LEMMA RunStreams ==
  ASSUME TypeInv, ChannelInv, StreamInv, NEW r \in Streamed, ProviderStep(r) \/ RunStep(r)
  PROVE  StreamInv'
<1>. SUFFICES ASSUME NEW c \in Client PROVE StreamOf(c)'
  BY DEF StreamInv
<1>0. c \in Request /\ StreamOf(c) /\ (watched[c] \in Streamed \/ at[c] \notin Streaming)
  BY Kinds DEF Client, StreamInv, TypeInv, ListTypes, Watching, Streaming
<1>1. ASSUME UNCHANGED <<at, watched, seen, channel, first, missed, gone, published, subscribers, closed>>,
             open' \subseteq open
      PROVE  StreamOf(c)'
  BY <1>0, <1>1, StreamFrame
<1>2. ASSUME NEW e \in StreamEvent, Publish(r, e),
             UNCHANGED <<at, watched, seen, first, open, subscribers, closed, gone>>
      PROVE  StreamOf(c)'
  <2>1. CASE r \in closed
    BY <1>1, <1>2, <2>1 DEF Publish
  <2>2. CASE r \notin closed
    BY <1>2, <2>2, PublishStream
  <2>. QED BY <2>1, <2>2
<1>3. {"delta", "assistant_done", "summary", "fatal"} \subseteq StreamEvent
  BY DEF StreamEvent
<1>4. CASE StreamSink(r) \/ PublishSummary(r) \/ PublishFatal(r)
  BY <1>2, <1>3, <1>4 DEF StreamSink, PublishSummary, PublishFatal, Advance, requestVars
<1>5. CASE PublishDone(r)
  BY <1>1, <1>2, <1>3, <1>5 DEF PublishDone, Advance, requestVars
<1>6. CASE InvokeSucceeds(r) \/ InvokeFails(r) \/ AppendReply(r) \/ AppendError(r)
  BY <1>1, <1>6 DEF InvokeSucceeds, InvokeFails, InvokeReturns, AppendReply, AppendError, Advance, Record, requestVars
<1>7. CASE CloseNextChannel(r) \/ RemoveRun(r)
  BY <1>1, <1>7 DEF CloseNextChannel, RemoveRun, CloseChannel, requestVars, runVars, channelVars
<1>8. CASE CloseRun(r)
  <2>1. UNCHANGED <<at, watched, seen, channel, first, missed, gone, published, open>> /\ closed' = closed \cup {r}
    BY <1>8 DEF CloseRun, requestVars
  <2>2. \A k \in Streamed : subscribers'[k] = IF k = r THEN {} ELSE subscribers[k]
    BY <1>8 DEF CloseRun, TypeInv, ListTypes
  <2>. QED BY <1>0, <2>1, <2>2, StreamFrame
<1>. QED BY <1>4, <1>5, <1>6, <1>7, <1>8 DEF ProviderStep, RunStep

-----------------------------------------------------------------------------
LEMMA StreamStep ==
  TypeInv /\ ChannelInv /\ RunInv /\ RecordedInv /\ StreamInv /\ [Next]_vars => StreamInv'
<1>. SUFFICES ASSUME TypeInv, ChannelInv, RunInv, RecordedInv, StreamInv, [Next]_vars PROVE StreamInv'
  OBVIOUS
<1>1. CASE \/ \E c \in Streamed : OpenRun(c) \/ StartChatRun(c) \/ HandlerStep(c)
           \/ \E c \in Watcher : FindRun(c) \/ HandlerStep(c)
  BY <1>1, HandlerStreams DEF Client
<1>2. CASE \E r \in Streamed : ProviderStep(r) \/ RunStep(r)
  BY <1>2, RunStreams
<1>3. CASE ~ \/ \E c \in Streamed : OpenRun(c) \/ StartChatRun(c) \/ HandlerStep(c)
             \/ \E c \in Watcher : FindRun(c) \/ HandlerStep(c)
             \/ \E r \in Streamed : ProviderStep(r) \/ RunStep(r)
  <2>. SUFFICES ASSUME NEW c \in Client PROVE StreamOf(c)'
    BY DEF StreamInv
  <2>1. c \in Request /\ StreamOf(c) /\ RecordedOf(c)
    BY Kinds DEF Client, StreamInv, RecordedInv
  <2>2. /\ UNCHANGED <<closed, published, channelVars>> /\ gone \subseteq gone'
        /\ at'[c] = at[c] \/ (at[c] \in Early /\ at'[c] \in Early \cup {"done"})
    BY <1>3, OtherSteps DEF Client
  <2>3. at'[c] = at[c] \/ (at[c] \in Early /\ at'[c] \notin Streaming /\ seen[c] = <<>>)
    BY <2>1, <2>2 DEF RecordedOf, Early, Streaming
  <2>. QED BY <2>1, <2>2, <2>3, StreamFrame DEF channelVars
<1>. QED BY <1>1, <1>2, <1>3

(* Whatever clients come, fall behind and leave: who missed nothing has    *)
(* what its run published since it subscribed, in order, and who is let go *)
(* by the run was told how it ended.                                       *)
THEOREM StreamsAreComplete == Spec => []StreamsComplete
<1>1. Init => RecordedInv /\ StreamInv
  <2>. SUFFICES ASSUME Init PROVE RecordedInv /\ StreamInv
    OBVIOUS
  <2>1. open = {} /\ \A c \in Request : seen[c] = <<>> /\ channel[c] = <<>> /\ watched[c] = NoChat /\ Got(c) = <<>>
    BY DEF Init, StreamInit, Got
  <2>2. \A c \in Client : at[c] \notin Streaming
    BY Kinds DEF Init, SessionInit, Client, Streaming
  <2>. QED BY <2>1, <2>2, Kinds DEF StreamInv, StreamOf, RecordedInv, RecordedOf, Marks, Client
<1>2. TypeInv /\ ChannelInv /\ RecordedInv /\ StreamInv => StreamsComplete
  <2>. SUFFICES ASSUME TypeInv, ChannelInv, RecordedInv, StreamInv, NEW c \in Request
                PROVE  /\ c \notin missed /\ (c \in open \/ Got(c) # <<>>)
                          => Got(c) = SubSeq(published[watched[c]], first[c] + 1, first[c] + Len(Got(c)))
                       /\ c \notin missed /\ watched[c] # NoChat /\ c \in subscribers[watched[c]]
                          => first[c] + Len(Got(c)) = Len(published[watched[c]])
                       /\ at[c] = "done" /\ c \notin missed \cup gone /\ seen[c] # <<>>
                          => seen[c][Len(seen[c])] \in {"summary", "fatal"}
    BY DEF StreamsComplete, Got
  <2>1. CASE c \in Direct
    <3>1. c \notin open /\ seen[c] = <<>> /\ channel[c] = <<>> /\ Got(c) = <<>>
      BY <2>1 DEF RecordedInv, RecordedOf, Got
    <3>2. watched[c] # NoChat => c \notin subscribers[watched[c]]
      BY <3>1 DEF ChannelInv, Listed, TypeInv, ListTypes
    <3>. QED BY <3>1, <3>2
  <2>2. CASE c \in Client
    <3>1. /\ StreamOf(c) /\ Got(c) \in Seq(StreamEvent) /\ first[c] \in Nat
          /\ watched[c] \in Streamed => published[watched[c]] \in Seq(StreamEvent)
          /\ watched[c] \in Streamed \cup {NoChat}
      BY <2>2 DEF StreamInv, TypeInv, ChannelTypes, RunTypes, ListTypes, Got
    <3>2. c \notin missed /\ (c \in open \/ Got(c) # <<>>)
             => Got(c) = SubSeq(published[watched[c]], first[c] + 1, first[c] + Len(Got(c)))
      BY <3>1, FollowsSubSeq DEF StreamOf
    <3>3. "done" \notin Early \cup Streaming
      BY DEF Early, Streaming
    <3>. QED BY <3>1, <3>2, <3>3 DEF StreamOf, Last
  <2>. QED BY <2>1, <2>2 DEF Request, Chat, Client
<1>. QED BY <1>1, <1>2, RecordedStep, StreamStep, TypesAlways, ChannelsAlways, RunsAlways, PTL DEF Spec

==============================================================================
