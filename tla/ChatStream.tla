----------------------------- MODULE ChatStream -----------------------------
(***************************************************************************)
(* POST /api/v1/chat/stream: a run, which a goroutine drives and which     *)
(* outlives the request that started it, and the clients that stream it.   *)
(* The run hands every event to the channel of each subscriber and drops   *)
(* it where the channel is full; a handler leaves when its client does,    *)
(* after a fatal event, or when the run closes its channel.                *)
(*                                                                         *)
(* Steps under run.mu are atomic; closing a channel comes after unlocking. *)
(***************************************************************************)
EXTENDS ChatSession

CONSTANTS Capacity,  \* of a channel (256 in the code)
          MaxEvents  \* bound on the events a provider streams

ASSUME StreamAssumption == Capacity \in Nat \ {0} /\ MaxEvents \in Nat

VARIABLES gone,       \* the requests whose client has left: their context is done
          registry,   \* server.chatRuns
          closed,     \* the runs that were closed
          cancelled,  \* the runs whose context is cancelled
          goroutine,  \* where the goroutine of a run stands
          subscribers,\* of a run
          closing,    \* the channels close() has yet to close
          watched,    \* the run a request streams
          channel,    \* what waits in the channel of a request
          open,       \* the channels that are not closed
          published, first, seen, missed, unsaved, \* history: events of a run; of a client, its
                      \* first event, those it got, whether one was dropped; runs left unrecorded
          panicked    \* a closed channel was closed again or sent to

runVars == <<registry, closed, cancelled, goroutine, published, unsaved>>
channelVars == <<subscribers, closing, watched, channel, open, first, seen, missed, panicked>>
requestVars == <<at, gone>>
streamVars == <<gone, runVars, channelVars>>

StreamEvent == {"delta", "assistant_done", "summary", "fatal"}

StreamInit ==
  /\ gone = {} /\ registry = {} /\ closed = {} /\ cancelled = {} /\ unsaved = {}
  /\ goroutine = [r \in Streamed |-> "none"]
  /\ published = [r \in Streamed |-> <<>>]
  /\ subscribers = [r \in Streamed |-> {}] /\ closing = [r \in Streamed |-> {}]
  /\ watched = [c \in Request |-> NoChat]
  /\ channel = [c \in Request |-> <<>>] /\ seen = [c \in Request |-> <<>>]
  /\ first = [c \in Request |-> 0]
  /\ open = {} /\ missed = {} /\ panicked = FALSE

-----------------------------------------------------------------------------
(* The handler.                                                            *)
OpenRun(c) ==
  /\ at[c] = "prepared"
  /\ registry' = registry \cup {c}
  /\ watched' = [watched EXCEPT ![c] = c]
  /\ Goto(c, "subscribe")
  /\ UNCHANGED <<storeVars, gone, closed, cancelled, goroutine, published, unsaved, subscribers, closing,
                 channel, open, first, seen, missed, panicked>>

FindRun(c) ==
  /\ at[c] = "idle"
  /\ \/ \E r \in registry : watched' = [watched EXCEPT ![c] = r] /\ Goto(c, "subscribe")
     \/ Goto(c, "done") /\ UNCHANGED watched
  /\ UNCHANGED <<storeVars, gone, runVars, subscribers, closing, channel, open, first, seen, missed, panicked>>

Subscribe(c) ==
  LET r == watched[c] IN
  /\ at[c] = "subscribe"
  /\ IF r \in closed
     THEN Goto(c, "done") /\ UNCHANGED <<subscribers, open, first>>
     ELSE /\ Goto(c, IF c = r THEN "start" ELSE "stream")
          /\ subscribers' = [subscribers EXCEPT ![r] = @ \cup {c}]
          /\ open' = open \cup {c}
          /\ first' = [first EXCEPT ![c] = Len(published[r])]
  /\ UNCHANGED <<storeVars, gone, runVars, closing, watched, channel, seen, missed, panicked>>

StartChatRun(c) ==
  /\ at[c] = "start"
  /\ goroutine' = [goroutine EXCEPT ![c] = "invoke"]
  /\ Goto(c, "stream")
  /\ UNCHANGED <<storeVars, gone, registry, closed, cancelled, published, unsaved, channelVars>>

Receive(c) ==
  /\ at[c] = "stream" /\ channel[c] # <<>>
  /\ seen' = [seen EXCEPT ![c] = Append(@, Head(channel[c]))]
  /\ channel' = [channel EXCEPT ![c] = Tail(@)]
  /\ IF Head(channel[c]) = "fatal" THEN Goto(c, "leave") ELSE UNCHANGED at
  /\ UNCHANGED <<storeVars, gone, runVars, subscribers, closing, watched, open, first, missed, panicked>>

(* A fault: what still waits in a closed channel is left there.            *)
FaultEndStream(c) ==
  /\ at[c] = "stream"
  /\ c \in gone \/ c \notin open
  /\ Goto(c, "leave")
  /\ UNCHANGED <<storeVars, streamVars>>

EndStream(c) ==
  /\ at[c] = "stream"
  /\ c \in gone \/ (channel[c] = <<>> /\ c \notin open)
  /\ Goto(c, "leave")
  /\ UNCHANGED <<storeVars, streamVars>>

(* The deferred unsubscribe: the handler that finds itself on the list     *)
(* closes its channel, once it has let go of the lock.                     *)
FaultUnsubscribe(c) ==  \* a fault: it does not look whether it was on the list
  LET r == watched[c] IN
  /\ at[c] = "leave"
  /\ subscribers' = [subscribers EXCEPT ![r] = @ \ {c}]
  /\ Goto(c, "close")
  /\ UNCHANGED <<storeVars, gone, runVars, closing, watched, channel, open, first, seen, missed, panicked>>
Unsubscribe(c) ==
  LET r == watched[c] IN
  /\ at[c] = "leave"
  /\ subscribers' = [subscribers EXCEPT ![r] = @ \ {c}]
  /\ Goto(c, IF c \in subscribers[r] THEN "close" ELSE "done")
  /\ UNCHANGED <<storeVars, gone, runVars, closing, watched, channel, open, first, seen, missed, panicked>>

CloseChannel(c) ==
  /\ panicked' = (panicked \/ c \notin open)
  /\ open' = open \ {c}

CloseOwnChannel(c) ==
  /\ at[c] = "close"
  /\ CloseChannel(c)
  /\ Goto(c, "done")
  /\ UNCHANGED <<storeVars, gone, runVars, subscribers, closing, watched, channel, first, seen, missed>>

Disconnect(c) ==
  /\ at[c] # "done" /\ c \notin gone
  /\ gone' = gone \cup {c}
  /\ UNCHANGED <<storeVars, at, runVars, channelVars>>

CancelRun(r) ==
  /\ r \in registry /\ r \notin cancelled
  /\ cancelled' = cancelled \cup {r}
  /\ UNCHANGED <<storeVars, requestVars, registry, closed, goroutine, published, unsaved, channelVars>>

-----------------------------------------------------------------------------
(* The goroutine of a run.                                                 *)
Publish(r, event) ==
  IF r \in closed
  THEN UNCHANGED <<published, channel, missed, panicked>>
  ELSE LET full == {c \in subscribers[r] : Len(channel[c]) = Capacity} IN
       /\ published' = [published EXCEPT ![r] = Append(@, event)]
       /\ channel' = [c \in Request |-> IF c \in subscribers[r] \ full THEN Append(channel[c], event)
                                        ELSE channel[c]]
       /\ missed' = missed \cup full
       /\ panicked' = (panicked \/ ~ subscribers[r] \subseteq open)

Advance(r, from, to) ==
  /\ goroutine[r] = from
  /\ goroutine' = [goroutine EXCEPT ![r] = to]
  /\ UNCHANGED <<requestVars, registry, cancelled, closing, watched, first, seen>>

StreamSink(r) ==
  /\ Len(published[r]) < MaxEvents
  /\ Advance(r, "invoke", "invoke")
  /\ Publish(r, "delta")
  /\ UNCHANGED <<storeVars, closed, unsaved, subscribers, open>>

InvokeReturns(r, to) ==
  /\ Advance(r, "invoke", to)
  /\ UNCHANGED <<storeVars, closed, unsaved, published, subscribers, channel, open, missed, panicked>>

InvokeSucceeds(r) == InvokeReturns(r, "answered")
InvokeFails(r) == InvokeReturns(r, "failed")

(* An empty reply is not announced.                                        *)
PublishDone(r) ==
  /\ Advance(r, "answered", "append_reply")
  /\ Publish(r, "assistant_done") \/ UNCHANGED <<published, channel, missed, panicked>>
  /\ UNCHANGED <<storeVars, closed, unsaved, subscribers, open>>

(* What became of the append is not looked at.                             *)
FaultRecord(r, event, next) ==  \* a fault: the arguments of the append are exchanged
  /\ \/ AppendEvent(r, next, event) /\ UNCHANGED unsaved
     \/ unsaved' = unsaved \cup {r} /\ UNCHANGED storeVars
  /\ UNCHANGED <<closed, published, subscribers, channel, open, missed, panicked>>
Record(r, event, next) ==
  /\ \/ AppendEvent(r, event, next) /\ UNCHANGED unsaved
     \/ unsaved' = unsaved \cup {r} /\ UNCHANGED storeVars
  /\ UNCHANGED <<closed, published, subscribers, channel, open, missed, panicked>>

(* A fault: the reply leaves the session active.                           *)
FaultAppendReply(r) == Advance(r, "append_reply", "summary") /\ Record(r, "final", "active")
AppendReply(r) == Advance(r, "append_reply", "summary") /\ Record(r, "final", "completed")

AppendError(r) == Advance(r, "failed", "fatal") /\ Record(r, "error", "failed")

PublishSummary(r) ==
  /\ Advance(r, "summary", "close")
  /\ Publish(r, "summary")
  /\ UNCHANGED <<storeVars, closed, unsaved, subscribers, open>>

PublishFatal(r) ==
  /\ Advance(r, "fatal", "close")
  /\ Publish(r, "fatal")
  /\ UNCHANGED <<storeVars, closed, unsaved, subscribers, open>>

(* A fault: the list is emptied before the channels to close are taken.    *)
FaultCloseRun(r) ==
  /\ goroutine[r] = "close"
  /\ goroutine' = [goroutine EXCEPT ![r] = "closing"]
  /\ closed' = closed \cup {r}
  /\ cancelled' = cancelled \cup {r}
  /\ closing' = [closing EXCEPT ![r] = {}]
  /\ subscribers' = [subscribers EXCEPT ![r] = {}]
  /\ UNCHANGED <<storeVars, requestVars, registry, published, unsaved, watched, channel, open, first, seen,
                 missed, panicked>>

CloseRun(r) ==
  /\ goroutine[r] = "close"
  /\ goroutine' = [goroutine EXCEPT ![r] = "closing"]
  /\ closed' = closed \cup {r}
  /\ cancelled' = cancelled \cup {r}
  /\ closing' = [closing EXCEPT ![r] = subscribers[r]]
  /\ subscribers' = [subscribers EXCEPT ![r] = {}]
  /\ UNCHANGED <<storeVars, requestVars, registry, published, unsaved, watched, channel, open, first, seen,
                 missed, panicked>>

CloseNextChannel(r) ==
  /\ goroutine[r] = "closing"
  /\ \E c \in closing[r] : CloseChannel(c) /\ closing' = [closing EXCEPT ![r] = @ \ {c}]
  /\ UNCHANGED <<storeVars, requestVars, runVars, subscribers, watched, channel, first, seen, missed>>

RemoveRun(r) ==
  /\ closing[r] = {}
  /\ goroutine[r] = "closing"
  /\ goroutine' = [goroutine EXCEPT ![r] = "ended"]
  /\ registry' = registry \ {r}
  /\ UNCHANGED <<storeVars, requestVars, closed, cancelled, published, unsaved, channelVars>>

-----------------------------------------------------------------------------
HandlerStep(c) ==
  \/ Subscribe(c) \/ Receive(c) \/ EndStream(c) \/ Unsubscribe(c) \/ CloseOwnChannel(c)

StarterStep(c) == OpenRun(c) \/ StartChatRun(c) \/ HandlerStep(c)

(* What the goroutine does by itself, the provider's part aside.           *)
RunStep(r) ==
  \/ PublishDone(r) \/ AppendReply(r) \/ PublishSummary(r) \/ AppendError(r) \/ PublishFatal(r)
  \/ CloseRun(r) \/ CloseNextChannel(r) \/ RemoveRun(r)

ProviderStep(r) == StreamSink(r) \/ InvokeSucceeds(r) \/ InvokeFails(r)

=============================================================================
