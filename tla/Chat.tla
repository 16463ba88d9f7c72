-------------------------------- MODULE Chat --------------------------------
(***************************************************************************)
(* The chat API: the requests of both endpoints over one session store.    *)
(***************************************************************************)
EXTENDS ChatStream, ChatTurn

vars == <<storeVars, requestVars, streamVars, turnVars>>

Init == SessionInit /\ StreamInit /\ TurnInit

Next ==
  \/ \E c \in Chat : (CreateChatSession(c) \/ AppendUserMessage(c)) /\ UNCHANGED <<streamVars, turnVars>>
  \/ \E c \in Streamed : (Disconnect(c) \/ StarterStep(c)) /\ UNCHANGED turnVars
  \/ \E c \in Watcher : (Disconnect(c) \/ FindRun(c) \/ HandlerStep(c)) /\ UNCHANGED turnVars
  \/ \E r \in Streamed : (CancelRun(r) \/ ProviderStep(r) \/ RunStep(r)) /\ UNCHANGED turnVars
  \/ \E c \in Direct : TurnStep(c) /\ UNCHANGED streamVars
  \/ (TickStep \/ TickFails) /\ UNCHANGED streamVars

(* Handlers and goroutines that can go on do; a client that stays reads    *)
(* its stream; a provider's call returns once its context is cancelled;    *)
(* workers end.  Nobody has to leave or to cancel.                         *)
Fairness ==
  /\ \A c \in Streamed : WF_vars(StarterStep(c) /\ UNCHANGED turnVars)
  /\ \A c \in Watcher : WF_vars(HandlerStep(c) /\ UNCHANGED turnVars)
  /\ \A r \in Streamed : /\ WF_vars(RunStep(r) /\ UNCHANGED turnVars)
                         /\ WF_vars(r \in cancelled /\ InvokeFails(r) /\ UNCHANGED turnVars)
  /\ \A c \in Direct : WF_vars(PollStep(c) /\ UNCHANGED streamVars)
  /\ WF_vars(TickStep /\ UNCHANGED streamVars)

Spec == Init /\ [][Next]_vars /\ Fairness

-----------------------------------------------------------------------------
Steps == {"idle", "message", "prepared", "done", "subscribe", "start", "stream", "leave", "close",
          "tick", "ticking", "list", "get", "sleep"}
RunSteps == {"none", "invoke", "answered", "append_reply", "summary", "failed", "fatal", "close",
             "closing", "ended"}

TypeOK ==
  /\ status \in [Chat -> SessionStatus] /\ log \in [Chat -> Seq(Event)]
  /\ at \in [Request -> Steps] /\ gone \subseteq Request
  /\ registry \subseteq Streamed /\ closed \subseteq Streamed /\ cancelled \subseteq Streamed
  /\ goroutine \in [Streamed -> RunSteps]
  /\ subscribers \in [Streamed -> SUBSET Request] /\ closing \in [Streamed -> SUBSET Request]
  /\ watched \in [Request -> Streamed \cup {NoChat}]
  /\ channel \in [Request -> Seq(StreamEvent)] /\ open \subseteq Request
  /\ published \in [Streamed -> Seq(StreamEvent)] /\ first \in [Request -> Nat]
  /\ seen \in [Request -> Seq(StreamEvent)] /\ missed \subseteq Request /\ unsaved \subseteq Streamed
  /\ panicked \in BOOLEAN
  /\ sessionID \in [ChatNode -> Direct \cup {NoChat}] /\ runnable \subseteq ChatNode
  /\ dispatches \in [Direct -> Nat]
  /\ ticker \in Direct \cup {NoChat} /\ job \in Direct \cup {NoChat}
  /\ work \in {"none", "authorize", "work", "succeeded", "failed"}
  /\ lastSeq \in [Direct -> Nat] /\ read \in [Direct -> Seq(Event)]
  /\ answer \in [Direct -> {"none", "completed", "failed", "error"}]

(* Channels are closed by the run and by the handlers, both after letting  *)
(* go of the lock: none is closed twice and none is sent to once closed,   *)
(* either of which would stop the server.                                  *)
NoPanic == ~ panicked

(* A client whose channel never was full gets what the run published since *)
(* it subscribed, in order, and the whole of it unless it leaves: a stream *)
(* that ends by itself ends with the summary or the fatal event.           *)
StreamsComplete ==
  \A c \in Request :
     LET r == watched[c]  got == seen[c] \o channel[c]
     IN /\ c \notin missed /\ (c \in open \/ got # <<>>)
           => got = SubSeq(published[r], first[c] + 1, first[c] + Len(got))
        /\ c \notin missed /\ r # NoChat /\ c \in subscribers[r] => first[c] + Len(got) = Len(published[r])
        /\ at[c] = "done" /\ c \notin missed \cup gone /\ seen[c] # <<>>
           => seen[c][Len(seen[c])] \in {"summary", "fatal"}

(* A client that was told how the run ended finds the session settled the  *)
(* same way, unless the event could not be written.                        *)
EndsAreRecorded ==
  \A c \in Request : \A i \in 1..Len(seen[c]) :
     /\ seen[c][i] = "summary" /\ watched[c] \notin unsaved => status[watched[c]] = "completed"
     /\ seen[c][i] = "fatal" /\ watched[c] \notin unsaved => status[watched[c]] = "failed"

(* Polling a log that others append to, a few events at a time, a chat     *)
(* consumes each event once and none out of order.                         *)
EventsReadOnce == \A c \in Direct : lastSeq[c] <= Len(log[c]) /\ read[c] = SubSeq(log[c], 1, lastSeq[c])

(* Cancelling a run ends it, and with it the request of everyone who       *)
(* streams it, whatever the provider was doing.                            *)
CancelledRunsEnd ==
  \A r \in Streamed :
     r \in cancelled ~> /\ goroutine[r] = "ended" /\ r \notin registry
                        /\ \A c \in Request : watched[c] = r => at[c] = "done"

(* A chat whose session stays completed or failed gets its answer, whoever *)
(* held the scheduler's lock in the meantime.                              *)
TurnsAnswered ==
  \A c \in Direct : <>[](status[c] \in Settled) => <>(at[c] = "done")

=============================================================================
