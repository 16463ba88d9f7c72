------------------------------ MODULE ChatTurn ------------------------------
(***************************************************************************)
(* POST /api/v1/chat with the scheduler in the server's process: the chat  *)
(* enqueues its node, then polls: it ticks the scheduler itself, reads the *)
(* events that are new in its session and the status of the session, and   *)
(* sleeps.  A tick works on whatever node the scheduler picks (module      *)
(* ScheduleEngine; any runnable one here), for as long as the worker       *)
(* takes, under the context of the request that ticked.                    *)
(***************************************************************************)
EXTENDS ChatSession

CONSTANTS ChatNode,     \* the nodes the chats are about
          NodeOf,       \* the node of a chat
          PollLimit,    \* chatPollLimit, 200 in the code
          MaxDeltas,    \* bound on the parts an agent cuts its answer into
          MaxDispatches \* bound on how often a session is worked on

ASSUME TurnAssumption ==
  NodeOf \in [Direct -> ChatNode] /\ PollLimit \in Nat \ {0} /\ MaxDeltas \in Nat /\ MaxDispatches \in Nat

VARIABLES sessionID,  \* the session the row of a node names (NoChat: no row yet)
          runnable,   \* the nodes whose row is ready
          dispatches, \* how often a session was dispatched
          ticker,     \* the request that holds scheduleMu
          job, work,  \* the session its tick works on, and how far the work is
          lastSeq,    \* state.LastSeq of a chat
          read,       \* the events a chat consumed
          answer      \* what the client got

turnVars == <<sessionID, runnable, dispatches, ticker, job, work, lastSeq, read, answer>>
scheduleVars == <<sessionID, runnable, dispatches, ticker, job, work>>
pollVars == <<lastSeq, read, answer>>

TurnInit ==
  /\ sessionID = [n \in ChatNode |-> NoChat] /\ runnable = {} /\ ticker = NoChat /\ job = NoChat /\ work = "none"
  /\ dispatches = [c \in Direct |-> 0]
  /\ lastSeq = [c \in Direct |-> 0]
  /\ read = [c \in Direct |-> <<>>]
  /\ answer = [c \in Direct |-> "none"]

Reply(c, with) == Goto(c, "done") /\ answer' = [answer EXCEPT ![c] = with]

-----------------------------------------------------------------------------
(* The row of the node is made or overwritten, whatever it was about.      *)
EnqueueChatNode(c) ==
  /\ at[c] = "prepared"
  /\ sessionID' = [sessionID EXCEPT ![NodeOf[c]] = c]
  /\ runnable' = runnable \cup {NodeOf[c]}
  /\ Goto(c, "tick")
  /\ UNCHANGED <<storeVars, dispatches, ticker, job, work, pollVars>>

(* The node is gone when it is read again, or the enqueue fails: then an   *)
(* event says so, if it can be written.                                    *)
EnqueueFails(c) ==
  /\ at[c] = "prepared"
  /\ AppendEvent(c, "error", "failed") \/ UNCHANGED storeVars
  /\ Reply(c, "error")
  /\ UNCHANGED <<scheduleVars, lastSeq, read>>

-----------------------------------------------------------------------------
(* tickSchedule.  A node that succeeded is ready again and may be          *)
(* dispatched once more, with the session its row names by then.           *)
StartTick(c) ==
  /\ at[c] = "tick" /\ ticker = NoChat
  /\ \E n \in runnable :
        LET s == sessionID[n] IN
        /\ dispatches[s] < MaxDispatches
        /\ dispatches' = [dispatches EXCEPT ![s] = @ + 1]
        /\ ticker' = c /\ job' = s /\ work' = "authorize"
        /\ runnable' = runnable \ {n}
        /\ Goto(c, "ticking")
  /\ UNCHANGED <<storeVars, sessionID, pollVars>>

(* Nothing is runnable, or the tick serves a node no chat waits for.       *)
EmptyTick(c) ==
  /\ at[c] = "tick" /\ ticker = NoChat
  /\ Goto(c, "list")
  /\ UNCHANGED <<storeVars, turnVars>>

Authorize ==
  /\ work = "authorize"
  /\ AppendEvent(job, "dispatch", "active")
  /\ work' = "work"
  /\ UNCHANGED <<at, sessionID, runnable, dispatches, ticker, job, pollVars>>

PartsWritten(s) == Len(SelectSeq(log[s], LAMBDA e : e = "delta"))

WorkerDelta ==
  /\ work = "work"
  /\ PartsWritten(job) < dispatches[job] * MaxDeltas
  /\ AppendEvent(job, "delta", "active")
  /\ UNCHANGED <<at, turnVars>>

WorkerFinal ==
  /\ work = "work"
  /\ AppendEvent(job, "final", "completed")
  /\ work' = "succeeded"
  /\ UNCHANGED <<at, sessionID, runnable, dispatches, ticker, job, pollVars>>

(* An error the agent reports, if it can write it.                         *)
WorkerError ==
  /\ work = "work"
  /\ AppendEvent(job, "error", "failed") \/ UNCHANGED storeVars
  /\ work' = "failed"
  /\ UNCHANGED <<at, sessionID, runnable, dispatches, ticker, job, pollVars>>

(* The status of the node becomes what the worker made of it, also when an *)
(* enqueue has made it ready meanwhile; the result is noted in the         *)
(* session, unless that append fails.                                      *)
FinishTick ==
  /\ work \in {"succeeded", "failed"}
  /\ \/ AppendEvent(job, "dispatch", IF work = "succeeded" THEN "completed" ELSE "failed")
     \/ UNCHANGED storeVars
  /\ runnable' = IF work = "failed" THEN runnable \ {NodeOf[job]} ELSE runnable \cup {NodeOf[job]}
  /\ Goto(ticker, "list")
  /\ ticker' = NoChat /\ job' = NoChat /\ work' = "none"
  /\ UNCHANGED <<sessionID, dispatches, pollVars>>

(* The tick returns an error, because a store does or because the context  *)
(* of the request that ticked ends and the worker with it: that request    *)
(* fails, and the node it worked on, which may be another's, is failed or  *)
(* left as it is, which is running unless it was enqueued again.           *)
TickFails ==
  /\ ticker # NoChat
  /\ runnable' \in {runnable, runnable \ {NodeOf[job]}}
  /\ Reply(ticker, "error")
  /\ ticker' = NoChat /\ job' = NoChat /\ work' = "none"
  /\ UNCHANGED <<storeVars, sessionID, dispatches, lastSeq, read>>

-----------------------------------------------------------------------------
(* waitChatTurn.                                                           *)
ListSessionEvents(c) ==
  LET events == EventsAfter(c, lastSeq[c], PollLimit) IN
  /\ at[c] = "list"
  /\ read' = [read EXCEPT ![c] = @ \o events]
  /\ lastSeq' = [lastSeq EXCEPT ![c] = @ + Len(events)]
  /\ Goto(c, "get")
  /\ UNCHANGED <<storeVars, scheduleVars, answer>>

(* A fault: only a completed session ends the wait.                        *)
FaultGetSession(c) ==
  /\ at[c] = "get"
  /\ IF status[c] = "completed" THEN Reply(c, "completed") ELSE Goto(c, "sleep") /\ UNCHANGED answer
  /\ UNCHANGED <<storeVars, scheduleVars, lastSeq, read>>

GetSession(c) ==
  /\ at[c] = "get"
  /\ CASE status[c] = "completed" -> Reply(c, "completed")
       [] status[c] = "failed" -> Reply(c, "failed")
       [] OTHER -> Goto(c, "sleep") /\ UNCHANGED answer
  /\ UNCHANGED <<storeVars, scheduleVars, lastSeq, read>>

Sleep(c) ==
  /\ at[c] = "sleep"
  /\ Goto(c, "tick")
  /\ UNCHANGED <<storeVars, turnVars>>

(* A store returns an error, or the client has left.                       *)
WaitFails(c) ==
  /\ at[c] \in {"tick", "list", "get", "sleep"}
  /\ at[c] = "tick" => ticker = NoChat
  /\ Reply(c, "error")
  /\ UNCHANGED <<storeVars, scheduleVars, lastSeq, read>>

-----------------------------------------------------------------------------
PollStep(c) == StartTick(c) \/ EmptyTick(c) \/ ListSessionEvents(c) \/ GetSession(c) \/ Sleep(c)
TurnStep(c) == EnqueueChatNode(c) \/ EnqueueFails(c) \/ PollStep(c) \/ WaitFails(c)
TickStep == Authorize \/ WorkerDelta \/ WorkerFinal \/ WorkerError \/ FinishTick

=============================================================================
