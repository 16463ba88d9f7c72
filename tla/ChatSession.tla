---------------------------- MODULE ChatSession ----------------------------
(***************************************************************************)
(* The chat requests of internal/vos/httpapi/chat.go and the sessions they *)
(* make, as the SQLite session store keeps them (store/session_store.go):  *)
(* a status and a log of numbered events.  A chat that carries a message   *)
(* makes one session, and goes by its name; a watcher is a request for the *)
(* stream of an invocation under way.                                      *)
(*                                                                         *)
(* Every operation of the store is one transaction.  Events are told apart *)
(* by what the chat does with them: the user's message, a part of the      *)
(* answer, the message that ends it, an error, a note of the scheduler.    *)
(***************************************************************************)
EXTENDS Naturals, Sequences

CONSTANTS Streamed,  \* the chats that ask for a stream
          Direct,    \* the chats that wait for their answer
          Watcher,
          Waves,     \* the sets of requests that may meet
          NoChat

Chat == Streamed \cup Direct
Request == Chat \cup Watcher

ASSUME RequestAssumption ==
  /\ Streamed \cap Direct = {} /\ Chat \cap Watcher = {}
  /\ NoChat \notin Request
  /\ Waves \subseteq SUBSET Request

VARIABLES status, log,  \* the rows of sessions and session_events
          at            \* where the handler of a request stands

storeVars == <<status, log>>

SessionStatus == {"none", "active", "completed", "failed"}
Settled == {"completed", "failed"}
Event == {"user", "delta", "final", "error", "dispatch"}

SessionInit ==
  /\ status = [s \in Chat |-> "none"]
  /\ log = [s \in Chat |-> <<>>]
  /\ \E wave \in Waves : at = [c \in Request |-> IF c \in wave THEN "idle" ELSE "done"]

Goto(c, step) == at' = [at EXCEPT ![c] = step]

-----------------------------------------------------------------------------
(* The store.  The number of an event is its place in the log.             *)
InsertSession(s) ==
  /\ status[s] = "none"
  /\ status' = [status EXCEPT ![s] = "active"]
  /\ UNCHANGED log

AppendEvent(s, event, next) ==
  /\ log' = [log EXCEPT ![s] = Append(@, event)]
  /\ status' = [status EXCEPT ![s] = next]

(* A fault: the newest events instead of the next.                         *)
FaultEventsAfter(s, seq, limit) ==
  SubSeq(log[s], IF Len(log[s]) - seq > limit THEN Len(log[s]) - limit + 1 ELSE seq + 1, Len(log[s]))

EventsAfter(s, seq, limit) ==
  SubSeq(log[s], seq + 1, IF Len(log[s]) < seq + limit THEN Len(log[s]) ELSE seq + limit)

-----------------------------------------------------------------------------
(* prepareChatSession: the node is found or made, then the session, then   *)
(* the message becomes its first event.  A step that fails ends the chat   *)
(* and undoes nothing.                                                     *)
CreateChatSession(c) ==
  /\ at[c] = "idle"
  /\ \/ InsertSession(c) /\ Goto(c, "message")
     \/ Goto(c, "done") /\ UNCHANGED storeVars

AppendUserMessage(c) ==
  /\ at[c] = "message"
  /\ \/ AppendEvent(c, "user", "active") /\ Goto(c, "prepared")
     \/ Goto(c, "done") /\ UNCHANGED storeVars

=============================================================================
