------------------------------ MODULE SlotPool ------------------------------
(***************************************************************************)
(* What the LLM gateway promises its callers, with no counters, tables or  *)
(* configuration files: calls hold slots of APIs.  A slot is granted only  *)
(* below the capacity the API has at that moment, a call holds at most one *)
(* slot, a success is recorded by the holder of a slot in the step that    *)
(* gives the slot back, and a recorded outcome is final.                   *)
(*                                                                         *)
(* The capacity of an API may change in any step: the operator edits the   *)
(* configuration, a failing API is taken out, a success brings it back.    *)
(* It may fall below the number of slots in use; the promise is about the  *)
(* moment of the grant.                                                    *)
(***************************************************************************)
EXTENDS Integers, FiniteSets

CONSTANTS Api, Call, NoApi

VARIABLES
  holds,     \* the API whose slot a call holds, or NoApi
  outcome,   \* what is recorded of a call
  capacity   \* how many slots of an API may be granted

vars == <<holds, outcome, capacity>>

Outcome == {"none", "running", "success", "failure"}

SlotTypeOK ==
  /\ holds \in [Call -> Api \cup {NoApi}]
  /\ outcome \in [Call -> Outcome]
  /\ capacity \in [Api -> Nat]

Holders(a) == {i \in Call : holds[i] = a}

Init ==
  /\ holds = [i \in Call |-> NoApi]
  /\ outcome = [i \in Call |-> "none"]
  /\ capacity \in [Api -> Nat]

Resize == capacity' \in [Api -> Nat]

(* A call takes a slot, for its first attempt or for a retry.               *)
Acquire(i, a) ==
  /\ holds[i] = NoApi
  /\ outcome[i] \in {"none", "running"}
  /\ Cardinality(Holders(a)) < capacity'[a]
  /\ holds' = [holds EXCEPT ![i] = a]
  /\ outcome' = [outcome EXCEPT ![i] = "running"]
  /\ Resize

(* An attempt failed: the slot is free, the outcome still open.             *)
Release(i) ==
  /\ holds[i] # NoApi
  /\ holds' = [holds EXCEPT ![i] = NoApi]
  /\ UNCHANGED outcome
  /\ Resize

Succeed(i) ==
  /\ holds[i] # NoApi
  /\ holds' = [holds EXCEPT ![i] = NoApi]
  /\ outcome' = [outcome EXCEPT ![i] = "success"]
  /\ Resize

Fail(i) ==
  /\ holds[i] = NoApi
  /\ outcome[i] = "running"
  /\ outcome' = [outcome EXCEPT ![i] = "failure"]
  /\ UNCHANGED <<holds, capacity>>

Next ==
  \/ Resize /\ UNCHANGED <<holds, outcome>>
  \/ \E i \in Call : \/ \E a \in Api : Acquire(i, a)
                     \/ Release(i) \/ Succeed(i) \/ Fail(i)

Spec == Init /\ [][Next]_vars
=============================================================================
