--------------------------- MODULE MCScheduleEngine ---------------------------
(* Instances of ScheduleEngine for TLC.                                      *)
EXTENDS ScheduleEngine, TLC

CONSTANTS k1, k2

OneTicker == {k1}
TwoTickers == {k1, k2}

(* One topic, two business nodes (three in Wide), its priority node last.    *)
OneTopic == {1}
FewNodes == {1, 2, 3}
FewTopicOf == [n \in FewNodes |-> 1]
FewPriority == (1 :> 3)
WideNodes == {1, 2, 3, 4}
WideTopicOf == [n \in WideNodes |-> 1]
WidePriority == (1 :> 4)

(* Two topics with a business node each; the priority nodes are 3 and 4.     *)
TwoTopics == {1, 2}
PairNodes == {1, 2, 3, 4}
PairTopicOf == (1 :> 1 @@ 2 :> 2 @@ 3 :> 1 @@ 4 :> 2)
PairPriority == (1 :> 3 @@ 2 :> 4)

Succeeded == [ok |-> TRUE, retryable |-> FALSE, next |-> NoStatus]
Failed == [Succeeded EXCEPT !.ok = FALSE]
RetryLater == [Failed EXCEPT !.retryable = TRUE]
Done == [Succeeded EXCEPT !.next = "succeeded"]

(* The worker of this repository succeeds or exits with an error; others     *)
(* may use more of the contract.  An exit leaves a node ended and the tick   *)
(* broken off, which Done and a crash do too.                                *)
ShippedAnswers == {Succeeded, ExecuteError}
MixedAnswers == {Succeeded, RetryLater, Done}
AllPriorityAnswers == {Succeeded, Failed, ExecuteError}
GoodPriorityAnswers == {Succeeded}
=============================================================================
