---------------------------- MODULE MCPoolGateway ----------------------------
(* Instances of PoolGateway for TLC.                                         *)
EXTENDS PoolGateway, TLC

CONSTANTS c1, c2

MCApi == {1, 2}
TwoCalls == {c1, c2}
Symmetry == Permutations(Call)

Mode1 == [a \in MCApi |-> "responses"]
Mode2 == [a \in MCApi |-> IF a = 1 THEN "responses" ELSE "chat_completions"]

(* One slot on API 1, two on API 2, but one invocation at a time; one        *)
(* counted failure is below the threshold, two reach it.                     *)
Wide == [ listed |-> {1, 2}, enabled |-> {1, 2}, max |-> (1 :> 1 @@ 2 :> 2),
          mode |-> Mode1, limit |-> 1, threshold |-> 2, maxAttempts |-> 2 ]
(* API 1 is taken off the list, API 2 shrinks to one slot, for which two     *)
(* invocations may compete, and goes offline at the first counted failure.   *)
Narrow == [ listed |-> {2}, enabled |-> {2}, max |-> (1 :> 1 @@ 2 :> 1),
            mode |-> Mode1, limit |-> 2, threshold |-> 1, maxAttempts |-> 2 ]
(* API 1 stays listed but disabled, no quota.                               *)
Disabled == [ listed |-> {1, 2}, enabled |-> {2}, max |-> (1 :> 1 @@ 2 :> 2),
              mode |-> Mode1, limit |-> NoLimit, threshold |-> 2, maxAttempts |-> 2 ]
(* The second API speaks Chat Completions.                                  *)
Mixed == [Wide EXCEPT !.mode = Mode2]

EditedConfigs == {Wide, Narrow}
DisablingConfigs == {Wide, Disabled}
MixedConfigs == {Mixed, Narrow}
SingleConfig == {Wide}

Anything == [route |-> AnyApi, stream |-> FALSE, form |-> "responses"]
Streaming == [Anything EXCEPT !.stream = TRUE]
Pinned == [Anything EXCEPT !.route = 1]

PlainRequests == {Anything}
AllRequests == {Anything, Streaming, Pinned}

(* One error of each way a call can go on: retried and counted, retried and *)
(* not counted, final, internal.                                            *)
EachFailure == {"unreachable", "rate_limited", "server_error", "internal"}
AllFailures == Error
=============================================================================
