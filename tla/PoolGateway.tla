----------------------------- MODULE PoolGateway -----------------------------
(***************************************************************************)
(* The LLM gateway of internal/poolgateway: a SQLite store that leases     *)
(* execution slots of the configured provider APIs (store.go) and the loop *)
(* that drives one invocation through its attempts (gateway.go).           *)
(*                                                                         *)
(* Every store operation runs in one BEGIN IMMEDIATE transaction, so it is *)
(* one action; everything a caller does between two transactions (reading  *)
(* model.json, the provider's HTTP call, the backoff sleep) is a step of   *)
(* its own and interleaves with the other callers, which may live in other *)
(* processes.  A transaction that returns an error is rolled back whole,   *)
(* the configuration sync it began with included.                          *)
(***************************************************************************)
EXTENDS Integers, Sequences, FiniteSets

CONSTANTS
  Api,         \* api_id values, numbered in the order SQLite sorts them
  Call,        \* the calls of Gateway.Invoke; one makes at most one invocation
  Config,      \* the contents model.json may have
  Request,     \* the requests clients make
  NoConfig,    \* a store that has never synchronised a configuration
  AnyApi,      \* a request without route_policy.api_id
  NoLimit,     \* a configuration without global_max_concurrent
  Failures,    \* the errors a provider call may end with
  MayCancel,   \* whether the context of a call may be cancelled
  MayCrash     \* whether a process may die between two steps

Mode == {"responses", "chat_completions"}

(* max_concurrent is validated to be positive (config.go), the retry budget *)
(* too; the offline threshold is replaced by 3 unless it is positive.       *)
ConfigRecord ==
  [ listed : SUBSET Api, enabled : SUBSET Api, max : [Api -> Nat \ {0}],
    mode : [Api -> Mode], limit : Int \cup {NoLimit},
    threshold : Nat \ {0}, maxAttempts : Nat \ {0} ]

RequestRecord == [ route : Api \cup {AnyApi}, stream : BOOLEAN, form : Mode ]

ASSUME ApiAssumption == Api \subseteq Nat /\ AnyApi \notin Api
ASSUME CallAssumption == IsFiniteSet(Call)
ASSUME ConfigAssumption ==
  /\ Config \subseteq ConfigRecord
  /\ NoConfig \notin Config
  /\ NoLimit \notin Int
  /\ \A c \in Config : c.enabled \subseteq c.listed
ASSUME RequestAssumption == Request \subseteq RequestRecord
ASSUME FaultAssumption == MayCancel \in BOOLEAN /\ MayCrash \in BOOLEAN

VARIABLES
  file,        \* model.json, edited by the operator
  admin,       \* the configuration loaded by a running cap/records/usage/sync
  applied,     \* the configuration whose hash the meta table holds
  apis,        \* the apis table
  invocations, \* the invocations table: status and api_id
  attempts,    \* the invocation_attempts table, per invocation in id order
  request,     \* the request of each call
  pc,          \* where each call stands in Invoke / invokeReserved
  cfg,         \* the configuration the call loaded when it began
  attempt,     \* the loop counter of invokeReserved, the reserved attempt row
  reserved,    \* the api_id of the reservation the call holds in memory
  err,         \* the provider error the call is handling
  cancelled    \* whether the context of the call has been cancelled

tables == <<applied, apis, invocations, attempts>>
frames == <<pc, cfg, attempt, reserved, err>>
vars == <<file, admin, tables, request, frames, cancelled>>

-----------------------------------------------------------------------------
(* Errors of a provider call (providers.go).  "server_error" is any HTTP    *)
(* status that classifyHTTPError leaves as a non-retryable                  *)
(* provider_http_error, 5xx among them; "internal" is an error that is not  *)
(* a ProviderInvocationError.                                               *)

Error == {"unreachable", "timeout", "rate_limited", "server_error",
          "invalid_json", "internal"}

ASSUME FailureAssumption == Failures \subseteq Error

Retryable(e) == e \in {"unreachable", "timeout", "rate_limited"}

(* A fault: every error worth a retry counts against its API.              *)
FaultCountsRetryable(e) == Retryable(e)

(* provider_http_error counts only when it is retryable, which it never is. *)
CountsTowardOffline(e) ==
  e \in {"unreachable", "timeout"} \/ (e = "server_error" /\ Retryable(e))

(* A fault: one attempt too many.                                           *)
FaultOneMoreRetry(c, n, e) == n <= c.maxAttempts /\ Retryable(e)

ShouldRetry(c, n, e) == n < c.maxAttempts /\ Retryable(e)

-----------------------------------------------------------------------------
(* The apis table.                                                          *)

ApiStatus == {"available", "leased", "offline"}
ApiRow == [ enabled : BOOLEAN, max : Nat, status : ApiStatus,
            lease : Nat, failure : Nat ]

(* The table checks max_concurrent > 0, so max = 0 says there is no row.    *)
NoApiRow == [ enabled |-> FALSE, max |-> 0, status |-> "offline",
              lease |-> 0, failure |-> 0 ]

ResolveApiStatus(enabled, lease, max, failure, threshold) ==
  IF ~enabled \/ failure >= threshold THEN "offline"
  ELSE IF lease >= max THEN "leased" ELSE "available"

(* Faults: the upsert keeps the old status; it replaces the row.            *)
FaultStaleStatus(c) ==
  [ a \in Api |->
      [ apis[a] EXCEPT !.enabled = a \in c.enabled, !.max = c.max[a] ] ]
FaultReplacedRow(c) ==
  [ a \in Api |->
      [ enabled |-> a \in c.enabled, max |-> c.max[a], lease |-> 0, failure |-> 0,
        status |-> IF a \in c.enabled THEN "available" ELSE "offline" ] ]

(* The rows after the upserts and the final UPDATE of syncConfig.           *)
SyncedApis(c) ==
  [ a \in Api |->
      IF a \in c.listed
      THEN [ enabled |-> a \in c.enabled, max |-> c.max[a],
             status |-> ResolveApiStatus(a \in c.enabled, apis[a].lease,
                                         c.max[a], apis[a].failure, c.threshold),
             lease |-> apis[a].lease, failure |-> apis[a].failure ]
      ELSE [ apis[a] EXCEPT !.enabled = FALSE, !.status = "offline" ] ]

(* syncConfig does nothing when the stored hash is that of its argument.    *)
SyncConfig(c) == IF applied = c THEN apis ELSE SyncedApis(c)

OfflineThreshold == IF applied = NoConfig THEN 3 ELSE applied.threshold

InvocationStatus == {"none", "running", "success", "failure"}
Running == {i \in Call : invocations[i].status = "running"}

(* A fault: the limit itself is let through.                                *)
FaultQuotaOffByOne(c, i) ==
  c.limit # NoLimit /\ Cardinality(Running \ {i}) > c.limit

(* The quota check of reserveAttemptTx; a retry does not count itself.      *)
QuotaReached(c, i) ==
  c.limit # NoLimit /\ Cardinality(Running \ {i}) >= c.limit

(* A fault: a full API is still eligible.                                   *)
FaultFullEligible(rows, r) ==
  {a \in Api : /\ rows[a].enabled /\ rows[a].status # "offline"
               /\ rows[a].lease <= rows[a].max
               /\ r.route \in {AnyApi, a}}

Eligible(rows, r) ==
  {a \in Api : /\ rows[a].enabled /\ rows[a].status # "offline"
               /\ rows[a].lease < rows[a].max
               /\ r.route \in {AnyApi, a}}

(* ORDER BY lease_count ASC, api_id ASC LIMIT 1                             *)
FirstEligible(rows, r, a) ==
  /\ a \in Eligible(rows, r)
  /\ \A b \in Eligible(rows, r) :
       \/ rows[a].lease < rows[b].lease
       \/ rows[a].lease = rows[b].lease /\ a <= b

(* The reservation updates status from the new lease count alone.           *)
LeasedRow(row) ==
  [ row EXCEPT !.lease = @ + 1,
               !.status = IF row.lease + 1 >= row.max THEN "leased" ELSE "available" ]

(* The row when an attempt gives its slot back with the failure count n.    *)
ReleasedRow(row, n) ==
  [ row EXCEPT !.lease = @ - 1, !.failure = n,
               !.status = ResolveApiStatus(row.enabled, row.lease - 1, row.max,
                                           n, OfflineThreshold) ]

-----------------------------------------------------------------------------
Init ==
  /\ file \in Config
  /\ admin = NoConfig
  /\ applied = NoConfig
  /\ apis = [a \in Api |-> NoApiRow]
  /\ invocations = [i \in Call |-> [status |-> "none", route |-> AnyApi]]
  /\ attempts = [i \in Call |-> <<>>]
  /\ request \in [Call -> Request]
  /\ pc = [i \in Call |-> "idle"]
  /\ cfg = [i \in Call |-> NoConfig]
  /\ attempt = [i \in Call |-> 0]
  /\ reserved = [i \in Call |-> AnyApi]
  /\ err = [i \in Call |-> "none"]
  /\ cancelled = [i \in Call |-> FALSE]

Goto(i, label) == pc' = [pc EXCEPT ![i] = label]

(* The operator saves another model.json.                                   *)
EditConfig(c) ==
  /\ c # file
  /\ file' = c
  /\ UNCHANGED <<admin, tables, request, frames, cancelled>>

(* Capacity, Records, Usage and Sync load model.json, then run syncConfig   *)
(* in a transaction of their own.                                           *)
AdminLoad ==
  /\ admin = NoConfig
  /\ admin' = file
  /\ UNCHANGED <<file, tables, request, frames, cancelled>>

AdminSync ==
  /\ admin # NoConfig
  /\ apis' = SyncConfig(admin)
  /\ applied' = admin
  /\ admin' = NoConfig
  /\ UNCHANGED <<file, invocations, attempts, request, frames, cancelled>>

-----------------------------------------------------------------------------
(* Invoke loads the configuration the whole call will use, retries included.*)
Begin(i) ==
  /\ pc[i] = "idle"
  /\ cfg' = [cfg EXCEPT ![i] = file]
  /\ Goto(i, "reserve")
  /\ UNCHANGED <<file, admin, tables, request, attempt, reserved, err, cancelled>>

(* syncConfig and reserveAttemptTx in one transaction that commits: the     *)
(* slot, the invocation row and the attempt row appear together.            *)
ReserveSlot(i, a) ==
  LET c == cfg[i]
      rows == SyncConfig(c)
  IN /\ ~cancelled[i]
     /\ ~QuotaReached(c, i)
     /\ FirstEligible(rows, request[i], a)
     /\ apis' = [rows EXCEPT ![a] = LeasedRow(rows[a])]
     /\ applied' = c
     /\ invocations' = [invocations EXCEPT ![i] = [status |-> "running", route |-> a]]
     /\ attempts' = [attempts EXCEPT ![i] = Append(@, [api |-> a, status |-> "running"])]
     /\ reserved' = [reserved EXCEPT ![i] = a]
     /\ attempt' = [attempt EXCEPT ![i] = @ + 1]
     /\ UNCHANGED <<file, admin, request, cfg, cancelled>>

(* The transaction returns ErrGlobalQuota or ErrNoCapacity, or its context  *)
(* is done: everything it wrote is rolled back.                             *)
ReserveRefused(i) ==
  \/ cancelled[i]
  \/ QuotaReached(cfg[i], i)
  \/ Eligible(SyncConfig(cfg[i]), request[i]) = {}

(* ReserveInvocation, then validateInvokeRequestForMode against the mode of *)
(* the API it got; a mismatch goes to finishInternalFailure.                *)
ReserveInvocation(i) ==
  /\ pc[i] = "reserve"
  /\ \E a \in Api :
       /\ ReserveSlot(i, a)
       /\ IF request[i].form = cfg[i].mode[a]
          THEN Goto(i, "invoke") /\ UNCHANGED err
          ELSE Goto(i, "internal") /\ err' = [err EXCEPT ![i] = "internal"]

(* Invoke returns the error.  No row was written, so a client that tries    *)
(* again makes the same call afresh.                                        *)
RejectInvocation(i) ==
  /\ pc[i] = "reserve"
  /\ ReserveRefused(i)
  /\ Goto(i, IF cancelled[i] THEN "returned" ELSE "idle")
  /\ UNCHANGED <<file, admin, tables, request, cfg, attempt, reserved, err, cancelled>>

(* The provider's HTTP call ends; no transaction is open meanwhile.         *)
ProviderSucceeds(i) ==
  /\ pc[i] = "invoke"
  /\ Goto(i, "succeeded")
  /\ UNCHANGED <<file, admin, tables, request, cfg, attempt, reserved, err, cancelled>>

ProviderFails(i, e) ==
  /\ pc[i] = "invoke"
  /\ err' = [err EXCEPT ![i] = e]
  /\ Goto(i, IF e = "internal" THEN "internal" ELSE "failed")
  /\ UNCHANGED <<file, admin, tables, request, cfg, attempt, reserved, cancelled>>

-----------------------------------------------------------------------------
(* CompleteInvocationSuccess: the counters come from the row the invocation *)
(* points to (i.api_id), the write goes to the API of the reservation.      *)
CompleteInvocationSuccess(i) ==
  /\ pc[i] = "succeeded"
  /\ ~cancelled[i]
  /\ LET row == apis[invocations[i].route]
     IN /\ row.lease > 0
        /\ apis' = [apis EXCEPT ![reserved[i]] = ReleasedRow(row, 0)]
  /\ attempts' = [attempts EXCEPT ![i][attempt[i]].status = "success"]
  /\ invocations' = [invocations EXCEPT ![i].status = "success"]
  /\ Goto(i, "returned")
  /\ UNCHANGED <<file, admin, applied, request, cfg, attempt, reserved, err, cancelled>>

(* A fault: the slot is freed, the attempt's row left running.              *)
FaultAttemptLeftRunning(i) ==
  /\ LET row == apis[invocations[i].route]
     IN /\ row.lease > 0
        /\ apis' = [apis EXCEPT ![reserved[i]] = ReleasedRow(row, row.failure)]
  /\ err' = [err EXCEPT ![i] = "none"]
  /\ UNCHANGED <<file, admin, applied, invocations, attempts, request, cfg, attempt,
                 reserved, cancelled>>

(* The writes of CompleteAttemptFailure; the error itself goes into the     *)
(* attempt's row, which keeps no more than its status here.                 *)
FailAttempt(i) ==
  /\ LET row == apis[invocations[i].route]
         n == IF CountsTowardOffline(err[i]) THEN row.failure + 1 ELSE row.failure
     IN /\ row.lease > 0
        /\ apis' = [apis EXCEPT ![reserved[i]] = ReleasedRow(row, n)]
  /\ attempts' = [attempts EXCEPT ![i][attempt[i]].status = "failure"]
  /\ err' = [err EXCEPT ![i] = "none"]
  /\ UNCHANGED <<file, admin, applied, invocations, request, cfg, attempt,
                 reserved, cancelled>>

(* A provider error: free the slot, then retry unless the request streams,  *)
(* the error is final or the attempts are used up.                          *)
CompleteAttemptFailure(i) ==
  /\ pc[i] = "failed"
  /\ ~cancelled[i]
  /\ FailAttempt(i)
  /\ Goto(i, IF ~request[i].stream /\ ShouldRetry(cfg[i], attempt[i], err[i])
             THEN "backoff" ELSE "finalize")

(* finishInternalFailure works under context.WithoutCancel: a cancelled     *)
(* context does not stop it.                                                *)
FinishInternalFailure(i) ==
  /\ pc[i] = "internal"
  /\ FailAttempt(i)
  /\ Goto(i, "internal_finalize")

(* The backoff ends and ReserveRetryAttempt finds a slot.                   *)
ReserveRetryAttempt(i) ==
  /\ pc[i] = "backoff"
  /\ \E a \in Api : ReserveSlot(i, a)
  /\ Goto(i, "invoke")
  /\ UNCHANGED err

(* Faults: a refused retry returns at once; it waits for capacity.          *)
FaultReturnsUnfinished(i) ==
  /\ pc[i] = "backoff"
  /\ ~cancelled[i]
  /\ ReserveRefused(i)
  /\ Goto(i, "returned")
  /\ UNCHANGED <<file, admin, tables, request, cfg, attempt, reserved, err, cancelled>>
FaultWaitsForCapacity(i) ==
  pc[i] = "backoff" /\ ReserveRefused(i) /\ UNCHANGED vars

(* ErrNoCapacity or ErrGlobalQuota: the invocation ends with the provider's *)
(* error.                                                                   *)
GiveUpRetry(i) ==
  /\ pc[i] = "backoff"
  /\ ~cancelled[i]
  /\ ReserveRefused(i)
  /\ Goto(i, "finalize")
  /\ UNCHANGED <<file, admin, tables, request, cfg, attempt, reserved, err, cancelled>>

(* A fault: finalising the invocation frees the slot once more.             *)
FaultFreesTwice(i) ==
  /\ pc[i] \in {"finalize", "internal_finalize"}
  /\ apis' = [apis EXCEPT ![reserved[i]].lease = @ - 1]
  /\ invocations' = [invocations EXCEPT ![i].status = "failure"]
  /\ Goto(i, "returned")
  /\ UNCHANGED <<file, admin, applied, attempts, request, cfg, attempt,
                 reserved, err, cancelled>>

CompleteInvocationFailure(i) ==
  /\ \/ pc[i] = "finalize" /\ ~cancelled[i]
     \/ pc[i] = "internal_finalize"
  /\ invocations' = [invocations EXCEPT ![i].status = "failure"]
  /\ Goto(i, "returned")
  /\ UNCHANGED <<file, admin, applied, apis, attempts, request, cfg, attempt,
                 reserved, err, cancelled>>

(* The context is done: the next transaction, or the backoff sleep and then *)
(* the transaction that would finalise, returns its error and Invoke ends.  *)
ReturnContextError(i) ==
  /\ cancelled[i]
  /\ pc[i] \in {"succeeded", "failed", "backoff", "finalize"}
  /\ Goto(i, "returned")
  /\ UNCHANGED <<file, admin, tables, request, cfg, attempt, reserved, err, cancelled>>

-----------------------------------------------------------------------------
InFlight(i) == pc[i] \notin {"idle", "returned", "crashed"}

(* chatRun.cancel, or the client of a synchronous endpoint goes away.       *)
Cancel(i) ==
  /\ MayCancel
  /\ InFlight(i)
  /\ ~cancelled[i]
  /\ cancelled' = [cancelled EXCEPT ![i] = TRUE]
  /\ UNCHANGED <<file, admin, tables, request, frames>>

(* The process dies; the tables are all that is left of the call.           *)
Crash(i) ==
  /\ MayCrash
  /\ InFlight(i)
  /\ Goto(i, "crashed")
  /\ UNCHANGED <<file, admin, tables, request, cfg, attempt, reserved, err, cancelled>>

ProviderAnswers(i) == ProviderSucceeds(i) \/ \E e \in Failures : ProviderFails(i, e)

(* What the goroutine of the call does by itself.                           *)
CallStep(i) ==
  \/ ReserveInvocation(i) \/ RejectInvocation(i)
  \/ CompleteInvocationSuccess(i)
  \/ CompleteAttemptFailure(i) \/ FinishInternalFailure(i)
  \/ ReserveRetryAttempt(i) \/ GiveUpRetry(i)
  \/ CompleteInvocationFailure(i) \/ ReturnContextError(i)

Next ==
  \/ \E c \in Config : EditConfig(c)
  \/ AdminLoad \/ AdminSync
  \/ \E i \in Call : \/ Begin(i) \/ CallStep(i) \/ ProviderAnswers(i)
                     \/ Cancel(i) \/ Crash(i)

Spec == Init /\ [][Next]_vars

(* A goroutine keeps running, and a request without a stream has a client   *)
(* timeout (30s unless timeout_ms is given), so its provider call ends.  A  *)
(* streaming request has none: nothing is assumed of its provider.          *)
Fairness ==
  \A i \in Call : /\ WF_vars(CallStep(i))
                  /\ WF_vars(~request[i].stream /\ ProviderAnswers(i))

FairSpec == Spec /\ Fairness
-----------------------------------------------------------------------------
(* Correctness.                                                             *)

PcLabel == {"idle", "reserve", "invoke", "succeeded", "failed", "internal",
            "backoff", "finalize", "internal_finalize", "returned", "crashed"}

AttemptRow == [api : Api, status : {"running", "success", "failure"}]

(* Every table row and every local variable of a call has its type; the     *)
(* lease and failure counts never fall below zero, as the CHECK constraints *)
(* of the apis table demand.                                                *)
TypeOK ==
  /\ file \in Config
  /\ admin \in Config \cup {NoConfig}
  /\ applied \in Config \cup {NoConfig}
  /\ apis \in [Api -> ApiRow]
  /\ invocations \in [Call -> [status : InvocationStatus, route : Api \cup {AnyApi}]]
  /\ attempts \in [Call -> Seq(AttemptRow)]
  /\ request \in [Call -> Request]
  /\ pc \in [Call -> PcLabel]
  /\ cfg \in [Call -> Config \cup {NoConfig}]
  /\ attempt \in [Call -> Nat]
  /\ reserved \in [Call -> Api \cup {AnyApi}]
  /\ err \in [Call -> Error \cup {"none"}]
  /\ cancelled \in [Call -> BOOLEAN]

HasOpenAttempt(i) == \E k \in DOMAIN attempts[i] : attempts[i][k].status = "running"

Holders(a) ==
  {i \in Call : \E k \in DOMAIN attempts[i] :
                  attempts[i][k].status = "running" /\ attempts[i][k].api = a}

(* The status column, written by reservations from the lease count alone,   *)
(* by completions from one row and by configuration syncs for every row, is *)
(* at all times the one resolveAPIStatus gives for the row's own counters.  *)
StatusAgreesWithCounters ==
  \A a \in Api : apis[a].status =
    ResolveApiStatus(apis[a].enabled, apis[a].lease, apis[a].max,
                     apis[a].failure, OfflineThreshold)

(* lease_count, kept by +1 and -1 in transactions of different callers and  *)
(* carried over every configuration sync, is the number of invocations with *)
(* a running attempt on the API: no slot is counted twice, freed twice or   *)
(* freed on another API than the one it was taken from.                     *)
LeaseCountsRunningAttempts ==
  \A a \in Api : apis[a].lease = Cardinality(Holders(a))

(* Whatever retries, crashes and cancellations do, only the last attempt of *)
(* an invocation can be running, it runs on the API the invocation row      *)
(* points to (the join of getInvocationRuntimeRow), and the invocation is   *)
(* then still running itself.                                               *)
OneOpenAttempt ==
  \A i \in Call : \A k \in DOMAIN attempts[i] :
    attempts[i][k].status = "running" =>
      /\ k = Len(attempts[i])
      /\ invocations[i] = [status |-> "running", route |-> attempts[i][k].api]

(* retry.max_attempts bounds the attempts of one invocation, the first      *)
(* included (Agent pool design, section 3).                                 *)
RetryBudget ==
  \A i \in Call : attempts[i] # <<>> => Len(attempts[i]) <= cfg[i].maxAttempts

(* A reservation that opens an invocation leaves no more invocations        *)
(* running than the limit of the configuration synchronised with it, also   *)
(* when other callers reserve, retry and finish in between.                 *)
QuotaRespected ==
  [][\A i \in Call :
       invocations[i].status # "running" /\ invocations'[i].status = "running" =>
         \/ applied'.limit = NoLimit
         \/ Cardinality(Running') <= applied'.limit]_vars

(* While the configuration stays, an API goes offline only because one of   *)
(* its attempts ended with an error of the channel itself, and comes back   *)
(* only through an attempt that succeeded on it.                            *)
HealthChangesForCause ==
  [][applied' = applied =>
       \A a \in Api :
         /\ apis[a].status # "offline" /\ apis'[a].status = "offline" =>
              \E i \in Call : /\ pc[i] = "failed" /\ pc'[i] # "failed"
                              /\ reserved[i] = a
                              /\ err[i] \in {"unreachable", "timeout"}
         /\ apis[a].status = "offline" /\ apis'[a].status # "offline" =>
              \E i \in Call : /\ pc[i] = "succeeded" /\ pc'[i] = "returned"
                              /\ reserved[i] = a]_vars

(* When Invoke has returned, the invocation it made holds no slot and its   *)
(* outcome is recorded: reserve, attempt finalize and invocation finalize   *)
(* form a closed loop (Agent pool design, section 5).                       *)
ReturnedCallIsSettled ==
  \A i \in Call : pc[i] = "returned" =>
    ~HasOpenAttempt(i) /\ invocations[i].status # "running"

(* Where contexts are cancelled, only a cancelled call may return with its  *)
(* slot or its invocation still running: not one that finds no slot for its *)
(* retry, that got an API of the wrong mode, or whose neighbours are        *)
(* cancelled or crash.                                                      *)
OnlyCancelledLeak ==
  \A i \in Call : pc[i] = "returned" /\ ~cancelled[i] =>
    ~HasOpenAttempt(i) /\ invocations[i].status # "running"

(* A call whose provider has a timeout ends, whatever the other calls do    *)
(* and however often the operator edits the configuration meanwhile.        *)
EveryCallEnds ==
  \A i \in Call : InFlight(i) /\ ~request[i].stream ~> ~InFlight(i)

(* model.json disables an API and the store has taken that over: from then  *)
(* on, until the file changes, the API gets no new attempt.                 *)
DisabledApiStaysUnassigned ==
  [][\A a \in Api :
       file' = file /\ applied = file /\ a \notin file.enabled =>
         apis'[a].lease <= apis[a].lease]_vars

(* The slots of SlotPool: a call holds one while its last attempt runs; an  *)
(* API the store would not lease from has no capacity.                      *)
Holds ==
  [i \in Call |-> IF HasOpenAttempt(i) THEN invocations[i].route ELSE AnyApi]
Outcomes == [i \in Call |-> invocations[i].status]
Capacities ==
  [a \in Api |-> IF apis[a].enabled /\ apis[a].status # "offline"
                 THEN apis[a].max ELSE 0]

Slots == INSTANCE SlotPool
           WITH NoApi <- AnyApi, holds <- Holds, outcome <- Outcomes,
                capacity <- Capacities

(* The gateway implements SlotPool: grants below capacity, one slot per     *)
(* call, success only by a holder, final outcomes.                          *)
ImplementsSlotPool == Slots!Spec
=============================================================================
