------------------------- MODULE PoolGatewayProofs -------------------------
(***************************************************************************)
(* Proofs about PoolGateway, for every set of APIs, calls, configurations  *)
(* and requests and with cancellations and crashes.                        *)
(***************************************************************************)
EXTENDS PoolGateway, FiniteSetTheorems, SequenceTheorems, TLAPS

(* The rows and the frame of a call whose reservation never succeeded.      *)
Unopened(i) ==
  attempts[i] = <<>> /\ attempt[i] = 0 /\ invocations[i].status = "none"

(* The rows and the frame of a call with an invocation: the loop counter    *)
(* names the last attempt row, the invocation row and the reservation name  *)
(* its API, and every earlier attempt has ended.                            *)
Opened(i) ==
  /\ attempt[i] = Len(attempts[i]) /\ attempt[i] # 0
  /\ reserved[i] \in Api
  /\ invocations[i].route = reserved[i]
  /\ invocations[i].status # "none"
  /\ attempts[i][attempt[i]].api = reserved[i]
  /\ \A k \in 1 .. Len(attempts[i]) :
       attempts[i][k].status = "running" =>
         k = attempt[i] /\ invocations[i].status = "running"
  /\ attempt[i] <= cfg[i].maxAttempts

LastRunning(i) == attempts[i][attempt[i]].status = "running"

Holding == {"invoke", "succeeded", "failed", "internal"}
Between == {"backoff", "finalize", "internal_finalize"}
Gone == {"returned", "crashed"}

(* What the tables hold of a call at each point of Invoke.                  *)
CallInv(i) ==
  /\ pc[i] = "idle" => Unopened(i)
  /\ pc[i] = "reserve" => Unopened(i)
  /\ pc[i] # "idle" => cfg[i] \in Config
  /\ pc[i] \in Holding => Opened(i) /\ LastRunning(i)
  /\ pc[i] \in Between =>
       Opened(i) /\ ~LastRunning(i) /\ invocations[i].status = "running"
  /\ pc[i] = "backoff" => attempt[i] < cfg[i].maxAttempts
  /\ pc[i] \in Gone => Unopened(i) \/ Opened(i)

CallsInv == \A i \in Call : CallInv(i)
TableInv == TypeOK /\ CallsInv

-----------------------------------------------------------------------------
(* The two ways an attempt table changes.                                   *)

(* Appending a row keeps the earlier rows where they are.                   *)
LEMMA AppendRow ==
  ASSUME NEW s \in Seq(AttemptRow), NEW r \in AttemptRow
  PROVE  /\ Append(s, r) \in Seq(AttemptRow)
         /\ Len(Append(s, r)) = Len(s) + 1
         /\ Append(s, r)[Len(s) + 1] = r
         /\ \A k \in 1 .. Len(s) : Append(s, r)[k] = s[k]
  OBVIOUS

-----------------------------------------------------------------------------
(* Status of a row of the apis table.                                       *)

LEMMA ResolveType ==
  ASSUME NEW e, NEW l, NEW m, NEW f, NEW t
  PROVE  ResolveApiStatus(e, l, m, f, t) \in ApiStatus
  BY DEF ResolveApiStatus, ApiStatus

LEMMA SyncedType ==
  ASSUME TypeOK, NEW c \in Config
  PROVE  SyncConfig(c) \in [Api -> ApiRow]
<1>1. c \in ConfigRecord
  BY ConfigAssumption
<1>2. SyncedApis(c) \in [Api -> ApiRow]
  <2> SUFFICES ASSUME NEW a \in Api
               PROVE  SyncedApis(c)[a] \in ApiRow
    BY DEF SyncedApis
  <2>1. apis[a] \in ApiRow
    BY DEF TypeOK
  <2>2. CASE a \in c.listed
    BY <1>1, <2>1, <2>2, ResolveType DEF SyncedApis, ApiRow, ConfigRecord
  <2>3. CASE a \notin c.listed
    BY <2>1, <2>3 DEF SyncedApis, ApiRow, ApiStatus
  <2>4. QED
    BY <2>2, <2>3
<1>3. QED
  BY <1>2 DEF SyncConfig, TypeOK

(* A row after two or three of its columns were written.                    *)
LEMMA WrittenRow ==
  ASSUME NEW row \in ApiRow, NEW l, NEW n, NEW st
  PROVE  /\ [row EXCEPT !.lease = l, !.status = st] =
              [ enabled |-> row.enabled, max |-> row.max, status |-> st,
                lease |-> l, failure |-> row.failure ]
         /\ [row EXCEPT !.lease = l, !.failure = n, !.status = st] =
              [ enabled |-> row.enabled, max |-> row.max, status |-> st,
                lease |-> l, failure |-> n ]
<1> DEFINE R(e, m, s, k, f) ==
      [ enabled |-> e, max |-> m, status |-> s, lease |-> k, failure |-> f ]
<1>1. row = R(row.enabled, row.max, row.status, row.lease, row.failure)
  BY DEF ApiRow
<1>2. ASSUME NEW e, NEW m, NEW s, NEW k, NEW f
      PROVE  /\ [R(e, m, s, k, f) EXCEPT !.lease = l] = R(e, m, s, l, f)
             /\ [R(e, m, s, k, f) EXCEPT !.failure = n] = R(e, m, s, k, n)
             /\ [R(e, m, s, k, f) EXCEPT !.status = st] = R(e, m, st, k, f)
  OBVIOUS
<1> DEFINE r == [row EXCEPT !.lease = l]
           q == [r EXCEPT !.failure = n]
<1>3. /\ [row EXCEPT !.lease = l, !.status = st] = [r EXCEPT !.status = st]
      /\ [row EXCEPT !.lease = l, !.failure = n, !.status = st] =
           [q EXCEPT !.status = st]
  OBVIOUS
<1> HIDE DEF R
<1>4. r = R(row.enabled, row.max, row.status, l, row.failure)
  BY <1>1, <1>2
<1> HIDE DEF r
<1>5. q = R(row.enabled, row.max, row.status, l, n)
  BY <1>2, <1>4
<1> HIDE DEF q
<1>6. /\ [r EXCEPT !.status = st] = R(row.enabled, row.max, st, l, row.failure)
      /\ [q EXCEPT !.status = st] = R(row.enabled, row.max, st, l, n)
  BY <1>2, <1>4, <1>5
<1>7. QED
  BY <1>3, <1>6 DEF R

LEMMA LeasedFields ==
  ASSUME NEW row \in ApiRow
  PROVE  /\ LeasedRow(row) \in ApiRow
         /\ LeasedRow(row) =
           [ enabled |-> row.enabled, max |-> row.max,
             status |-> IF row.lease + 1 >= row.max THEN "leased" ELSE "available",
             lease |-> row.lease + 1, failure |-> row.failure ]
<1> DEFINE l == row.lease + 1
           st == IF row.lease + 1 >= row.max THEN "leased" ELSE "available"
<1>1. l \in Nat /\ st \in ApiStatus
  BY DEF ApiRow, ApiStatus
<1>2. LeasedRow(row) = [row EXCEPT !.lease = l, !.status = st]
  BY DEF LeasedRow
<1> HIDE DEF l, st
<1>3. LeasedRow(row) = [ enabled |-> row.enabled, max |-> row.max, status |-> st,
                         lease |-> l, failure |-> row.failure ]
  BY <1>2, WrittenRow
<1>4. LeasedRow(row) \in ApiRow
  BY <1>1, <1>3 DEF ApiRow
<1>5. QED
  BY <1>3, <1>4 DEF l, st

LEMMA ReleasedFields ==
  ASSUME NEW row \in ApiRow, NEW n \in Nat, row.lease > 0
  PROVE  /\ ReleasedRow(row, n) \in ApiRow
         /\ ReleasedRow(row, n) =
           [ enabled |-> row.enabled, max |-> row.max,
             status |-> ResolveApiStatus(row.enabled, row.lease - 1, row.max, n,
                                         OfflineThreshold),
             lease |-> row.lease - 1, failure |-> n ]
<1> DEFINE l == row.lease - 1
           st == ResolveApiStatus(row.enabled, row.lease - 1, row.max, n,
                                  OfflineThreshold)
<1>1. l \in Nat /\ st \in ApiStatus
  BY ResolveType DEF ApiRow
<1>2. ReleasedRow(row, n) = [row EXCEPT !.lease = l, !.failure = n, !.status = st]
  BY DEF ReleasedRow
<1> HIDE DEF l, st
<1>3. ReleasedRow(row, n) = [ enabled |-> row.enabled, max |-> row.max,
                              status |-> st, lease |-> l, failure |-> n ]
  BY <1>2, WrittenRow, ZenonT(30)
<1>4. ReleasedRow(row, n) \in ApiRow
  <2>1. row.enabled \in BOOLEAN /\ row.max \in Nat
    BY DEF ApiRow
  <2>2. QED
    BY <1>1, <1>3, <2>1 DEF ApiRow
<1>5. QED
  BY <1>3, <1>4 DEF l, st

-----------------------------------------------------------------------------
(* A step of one call leaves the invariant of every other call alone.       *)
LEMMA CallFrame ==
  ASSUME NEW j \in Call, CallInv(j),
         pc'[j] = pc[j], cfg'[j] = cfg[j], attempt'[j] = attempt[j],
         reserved'[j] = reserved[j], invocations'[j] = invocations[j],
         attempts'[j] = attempts[j]
  PROVE  CallInv(j)'
  BY DEF CallInv, Unopened, Opened, LastRunning
-----------------------------------------------------------------------------
(* A reservation that commits opens an attempt and nothing else: the rows   *)
(* keep their types, and the frame of the call names the new last row.      *)
LEMMA ReserveOpens ==
  ASSUME TypeOK, NEW i \in Call, NEW a \in Api, ReserveSlot(i, a),
         cfg[i] \in Config, attempt[i] < cfg[i].maxAttempts,
         Unopened(i) \/ (Opened(i) /\ ~LastRunning(i))
  PROVE  /\ applied' \in Config
         /\ apis' \in [Api -> ApiRow]
         /\ invocations' \in [Call -> [status : InvocationStatus, route : Api \cup {AnyApi}]]
         /\ attempts' \in [Call -> Seq(AttemptRow)]
         /\ attempt' \in [Call -> Nat]
         /\ reserved' \in [Call -> Api \cup {AnyApi}]
         /\ Opened(i)' /\ LastRunning(i)'
<1> DEFINE rows == SyncConfig(cfg[i])
           r == [api |-> a, status |-> "running"]
           s == attempts[i]
           n == attempt[i]
<1>1. rows \in [Api -> ApiRow]
  BY SyncedType
<1>2. apis' \in [Api -> ApiRow]
  <2>1. LeasedRow(rows[a]) \in ApiRow
    BY <1>1, LeasedFields
  <2>2. apis' = [rows EXCEPT ![a] = LeasedRow(rows[a])]
    BY DEF ReserveSlot
  <2>3. QED
    BY <1>1, <2>1, <2>2
<1>3. r \in AttemptRow /\ s \in Seq(AttemptRow) /\ n = Len(s) /\ n \in Nat
  BY DEF AttemptRow, TypeOK, Unopened, Opened
<1>4. /\ invocations' = [invocations EXCEPT ![i] = [status |-> "running", route |-> a]]
      /\ attempts' = [attempts EXCEPT ![i] = Append(s, r)]
      /\ attempt' = [attempt EXCEPT ![i] = n + 1]
      /\ reserved' = [reserved EXCEPT ![i] = a]
      /\ cfg' = cfg /\ applied' = cfg[i]
  BY DEF ReserveSlot
<1>5. /\ invocations' \in [Call -> [status : InvocationStatus, route : Api \cup {AnyApi}]]
      /\ invocations'[i] = [status |-> "running", route |-> a]
  <2>1. [status |-> "running", route |-> a] \in
          [status : InvocationStatus, route : Api \cup {AnyApi}]
    BY DEF InvocationStatus
  <2>2. QED
    BY <1>4, <2>1 DEF TypeOK
<1>6. /\ attempts' \in [Call -> Seq(AttemptRow)] /\ attempts'[i] = Append(s, r)
      /\ attempt' \in [Call -> Nat] /\ attempt'[i] = n + 1
      /\ reserved' \in [Call -> Api \cup {AnyApi}] /\ reserved'[i] = a
  BY <1>3, <1>4, AppendRow DEF TypeOK
<1>7. /\ Len(attempts'[i]) = n + 1
      /\ attempts'[i][n + 1] = r
      /\ \A k \in 1 .. n : attempts'[i][k] = s[k]
  BY <1>3, <1>6, AppendRow
<1>8. \A k \in 1 .. n : s[k].status # "running"
  BY <1>3 DEF Unopened, Opened, LastRunning
<1>9. n + 1 <= cfg[i].maxAttempts
  BY <1>3, ConfigAssumption DEF ConfigRecord
<1>10. Opened(i)' /\ LastRunning(i)'
  <2>1. \A k \in 1 .. n + 1 : attempts'[i][k].status = "running" => k = n + 1
    BY <1>3, <1>7, <1>8
  <2>2. QED
    BY <1>3, <1>4, <1>5, <1>6, <1>7, <1>9, <2>1 DEF Opened, LastRunning
<1>11. QED
  BY <1>2, <1>4, <1>5, <1>6, <1>10

(* Ending the running attempt of a call, with any outcome.                  *)
LEMMA EndCloses ==
  ASSUME TypeOK, NEW i \in Call, Opened(i),
         NEW st \in {"success", "failure"}, NEW n \in Nat,
         apis[reserved[i]].lease > 0,
         apis' = [apis EXCEPT ![reserved[i]] = ReleasedRow(apis[invocations[i].route], n)],
         attempts' = [attempts EXCEPT ![i][attempt[i]].status = st]
  PROVE  /\ apis' \in [Api -> ApiRow]
         /\ attempts' \in [Call -> Seq(AttemptRow)]
         /\ Len(attempts'[i]) = attempt[i]
         /\ attempts'[i][attempt[i]] = [api |-> reserved[i], status |-> st]
         /\ \A k \in 1 .. attempt[i] : attempts'[i][k].status # "running"
         /\ \A j \in Call : j # i => attempts'[j] = attempts[j]
<1> DEFINE s == attempts[i]
           k0 == attempt[i]
           r == [api |-> s[k0].api, status |-> st]
           t == [s EXCEPT ![k0] = r]
<1>1. apis' \in [Api -> ApiRow]
  <2>1. ReleasedRow(apis[reserved[i]], n) \in ApiRow
    BY ReleasedFields DEF TypeOK, Opened
  <2>2. QED
    BY <2>1 DEF TypeOK, Opened
<1>2. s \in Seq(AttemptRow) /\ k0 \in 1 .. Len(s) /\ k0 = Len(s)
  BY DEF TypeOK, Opened
<1>3. s[k0] \in AttemptRow
  BY <1>2, ElementOfSeq
<1>4. r \in AttemptRow /\ r = [s[k0] EXCEPT !.status = st]
  BY <1>3 DEF AttemptRow
<1>5. attempts' = [attempts EXCEPT ![i] = t]
  BY <1>4
<1> HIDE DEF r
<1>6. /\ t \in Seq(AttemptRow)
      /\ Len(t) = Len(s)
      /\ t[k0] = r
      /\ \A k \in 1 .. Len(s) : k # k0 => t[k] = s[k]
  BY <1>2, <1>4, ExceptSeq
<1> HIDE DEF t
<1>7. attempts \in [Call -> Seq(AttemptRow)]
  BY DEF TypeOK
<1>8. /\ attempts' \in [Call -> Seq(AttemptRow)]
      /\ attempts'[i] = t
      /\ \A j \in Call : j # i => attempts'[j] = attempts[j]
  <2> HIDE DEF s, k0
  <2>1. t \in Seq(AttemptRow)
    BY <1>6
  <2> QED
    BY <1>5, <1>7, <2>1
<1>9. \A k \in 1 .. k0 : t[k].status # "running"
  BY <1>2, <1>6 DEF Opened, r
<1>10. QED
  BY <1>1, <1>2, <1>6, <1>8, <1>9 DEF Opened, r
-----------------------------------------------------------------------------
LEMMA InitInv == Init => TableInv
<1> SUFFICES ASSUME Init PROVE TableInv
  OBVIOUS
<1>1. NoApiRow \in ApiRow
  BY DEF NoApiRow, ApiRow, ApiStatus
<1>2. TypeOK
  BY <1>1 DEF Init, TypeOK, InvocationStatus, PcLabel
<1>3. CallsInv
  BY DEF Init, CallsInv, CallInv, Unopened, Holding, Between, Gone
<1>4. QED
  BY <1>2, <1>3 DEF TableInv

(* Steps that leave the frames and the invocations of the calls alone.      *)
LEMMA OutsideStep ==
  ASSUME TableInv,
         \/ \E c \in Config : EditConfig(c)
         \/ AdminLoad \/ AdminSync
         \/ \E i \in Call : Cancel(i)
         \/ UNCHANGED vars
  PROVE  TableInv'
<1> USE DEF TableInv
<1>1. CallsInv'
  <2> SUFFICES ASSUME NEW j \in Call PROVE CallInv(j)'
    BY DEF CallsInv
  <2>1. UNCHANGED <<frames, invocations, attempts>>
    BY DEF EditConfig, AdminLoad, AdminSync, Cancel, vars, tables, frames
  <2>2. QED
    BY <2>1, CallFrame DEF CallsInv, frames
<1>2. CASE AdminSync
  BY <1>1, <1>2, SyncedType DEF AdminSync, TypeOK, frames
<1>3. CASE UNCHANGED vars
  BY <1>1, <1>3 DEF TypeOK, vars, tables, frames
<1>4. CASE AdminLoad
  BY <1>1, <1>4 DEF AdminLoad, TypeOK, tables, frames
<1>5. CASE \E c \in Config : EditConfig(c)
  BY <1>1, <1>5 DEF EditConfig, TypeOK, tables, frames
<1>6. CASE \E i \in Call : Cancel(i)
  BY <1>1, <1>6 DEF Cancel, TypeOK, tables, frames
<1>7. QED
  BY <1>2, <1>3, <1>4, <1>5, <1>6

(* Steps of a call outside every transaction.                               *)
LEMMA LocalStep ==
  ASSUME TableInv, NEW i \in Call,
         \/ Begin(i) \/ RejectInvocation(i) \/ ProviderAnswers(i)
         \/ GiveUpRetry(i) \/ ReturnContextError(i) \/ Crash(i)
  PROVE  TableInv'
<1> USE DEF TableInv
<1>1. UNCHANGED <<file, admin, tables, request, attempt, reserved, cancelled>>
  BY DEF Begin, RejectInvocation, ProviderAnswers, ProviderSucceeds, ProviderFails,
         GiveUpRetry, ReturnContextError, Crash
<1>2. /\ pc' \in [Call -> PcLabel] /\ cfg' \in [Call -> Config \cup {NoConfig}]
      /\ err' \in [Call -> Error \cup {"none"}]
  <2>1. CASE Begin(i)
    BY <2>1 DEF Begin, Goto, TypeOK, PcLabel
  <2>2. CASE ProviderAnswers(i)
    <3>1. CASE ProviderSucceeds(i)
      BY <3>1 DEF ProviderSucceeds, Goto, TypeOK, PcLabel
    <3>2. CASE \E e \in Failures : ProviderFails(i, e)
      BY <3>2, FailureAssumption DEF ProviderFails, Goto, TypeOK, PcLabel
    <3>3. QED
      BY <2>2, <3>1, <3>2 DEF ProviderAnswers
  <2>3. CASE RejectInvocation(i) \/ GiveUpRetry(i) \/ ReturnContextError(i) \/ Crash(i)
    BY <2>3
       DEF RejectInvocation, GiveUpRetry, ReturnContextError, Crash, Goto, TypeOK, PcLabel
  <2>4. QED
    BY <2>1, <2>2, <2>3
<1>3. TypeOK'
  BY <1>1, <1>2 DEF TypeOK, tables
<1>4. ASSUME NEW j \in Call, j # i PROVE CallInv(j)'
  <2>1. pc'[j] = pc[j] /\ cfg'[j] = cfg[j]
    BY <1>4 DEF Begin, RejectInvocation, ProviderAnswers, ProviderSucceeds,
                ProviderFails, GiveUpRetry, ReturnContextError, Crash, Goto, TypeOK
  <2>2. QED
    BY <1>1, <2>1, CallFrame DEF CallsInv, tables
<1>5. CallInv(i)'
  <2>1. UNCHANGED <<attempts, attempt, invocations, reserved>>
    BY <1>1 DEF tables
  <2>2. CallInv(i) /\ pc[i] \in PcLabel
    BY DEF CallsInv, TypeOK
  <2>3. CASE Begin(i)
    <3>1. pc[i] = "idle" /\ pc'[i] = "reserve" /\ cfg'[i] \in Config
      BY <2>3 DEF Begin, Goto, TypeOK
    <3>2. QED
      BY <2>1, <2>2, <3>1 DEF CallInv, Unopened, Holding, Between, Gone
  <2>4. CASE ~Begin(i)
    <3>1. cfg' = cfg
      BY <2>4 DEF RejectInvocation, ProviderAnswers, ProviderSucceeds, ProviderFails,
                  GiveUpRetry, ReturnContextError, Crash
    <3>2. /\ Unopened(i)' = Unopened(i) /\ Opened(i)' = Opened(i)
          /\ LastRunning(i)' = LastRunning(i)
      BY <2>1, <3>1 DEF Unopened, Opened, LastRunning
    <3>3. \/ pc[i] = "reserve" /\ pc'[i] \in {"idle", "returned"}
          \/ pc[i] = "invoke" /\ pc'[i] \in {"succeeded", "failed", "internal"}
          \/ pc[i] = "backoff" /\ pc'[i] = "finalize"
          \/ pc[i] \notin {"idle", "returned", "crashed"} /\ pc'[i] \in Gone
      BY <2>4 DEF RejectInvocation, ProviderAnswers, ProviderSucceeds, ProviderFails,
                  GiveUpRetry, ReturnContextError, Crash, InFlight, Goto, TypeOK, Gone
    <3>4. QED
      BY <2>1, <2>2, <3>1, <3>2, <3>3 DEF CallInv, Holding, Between, Gone, PcLabel
  <2>5. QED
    BY <2>3, <2>4
<1>6. QED
  BY <1>3, <1>4, <1>5 DEF CallsInv
(* A call that reserves has attempts left and none running.                 *)
LEMMA ReserveReady ==
  ASSUME TableInv, NEW i \in Call, ReserveInvocation(i) \/ ReserveRetryAttempt(i)
  PROVE  /\ cfg[i] \in Config /\ attempt[i] < cfg[i].maxAttempts
         /\ Unopened(i) \/ (Opened(i) /\ ~LastRunning(i))
<1>1. CallInv(i)
  BY DEF TableInv, CallsInv
<1>2. CASE pc[i] = "reserve"
  <2>1. cfg[i] \in Config /\ Unopened(i)
    BY <1>1, <1>2 DEF CallInv
  <2>2. cfg[i].maxAttempts \in Nat \ {0}
    BY <2>1, ConfigAssumption DEF ConfigRecord
  <2>3. QED
    BY <2>1, <2>2 DEF Unopened
<1>3. CASE pc[i] = "backoff"
  BY <1>1, <1>3 DEF CallInv, Between
<1>4. QED
  BY <1>2, <1>3 DEF ReserveInvocation, ReserveRetryAttempt

(* The two reservations.                                                    *)
LEMMA ReserveStep ==
  ASSUME TableInv, NEW i \in Call, ReserveInvocation(i) \/ ReserveRetryAttempt(i)
  PROVE  TableInv'
<1> USE DEF TableInv
<1>1. PICK a \in Api : ReserveSlot(i, a)
  BY DEF ReserveInvocation, ReserveRetryAttempt
<1>2. /\ cfg[i] \in Config /\ attempt[i] < cfg[i].maxAttempts
      /\ Unopened(i) \/ (Opened(i) /\ ~LastRunning(i))
  BY ReserveReady
<1>3. /\ applied' \in Config
      /\ apis' \in [Api -> ApiRow]
      /\ invocations' \in [Call -> [status : InvocationStatus, route : Api \cup {AnyApi}]]
      /\ attempts' \in [Call -> Seq(AttemptRow)]
      /\ attempt' \in [Call -> Nat]
      /\ reserved' \in [Call -> Api \cup {AnyApi}]
      /\ Opened(i)' /\ LastRunning(i)'
  BY <1>1, <1>2, ReserveOpens
<1>4. UNCHANGED <<file, admin, request, cfg, cancelled>>
  BY <1>1 DEF ReserveSlot
<1>5. /\ pc' \in [Call -> PcLabel] /\ pc'[i] \in {"invoke", "internal"}
      /\ err' \in [Call -> Error \cup {"none"}]
      /\ \A j \in Call : j # i => pc'[j] = pc[j]
  BY DEF ReserveInvocation, ReserveRetryAttempt, Goto, TypeOK, PcLabel, Error
<1>6. TypeOK'
  BY <1>3, <1>4, <1>5 DEF TypeOK
<1>7. CallInv(i)'
  BY <1>2, <1>3, <1>4, <1>5 DEF CallInv, Holding, Between, Gone
<1>8. ASSUME NEW j \in Call, j # i PROVE CallInv(j)'
  <2>1. /\ attempt'[j] = attempt[j] /\ reserved'[j] = reserved[j]
        /\ invocations'[j] = invocations[j] /\ attempts'[j] = attempts[j]
    BY <1>1, <1>8 DEF ReserveSlot, TypeOK
  <2>2. QED
    BY <1>4, <1>5, <1>8, <2>1, CallFrame DEF CallsInv
<1>9. QED
  BY <1>6, <1>7, <1>8 DEF CallsInv

(* The transaction of a success.                                            *)
LEMMA SuccessStep ==
  ASSUME TableInv, NEW i \in Call, CompleteInvocationSuccess(i)
  PROVE  TableInv'
<1> USE DEF TableInv
<1>1. Opened(i) /\ CallInv(i) /\ cfg[i] \in Config
  BY DEF CompleteInvocationSuccess, CallsInv, CallInv, Holding
<1>2. /\ apis[reserved[i]].lease > 0
      /\ apis' = [apis EXCEPT ![reserved[i]] = ReleasedRow(apis[invocations[i].route], 0)]
      /\ attempts' = [attempts EXCEPT ![i][attempt[i]].status = "success"]
      /\ UNCHANGED <<file, admin, applied, request, cfg, attempt, reserved, err, cancelled>>
  BY <1>1 DEF CompleteInvocationSuccess, Opened
<1>3. /\ apis' \in [Api -> ApiRow]
      /\ attempts' \in [Call -> Seq(AttemptRow)]
      /\ Len(attempts'[i]) = attempt[i]
      /\ attempts'[i][attempt[i]] = [api |-> reserved[i], status |-> "success"]
      /\ \A k \in 1 .. attempt[i] : attempts'[i][k].status # "running"
      /\ \A j \in Call : j # i => attempts'[j] = attempts[j]
  BY <1>1, <1>2, EndCloses
<1>4. /\ pc' = [pc EXCEPT ![i] = "returned"]
      /\ invocations' = [invocations EXCEPT ![i].status = "success"]
  BY DEF CompleteInvocationSuccess, Goto
<1>5. /\ pc' \in [Call -> PcLabel] /\ pc'[i] = "returned"
      /\ \A j \in Call : j # i => pc'[j] = pc[j] /\ invocations'[j] = invocations[j]
      /\ invocations' \in [Call -> [status : InvocationStatus, route : Api \cup {AnyApi}]]
      /\ invocations'[i].route = invocations[i].route
      /\ invocations'[i].status = "success"
  BY <1>4 DEF TypeOK, PcLabel, InvocationStatus
<1>6. TypeOK'
  BY <1>2, <1>3, <1>5 DEF TypeOK
<1>7. CallInv(i)'
  <2>1. Opened(i)'
    BY <1>1, <1>2, <1>3, <1>5 DEF Opened
  <2>2. QED
    BY <1>1, <1>2, <1>5, <2>1 DEF CallInv, Holding, Between, Gone
<1>8. ASSUME NEW j \in Call, j # i PROVE CallInv(j)'
  BY <1>2, <1>3, <1>5, <1>8, CallFrame DEF CallsInv
<1>9. QED
  BY <1>6, <1>7, <1>8 DEF CallsInv

(* The transaction of a failed attempt, entered with a provider's error or  *)
(* with an internal one.                                                    *)
LEMMA FailureStep ==
  ASSUME TableInv, NEW i \in Call,
         CompleteAttemptFailure(i) \/ FinishInternalFailure(i)
  PROVE  TableInv'
<1> USE DEF TableInv
<1> DEFINE row == apis[invocations[i].route]
           n == IF CountsTowardOffline(err[i]) THEN row.failure + 1 ELSE row.failure
<1>1. Opened(i) /\ LastRunning(i) /\ CallInv(i) /\ cfg[i] \in Config
  BY DEF CompleteAttemptFailure, FinishInternalFailure, CallsInv, CallInv, Holding
<1>2. FailAttempt(i)
  BY DEF CompleteAttemptFailure, FinishInternalFailure
<1>3. invocations[i].status = "running"
  BY <1>1 DEF Opened, LastRunning, TypeOK
<1>4. /\ apis[reserved[i]].lease > 0
      /\ apis' = [apis EXCEPT ![reserved[i]] = ReleasedRow(row, n)]
      /\ attempts' = [attempts EXCEPT ![i][attempt[i]].status = "failure"]
      /\ err' = [err EXCEPT ![i] = "none"]
      /\ UNCHANGED <<file, admin, applied, invocations, request, cfg, attempt,
                     reserved, cancelled>>
  BY <1>1, <1>2 DEF FailAttempt, Opened
<1>5. n \in Nat
  BY <1>1 DEF Opened, TypeOK, ApiRow
<1> HIDE DEF n
<1>6. /\ apis' \in [Api -> ApiRow]
      /\ attempts' \in [Call -> Seq(AttemptRow)]
      /\ Len(attempts'[i]) = attempt[i]
      /\ attempts'[i][attempt[i]] = [api |-> reserved[i], status |-> "failure"]
      /\ \A k \in 1 .. attempt[i] : attempts'[i][k].status # "running"
      /\ \A j \in Call : j # i => attempts'[j] = attempts[j]
  BY <1>1, <1>4, <1>5, EndCloses
<1>7. /\ pc' \in [Call -> PcLabel]
      /\ pc'[i] \in {"backoff", "finalize", "internal_finalize"}
      /\ pc'[i] = "backoff" => attempt[i] < cfg[i].maxAttempts
      /\ \A j \in Call : j # i => pc'[j] = pc[j]
      /\ err' \in [Call -> Error \cup {"none"}]
  BY <1>4 DEF CompleteAttemptFailure, FinishInternalFailure, ShouldRetry, Goto,
              TypeOK, PcLabel
<1>8. TypeOK'
  BY <1>4, <1>6, <1>7 DEF TypeOK
<1>9. CallInv(i)'
  <2>1. Opened(i)' /\ ~LastRunning(i)'
    BY <1>1, <1>4, <1>6 DEF Opened, LastRunning
  <2>2. QED
    BY <1>1, <1>3, <1>4, <1>7, <2>1 DEF CallInv, Holding, Between, Gone
<1>10. ASSUME NEW j \in Call, j # i PROVE CallInv(j)'
  BY <1>4, <1>6, <1>7, <1>10, CallFrame DEF CallsInv
<1>11. QED
  BY <1>8, <1>9, <1>10 DEF CallsInv
(* The transaction that ends an invocation whose last attempt has failed.   *)
LEMMA FinalizeStep ==
  ASSUME TableInv, NEW i \in Call, CompleteInvocationFailure(i)
  PROVE  TableInv'
<1> USE DEF TableInv
<1>1. Opened(i) /\ ~LastRunning(i) /\ CallInv(i) /\ cfg[i] \in Config
  BY DEF CompleteInvocationFailure, CallsInv, CallInv, Between
<1>2. /\ pc' = [pc EXCEPT ![i] = "returned"]
      /\ invocations' = [invocations EXCEPT ![i].status = "failure"]
      /\ UNCHANGED <<file, admin, applied, apis, attempts, request, cfg, attempt,
                     reserved, err, cancelled>>
  BY DEF CompleteInvocationFailure, Goto
<1>3. /\ pc' \in [Call -> PcLabel] /\ pc'[i] = "returned"
      /\ \A j \in Call : j # i => pc'[j] = pc[j] /\ invocations'[j] = invocations[j]
      /\ invocations' \in [Call -> [status : InvocationStatus, route : Api \cup {AnyApi}]]
      /\ invocations'[i].route = invocations[i].route
      /\ invocations'[i].status = "failure"
  BY <1>2 DEF TypeOK, PcLabel, InvocationStatus
<1>4. TypeOK'
  BY <1>2, <1>3 DEF TypeOK
<1>5. CallInv(i)'
  <2>1. \A k \in 1 .. Len(attempts[i]) : attempts[i][k].status # "running"
    BY <1>1 DEF Opened, LastRunning
  <2>2. Opened(i)'
    BY <1>1, <1>2, <1>3, <2>1 DEF Opened
  <2>3. QED
    BY <1>1, <1>2, <1>3, <2>2 DEF CallInv, Holding, Between, Gone
<1>6. ASSUME NEW j \in Call, j # i PROVE CallInv(j)'
  BY <1>2, <1>3, <1>6, CallFrame DEF CallsInv
<1>7. QED
  BY <1>4, <1>5, <1>6 DEF CallsInv

LEMMA TableStep == TableInv /\ [Next]_vars => TableInv'
<1> SUFFICES ASSUME TableInv, [Next]_vars PROVE TableInv'
  OBVIOUS
<1>1. CASE \/ \E c \in Config : EditConfig(c)
           \/ AdminLoad \/ AdminSync
           \/ \E i \in Call : Cancel(i)
           \/ UNCHANGED vars
  BY <1>1, OutsideStep
<1>2. ASSUME NEW i \in Call, Begin(i) \/ CallStep(i) \/ ProviderAnswers(i) \/ Crash(i)
      PROVE  TableInv'
  <2>1. CASE \/ Begin(i) \/ RejectInvocation(i) \/ ProviderAnswers(i)
             \/ GiveUpRetry(i) \/ ReturnContextError(i) \/ Crash(i)
    BY <2>1, LocalStep
  <2>2. CASE ReserveInvocation(i) \/ ReserveRetryAttempt(i)
    BY <2>2, ReserveStep
  <2>3. CASE CompleteInvocationSuccess(i)
    BY <2>3, SuccessStep
  <2>4. CASE CompleteAttemptFailure(i) \/ FinishInternalFailure(i)
    BY <2>4, FailureStep
  <2>5. CASE CompleteInvocationFailure(i)
    BY <2>5, FinalizeStep
  <2>6. QED
    BY <1>2, <2>1, <2>2, <2>3, <2>4, <2>5 DEF CallStep
<1>3. QED
  BY <1>1, <1>2 DEF Next

(* At every point of Invoke the three tables hold exactly what the frame of *)
(* the call believes they hold.                                             *)
THEOREM TablesFollowFrames == Spec => []TableInv
<1>1. Init => TableInv
  BY InitInv
<1>2. TableInv /\ [Next]_vars => TableInv'
  BY TableStep
<1>3. QED
  BY <1>1, <1>2, PTL DEF Spec

(* Rows and frames keep their types; in particular no transaction makes a   *)
(* lease count negative.                                                    *)
THEOREM TypeCorrect == Spec => []TypeOK
<1>1. TableInv => TypeOK
  BY DEF TableInv
<1>2. QED
  BY <1>1, TablesFollowFrames, PTL

(* Retries, crashes and cancellations never leave two attempts of one       *)
(* invocation running, nor a running attempt of a finished invocation.      *)
THEOREM OneAttemptAtATime == Spec => []OneOpenAttempt
<1>1. TableInv => OneOpenAttempt
  <2> SUFFICES ASSUME TableInv, NEW i \in Call, NEW k \in DOMAIN attempts[i],
                      attempts[i][k].status = "running"
               PROVE  /\ k = Len(attempts[i])
                      /\ invocations[i] = [status |-> "running", route |-> attempts[i][k].api]
    BY DEF OneOpenAttempt
  <2>1. attempts[i] \in Seq(AttemptRow) /\ k \in 1 .. Len(attempts[i])
    BY DEF TableInv, TypeOK
  <2>2. Opened(i)
    BY <2>1 DEF TableInv, CallsInv, CallInv, Unopened, TypeOK, PcLabel, Holding,
                Between, Gone
  <2>3. /\ k = attempt[i] /\ attempt[i] = Len(attempts[i])
        /\ invocations[i].status = "running"
        /\ invocations[i].route = attempts[i][k].api
    BY <2>1, <2>2 DEF Opened
  <2>4. invocations[i] \in [status : InvocationStatus, route : Api \cup {AnyApi}]
    BY DEF TableInv, TypeOK
  <2>5. QED
    BY <2>3, <2>4
<1>2. QED
  BY <1>1, TablesFollowFrames, PTL

(* No invocation gets more attempts than the configuration of its call      *)
(* allows.                                                                  *)
THEOREM AttemptsWithinBudget == Spec => []RetryBudget
<1>1. TableInv => RetryBudget
  BY DEF TableInv, CallsInv, CallInv, TypeOK, PcLabel, Holding, Between, Gone,
         Unopened, Opened, RetryBudget
<1>2. QED
  BY <1>1, TablesFollowFrames, PTL
-----------------------------------------------------------------------------
(* The counters and the status column of the apis table.                    *)

CountInv == StatusAgreesWithCounters /\ LeaseCountsRunningAttempts

Agrees(row, threshold) ==
  row.status = ResolveApiStatus(row.enabled, row.lease, row.max, row.failure, threshold)

(* A configuration sync, needed or not, carries both counters over and      *)
(* leaves every status agreeing with them.                                  *)
LEMMA SyncKeepsCounters ==
  ASSUME TypeOK, StatusAgreesWithCounters, NEW c \in Config, NEW a \in Api
  PROVE  /\ SyncConfig(c)[a].lease = apis[a].lease
         /\ SyncConfig(c)[a].failure = apis[a].failure
         /\ Agrees(SyncConfig(c)[a], c.threshold)
<1>1. apis[a] \in ApiRow
  BY DEF TypeOK
<1>2. CASE applied = c
  BY <1>2, ConfigAssumption
     DEF SyncConfig, StatusAgreesWithCounters, OfflineThreshold, Agrees
<1>3. CASE applied # c
  <2>1. SyncConfig(c)[a] =
          IF a \in c.listed
          THEN [ enabled |-> a \in c.enabled, max |-> c.max[a],
                 status |-> ResolveApiStatus(a \in c.enabled, apis[a].lease,
                                             c.max[a], apis[a].failure, c.threshold),
                 lease |-> apis[a].lease, failure |-> apis[a].failure ]
          ELSE [ apis[a] EXCEPT !.enabled = FALSE, !.status = "offline" ]
    BY <1>3 DEF SyncConfig, SyncedApis
  <2>2. CASE a \in c.listed
    <3> DEFINE e == a \in c.enabled
               st == ResolveApiStatus(a \in c.enabled, apis[a].lease, c.max[a],
                                      apis[a].failure, c.threshold)
    <3>1. SyncConfig(c)[a] = [ enabled |-> e, max |-> c.max[a], status |-> st,
                               lease |-> apis[a].lease, failure |-> apis[a].failure ]
      BY <2>1, <2>2
    <3> HIDE DEF e, st
    <3>2. /\ SyncConfig(c)[a].enabled = e /\ SyncConfig(c)[a].max = c.max[a]
          /\ SyncConfig(c)[a].status = st /\ SyncConfig(c)[a].lease = apis[a].lease
          /\ SyncConfig(c)[a].failure = apis[a].failure
      BY <3>1
    <3>3. st = ResolveApiStatus(e, apis[a].lease, c.max[a], apis[a].failure, c.threshold)
      BY DEF e, st
    <3>4. QED
      BY <3>2, <3>3 DEF Agrees
  <2>3. CASE a \notin c.listed
    <3>1. /\ SyncConfig(c)[a].enabled = FALSE /\ SyncConfig(c)[a].status = "offline"
          /\ SyncConfig(c)[a].lease = apis[a].lease
          /\ SyncConfig(c)[a].failure = apis[a].failure
      BY <1>1, <2>1, <2>3 DEF ApiRow
    <3>2. QED
      BY <3>1 DEF Agrees, ResolveApiStatus
  <2>4. QED
    BY <2>2, <2>3
<1>4. QED
  BY <1>2, <1>3

(* Of rows that have ended but for the last one, only that one can be       *)
(* running.                                                                 *)
LEMMA OnlyLastRuns ==
  ASSUME NEW s \in Seq(AttemptRow), Len(s) # 0, NEW a,
         \A k \in 1 .. Len(s) : s[k].status = "running" => k = Len(s)
  PROVE  (\E k \in DOMAIN s : s[k].status = "running" /\ s[k].api = a)
           <=> s[Len(s)].status = "running" /\ s[Len(s)].api = a
  OBVIOUS

LEMMA HoldersFinite ==
  ASSUME NEW a PROVE IsFiniteSet(Holders(a)) /\ Cardinality(Holders(a)) \in Nat
<1>1. Holders(a) \subseteq Call
  BY DEF Holders
<1>2. QED
  BY <1>1, CallAssumption, FS_Subset, FS_CardinalityType

(* A call whose last attempt is running is a holder of its API only; one    *)
(* without a running attempt is a holder of none.                           *)
LEMMA HolderOf ==
  ASSUME TypeOK, NEW i \in Call, NEW a, Opened(i) \/ Unopened(i)
  PROVE  i \in Holders(a) <=> Opened(i) /\ LastRunning(i) /\ reserved[i] = a
<1>1. CASE Opened(i)
  <2>1. /\ attempts[i] \in Seq(AttemptRow) /\ Len(attempts[i]) # 0
        /\ \A k \in 1 .. Len(attempts[i]) :
             attempts[i][k].status = "running" => k = Len(attempts[i])
    BY <1>1 DEF TypeOK, Opened
  <2>2. (\E k \in DOMAIN attempts[i] :
           attempts[i][k].status = "running" /\ attempts[i][k].api = a)
         <=> /\ attempts[i][Len(attempts[i])].status = "running"
             /\ attempts[i][Len(attempts[i])].api = a
    BY <2>1, OnlyLastRuns
  <2>3. QED
    BY <1>1, <2>2 DEF Holders, Opened, LastRunning
<1>2. CASE Unopened(i)
  BY <1>2 DEF Unopened, Holders, Opened
<1>3. QED
  BY <1>1, <1>2
(* The holders of every API when call i opens an attempt on a0 ...          *)
LEMMA HoldersGain ==
  ASSUME TypeOK, NEW i \in Call, NEW a0 \in Api,
         Unopened(i) \/ (Opened(i) /\ ~LastRunning(i)),
         attempts'[i] \in Seq(AttemptRow), Opened(i)', LastRunning(i)', reserved'[i] = a0,
         \A j \in Call : j # i => attempts'[j] = attempts[j]
  PROVE  /\ Cardinality(Holders(a0)') = Cardinality(Holders(a0)) + 1
         /\ \A a \in Api : a # a0 => Holders(a)' = Holders(a)
<1>1. \A a \in Api : i \notin Holders(a)
  BY HolderOf DEF Opened, Unopened
<1>2. \A a \in Api : i \in Holders(a)' <=> a = a0
  <2> TAKE a \in Api
  <2>1. (\E k \in DOMAIN attempts'[i] :
           attempts'[i][k].status = "running" /\ attempts'[i][k].api = a)
        <=> /\ attempts'[i][Len(attempts'[i])].status = "running"
            /\ attempts'[i][Len(attempts'[i])].api = a
    BY OnlyLastRuns DEF Opened
  <2>2. QED
    BY <2>1 DEF Holders, Opened, LastRunning
<1>3. \A a \in Api, j \in Call : j # i => (j \in Holders(a)' <=> j \in Holders(a))
  BY DEF Holders
<1>4. \A a \in Api : Holders(a) \subseteq Call /\ Holders(a)' \subseteq Call
  BY DEF Holders
<1>5. Holders(a0)' = Holders(a0) \cup {i}
  BY <1>1, <1>2, <1>3, <1>4
<1>6. ASSUME NEW a \in Api, a # a0 PROVE Holders(a)' = Holders(a)
  <2>1. \A j \in Call : j \in Holders(a)' <=> j \in Holders(a)
    BY <1>1, <1>2, <1>3, <1>6
  <2>2. QED
    BY <1>4, <2>1
<1>7. QED
  BY <1>1, <1>5, <1>6, HoldersFinite, FS_AddElement

(* ... and when it ends one.                                                *)
LEMMA HoldersLose ==
  ASSUME TypeOK, NEW i \in Call, Opened(i), LastRunning(i),
         NEW a0 \in Api, reserved[i] = a0,
         attempts'[i] \in Seq(AttemptRow), Len(attempts'[i]) = attempt[i],
         \A k \in 1 .. attempt[i] : attempts'[i][k].status # "running",
         \A j \in Call : j # i => attempts'[j] = attempts[j]
  PROVE  /\ Cardinality(Holders(a0)') = Cardinality(Holders(a0)) - 1
         /\ \A a \in Api : a # a0 => Holders(a)' = Holders(a)
<1>1. \A a \in Api : i \in Holders(a) <=> a = a0
  BY HolderOf
<1>2. \A a \in Api : i \notin Holders(a)'
  BY DEF Holders
<1>3. \A a \in Api, j \in Call : j # i => (j \in Holders(a)' <=> j \in Holders(a))
  BY DEF Holders
<1>4. \A a \in Api : Holders(a) \subseteq Call /\ Holders(a)' \subseteq Call
  BY DEF Holders
<1>5. Holders(a0)' = Holders(a0) \ {i}
  <2>1. Holders(a0) \subseteq Call /\ Holders(a0)' \subseteq Call
    BY <1>4
  <2>2. \A j \in Call : j \in Holders(a0)' <=> j \in Holders(a0) /\ j # i
    BY <1>2, <1>3
  <2>3. QED
    BY <2>1, <2>2
<1>6. ASSUME NEW a \in Api, a # a0 PROVE Holders(a)' = Holders(a)
  <2>1. \A j \in Call : j \in Holders(a)' <=> j \in Holders(a)
    BY <1>1, <1>2, <1>3, <1>6
  <2>2. QED
    BY <1>4, <2>1
<1>7. i \in Holders(a0)
  BY <1>1
<1>8. Cardinality(Holders(a0)') = Cardinality(Holders(a0)) - 1
  <2>1. IsFiniteSet(Holders(a0))
    BY HoldersFinite
  <2>2. Cardinality(Holders(a0) \ {i}) = Cardinality(Holders(a0)) - 1
    BY <1>7, <2>1, FS_RemoveElement
  <2>3. QED
    BY <1>5, <2>2
<1>9. QED
  BY <1>6, <1>8

LEMMA ReserveCounts ==
  ASSUME TableInv, CountInv, NEW i \in Call, ReserveInvocation(i) \/ ReserveRetryAttempt(i)
  PROVE  CountInv'
<1> USE DEF TableInv, CountInv
<1>1. PICK a0 \in Api : ReserveSlot(i, a0)
  BY DEF ReserveInvocation, ReserveRetryAttempt
<1>2. /\ cfg[i] \in Config /\ attempt[i] < cfg[i].maxAttempts
      /\ Unopened(i) \/ (Opened(i) /\ ~LastRunning(i))
  BY ReserveReady
<1> DEFINE c == cfg[i]
           rows == SyncConfig(c)
<1>3. /\ apis' = [rows EXCEPT ![a0] = LeasedRow(rows[a0])] /\ applied' = c
      /\ a0 \in Eligible(rows, request[i])
      /\ \A j \in Call : j # i => attempts'[j] = attempts[j]
      /\ reserved'[i] = a0
  BY <1>1 DEF ReserveSlot, FirstEligible, TypeOK
<1>4. attempts'[i] \in Seq(AttemptRow) /\ Opened(i)' /\ LastRunning(i)'
  BY <1>1, <1>2, ReserveOpens
<1>5. OfflineThreshold' = c.threshold
  BY <1>2, <1>3, ConfigAssumption DEF OfflineThreshold
<1>6. rows \in [Api -> ApiRow]
  BY <1>2, SyncedType
<1>7. \A a \in Api : rows[a].lease = apis[a].lease /\ Agrees(rows[a], c.threshold)
  BY <1>2, SyncKeepsCounters
<1>8. /\ Cardinality(Holders(a0)') = Cardinality(Holders(a0)) + 1
      /\ \A a \in Api : a # a0 => Holders(a)' = Holders(a)
  BY <1>2, <1>3, <1>4, HoldersGain
<1> HIDE DEF rows, c
<1>9. /\ apis'[a0] = LeasedRow(rows[a0])
      /\ \A a \in Api : a # a0 => apis'[a] = rows[a]
  BY <1>3, <1>6
<1>10. /\ apis'[a0].enabled = rows[a0].enabled /\ apis'[a0].max = rows[a0].max
       /\ apis'[a0].lease = rows[a0].lease + 1 /\ apis'[a0].failure = rows[a0].failure
       /\ apis'[a0].status = IF rows[a0].lease + 1 >= rows[a0].max
                             THEN "leased" ELSE "available"
  <2> DEFINE st == IF rows[a0].lease + 1 >= rows[a0].max THEN "leased" ELSE "available"
             l == rows[a0].lease + 1
  <2>1. LeasedRow(rows[a0]) =
          [ enabled |-> rows[a0].enabled, max |-> rows[a0].max, status |-> st,
            lease |-> l, failure |-> rows[a0].failure ]
    BY <1>6, LeasedFields
  <2> HIDE DEF st, l
  <2>2. /\ apis'[a0].enabled = rows[a0].enabled /\ apis'[a0].max = rows[a0].max
        /\ apis'[a0].lease = l /\ apis'[a0].failure = rows[a0].failure
        /\ apis'[a0].status = st
    BY <1>9, <2>1
  <2>3. QED
    BY <2>2 DEF st, l
<1>11. StatusAgreesWithCounters'
  <2> SUFFICES ASSUME NEW a \in Api PROVE Agrees(apis'[a], c.threshold)
    BY <1>5 DEF StatusAgreesWithCounters, Agrees
  <2>1. CASE a # a0
    BY <1>7, <1>9, <2>1
  <2>2. CASE a = a0
    <3>1. rows[a0].enabled /\ ~(rows[a0].failure >= c.threshold)
      BY <1>3, <1>7 DEF Eligible, Agrees, ResolveApiStatus
    <3>2. QED
      BY <1>10, <2>2, <3>1 DEF Agrees, ResolveApiStatus
  <2>3. QED
    BY <2>1, <2>2
<1>12. LeaseCountsRunningAttempts'
  <2> SUFFICES ASSUME NEW a \in Api PROVE apis'[a].lease = Cardinality(Holders(a)')
    BY DEF LeaseCountsRunningAttempts
  <2>1. apis[a].lease = Cardinality(Holders(a))
    BY DEF LeaseCountsRunningAttempts
  <2>2. CASE a # a0
    BY <1>7, <1>8, <1>9, <2>1, <2>2
  <2>3. CASE a = a0
    BY <1>7, <1>8, <1>10, <2>1, <2>3
  <2>4. QED
    BY <2>2, <2>3
<1>13. QED
  BY <1>11, <1>12
LEMMA ReleaseCounts ==
  ASSUME TableInv, CountInv, NEW i \in Call, Opened(i), LastRunning(i),
         NEW st \in {"success", "failure"}, NEW n \in Nat,
         apis[reserved[i]].lease > 0, applied' = applied,
         apis' = [apis EXCEPT ![reserved[i]] = ReleasedRow(apis[invocations[i].route], n)],
         attempts' = [attempts EXCEPT ![i][attempt[i]].status = st]
  PROVE  CountInv'
<1> USE DEF TableInv, CountInv
<1>1. PICK a0 \in Api : reserved[i] = a0 /\ invocations[i].route = a0
  BY DEF Opened
<1>2. /\ attempts' \in [Call -> Seq(AttemptRow)]
      /\ Len(attempts'[i]) = attempt[i]
      /\ \A k \in 1 .. attempt[i] : attempts'[i][k].status # "running"
      /\ \A j \in Call : j # i => attempts'[j] = attempts[j]
  BY EndCloses
<1>3. /\ Cardinality(Holders(a0)') = Cardinality(Holders(a0)) - 1
      /\ \A a \in Api : a # a0 => Holders(a)' = Holders(a)
  BY <1>1, <1>2, HoldersLose
<1>4. apis[a0] \in ApiRow /\ apis[a0].lease > 0
  BY <1>1 DEF TypeOK
<1>5. /\ apis'[a0] = ReleasedRow(apis[a0], n)
      /\ \A a \in Api : a # a0 => apis'[a] = apis[a]
  BY <1>1 DEF TypeOK
<1>6. OfflineThreshold' = OfflineThreshold
  BY DEF OfflineThreshold
<1>7. Agrees(apis'[a0], OfflineThreshold) /\ apis'[a0].lease = apis[a0].lease - 1
  <2> DEFINE l == apis[a0].lease - 1
             ss == ResolveApiStatus(apis[a0].enabled, l, apis[a0].max, n, OfflineThreshold)
  <2>1. apis'[a0] = [ enabled |-> apis[a0].enabled, max |-> apis[a0].max,
                      status |-> ss, lease |-> l, failure |-> n ]
    BY <1>4, <1>5, ReleasedFields
  <2> HIDE DEF l, ss
  <2>2. /\ apis'[a0].enabled = apis[a0].enabled /\ apis'[a0].max = apis[a0].max
        /\ apis'[a0].status = ss /\ apis'[a0].lease = l /\ apis'[a0].failure = n
    BY <2>1
  <2>3. ss = ResolveApiStatus(apis[a0].enabled, l, apis[a0].max, n, OfflineThreshold)
    BY DEF ss
  <2>4. Agrees(apis'[a0], OfflineThreshold)
    BY <2>2, <2>3 DEF Agrees
  <2>5. QED
    BY <2>2, <2>4 DEF l
<1>8. StatusAgreesWithCounters'
  BY <1>5, <1>6, <1>7 DEF StatusAgreesWithCounters, Agrees
<1>9. LeaseCountsRunningAttempts'
  <2> SUFFICES ASSUME NEW a \in Api PROVE apis'[a].lease = Cardinality(Holders(a)')
    BY DEF LeaseCountsRunningAttempts
  <2>1. apis[a].lease = Cardinality(Holders(a))
    BY DEF LeaseCountsRunningAttempts
  <2>2. CASE a # a0
    BY <1>3, <1>5, <2>1, <2>2
  <2>3. CASE a = a0
    BY <1>3, <1>7, <2>1, <2>3
  <2>4. QED
    BY <2>2, <2>3
<1>10. QED
  BY <1>8, <1>9

LEMMA CountStep == TableInv /\ CountInv /\ [Next]_vars => CountInv'
<1> SUFFICES ASSUME TableInv, CountInv, [Next]_vars PROVE CountInv'
  OBVIOUS
<1>1. ASSUME NEW i \in Call, CompleteInvocationSuccess(i) PROVE CountInv'
  <2>1. Opened(i) /\ LastRunning(i)
    BY <1>1 DEF TableInv, CallsInv, CallInv, CompleteInvocationSuccess, Holding
  <2>2. /\ apis[reserved[i]].lease > 0 /\ applied' = applied
        /\ apis' = [apis EXCEPT ![reserved[i]] = ReleasedRow(apis[invocations[i].route], 0)]
        /\ attempts' = [attempts EXCEPT ![i][attempt[i]].status = "success"]
    BY <1>1, <2>1 DEF CompleteInvocationSuccess, Opened
  <2>3. QED
    BY <2>1, <2>2, ReleaseCounts
<1>2. ASSUME NEW i \in Call, CompleteAttemptFailure(i) \/ FinishInternalFailure(i)
      PROVE  CountInv'
  <2> DEFINE row == apis[invocations[i].route]
             n == IF CountsTowardOffline(err[i]) THEN row.failure + 1 ELSE row.failure
  <2>1. Opened(i) /\ LastRunning(i)
    BY <1>2 DEF TableInv, CallsInv, CallInv, CompleteAttemptFailure,
                FinishInternalFailure, Holding
  <2>2. n \in Nat
    BY <2>1 DEF Opened, TableInv, TypeOK, ApiRow
  <2>3. FailAttempt(i)
    BY <1>2 DEF CompleteAttemptFailure, FinishInternalFailure
  <2>4. /\ apis[reserved[i]].lease > 0 /\ applied' = applied
        /\ apis' = [apis EXCEPT ![reserved[i]] = ReleasedRow(row, n)]
        /\ attempts' = [attempts EXCEPT ![i][attempt[i]].status = "failure"]
    BY <2>1, <2>3 DEF FailAttempt, Opened
  <2> HIDE DEF n
  <2>5. QED
    BY <2>1, <2>2, <2>4, ReleaseCounts
<1>3. CASE AdminSync
  <2>1. /\ apis' = SyncConfig(admin) /\ applied' = admin /\ admin \in Config
        /\ attempts' = attempts
    BY <1>3 DEF AdminSync, TableInv, TypeOK
  <2>2. OfflineThreshold' = admin.threshold
    BY <2>1, ConfigAssumption DEF OfflineThreshold
  <2>3. \A a \in Api : apis'[a].lease = apis[a].lease /\ Agrees(apis'[a], admin.threshold)
    BY <2>1, SyncKeepsCounters DEF TableInv, CountInv
  <2>4. \A a \in Api : Holders(a)' = Holders(a)
    BY <2>1 DEF Holders
  <2>5. QED
    BY <2>2, <2>3, <2>4
       DEF CountInv, StatusAgreesWithCounters, LeaseCountsRunningAttempts, Agrees
<1>4. CASE UNCHANGED <<applied, apis, attempts>>
  BY <1>4 DEF CountInv, StatusAgreesWithCounters, LeaseCountsRunningAttempts,
              Holders, OfflineThreshold
<1>5. QED
  <2>1. ASSUME NEW i \in Call,
               \/ Begin(i) \/ RejectInvocation(i) \/ ProviderAnswers(i)
               \/ CompleteInvocationFailure(i) \/ GiveUpRetry(i)
               \/ ReturnContextError(i) \/ Cancel(i) \/ Crash(i)
        PROVE  UNCHANGED <<applied, apis, attempts>>
    BY <2>1 DEF Begin, RejectInvocation, ProviderAnswers, ProviderSucceeds,
                ProviderFails, CompleteInvocationFailure, GiveUpRetry,
                ReturnContextError, Cancel, Crash, tables
  <2>2. CASE \/ \E c \in Config : EditConfig(c)
             \/ AdminLoad \/ UNCHANGED vars
    BY <1>4, <2>2 DEF EditConfig, AdminLoad, vars, tables
  <2>3. QED
    BY <1>1, <1>2, <1>3, <1>4, <2>1, <2>2, ReserveCounts DEF Next, CallStep

LEMMA InitCounts == Init => CountInv
<1> SUFFICES ASSUME Init PROVE CountInv
  OBVIOUS
<1>1. ASSUME NEW a \in Api PROVE Holders(a) = {}
  BY DEF Init, Holders
<1>2. \A a \in Api : apis[a] = NoApiRow
  BY DEF Init
<1>3. LeaseCountsRunningAttempts
  BY <1>1, <1>2, FS_EmptySet DEF LeaseCountsRunningAttempts, NoApiRow
<1>4. StatusAgreesWithCounters
  BY <1>2 DEF StatusAgreesWithCounters, ResolveApiStatus, NoApiRow
<1>5. QED
  BY <1>3, <1>4 DEF CountInv

LEMMA CountsHold == Spec => [](TableInv /\ CountInv)
<1>1. Init => TableInv /\ CountInv
  BY InitInv, InitCounts
<1>2. TableInv /\ CountInv /\ [Next]_vars => (TableInv /\ CountInv)'
  BY TableStep, CountStep
<1>3. QED
  BY <1>1, <1>2, PTL DEF Spec

(* The status column always agrees with the counters of its row.            *)
THEOREM StatusCorrect == Spec => []StatusAgreesWithCounters
<1>1. CountInv => StatusAgreesWithCounters
  BY DEF CountInv
<1>2. QED
  BY <1>1, CountsHold, PTL

(* No slot is counted twice, freed twice or freed on another API, for any   *)
(* number of callers, APIs and configuration changes.                       *)
THEOREM LeasesCorrect == Spec => []LeaseCountsRunningAttempts
<1>1. CountInv => LeaseCountsRunningAttempts
  BY DEF CountInv
<1>2. QED
  BY <1>1, CountsHold, PTL

-----------------------------------------------------------------------------
(* What a returned call has recorded.                                       *)

Settled(i) ==
  pc[i] = "returned" => ~HasOpenAttempt(i) /\ invocations[i].status # "running"

SettledInv == \A i \in Call : ~cancelled[i] => Settled(i)

(* The context of a call ends where calls may be cancelled, and for good.   *)
LEMMA ContextsEnd ==
  ASSUME [Next]_vars
  PROVE  \/ cancelled' = cancelled
         \/ MayCancel /\ \E i \in Call : cancelled' = [cancelled EXCEPT ![i] = TRUE]
  BY DEF Next, CallStep, ProviderAnswers, EditConfig, AdminLoad, AdminSync, Begin,
         RejectInvocation, ProviderSucceeds, ProviderFails, GiveUpRetry,
         ReturnContextError, Cancel, Crash, ReserveInvocation, ReserveRetryAttempt,
         ReserveSlot, CompleteInvocationSuccess, CompleteAttemptFailure,
         FinishInternalFailure, FailAttempt, CompleteInvocationFailure, vars

(* Only the transaction that records the outcome lets a call return whose   *)
(* context is not done.                                                     *)
LEMMA SettledStep ==
  ASSUME TableInv, SettledInv, [Next]_vars
  PROVE  SettledInv'
<1> SUFFICES ASSUME NEW j \in Call, ~cancelled'[j] PROVE Settled(j)'
  BY DEF SettledInv
<1>2. TypeOK /\ ~cancelled[j]
  <2>1. TypeOK
    BY DEF TableInv
  <2>2. cancelled \in [Call -> BOOLEAN]
    BY <2>1 DEF TypeOK
  <2>. QED BY <2>1, <2>2, ContextsEnd
<1>1. ~cancelled[j] /\ Settled(j) /\ CallInv(j) /\ TypeOK
  BY <1>2 DEF SettledInv, TableInv, CallsInv
<1>3. CASE pc'[j] # "returned"
  BY <1>1, <1>2, <1>3 DEF Settled
<1>4. CASE attempts'[j] = attempts[j] /\ invocations'[j] = invocations[j] /\ pc'[j] = pc[j]
  BY <1>1, <1>2, <1>4 DEF Settled, HasOpenAttempt
<1>5. ASSUME CompleteInvocationSuccess(j)
      PROVE  ~HasOpenAttempt(j)' /\ invocations'[j].status # "running"
  <2>1. Opened(j) /\ LastRunning(j)
    BY <1>1, <1>5 DEF CompleteInvocationSuccess, CallInv, Holding
  <2>2. /\ apis[reserved[j]].lease > 0
        /\ apis' = [apis EXCEPT ![reserved[j]] = ReleasedRow(apis[invocations[j].route], 0)]
        /\ attempts' = [attempts EXCEPT ![j][attempt[j]].status = "success"]
    BY <1>5, <2>1 DEF CompleteInvocationSuccess, Opened
  <2>3. /\ attempts' \in [Call -> Seq(AttemptRow)]
        /\ Len(attempts'[j]) = attempt[j]
        /\ \A k \in 1 .. attempt[j] : attempts'[j][k].status # "running"
    BY <1>1, <2>1, <2>2, EndCloses
  <2>4. invocations'[j].status = "success"
    BY <1>1, <1>5 DEF CompleteInvocationSuccess, TypeOK
  <2>5. QED
    BY <2>3, <2>4 DEF HasOpenAttempt
<1>6. ASSUME CompleteInvocationFailure(j)
      PROVE  ~HasOpenAttempt(j)' /\ invocations'[j].status # "running"
  <2>1. Opened(j) /\ ~LastRunning(j)
    BY <1>1, <1>6 DEF CompleteInvocationFailure, CallInv, Between
  <2>2. attempts' = attempts /\ invocations'[j].status = "failure"
    BY <1>1, <1>6 DEF CompleteInvocationFailure, TypeOK
  <2>3. ~HasOpenAttempt(j)
    BY <1>1, <2>1 DEF HasOpenAttempt, Opened, LastRunning, TypeOK
  <2>4. QED
    BY <2>2, <2>3 DEF HasOpenAttempt
<1>7. ASSUME NEW i \in Call,
             \/ Begin(i) \/ RejectInvocation(i) \/ ProviderAnswers(i)
             \/ GiveUpRetry(i) \/ ReturnContextError(i) \/ Crash(i)
      PROVE  \/ pc'[j] # "returned"
             \/ /\ attempts'[j] = attempts[j] /\ invocations'[j] = invocations[j]
                /\ pc'[j] = pc[j]
  <2>1. attempts' = attempts /\ invocations' = invocations
    BY <1>7 DEF Begin, RejectInvocation, ProviderAnswers, ProviderSucceeds,
                ProviderFails, GiveUpRetry, ReturnContextError, Crash, tables
  <2>2. i # j => pc'[j] = pc[j]
    BY <1>1, <1>7
       DEF Begin, RejectInvocation, ProviderAnswers, ProviderSucceeds,
           ProviderFails, GiveUpRetry, ReturnContextError, Crash, Goto, TypeOK
  <2>3. i = j => pc'[j] # "returned"
    BY <1>1, <1>7
       DEF Begin, RejectInvocation, ProviderAnswers, ProviderSucceeds,
           ProviderFails, GiveUpRetry, ReturnContextError, Crash, Goto, TypeOK
  <2>4. QED
    BY <2>1, <2>2, <2>3
<1>8. ASSUME NEW i \in Call, ReserveInvocation(i) \/ ReserveRetryAttempt(i)
      PROVE  \/ pc'[j] # "returned"
             \/ /\ attempts'[j] = attempts[j] /\ invocations'[j] = invocations[j]
                /\ pc'[j] = pc[j]
  <2>1. CASE i = j
    BY <1>1, <1>8, <2>1 DEF ReserveInvocation, ReserveRetryAttempt, Goto, TypeOK
  <2>2. CASE i # j
    <3>1. PICK a \in Api : ReserveSlot(i, a) /\ \E l : pc' = [pc EXCEPT ![i] = l]
      BY <1>8 DEF ReserveInvocation, ReserveRetryAttempt, Goto
    <3>2. pc'[j] = pc[j] /\ attempts'[j] = attempts[j] /\ invocations'[j] = invocations[j]
      BY <1>1, <2>2, <3>1 DEF ReserveSlot, TypeOK
    <3>3. QED
      BY <3>2
  <2>3. QED
    BY <2>1, <2>2
<1>9. ASSUME NEW i \in Call,
             \/ CompleteInvocationSuccess(i) \/ CompleteInvocationFailure(i)
             \/ CompleteAttemptFailure(i) \/ FinishInternalFailure(i)
      PROVE  \/ CompleteInvocationSuccess(j) \/ CompleteInvocationFailure(j)
             \/ pc'[j] # "returned"
             \/ /\ attempts'[j] = attempts[j] /\ invocations'[j] = invocations[j]
                /\ pc'[j] = pc[j]
  <2>1. CASE i = j
    BY <1>1, <1>9, <2>1 DEF CompleteAttemptFailure, FinishInternalFailure, Goto, TypeOK
  <2>2. CASE i # j
    BY <1>1, <1>9, <2>2
       DEF CompleteInvocationSuccess, CompleteInvocationFailure,
           CompleteAttemptFailure, FinishInternalFailure, FailAttempt, Goto, TypeOK
  <2>3. QED
    BY <2>1, <2>2
<1>10. CASE \/ \E c \in Config : EditConfig(c)
            \/ AdminLoad \/ AdminSync
            \/ UNCHANGED vars
  BY <1>4, <1>10 DEF EditConfig, AdminLoad, AdminSync, vars, tables, frames
<1>11. ASSUME NEW i \in Call, Cancel(i)
       PROVE  attempts'[j] = attempts[j] /\ invocations'[j] = invocations[j] /\ pc'[j] = pc[j]
  BY <1>11 DEF Cancel, tables, frames
<1>12. QED
  BY <1>2, <1>1, <1>3, <1>4, <1>5, <1>6, <1>7, <1>8, <1>9, <1>10, <1>11
     DEF Next, CallStep, Settled

LEMMA SettledAlways == Spec => []SettledInv
<1>1. Init => SettledInv
  BY DEF Init, SettledInv, Settled
<1>2. TableInv /\ SettledInv /\ [Next]_vars => SettledInv'
  BY SettledStep
<1>3. QED
  BY <1>1, <1>2, TablesFollowFrames, PTL DEF Spec

(* Slots and running invocations are left behind by cancelled calls and by  *)
(* crashes alone, whatever the other calls and the operator do.             *)
THEOREM LeaksAreCancelled == Spec => []OnlyCancelledLeak
<1>1. SettledInv => OnlyCancelledLeak
  BY DEF SettledInv, Settled, OnlyCancelledLeak
<1>2. QED
  BY <1>1, SettledAlways, PTL

NoneCancelled == \A i \in Call : ~cancelled[i]

LEMMA NobodyCancels ==
  ASSUME ~MayCancel PROVE Spec => []NoneCancelled
<1>1. Init => NoneCancelled
  BY DEF Init, NoneCancelled
<1>2. NoneCancelled /\ [Next]_vars => NoneCancelled'
  <2>1. [Next]_vars => cancelled' = cancelled
    BY ContextsEnd
  <2>2. QED
    BY <2>1 DEF NoneCancelled
<1>3. QED
  BY <1>1, <1>2, PTL DEF Spec

(* Where nobody cancels, every call that returns holds no slot and has its  *)
(* outcome in the invocations table, whatever the other calls, crashes of   *)
(* other processes and edits of model.json do.                              *)
THEOREM ReturnedIsSettled ==
  ASSUME ~MayCancel PROVE Spec => []ReturnedCallIsSettled
<1>1. SettledInv /\ NoneCancelled => ReturnedCallIsSettled
  BY DEF SettledInv, Settled, NoneCancelled, ReturnedCallIsSettled
<1>2. QED
  BY <1>1, SettledAlways, NobodyCancels, PTL
-----------------------------------------------------------------------------
(* Action properties.                                                       *)

LEMMA RunningFinite == IsFiniteSet(Running) /\ IsFiniteSet(Running')
<1>1. Running \subseteq Call /\ Running' \subseteq Call
  BY DEF Running
<1>2. QED
  BY <1>1, CallAssumption, FS_Subset

(* A reservation adds its own invocation, and no other, to the running ones.*)
LEMMA QuotaStep ==
  ASSUME TypeOK, NEW i \in Call, NEW a \in Api, ReserveSlot(i, a), cfg[i] \in Config
  PROVE  applied'.limit = NoLimit \/ Cardinality(Running') <= applied'.limit
<1>1. applied' = cfg[i] /\ cfg[i].limit \in Int \cup {NoLimit}
  BY ConfigAssumption DEF ReserveSlot, ConfigRecord
<1>2. \/ cfg[i].limit = NoLimit
      \/ ~(Cardinality(Running \ {i}) >= cfg[i].limit)
  BY DEF ReserveSlot, QuotaReached
<1>3. invocations' = [invocations EXCEPT ![i] = [status |-> "running", route |-> a]]
  BY DEF ReserveSlot
<1>4. Running' = (Running \ {i}) \cup {i}
  <2>1. \A j \in Call : j # i => invocations'[j] = invocations[j]
    BY <1>3 DEF TypeOK
  <2>2. invocations'[i].status = "running"
    BY <1>3 DEF TypeOK
  <2>3. QED
    BY <2>1, <2>2 DEF Running
<1>5. /\ Cardinality(Running') = Cardinality(Running \ {i}) + 1
      /\ Cardinality(Running \ {i}) \in Nat
  <2>1. IsFiniteSet(Running \ {i}) /\ i \notin Running \ {i}
    BY RunningFinite, FS_Difference
  <2>2. QED
    BY <1>4, <2>1, FS_AddElement, FS_CardinalityType
<1>6. QED
  BY <1>1, <1>2, <1>5

(* The only steps after which an invocation runs that did not run before    *)
(* are the reservations of its own call.                                    *)
LEMMA RunsByReserving ==
  ASSUME TypeOK, [Next]_vars, NEW i \in Call,
         invocations[i].status # "running", invocations'[i].status = "running"
  PROVE  ReserveInvocation(i) \/ ReserveRetryAttempt(i)
<1>1. ASSUME NEW j \in Call, ReserveInvocation(j) \/ ReserveRetryAttempt(j), j # i
      PROVE  FALSE
  <2>1. PICK a \in Api :
          invocations' = [invocations EXCEPT ![j] = [status |-> "running", route |-> a]]
    BY <1>1 DEF ReserveInvocation, ReserveRetryAttempt, ReserveSlot
  <2>2. invocations'[i] = invocations[i]
    BY <1>1, <2>1 DEF TypeOK
  <2>3. QED
    BY <2>2
<1>2. ASSUME NEW j \in Call, CompleteInvocationSuccess(j) \/ CompleteInvocationFailure(j)
      PROVE  FALSE
  <2>1. \/ invocations' = [invocations EXCEPT ![j].status = "success"]
        \/ invocations' = [invocations EXCEPT ![j].status = "failure"]
    BY <1>2 DEF CompleteInvocationSuccess, CompleteInvocationFailure
  <2>2. invocations \in [Call -> [status : InvocationStatus, route : Api \cup {AnyApi}]]
    BY DEF TypeOK
  <2>3. CASE i = j
    BY <2>1, <2>2, <2>3
  <2>4. CASE i # j
    BY <2>1, <2>2, <2>4
  <2>5. QED
    BY <2>3, <2>4
<1>3. ASSUME NEW j \in Call,
             \/ Begin(j) \/ RejectInvocation(j) \/ ProviderAnswers(j)
             \/ CompleteAttemptFailure(j) \/ FinishInternalFailure(j)
             \/ GiveUpRetry(j) \/ ReturnContextError(j) \/ Cancel(j) \/ Crash(j)
      PROVE  FALSE
  BY <1>3 DEF Begin, RejectInvocation, ProviderAnswers, ProviderSucceeds,
              ProviderFails, CompleteAttemptFailure, FinishInternalFailure,
              FailAttempt, GiveUpRetry, ReturnContextError, Cancel, Crash, tables
<1>4. CASE \/ \E c \in Config : EditConfig(c)
           \/ AdminLoad \/ AdminSync
           \/ UNCHANGED vars
  BY <1>4 DEF EditConfig, AdminLoad, AdminSync, vars, tables
<1>5. QED
  BY <1>1, <1>2, <1>3, <1>4 DEF Next, CallStep

(* No reservation, first or repeated, takes the running invocations over    *)
(* the limit of the configuration it synchronises.                          *)
THEOREM QuotaHolds == Spec => QuotaRespected
<1> DEFINE Within ==
      \A i \in Call :
        invocations[i].status # "running" /\ invocations'[i].status = "running" =>
          \/ applied'.limit = NoLimit
          \/ Cardinality(Running') <= applied'.limit
<1>1. TableInv /\ [Next]_vars => Within
  <2> SUFFICES ASSUME TableInv, [Next]_vars, NEW i \in Call,
                      invocations[i].status # "running",
                      invocations'[i].status = "running"
               PROVE  applied'.limit = NoLimit \/ Cardinality(Running') <= applied'.limit
    OBVIOUS
  <2>1. ReserveInvocation(i) \/ ReserveRetryAttempt(i)
    BY RunsByReserving DEF TableInv
  <2>2. PICK a \in Api : ReserveSlot(i, a)
    BY <2>1 DEF ReserveInvocation, ReserveRetryAttempt
  <2>3. cfg[i] \in Config
    BY <2>1, ReserveReady
  <2>4. QED
    BY <2>2, <2>3, QuotaStep DEF TableInv
<1>2. QED
  BY <1>1, TablesFollowFrames, PTL DEF Spec, QuotaRespected
(* A call on its way through finishInternalFailure carries the error that   *)
(* sent it there, which never counts against the API.                       *)
InternalInv == \A i \in Call : pc[i] = "internal" => err[i] = "internal"

LEMMA InternalStep == TypeOK /\ InternalInv /\ [Next]_vars => InternalInv'
<1> SUFFICES ASSUME TypeOK, InternalInv, [Next]_vars, NEW j \in Call
             PROVE  pc'[j] = "internal" => err'[j] = "internal"
  BY DEF InternalInv
<1>1. pc[j] = "internal" => err[j] = "internal"
  BY DEF InternalInv
<1>2. pc \in [Call -> PcLabel] /\ err \in [Call -> Error \cup {"none"}]
  BY DEF TypeOK
<1>3. ASSUME NEW i \in Call, ReserveInvocation(i) \/ ReserveRetryAttempt(i)
      PROVE  pc'[j] = "internal" => err'[j] = "internal"
  <2>1. \/ pc' = [pc EXCEPT ![i] = "invoke"] /\ err' = err
        \/ pc' = [pc EXCEPT ![i] = "internal"] /\ err' = [err EXCEPT ![i] = "internal"]
    BY <1>3 DEF ReserveInvocation, ReserveRetryAttempt, Goto
  <2>2. QED
    BY <1>1, <1>2, <2>1
<1>4. ASSUME NEW i \in Call, ProviderAnswers(i)
      PROVE  pc'[j] = "internal" => err'[j] = "internal"
  <2>1. \/ pc' = [pc EXCEPT ![i] = "succeeded"] /\ err' = err
        \/ pc' = [pc EXCEPT ![i] = "internal"] /\ err' = [err EXCEPT ![i] = "internal"]
        \/ \E e \in Failures :
             pc' = [pc EXCEPT ![i] = "failed"] /\ err' = [err EXCEPT ![i] = e]
    BY <1>4 DEF ProviderAnswers, ProviderSucceeds, ProviderFails, Goto
  <2>2. QED
    BY <1>1, <1>2, <2>1
<1>5. ASSUME NEW i \in Call, CompleteAttemptFailure(i) \/ FinishInternalFailure(i)
      PROVE  pc'[j] = "internal" => err'[j] = "internal"
  <2>1. /\ err' = [err EXCEPT ![i] = "none"]
        /\ \E l \in {"backoff", "finalize", "internal_finalize"} : pc' = [pc EXCEPT ![i] = l]
    BY <1>5 DEF CompleteAttemptFailure, FinishInternalFailure, FailAttempt, Goto
  <2>2. QED
    BY <1>1, <1>2, <2>1
<1>6. ASSUME NEW i \in Call,
             \/ Begin(i) \/ RejectInvocation(i) \/ CompleteInvocationSuccess(i)
             \/ GiveUpRetry(i) \/ CompleteInvocationFailure(i)
             \/ ReturnContextError(i) \/ Crash(i)
      PROVE  pc'[j] = "internal" => err'[j] = "internal"
  <2>1. /\ err' = err
        /\ \E l \in {"idle", "reserve", "finalize", "returned", "crashed"} :
             pc' = [pc EXCEPT ![i] = l]
    BY <1>6 DEF Begin, RejectInvocation, CompleteInvocationSuccess, GiveUpRetry,
                CompleteInvocationFailure, ReturnContextError, Crash, Goto
  <2>2. QED
    BY <1>1, <1>2, <2>1
<1>7. CASE \/ \E c \in Config : EditConfig(c)
           \/ AdminLoad \/ AdminSync
           \/ \E i \in Call : Cancel(i)
           \/ UNCHANGED vars
  BY <1>1, <1>7 DEF EditConfig, AdminLoad, AdminSync, Cancel, vars, frames
<1>8. QED
  BY <1>3, <1>4, <1>5, <1>6, <1>7 DEF Next, CallStep

-----------------------------------------------------------------------------
(* What one transaction does to the health of an API.                       *)

GoesOffline(a) == apis[a].status # "offline" /\ apis'[a].status = "offline"
ComesBack(a) == apis[a].status = "offline" /\ apis'[a].status # "offline"

(* A reservation takes a slot of an API that is not offline, and leaves it  *)
(* so.                                                                      *)
LEMMA ReservingKeepsHealth ==
  ASSUME TypeOK, NEW i \in Call, NEW b \in Api, ReserveSlot(i, b), cfg[i] \in Config,
         applied' = applied, NEW a \in Api
  PROVE  ~GoesOffline(a) /\ ~ComesBack(a)
<1>1. SyncConfig(cfg[i]) = apis
  BY DEF ReserveSlot, SyncConfig
<1>2. /\ apis' = [apis EXCEPT ![b] = LeasedRow(apis[b])]
      /\ apis[b].status # "offline"
  BY <1>1 DEF ReserveSlot, FirstEligible, Eligible
<1>3. CASE a # b
  BY <1>2, <1>3 DEF GoesOffline, ComesBack, TypeOK
<1>4. CASE a = b
  <2> DEFINE st == IF apis[b].lease + 1 >= apis[b].max THEN "leased" ELSE "available"
             l == apis[b].lease + 1
  <2>1. apis[b] \in ApiRow /\ apis'[b] = LeasedRow(apis[b])
    BY <1>2 DEF TypeOK
  <2>2. apis'[b] = [ enabled |-> apis[b].enabled, max |-> apis[b].max, status |-> st,
                     lease |-> l, failure |-> apis[b].failure ]
    BY <2>1, LeasedFields
  <2>3. st # "offline"
    OBVIOUS
  <2> HIDE DEF st, l
  <2>4. apis'[b].status # "offline"
    BY <2>2, <2>3
  <2>5. QED
    BY <1>2, <1>4, <2>4 DEF GoesOffline, ComesBack
<1>5. QED
  BY <1>3, <1>4

(* A release with the failure count n changes the health of the API it      *)
(* frees only if n crosses the threshold.                                   *)
LEMMA ReleasingHealth ==
  ASSUME TypeOK, StatusAgreesWithCounters, NEW b \in Api, NEW n \in Nat,
         apis[b].lease > 0, apis' = [apis EXCEPT ![b] = ReleasedRow(apis[b], n)],
         NEW a \in Api
  PROVE  /\ GoesOffline(a) => a = b /\ n > apis[b].failure
         /\ ComesBack(a) => a = b /\ n < apis[b].failure
<1>1. CASE a # b
  BY <1>1 DEF GoesOffline, ComesBack, TypeOK
<1>2. CASE a = b
  <2> DEFINE row == apis[b]
             l == row.lease - 1
             t == OfflineThreshold
             st == ResolveApiStatus(row.enabled, l, row.max, n, t)
  <2>1. row \in ApiRow /\ apis'[b] = ReleasedRow(row, n)
    BY DEF TypeOK
  <2>2. apis'[b] = [ enabled |-> row.enabled, max |-> row.max, status |-> st,
                     lease |-> l, failure |-> n ]
    BY <2>1, ReleasedFields
  <2>3. row.status = ResolveApiStatus(row.enabled, row.lease, row.max, row.failure, t)
    BY DEF StatusAgreesWithCounters
  <2>4. st = ResolveApiStatus(row.enabled, l, row.max, n, t)
    OBVIOUS
  <2>5. t \in Nat /\ row.failure \in Nat
    BY ConfigAssumption, <2>1 DEF OfflineThreshold, TypeOK, ConfigRecord, ApiRow
  <2> HIDE DEF st, t, l, row
  <2>6. apis'[b].status = st
    BY <2>2
  <2>7. /\ row.status # "offline" /\ st = "offline" => n > row.failure
        /\ row.status = "offline" /\ st # "offline" => n < row.failure
    BY <2>3, <2>4, <2>5 DEF ResolveApiStatus
  <2>8. QED
    BY <1>2, <2>6, <2>7 DEF GoesOffline, ComesBack, row
<1>3. QED
  BY <1>1, <1>2

(* The causes HealthChangesForCause allows.                                 *)
FailedOn(a) ==
  \E i \in Call : /\ pc[i] = "failed" /\ pc'[i] # "failed"
                  /\ reserved[i] = a
                  /\ err[i] \in {"unreachable", "timeout"}
SucceededOn(a) ==
  \E i \in Call : /\ pc[i] = "succeeded" /\ pc'[i] = "returned"
                  /\ reserved[i] = a

ForCause(a) == (GoesOffline(a) => FailedOn(a)) /\ (ComesBack(a) => SucceededOn(a))

LEMMA HealthStep ==
  ASSUME TableInv, CountInv, InternalInv, [Next]_vars, applied' = applied, NEW a \in Api
  PROVE  ForCause(a)
<1> USE DEF TableInv, CountInv
<1>1. ASSUME NEW i \in Call, ReserveInvocation(i) \/ ReserveRetryAttempt(i)
      PROVE  ForCause(a)
  <2>1. PICK b \in Api : ReserveSlot(i, b)
    BY <1>1 DEF ReserveInvocation, ReserveRetryAttempt
  <2>2. cfg[i] \in Config
    BY <1>1, ReserveReady
  <2>3. QED
    BY <2>1, <2>2, ReservingKeepsHealth DEF ForCause
<1>2. ASSUME NEW i \in Call, CompleteInvocationSuccess(i)
      PROVE  ForCause(a)
  <2>1. Opened(i) /\ pc[i] = "succeeded" /\ pc'[i] = "returned"
    BY <1>2 DEF CompleteInvocationSuccess, CallsInv, CallInv, Holding, Goto, TypeOK
  <2>2. PICK b \in Api : reserved[i] = b /\ invocations[i].route = b
    BY <2>1 DEF Opened
  <2>3. apis[b].lease > 0 /\ apis' = [apis EXCEPT ![b] = ReleasedRow(apis[b], 0)]
    BY <1>2, <2>2 DEF CompleteInvocationSuccess
  <2>4. /\ GoesOffline(a) => a = b /\ 0 > apis[b].failure
        /\ ComesBack(a) => a = b
    BY <2>3, ReleasingHealth
  <2>5. apis[b].failure \in Nat
    BY DEF TypeOK, ApiRow
  <2>6. QED
    BY <2>1, <2>2, <2>4, <2>5 DEF ForCause, SucceededOn
<1>3. ASSUME NEW i \in Call, CompleteAttemptFailure(i) \/ FinishInternalFailure(i)
      PROVE  ForCause(a)
  <2> DEFINE n(b) == IF CountsTowardOffline(err[i]) THEN apis[b].failure + 1
                     ELSE apis[b].failure
  <2>1. Opened(i)
    BY <1>3 DEF CompleteAttemptFailure, FinishInternalFailure, CallsInv, CallInv, Holding
  <2>2. PICK b \in Api : reserved[i] = b /\ invocations[i].route = b
    BY <2>1 DEF Opened
  <2>3. apis[b].lease > 0 /\ apis' = [apis EXCEPT ![b] = ReleasedRow(apis[b], n(b))]
    BY <1>3, <2>2 DEF CompleteAttemptFailure, FinishInternalFailure, FailAttempt
  <2>4. apis[b].failure \in Nat
    BY DEF TypeOK, ApiRow
  <2>5. n(b) \in Nat
    BY <2>4
  <2>6. /\ GoesOffline(a) => a = b /\ n(b) > apis[b].failure
        /\ ComesBack(a) => a = b /\ n(b) < apis[b].failure
    <3> HIDE DEF n
    <3> QED
      BY <2>3, <2>5, ReleasingHealth
  <2>7. ~ComesBack(a)
    BY <2>4, <2>6
  <2>8. ASSUME GoesOffline(a) PROVE FailedOn(a)
    <3>1. a = b /\ CountsTowardOffline(err[i])
      BY <2>4, <2>6, <2>8
    <3>2. err[i] \in {"unreachable", "timeout"}
      BY <3>1 DEF CountsTowardOffline, Retryable
    <3>3. pc[i] = "failed"
      BY <1>3, <3>2 DEF CompleteAttemptFailure, FinishInternalFailure, InternalInv
    <3>4. pc'[i] # "failed"
      BY <1>3 DEF CompleteAttemptFailure, FinishInternalFailure, Goto, TypeOK
    <3>5. QED
      BY <2>2, <3>1, <3>2, <3>3, <3>4 DEF FailedOn
  <2>9. QED
    BY <2>7, <2>8 DEF ForCause
<1>4. CASE apis' = apis
  BY <1>4 DEF ForCause, GoesOffline, ComesBack
<1>5. ASSUME AdminSync PROVE apis' = apis
  BY <1>5 DEF AdminSync, SyncConfig
<1>6. ASSUME NEW i \in Call,
             \/ Begin(i) \/ RejectInvocation(i) \/ ProviderAnswers(i)
             \/ CompleteInvocationFailure(i) \/ GiveUpRetry(i)
             \/ ReturnContextError(i) \/ Cancel(i) \/ Crash(i)
      PROVE  apis' = apis
  BY <1>6 DEF Begin, RejectInvocation, ProviderAnswers, ProviderSucceeds,
              ProviderFails, CompleteInvocationFailure, GiveUpRetry,
              ReturnContextError, Cancel, Crash, tables
<1>7. CASE \/ \E c \in Config : EditConfig(c)
           \/ AdminLoad \/ UNCHANGED vars
  BY <1>4, <1>7 DEF EditConfig, AdminLoad, vars, tables
<1>8. QED
  BY <1>1, <1>2, <1>3, <1>4, <1>5, <1>6, <1>7 DEF Next, CallStep

(* Under one configuration the health column follows the channel: an error  *)
(* of the channel takes an API out, a success on it brings it back, and no  *)
(* other transaction of any caller does either.                             *)
THEOREM HealthFollowsChannel == Spec => HealthChangesForCause
<1> DEFINE Step ==
      applied' = applied =>
        \A a \in Api :
          /\ apis[a].status # "offline" /\ apis'[a].status = "offline" =>
               \E i \in Call : /\ pc[i] = "failed" /\ pc'[i] # "failed"
                               /\ reserved[i] = a
                               /\ err[i] \in {"unreachable", "timeout"}
          /\ apis[a].status = "offline" /\ apis'[a].status # "offline" =>
               \E i \in Call : /\ pc[i] = "succeeded" /\ pc'[i] = "returned"
                               /\ reserved[i] = a
<1>1. Init => InternalInv
  BY DEF Init, InternalInv
<1>2. TableInv /\ CountInv => TypeOK
  BY DEF TableInv
<1>3. TypeOK /\ InternalInv /\ [Next]_vars => InternalInv'
  BY InternalStep
<1>4. TableInv /\ CountInv /\ InternalInv /\ [Next]_vars => Step
  BY HealthStep DEF ForCause, GoesOffline, ComesBack, FailedOn, SucceededOn
<1>5. QED
  BY <1>1, <1>2, <1>3, <1>4, CountsHold, PTL DEF Spec, HealthChangesForCause
-----------------------------------------------------------------------------
(* The gateway implements SlotPool.                                         *)

(* A call holds a slot exactly while its last attempt runs, and it is then  *)
(* the slot of the reservation.                                             *)
LEMMA SlotOf ==
  ASSUME TypeOK, NEW i \in Call, Opened(i) \/ Unopened(i)
  PROVE  /\ Holds[i] = IF Opened(i) /\ LastRunning(i) THEN reserved[i] ELSE AnyApi
         /\ Outcomes[i] = invocations[i].status
<1>1. HasOpenAttempt(i) <=> Opened(i) /\ LastRunning(i)
  <2>1. CASE Unopened(i)
    BY <2>1 DEF Unopened, HasOpenAttempt, Opened
  <2>2. CASE Opened(i)
    <3>1. DOMAIN attempts[i] = 1 .. Len(attempts[i])
      BY DEF TypeOK
    <3>2. attempt[i] \in 1 .. Len(attempts[i])
      BY <2>2 DEF Opened, TypeOK
    <3>3. QED
      BY <2>2, <3>1, <3>2 DEF Opened, HasOpenAttempt, LastRunning
  <2>3. QED
    BY <2>1, <2>2
<1>2. Opened(i) => invocations[i].route = reserved[i]
  BY DEF Opened
<1>3. QED
  BY <1>1, <1>2 DEF Holds, Outcomes

LEMMA OpenedOrNot == ASSUME TableInv, NEW i \in Call PROVE Opened(i) \/ Unopened(i)
  BY DEF TableInv, CallsInv, CallInv, TypeOK, PcLabel, Holding, Between, Gone

(* The instance carries its own copy of Cardinality.                        *)
LEMMA SameCardinality == ASSUME NEW S PROVE Slots!Cardinality(S) = Cardinality(S)
  BY DEF Slots!Cardinality, Cardinality

LEMMA CapacityType == TypeOK => Capacities \in [Api -> Nat]
  BY DEF Capacities, TypeOK, ApiRow

LEMMA NextCapacityType == TypeOK' => Capacities' \in [Api -> Nat]
  BY DEF Capacities, TypeOK, ApiRow

(* The slots of SlotPool are the rows the store counts.                     *)
LEMMA SameHolders ==
  ASSUME TableInv, NEW a \in Api PROVE Slots!Holders(a) = Holders(a)
<1>1. ASSUME NEW i \in Call PROVE Holds[i] = a <=> i \in Holders(a)
  <2>1. Opened(i) \/ Unopened(i)
    BY OpenedOrNot
  <2>2. i \in Holders(a) <=> Opened(i) /\ LastRunning(i) /\ reserved[i] = a
    BY <2>1, HolderOf DEF TableInv
  <2>3. Holds[i] = IF Opened(i) /\ LastRunning(i) THEN reserved[i] ELSE AnyApi
    BY <2>1, SlotOf DEF TableInv
  <2>4. QED
    BY <2>2, <2>3, ApiAssumption
<1>2. Holders(a) \subseteq Call
  BY DEF Holders
<1>3. QED
  BY <1>1, <1>2 DEF Slots!Holders

(* A step that touches neither the attempts nor the invocations is a change *)
(* of capacity at most.                                                     *)
LEMMA SlotsUntouched ==
  ASSUME TypeOK', UNCHANGED <<attempts, invocations>>
  PROVE  Slots!Next
<1>1. UNCHANGED <<Holds, Outcomes>>
  BY DEF Holds, Outcomes, HasOpenAttempt
<1>2. Capacities' \in [Api -> Nat]
  BY NextCapacityType
<1>3. QED
  BY <1>1, <1>2 DEF Slots!Next, Slots!Resize

(* Of a step that changes the rows of one call, what the others hold.       *)
LEMMA OtherSlots ==
  ASSUME NEW i \in Call, NEW h, NEW o,
         \A j \in Call : j # i => attempts'[j] = attempts[j] /\ invocations'[j] = invocations[j],
         Holds'[i] = h, Outcomes'[i] = o
  PROVE  Holds' = [Holds EXCEPT ![i] = h] /\ Outcomes' = [Outcomes EXCEPT ![i] = o]
<1>1. \A j \in Call : j # i => Holds'[j] = Holds[j] /\ Outcomes'[j] = Outcomes[j]
  BY DEF Holds, Outcomes, HasOpenAttempt
<1>2. /\ Holds = [j \in Call |-> Holds[j]] /\ Holds' = [j \in Call |-> Holds'[j]]
      /\ Outcomes = [j \in Call |-> Outcomes[j]] /\ Outcomes' = [j \in Call |-> Outcomes'[j]]
  BY DEF Holds, Outcomes
<1> HIDE DEF Holds, Outcomes
<1>3. QED
  BY <1>1, <1>2

LEMMA ReserveAcquires ==
  ASSUME TableInv, TableInv', CountInv,
         NEW i \in Call, ReserveInvocation(i) \/ ReserveRetryAttempt(i)
  PROVE  Slots!Next
<1> USE DEF TableInv
<1>1. PICK a \in Api : ReserveSlot(i, a)
  BY DEF ReserveInvocation, ReserveRetryAttempt
<1>2. /\ cfg[i] \in Config /\ attempt[i] < cfg[i].maxAttempts
      /\ Unopened(i) \/ (Opened(i) /\ ~LastRunning(i))
  BY ReserveReady
<1>3. Opened(i)' /\ LastRunning(i)' /\ reserved'[i] = a
  BY <1>1, <1>2, ReserveOpens DEF ReserveSlot
<1>4. invocations' = [invocations EXCEPT ![i] = [status |-> "running", route |-> a]]
  BY <1>1 DEF ReserveSlot
<1>5. Holds'[i] = a /\ Outcomes'[i] = "running"
  <2>1. /\ invocations'[i].status = "running" /\ invocations'[i].route = a
    BY <1>4 DEF TypeOK
  <2>2. attempt'[i] \in DOMAIN attempts'[i]
    BY <1>3 DEF Opened, TypeOK
  <2>3. HasOpenAttempt(i)'
    BY <1>3, <2>2 DEF HasOpenAttempt, LastRunning
  <2>4. QED
    BY <2>1, <2>3 DEF Holds, Outcomes
<1>6. \A j \in Call : j # i => attempts'[j] = attempts[j] /\ invocations'[j] = invocations[j]
  BY <1>1, <1>4 DEF ReserveSlot, TypeOK
<1>7. Holds' = [Holds EXCEPT ![i] = a] /\ Outcomes' = [Outcomes EXCEPT ![i] = "running"]
  BY <1>5, <1>6, OtherSlots
<1>8. Holds[i] = AnyApi /\ Outcomes[i] \in {"none", "running"}
  <2>1. Holds[i] = AnyApi /\ Outcomes[i] = invocations[i].status
    BY <1>2, SlotOf DEF Opened, Unopened
  <2>2. invocations[i].status \in {"none", "running"}
    BY DEF ReserveInvocation, ReserveRetryAttempt, CallsInv, CallInv, Unopened, Between
  <2>3. QED
    BY <2>1, <2>2
<1>9. Cardinality(Slots!Holders(a)) < Capacities'[a]
  <2> DEFINE row == SyncConfig(cfg[i])[a]
             st == IF row.lease + 1 >= row.max THEN "leased" ELSE "available"
             l == row.lease + 1
  <2>1. /\ row \in ApiRow /\ row.enabled /\ row.lease < row.max
        /\ apis'[a] = LeasedRow(row)
    BY <1>1, <1>2, SyncedType DEF ReserveSlot, FirstEligible, Eligible
  <2>2. row.lease = Cardinality(Slots!Holders(a))
    BY <1>2, SyncKeepsCounters, SameHolders DEF CountInv, LeaseCountsRunningAttempts
  <2>3. st # "offline"
    OBVIOUS
  <2>4. apis'[a] = [ enabled |-> row.enabled, max |-> row.max, status |-> st,
                     lease |-> l, failure |-> row.failure ]
    BY <2>1, LeasedFields
  <2> HIDE DEF row, st, l
  <2>5. apis'[a].enabled /\ apis'[a].status # "offline" /\ apis'[a].max = row.max
    BY <2>1, <2>3, <2>4
  <2>6. Capacities'[a] = row.max
    BY <2>5 DEF Capacities
  <2>7. QED
    BY <2>1, <2>2, <2>6
<1>10. Slots!Acquire(i, a)
  <2>1. Slots!Cardinality(Slots!Holders(a)) < Capacities'[a]
    BY <1>9, SameCardinality
  <2>2. Slots!Resize
    BY NextCapacityType DEF Slots!Resize
  <2>3. QED
    BY <1>7, <1>8, <2>1, <2>2 DEF Slots!Acquire
<1>11. QED
  BY <1>10 DEF Slots!Next

(* The end of an attempt gives its slot back.                               *)
LEMMA EndReleases ==
  ASSUME TableInv, TableInv', NEW i \in Call, Opened(i), LastRunning(i),
         NEW st \in {"success", "failure"}, NEW n \in Nat,
         apis[reserved[i]].lease > 0,
         apis' = [apis EXCEPT ![reserved[i]] = ReleasedRow(apis[invocations[i].route], n)],
         attempts' = [attempts EXCEPT ![i][attempt[i]].status = st],
         \A j \in Call : j # i => invocations'[j] = invocations[j]
  PROVE  /\ Holds[i] # AnyApi
         /\ Holds' = [Holds EXCEPT ![i] = AnyApi]
         /\ Outcomes' = [Outcomes EXCEPT ![i] = invocations'[i].status]
<1>1. Holds[i] # AnyApi
  <2>1. Holds[i] = reserved[i] /\ reserved[i] \in Api
    BY SlotOf DEF TableInv, Opened
  <2>2. QED
    BY <2>1, ApiAssumption
<1>2. /\ attempts' \in [Call -> Seq(AttemptRow)]
      /\ Len(attempts'[i]) = attempt[i]
      /\ \A k \in 1 .. attempt[i] : attempts'[i][k].status # "running"
      /\ \A j \in Call : j # i => attempts'[j] = attempts[j]
  BY EndCloses DEF TableInv
<1>3. Holds'[i] = AnyApi /\ Outcomes'[i] = invocations'[i].status
  BY <1>2 DEF Holds, Outcomes, HasOpenAttempt
<1>4. QED
  BY <1>1, <1>2, <1>3, OtherSlots

LEMMA SuccessSucceeds ==
  ASSUME TableInv, TableInv', NEW i \in Call, CompleteInvocationSuccess(i)
  PROVE  Slots!Next
<1> USE DEF TableInv
<1>1. Opened(i) /\ LastRunning(i)
  BY DEF CompleteInvocationSuccess, CallsInv, CallInv, Holding
<1>2. /\ apis[reserved[i]].lease > 0
      /\ apis' = [apis EXCEPT ![reserved[i]] = ReleasedRow(apis[invocations[i].route], 0)]
      /\ attempts' = [attempts EXCEPT ![i][attempt[i]].status = "success"]
  BY <1>1 DEF CompleteInvocationSuccess, Opened
<1>3. /\ invocations'[i].status = "success"
      /\ \A j \in Call : j # i => invocations'[j] = invocations[j]
  BY DEF CompleteInvocationSuccess, TypeOK
<1>4. /\ Holds[i] # AnyApi
      /\ Holds' = [Holds EXCEPT ![i] = AnyApi]
      /\ Outcomes' = [Outcomes EXCEPT ![i] = "success"]
  BY <1>1, <1>2, <1>3, EndReleases
<1>5. Slots!Succeed(i)
  BY <1>4, NextCapacityType DEF Slots!Succeed, Slots!Resize
<1>6. QED
  BY <1>5 DEF Slots!Next

LEMMA FailureReleases ==
  ASSUME TableInv, TableInv', NEW i \in Call,
         CompleteAttemptFailure(i) \/ FinishInternalFailure(i)
  PROVE  Slots!Next
<1> USE DEF TableInv
<1> DEFINE row == apis[invocations[i].route]
           n == IF CountsTowardOffline(err[i]) THEN row.failure + 1 ELSE row.failure
<1>1. Opened(i) /\ LastRunning(i)
  BY DEF CompleteAttemptFailure, FinishInternalFailure, CallsInv, CallInv, Holding
<1>2. /\ apis[reserved[i]].lease > 0
      /\ apis' = [apis EXCEPT ![reserved[i]] = ReleasedRow(row, n)]
      /\ attempts' = [attempts EXCEPT ![i][attempt[i]].status = "failure"]
      /\ invocations' = invocations
  BY <1>1 DEF CompleteAttemptFailure, FinishInternalFailure, FailAttempt, Opened
<1>3. n \in Nat
  BY <1>1 DEF Opened, TypeOK, ApiRow
<1> HIDE DEF n
<1>4. /\ Holds[i] # AnyApi
      /\ Holds' = [Holds EXCEPT ![i] = AnyApi]
  BY <1>1, <1>2, <1>3, EndReleases
<1>5. Outcomes' = Outcomes
  BY <1>2 DEF Outcomes
<1>6. Slots!Release(i)
  BY <1>4, <1>5, NextCapacityType DEF Slots!Release, Slots!Resize
<1>7. QED
  BY <1>6 DEF Slots!Next

LEMMA FinalizeFails ==
  ASSUME TableInv, TableInv', NEW i \in Call, CompleteInvocationFailure(i)
  PROVE  Slots!Next
<1> USE DEF TableInv
<1>1. Opened(i) /\ ~LastRunning(i) /\ invocations[i].status = "running"
  BY DEF CompleteInvocationFailure, CallsInv, CallInv, Between
<1>2. /\ invocations' = [invocations EXCEPT ![i].status = "failure"]
      /\ attempts' = attempts /\ apis' = apis
  BY DEF CompleteInvocationFailure
<1>3. Holds[i] = AnyApi /\ Outcomes[i] = "running"
  BY <1>1, SlotOf
<1>4. \A j \in Call : /\ invocations'[j].status = IF j = i THEN "failure"
                                                 ELSE invocations[j].status
                      /\ invocations'[j].route = invocations[j].route
  BY <1>2 DEF TypeOK
<1>5. Holds' = Holds /\ Capacities' = Capacities
  BY <1>2, <1>4 DEF Holds, HasOpenAttempt, Capacities
<1>6. Outcomes' = [Outcomes EXCEPT ![i] = "failure"]
  BY <1>4 DEF Outcomes
<1>7. Slots!Fail(i)
  BY <1>3, <1>5, <1>6 DEF Slots!Fail
<1>8. QED
  BY <1>7 DEF Slots!Next

LEMMA SlotStep ==
  ASSUME TableInv, TableInv', CountInv, [Next]_vars
  PROVE  [Slots!Next]_(Slots!vars)
<1>1. ASSUME UNCHANGED <<attempts, invocations>> PROVE Slots!Next
  BY <1>1, SlotsUntouched DEF TableInv
<1>2. ASSUME NEW i \in Call,
             \/ Begin(i) \/ RejectInvocation(i) \/ ProviderAnswers(i)
             \/ GiveUpRetry(i) \/ ReturnContextError(i) \/ Cancel(i) \/ Crash(i)
      PROVE  UNCHANGED <<attempts, invocations>>
  BY <1>2 DEF Begin, RejectInvocation, ProviderAnswers, ProviderSucceeds,
              ProviderFails, GiveUpRetry, ReturnContextError, Cancel, Crash, tables
<1>3. CASE \/ \E c \in Config : EditConfig(c)
           \/ AdminLoad \/ AdminSync \/ UNCHANGED vars
  BY <1>1, <1>3 DEF EditConfig, AdminLoad, AdminSync, vars, tables
<1>4. QED
  BY <1>1, <1>2, <1>3, ReserveAcquires, SuccessSucceeds, FailureReleases, FinalizeFails
     DEF Next, CallStep

(* The tables, counters and transactions of the store amount to a pool of   *)
(* slots: grants below capacity, at most one slot per call, success only by *)
(* a holder, final outcomes.                                                *)
THEOREM ImplementsPool == Spec => ImplementsSlotPool
<1>1. Init => Slots!Init
  <2> SUFFICES ASSUME Init PROVE Slots!Init
    OBVIOUS
  <2>1. /\ Holds = [i \in Call |-> AnyApi]
        /\ Outcomes = [i \in Call |-> "none"]
    BY DEF Init, Holds, Outcomes, HasOpenAttempt
  <2>2. Capacities \in [Api -> Nat]
    BY InitInv, CapacityType DEF TableInv
  <2>3. QED
    BY <2>1, <2>2 DEF Slots!Init
<1>2. TableInv /\ TableInv' /\ CountInv /\ [Next]_vars => [Slots!Next]_(Slots!vars)
  BY SlotStep
<1>3. QED
  BY <1>1, <1>2, CountsHold, PTL DEF Spec, ImplementsSlotPool, Slots!Spec

=============================================================================
