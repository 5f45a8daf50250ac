-------------------------- MODULE JobPipelineProofs --------------------------
(***************************************************************************)
(* Theorems about JobPipeline, for every set of requests, every scenario   *)
(* they target and every bound on retries, restarts and faults.            *)
(***************************************************************************)
EXTENDS JobPipeline, FiniteSetTheorems, TLAPS

-----------------------------------------------------------------------------
(* The job list.  After these lemmas In and Once are all that is used of it.  *)

\* RPUSH puts j at the end and moves nothing else.
LEMMA AppendLemma ==
    ASSUME NEW q \in Seq(Jobs), NEW j \in Jobs
    PROVE  /\ Append(q, j) \in Seq(Jobs)
           /\ \A i : In(Append(q, j), i) <=> In(q, i) \/ i = j
           /\ \A i : i # j /\ Once(q, i) => Once(Append(q, j), i)
           /\ ~In(q, j) => Once(Append(q, j), j)
<1> DEFINE r == Append(q, j)
<1>1. /\ r \in Seq(Jobs)
      /\ Len(r) = Len(q) + 1
      /\ Len(q) \in Nat
      /\ \A k \in 1 .. Len(q) : r[k] = q[k]
      /\ r[Len(q) + 1] = j
  OBVIOUS
<1>2. \A i : In(r, i) <=> In(q, i) \/ i = j
  BY <1>1 DEF In
<1>3. \A i : i # j /\ Once(q, i) => Once(r, i)
  BY <1>1 DEF Once
<1>4. ~In(q, j) => Once(r, j)
  BY <1>1 DEF Once, In
<1> QED BY <1>1, <1>2, <1>3, <1>4

\* The repeated transaction adds j and only j.
LEMMA AppendTwiceLemma ==
    ASSUME NEW q \in Seq(Jobs), NEW j \in Jobs
    PROVE  /\ q \o <<j, j>> \in Seq(Jobs)
           /\ \A i : In(q \o <<j, j>>, i) <=> In(q, i) \/ i = j
           /\ \A i : i # j /\ Once(q, i) => Once(q \o <<j, j>>, i)
<1> DEFINE r == q \o <<j, j>>
<1>1. /\ r \in Seq(Jobs)
      /\ Len(r) = Len(q) + 2
      /\ Len(q) \in Nat
      /\ \A k \in 1 .. Len(q) : r[k] = q[k]
      /\ r[Len(q) + 1] = j
      /\ r[Len(q) + 2] = j
  OBVIOUS
<1>2. \A i : In(r, i) <=> In(q, i) \/ i = j
  BY <1>1 DEF In
<1>3. \A i : i # j /\ Once(q, i) => Once(r, i)
  BY <1>1 DEF Once
<1> QED BY <1>1, <1>2, <1>3

\* BLPOP takes the head and nothing else.
LEMMA TailLemma ==
    ASSUME NEW q \in Seq(Jobs), q # <<>>
    PROVE  /\ Tail(q) \in Seq(Jobs)
           /\ Head(q) \in Jobs
           /\ In(q, Head(q))
           /\ \A i : In(Tail(q), i) => In(q, i)
           /\ \A i : i # Head(q) /\ In(q, i) => In(Tail(q), i)
           /\ \A i : Once(q, i) => Once(Tail(q), i)
           /\ Once(q, Head(q)) => ~In(Tail(q), Head(q))
<1>1. /\ Tail(q) \in Seq(Jobs)
      /\ Head(q) \in Jobs
      /\ Len(q) \in Nat /\ Len(q) >= 1
      /\ Len(Tail(q)) = Len(q) - 1
      /\ \A k \in 1 .. Len(q) - 1 : Tail(q)[k] = q[k + 1]
      /\ Head(q) = q[1]
  OBVIOUS
<1>2. In(q, Head(q))
  BY <1>1 DEF In
<1>3. \A i : In(Tail(q), i) => In(q, i)
  BY <1>1 DEF In
<1>4. ASSUME NEW i, i # Head(q), In(q, i)
      PROVE  In(Tail(q), i)
  <2>1. PICK k \in 1 .. Len(q) : q[k] = i
    BY <1>4 DEF In
  <2>2. k - 1 \in 1 .. Len(Tail(q)) /\ Tail(q)[k - 1] = i
    BY <2>1, <1>1, <1>4
  <2> QED BY <2>2 DEF In
<1>5. \A i : Once(q, i) => Once(Tail(q), i)
  BY <1>1 DEF Once
<1>6. Once(q, Head(q)) => ~In(Tail(q), Head(q))
  BY <1>1 DEF Once, In
<1> QED BY <1>1, <1>2, <1>3, <1>4, <1>5, <1>6

\* LREM list 0 j takes every occurrence of j and nothing else.
LEMMA LRemLemma ==
    ASSUME NEW q \in Seq(Jobs), NEW j \in Jobs, NEW r \in LRem(q, j)
    PROVE  /\ r \in Seq(Jobs)
           /\ ~In(r, j)
           /\ \A i : i # j => (In(r, i) <=> In(q, i))
           /\ \A i : i # j /\ Once(q, i) => Once(r, i)
<1> DEFINE kept == {k \in 1 .. Len(q) : q[k] # j}
           places == 1 .. Cardinality(kept)
<1>1. IsFiniteSet(kept) /\ Cardinality(kept) \in Nat
  <2>1. IsFiniteSet(1 .. Len(q))
    BY FS_Interval
  <2>2. IsFiniteSet(kept)
    BY <2>1, FS_Subset, kept \subseteq 1 .. Len(q)
  <2> QED BY <2>2, FS_CardinalityType
<1>2. PICK g \in [places -> kept] :
         /\ \A a, b \in places : a < b => g[a] < g[b]
         /\ \A k \in kept : \E a \in places : g[a] = k
         /\ r = [a \in places |-> q[g[a]]]
  BY DEF LRem
<1> HIDE DEF places
<1>3. /\ places = 1 .. Cardinality(kept)
      /\ \A a \in places : g[a] \in 1 .. Len(q) /\ q[g[a]] # j
      /\ \A k \in 1 .. Len(q) : q[k] # j => \E a \in places : g[a] = k
  BY <1>2 DEF places
<1> HIDE DEF kept
<1>4. r \in Seq(Jobs) /\ Len(r) = Cardinality(kept) /\ \A a \in places : r[a] = q[g[a]]
  <2>1. \A a \in places : q[g[a]] \in Jobs
    BY <1>3
  <2>2. r \in [1 .. Cardinality(kept) -> Jobs]
    BY <1>2, <1>3, <2>1
  <2>3. Seq(Jobs) = UNION {[1 .. n -> Jobs] : n \in Nat}
    OBVIOUS
  <2> QED BY <1>1, <1>2, <1>3, <2>2
<1>5. ~In(r, j)
  BY <1>3, <1>4 DEF In
<1>6. ASSUME NEW i, i # j
      PROVE  In(r, i) <=> In(q, i)
  <2>1. In(r, i) => In(q, i)
    BY <1>3, <1>4 DEF In
  <2>2. ASSUME In(q, i) PROVE In(r, i)
    <3>1. PICK k \in 1 .. Len(q) : q[k] = i
      BY <2>2 DEF In
    <3>2. PICK a \in places : g[a] = k
      BY <1>3, <1>6, <3>1
    <3> QED BY <3>1, <3>2, <1>3, <1>4 DEF In
  <2> QED BY <2>1, <2>2
<1>7. ASSUME NEW i, i # j, Once(q, i)
      PROVE  Once(r, i)
  <2> SUFFICES ASSUME NEW a \in places, NEW b \in places, r[a] = i, r[b] = i
               PROVE  a = b
    BY <1>3, <1>4 DEF Once
  <2>0. /\ g[a] \in 1 .. Len(q) /\ g[b] \in 1 .. Len(q)
        /\ q[g[a]] = i /\ q[g[b]] = i
    BY <1>3, <1>4
  <2>1. g[a] = g[b]
    BY <2>0, <1>7 DEF Once
  <2>2. ~(a < b) /\ ~(b < a)
    BY <1>2, <1>3, <2>1
  <2> QED BY <2>2, <1>1, <1>3
<1> QED BY <1>4, <1>5, <1>6, <1>7

-----------------------------------------------------------------------------
(* Type correctness.                                                          *)

LEMMA InitType == Init => TypeOK
  BY JobsAssumption, BoundsAssumption
  DEF Init, TypeOK, RStatus, PgStatus, ReqState, WorkerPc, Holding, Verdicts

\* The part of TypeOK that a failing store call changes.
BudgetOK == /\ faults \in 0 .. MaxFaults
            /\ disturbed \subseteq Jobs /\ stranded \subseteq Jobs /\ unsaid \subseteq Jobs

LEMMA BudgetType ==
    ASSUME TypeOK, NEW js, js \subseteq Jobs,
           RedisErr(js) \/ Fault(js) \/ UNCHANGED budget
    PROVE  BudgetOK'
  BY BoundsAssumption DEF TypeOK, Fault, RedisErr, budget, BudgetOK

\* The store calls keep their tables typed.
LEMMA PushType ==
    ASSUME TypeOK, NEW j \in Jobs, PushJob(j)
    PROVE  BudgetOK' /\ queue' \in Seq(Jobs) /\ rstatus' \in [Jobs -> RStatus]
<1>1. BudgetOK'
  BY BoundsAssumption DEF TypeOK, PushJob, RedisOk, Fault, RedisErr, budget, BudgetOK
<1>2. queue' \in Seq(Jobs)
  <2>1. /\ queue \in Seq(Jobs)
        /\ Append(queue, j) \in Seq(Jobs)
        /\ queue \o <<j, j>> \in Seq(Jobs)
    BY AppendLemma, AppendTwiceLemma DEF TypeOK
  <2> QED BY <2>1 DEF PushJob, Enqueue, EnqueueTwice
<1>3. rstatus' \in [Jobs -> RStatus]
  BY DEF TypeOK, PushJob, Enqueue, EnqueueTwice, RStatus, Active
<1> QED BY <1>1, <1>2, <1>3

LEMMA RowType ==
    ASSUME TypeOK, NEW j \in Jobs, NEW s \in PgStatus, UpdateRow(j, s)
    PROVE  BudgetOK' /\ pg' \in [Jobs -> PgStatus]
<1>1. BudgetOK'
  BY BoundsAssumption DEF TypeOK, UpdateRow, Fault, budget, BudgetOK
<1>2. pg' \in [Jobs -> PgStatus]
  BY DEF UpdateRow, PutRow, TypeOK
<1> QED BY <1>1, <1>2

LEMMA StatusType ==
    ASSUME TypeOK, NEW j \in Jobs, NEW s \in RStatus, SetStatus(j, s)
    PROVE  BudgetOK' /\ rstatus' \in [Jobs -> RStatus]
<1>1. BudgetOK'
  BY BoundsAssumption DEF TypeOK, SetStatus, RedisOk, Fault, RedisErr, budget, BudgetOK
<1>2. rstatus' \in [Jobs -> RStatus]
  BY DEF SetStatus, TypeOK
<1> QED BY <1>1, <1>2

LEMMA HandlerType ==
    ASSUME TypeOK, NEW j \in Jobs, Handler(j)
    PROVE  TypeOK'
<1> USE DEF redis, store, life, worker
<1>1. CASE CheckActive(j)
  <2>1. BudgetOK'
    BY <1>1, BudgetType DEF CheckActive
  <2>2. req' \in [Jobs -> ReqState]
    BY <1>1 DEF CheckActive, TypeOK, ReqState
  <2> QED BY <1>1, <2>1, <2>2 DEF CheckActive, TypeOK, BudgetOK
<1>2. CASE CreateRow(j)
  <2>1. BudgetOK'
    BY <1>2, BudgetType DEF CreateRow
  <2>2. req' \in [Jobs -> ReqState] /\ pg' \in [Jobs -> PgStatus]
    BY <1>2 DEF CreateRow, TypeOK, ReqState, PgStatus, Active
  <2> QED BY <1>2, <2>1, <2>2 DEF CreateRow, TypeOK, BudgetOK
<1>3. CASE SubmitJob(j)
  <2>1. BudgetOK'
    BY <1>3, BudgetType DEF SubmitJob
  <2>2. queue' \in Seq(Jobs)
    <3>1. /\ queue \in Seq(Jobs)
          /\ Append(queue, j) \in Seq(Jobs)
          /\ queue \o <<j, j>> \in Seq(Jobs)
      BY AppendLemma, AppendTwiceLemma DEF TypeOK
    <3> QED BY <1>3, <3>1 DEF SubmitJob, Enqueue, EnqueueTwice
  <2>3. rstatus' \in [Jobs -> RStatus] /\ req' \in [Jobs -> ReqState]
    BY <1>3 DEF SubmitJob, Enqueue, EnqueueTwice, TypeOK, RStatus, Active, ReqState
  <2> QED BY <1>3, <2>1, <2>2, <2>3 DEF SubmitJob, TypeOK, BudgetOK
<1>4. CASE UndoRow(j)
  <2>1. BudgetOK'
    BY <1>4, BudgetType DEF UndoRow
  <2>2. req' \in [Jobs -> ReqState] /\ pg' \in [Jobs -> PgStatus]
    BY <1>4 DEF UndoRow, TypeOK, ReqState, PgStatus
  <2>3. results' \in [Jobs -> Nat]
    <3>1. results \in [Jobs -> Nat]
      BY DEF TypeOK
    <3> QED BY <1>4, <3>1 DEF UndoRow
  <2> QED BY <1>4, <2>1, <2>2, <2>3 DEF UndoRow, TypeOK, BudgetOK
<1> QED BY <1>1, <1>2, <1>3, <1>4 DEF Handler

LEMMA RecoveryType ==
    ASSUME TypeOK, Recovery
    PROVE  TypeOK'
<1> USE JobsAssumption DEF redis, store, life, Holding, WorkerPc
<1>1. CASE ScanStatuses
  <2>1. BudgetOK' /\ orphans' \subseteq Jobs
    <3>1. PICK missed \in SUBSET {j \in Jobs : rstatus[j] = "processing"} :
             /\ (RedisOk /\ missed = {}) \/ RedisErr(missed)
             /\ orphans' = {j \in Jobs : rstatus[j] = "processing"} \ missed
      BY <1>1 DEF ScanStatuses
    <3> QED BY <3>1, BudgetType DEF RedisOk
  <2> QED BY <1>1, <2>1 DEF ScanStatuses, TypeOK, BudgetOK
<1>2. ASSUME NEW j \in Jobs, SkipOrphan(j)
      PROVE  TypeOK'
  BY <1>2 DEF SkipOrphan, TypeOK, budget
<1>3. ASSUME NEW j \in Jobs, RecoverOrphan(j)
      PROVE  TypeOK'
  <2>1. BudgetOK' /\ rstatus' \in [Jobs -> RStatus]
    BY <1>3, StatusType DEF RecoverOrphan, RStatus, Active
  <2> QED BY <1>3, <2>1 DEF RecoverOrphan, TypeOK, BudgetOK
<1>4. CASE RecoverRow
  <2>1. BudgetOK'
    BY <1>4, BoundsAssumption DEF RecoverRow, TypeOK, Fault, BudgetOK
  <2>2. pg' \in [Jobs -> PgStatus]
    BY <1>4 DEF RecoverRow, PutRow, TypeOK, PgStatus, Active
  <2> QED BY <1>4, <2>1, <2>2 DEF RecoverRow, TypeOK, BudgetOK
<1>5. CASE RecoverPush
  <2>1. BudgetOK' /\ queue' \in Seq(Jobs) /\ rstatus' \in [Jobs -> RStatus]
    BY <1>5, PushType DEF RecoverPush, TypeOK
  <2> QED BY <1>5, <2>1 DEF RecoverPush, TypeOK, BudgetOK
<1>6. CASE EndRecovery
  BY <1>6 DEF EndRecovery, LoopHead, TypeOK, budget
<1> QED BY <1>1, <1>2, <1>3, <1>4, <1>5, <1>6 DEF Recovery

LEMMA LoopType ==
    ASSUME TypeOK, Loop
    PROVE  TypeOK'
<1> USE JobsAssumption DEF redis, store, life, Holding, WorkerPc, LoopHead
<1>1. CASE TakeJob
  <2>1. queue' \in Seq(Jobs) /\ wjob' \in Jobs
    BY <1>1, TailLemma DEF TakeJob, TypeOK
  <2> QED BY <1>1, <2>1 DEF TakeJob, TypeOK, budget
<1>2. CASE LoseReply
  <2>1. queue' \in Seq(Jobs) /\ Head(queue) \in Jobs
    BY <1>2, TailLemma DEF LoseReply, TypeOK
  <2>2. BudgetOK'
    BY <1>2, <2>1, BudgetType DEF LoseReply
  <2> QED BY <1>2, <2>1, <2>2 DEF LoseReply, TypeOK, BudgetOK
<1>3. CASE WorkerStops
  BY <1>3 DEF WorkerStops, TypeOK, budget
<1>4. CASE CheckCancelled
  <2>1. {wjob} \subseteq Jobs
    BY <1>4 DEF CheckCancelled, TypeOK
  <2>2. BudgetOK'
    BY <1>4, <2>1, BudgetType DEF CheckCancelled, RedisOk
  <2> QED BY <1>4, <2>2 DEF CheckCancelled, Release, TypeOK, BudgetOK
<1> QED BY <1>1, <1>2, <1>3, <1>4 DEF Loop

LEMMA ProcessType ==
    ASSUME TypeOK, ProcessJob
    PROVE  TypeOK'
<1> USE JobsAssumption DEF redis, store, life, Holding, WorkerPc
<1>1. ASSUME NEW from \in Holding \ {"rec_pg", "rec_push"},
             NEW to \in Holding, NEW s \in RStatus,
             Tell(from, s, to),
             \/ {from, to} \cap {"log", "fin_status", "fin_pg"} = {}
             \/ from = "fin_status" /\ to = "fin_pg"
      PROVE  TypeOK'
  <2>1. wpc = from /\ wpc' = to /\ wjob \in Jobs /\ UNCHANGED <<wjob, verdict>>
    BY <1>1 DEF Tell, TypeOK
  <2>2. BudgetOK' /\ rstatus' \in [Jobs -> RStatus]
    BY <1>1, <2>1, StatusType DEF Tell
  <2>3. announced' \in [Jobs -> RStatus]
    BY <1>1, <2>1 DEF Tell, Broadcast, TypeOK
  <2>4. orphans' = {}
    BY <1>1 DEF Tell, TypeOK
  <2> QED BY <1>1, <2>1, <2>2, <2>3, <2>4 DEF Tell, TypeOK, BudgetOK
<1>2. ASSUME NEW from \in Holding \ {"rec_pg", "rec_push"}, NEW s \in PgStatus,
             Settle(from, s)
      PROVE  TypeOK'
  <2>1. BudgetOK' /\ pg' \in [Jobs -> PgStatus]
    BY <1>2, RowType DEF Settle, TypeOK
  <2>2. orphans' = {}
    BY <1>2 DEF Settle, TypeOK
  <2>3. /\ wpc' = LoopHead /\ wjob' = NoJob /\ verdict' = "none"
        /\ UNCHANGED <<queue, rstatus, retries, results, logs, announced, req,
                       proc, restarts, attempts>>
    BY <1>2 DEF Settle, Release
  <2>4. /\ wpc' \in {"off", "pop"} /\ proc \in {"up", "stopping"}
        /\ proc = "up" => wpc' # "off"
    BY <1>2, <2>3 DEF Settle, LoopHead, TypeOK
  <2> QED BY <2>1, <2>2, <2>3, <2>4 DEF TypeOK, BudgetOK, Verdicts
<1>3. wpc \in Holding => {wjob} \subseteq Jobs
  BY DEF TypeOK
<1>4. /\ RStatus = PgStatus \cup {"cancelled"}
      /\ {"pending", "processing", "done", "error", "infeasible"} \subseteq PgStatus
      /\ TerminalStatus \in {"infeasible", "error"}
  BY DEF RStatus, PgStatus, Active, Final, TerminalStatus
<1>5. CASE MarkProcessing \/ TellDone \/ TellRetry \/ TellFailed
  BY <1>1, <1>4, <1>5 DEF MarkProcessing, TellDone, TellRetry, TellFailed
<1>6. CASE TellTerminal
  BY <1>1, <1>4, <1>6 DEF TellTerminal
<1>7. CASE RowDone \/ RowTerminal \/ RowRetry \/ RowFailed
  BY <1>2, <1>4, <1>7 DEF RowDone, RowTerminal, RowRetry, RowFailed
<1>8. CASE MarkRow
  <2>1. BudgetOK' /\ pg' \in [Jobs -> PgStatus]
    BY <1>4, <1>8, RowType DEF MarkRow, TypeOK
  <2> QED BY <1>8, <2>1 DEF MarkRow, TypeOK, BudgetOK
<1>9. CASE LoadModel
  <2>1. attempts' \in [Jobs -> Nat]
    <3>1. attempts \in [Jobs -> Nat]
      BY DEF TypeOK
    <3> QED BY <1>9, <3>1 DEF LoadModel
  <2> QED BY <1>9, <2>1 DEF LoadModel, TypeOK, budget
<1>10. CASE RunSolver
  <2>1. verdict' \in Verdicts /\ verdict' # "none"
    BY <1>10 DEF RunSolver, Verdicts
  <2> QED BY <1>10, <2>1 DEF RunSolver, TypeOK, budget
<1>11. CASE SaveLog
  <2>1. BudgetOK'
    BY <1>3, <1>11, BudgetType DEF SaveLog, StoreLog
  <2>2. logs' \in [Jobs -> Nat]
    <3>1. logs \in [Jobs -> Nat]
      BY DEF TypeOK
    <3> QED BY <1>11, <3>1 DEF SaveLog, StoreLog
  <2>3. /\ wpc' \in {"save", "fin_status", "inc"}
        /\ verdict' = IF wpc' = "fin_status" THEN verdict ELSE "none"
        /\ wpc' = "fin_status" => verdict \in {"infeasible", "unbounded"}
    BY <1>11 DEF SaveLog, TypeOK, Verdicts
  <2> QED BY <1>11, <2>1, <2>2, <2>3 DEF SaveLog, TypeOK, BudgetOK, Verdicts
<1>12. CASE SaveResults
  <2>1. BudgetOK'
    BY <1>3, <1>12, BudgetType DEF SaveResults, StoreResults
  <2>2. results' \in [Jobs -> Nat] /\ wpc' \in {"done_status", "inc"}
    <3>1. results \in [Jobs -> Nat]
      BY DEF TypeOK
    <3> QED BY <1>12, <3>1 DEF SaveResults, StoreResults
  <2> QED BY <1>12, <2>1, <2>2 DEF SaveResults, TypeOK, BudgetOK
<1>13. CASE IncrementRetry
  <2>1. BudgetOK'
    BY <1>3, <1>13, BudgetType DEF IncrementRetry, RedisOk
  <2>2. retries' \in [Jobs -> Nat]
    BY <1>13 DEF IncrementRetry, TypeOK
  <2>3. wpc' \in {"retry_status", "fail_status"}
    BY <1>13 DEF IncrementRetry, Onward
  <2> QED BY <1>13, <2>1, <2>2, <2>3 DEF IncrementRetry, TypeOK, BudgetOK
<1>14. CASE PushRetry
  <2>1. BudgetOK' /\ queue' \in Seq(Jobs) /\ rstatus' \in [Jobs -> RStatus]
    BY <1>14, PushType DEF PushRetry, TypeOK
  <2> QED BY <1>14, <2>1 DEF PushRetry, TypeOK, BudgetOK
<1> QED
  BY <1>5, <1>6, <1>7, <1>8, <1>9, <1>10, <1>11, <1>12, <1>13, <1>14 DEF ProcessJob

LEMMA OutsideType ==
    ASSUME TypeOK, Outside
    PROVE  TypeOK'
<1> USE JobsAssumption DEF redis, store, life, worker, Holding, WorkerPc
<1>1. ASSUME NEW j \in Jobs, CancelJob(j)
      PROVE  TypeOK'
  <2>1. queue' \in Seq(Jobs)
    BY <1>1, LRemLemma DEF CancelJob, TypeOK
  <2>2. rstatus' \in [Jobs -> RStatus]
    BY <1>1 DEF CancelJob, TypeOK, RStatus
  <2> QED BY <1>1, <2>1, <2>2 DEF CancelJob, TypeOK, budget
<1>2. ASSUME NEW j \in Jobs, LapseStatus(j)
      PROVE  TypeOK'
  <2>1. BudgetOK'
    BY <1>2, BoundsAssumption DEF LapseStatus, TypeOK, BudgetOK
  <2>2. rstatus' \in [Jobs -> RStatus]
    BY <1>2 DEF LapseStatus, TypeOK, RStatus
  <2> QED BY <1>2, <2>1, <2>2 DEF LapseStatus, TypeOK, BudgetOK
<1>3. CASE Sigterm
  BY <1>3 DEF Sigterm, TypeOK, budget
<1>4. CASE Die
  <2>1. req' \in [Jobs -> ReqState]
    BY <1>4 DEF Die, TypeOK, ReqState
  <2>2. stranded' \subseteq Jobs /\ restarts' \in Nat
    BY <1>4 DEF Die, LeftBehind, TypeOK
  <2> QED BY <1>4, <2>1, <2>2 DEF Die, TypeOK, budget, Verdicts
<1>5. CASE Boot
  <2>1. wpc = "off" => /\ wjob = NoJob /\ orphans = {} /\ verdict = "none"
    BY DEF TypeOK
  <2> QED BY <1>5, <2>1 DEF Boot, TypeOK, budget
<1>6. CASE LoseRedis
  <2>1. BudgetOK'
    BY <1>6, BudgetType DEF LoseRedis
  <2>2. /\ queue' \in Seq(Jobs) /\ rstatus' \in [Jobs -> RStatus]
        /\ retries' \in [Jobs -> Nat]
    BY <1>6 DEF LoseRedis, RStatus
  <2> QED BY <1>6, <2>1, <2>2 DEF LoseRedis, TypeOK, BudgetOK
<1> QED BY <1>1, <1>2, <1>3, <1>4, <1>5, <1>6 DEF Outside

LEMMA NextType ==
    ASSUME TypeOK, [Next]_vars
    PROVE  TypeOK'
<1>1. CASE UNCHANGED vars
  BY <1>1 DEF vars, TypeOK
<1> QED BY <1>1, HandlerType, RecoveryType, LoopType, ProcessType, OutsideType
        DEF Next, Worker

\* Every variable keeps its type; in particular the worker holds a job exactly at
\* the control points of an iteration or a recovery step.
THEOREM TypeCorrect == Spec => []TypeOK
<1>1. Init => TypeOK
  BY InitType
<1>2. TypeOK /\ [Next]_vars => TypeOK'
  BY NextType
<1> QED BY <1>1, <1>2, PTL DEF Spec

-----------------------------------------------------------------------------
(* Custody.  SingleCustody and RunHasOwner are not inductive alone: they rest  *)
(* on what the Redis status says at each control point, which Custody adds.    *)

\* Control points at which the status of the job in hand is not "processing":
\* before it is marked, and after it was given its next status; unless a shutdown
\* refused that status.
NotShown == {"check", "mark", "done_pg", "fin_pg", "fail_pg", "retry_push",
             "retry_pg", "rec_pg", "rec_push"}

Custody(j) ==
    /\ Once(queue, j)
    /\ InQueue(j) => /\ rstatus[j] \in {"pending", "absent"}
                     /\ req[j] = "accepted"
                     /\ j \notin orphans
                     /\ Held(j) => wpc = "retry_pg"
    /\ Held(j) => j \notin orphans /\ req[j] = "accepted"
    /\ j \in orphans => /\ \/ rstatus[j] \in {"processing", "cancelled"}
                           \/ rstatus[j] = "absent" /\ j \in stranded
                        /\ req[j] = "accepted"
    /\ rstatus[j] = "processing" =>
          /\ req[j] = "accepted"
          /\ Held(j) \/ j \in orphans \/ wpc = "scan" \/ proc # "up"
    /\ Held(j) /\ wpc \in NotShown => rstatus[j] # "processing" \/ proc = "stopping"
    /\ Held(j) /\ wpc = "retry_pg" =>
          \/ InQueue(j) \/ rstatus[j] = "cancelled" \/ j \in stranded
          \/ rstatus[j] = "processing" /\ proc = "stopping"

CustodyInv == \A j \in Jobs \ disturbed : Custody(j)

LEMMA InitCustody == Init => CustodyInv
  BY JobsAssumption DEF Init, CustodyInv, Custody, Once, InQueue, In, Held

\* What the steps that change the list do to one job.
LEMMA EnqueueEffect ==
    ASSUME TypeOK, NEW i \in Jobs, NEW j \in Jobs, Enqueue(i)
    PROVE  /\ In(queue', j) <=> In(queue, j) \/ j = i
           /\ j # i /\ Once(queue, j) => Once(queue', j)
           /\ ~In(queue, i) => Once(queue', i)
           /\ rstatus'[j] = IF j = i THEN "pending" ELSE rstatus[j]
<1>1. queue \in Seq(Jobs) /\ queue' = Append(queue, i)
  BY DEF Enqueue, TypeOK
<1>2. rstatus'[j] = IF j = i THEN "pending" ELSE rstatus[j]
  BY DEF Enqueue, TypeOK
<1> QED BY <1>1, <1>2, AppendLemma

LEMMA EnqueueTwiceEffect ==
    ASSUME TypeOK, NEW i \in Jobs, NEW j \in Jobs, EnqueueTwice(i), j # i
    PROVE  /\ In(queue', j) <=> In(queue, j)
           /\ Once(queue, j) => Once(queue', j)
           /\ rstatus'[j] = rstatus[j]
<1>1. queue \in Seq(Jobs) /\ queue' = queue \o <<i, i>>
  BY DEF EnqueueTwice, TypeOK
<1>2. rstatus'[j] = rstatus[j]
  BY DEF EnqueueTwice, TypeOK
<1> QED BY <1>1, <1>2, AppendTwiceLemma

\* A step of a handler.
LEMMA HandlerCustody ==
    ASSUME TypeOK, NEW i \in Jobs, Handler(i),
           NEW j \in Jobs \ disturbed', j \notin disturbed => Custody(j)
    PROVE  Custody(j)'
<1> USE DEF redis, store, life, budget, worker, Custody, InQueue, Held
<1>1. CASE CheckActive(i)
  BY <1>1 DEF CheckActive, TypeOK, Fault
<1>2. CASE CreateRow(i)
  BY <1>2 DEF CreateRow, TypeOK, Fault
<1>3. CASE SubmitJob(i)
  <2>1. CASE Enqueue(i)
    <3>1. req'[j] = IF j = i THEN "accepted" ELSE req[j]
      BY <1>3 DEF SubmitJob, Fault, TypeOK
    <3>2. j \notin disturbed /\ (j = i => req[j] = "created")
      BY <1>3 DEF SubmitJob, Fault
    <3>3. /\ In(queue', j) <=> In(queue, j) \/ j = i
          /\ j # i /\ Once(queue, j) => Once(queue', j)
          /\ ~In(queue, i) => Once(queue', i)
          /\ rstatus'[j] = IF j = i THEN "pending" ELSE rstatus[j]
      BY <2>1, EnqueueEffect
    <3>4. UNCHANGED <<wpc, wjob, orphans, proc, stranded>>
      BY <1>3 DEF SubmitJob, Fault
    <3>5. CASE j = i
      BY <3>1, <3>2, <3>3, <3>4, <3>5
    <3>6. CASE j # i
      BY <3>1, <3>2, <3>3, <3>4, <3>6
    <3> QED BY <3>5, <3>6
  <2>2. CASE EnqueueTwice(i) /\ i \in disturbed' /\ disturbed \subseteq disturbed'
    <3>1. j # i /\ j \notin disturbed
      BY <2>2
    <3>2. req'[j] = req[j] /\ UNCHANGED stranded
      BY <1>3, <3>1 DEF SubmitJob, Fault, TypeOK
    <3> QED BY <1>3, <2>2, <3>1, <3>2, EnqueueTwiceEffect DEF SubmitJob
  <2>3. CASE UNCHANGED <<queue, rstatus>> /\ i \in disturbed' /\ disturbed \subseteq disturbed'
    <3>1. req'[j] = req[j] /\ UNCHANGED stranded /\ j \notin disturbed
      BY <1>3, <2>3 DEF SubmitJob, Fault, TypeOK
    <3> QED BY <1>3, <2>3, <3>1 DEF SubmitJob
  <2> QED BY <1>3, <2>1, <2>2, <2>3 DEF SubmitJob, Fault
<1>4. CASE UndoRow(i)
  BY <1>4 DEF UndoRow, TypeOK, Fault
<1> QED BY <1>1, <1>2, <1>3, <1>4 DEF Handler

\* A step of the recovery.
LEMMA RecoveryCustody ==
    ASSUME TypeOK, Recovery,
           NEW j \in Jobs \ disturbed', j \notin disturbed => Custody(j)
    PROVE  Custody(j)'
<1> USE JobsAssumption
    DEF redis, store, life, budget, worker, Custody, InQueue, Held, NotShown, Holding
<1>1. CASE ScanStatuses
  BY <1>1 DEF ScanStatuses, RedisOk, RedisErr, Fault, TypeOK
<1>2. ASSUME NEW i \in Jobs, SkipOrphan(i)
      PROVE  Custody(j)'
  BY <1>2 DEF SkipOrphan, TypeOK
<1>3. ASSUME NEW i \in Jobs, RecoverOrphan(i)
      PROVE  Custody(j)'
  BY <1>3 DEF RecoverOrphan, SetStatus, RedisOk, RedisErr, Fault, TypeOK
<1>4. CASE RecoverRow
  BY <1>4 DEF RecoverRow, UpdateRow, Fault, TypeOK
<1>5. CASE RecoverPush
  <2>1. /\ wjob \in Jobs /\ wpc = "rec_push" /\ j \notin disturbed
        /\ stranded \subseteq stranded'
    BY <1>5 DEF RecoverPush, PushJob, RedisOk, Fault, TypeOK
  <2>2. CASE Enqueue(wjob)
    BY <1>5, <2>1, <2>2, EnqueueEffect DEF RecoverPush
  <2>3. CASE EnqueueTwice(wjob) /\ wjob \in disturbed'
    BY <1>5, <2>1, <2>3, EnqueueTwiceEffect DEF RecoverPush
  <2>4. CASE UNCHANGED <<queue, rstatus>> /\ (wjob \in disturbed' \/ proc = "stopping")
    BY <1>5, <2>1, <2>4 DEF RecoverPush
  <2> QED BY <1>5, <2>2, <2>3, <2>4 DEF RecoverPush, PushJob, Fault
<1>6. CASE EndRecovery
  BY <1>6 DEF EndRecovery, LoopHead, TypeOK
<1> QED BY <1>1, <1>2, <1>3, <1>4, <1>5, <1>6 DEF Recovery

\* A step of the loop.
LEMMA LoopCustody ==
    ASSUME TypeOK, Loop,
           NEW j \in Jobs \ disturbed', j \notin disturbed => Custody(j)
    PROVE  Custody(j)'
<1> USE JobsAssumption
    DEF redis, store, life, budget, worker, Custody, InQueue, Held, NotShown, Holding
<1>1. CASE TakeJob
  <2>1. /\ Head(queue) \in Jobs
        /\ In(queue, Head(queue))
        /\ In(queue', j) => In(queue, j)
        /\ j # Head(queue) /\ In(queue, j) => In(queue', j)
        /\ Once(queue, j) => Once(queue', j)
        /\ Once(queue, Head(queue)) => ~In(queue', Head(queue))
    BY <1>1, TailLemma DEF TakeJob, TypeOK
  <2>2. wjob = NoJob /\ orphans = {} /\ j \notin disturbed
    BY <1>1 DEF TakeJob, TypeOK
  <2> QED BY <1>1, <2>1, <2>2 DEF TakeJob
<1>2. CASE LoseReply
  <2>1. /\ j # Head(queue)
        /\ In(queue', j) <=> In(queue, j)
        /\ Once(queue, j) => Once(queue', j)
    BY <1>2, TailLemma DEF LoseReply, Fault, TypeOK
  <2>2. wjob = NoJob /\ orphans = {} /\ j \notin disturbed
    BY <1>2 DEF LoseReply, Fault, TypeOK
  <2> QED BY <1>2, <2>1, <2>2 DEF LoseReply, LoopHead
<1>3. CASE WorkerStops
  BY <1>3 DEF WorkerStops, TypeOK
<1>4. CASE CheckCancelled
  BY <1>4 DEF CheckCancelled, Release, LoopHead, RedisOk, RedisErr, Fault, TypeOK
<1> QED BY <1>1, <1>2, <1>3, <1>4 DEF Loop

\* A step of processJob.
LEMMA ProcessCustody ==
    ASSUME TypeOK, ProcessJob,
           NEW j \in Jobs \ disturbed', j \notin disturbed => Custody(j)
    PROVE  Custody(j)'
<1> USE JobsAssumption
    DEF redis, store, life, budget, worker, Custody, InQueue, Held, NotShown, Holding
<1>1. CASE MarkProcessing
  BY <1>1 DEF MarkProcessing, Tell, SetStatus, RedisOk, RedisErr, Fault, TypeOK
<1>2. CASE TellDone \/ TellRetry \/ TellFailed
  BY <1>2 DEF TellDone, TellRetry, TellFailed, Tell, SetStatus, RedisOk, RedisErr,
              Fault, TypeOK
<1>3. CASE TellTerminal
  BY <1>3 DEF TellTerminal, TerminalStatus, Tell, SetStatus, RedisOk, RedisErr,
              Fault, TypeOK
<1>4. CASE RowDone \/ RowTerminal \/ RowRetry \/ RowFailed
  BY <1>4 DEF RowDone, RowTerminal, RowRetry, RowFailed, Settle, UpdateRow, Fault,
              Release, LoopHead, TypeOK
<1>5. CASE MarkRow
  BY <1>5 DEF MarkRow, UpdateRow, Fault, TypeOK
<1>6. CASE LoadModel
  BY <1>6 DEF LoadModel, TypeOK
<1>7. CASE RunSolver
  BY <1>7 DEF RunSolver, TypeOK
<1>8. CASE SaveLog
  BY <1>8 DEF SaveLog, StoreLog, Fault, TypeOK, Verdicts
<1>9. CASE SaveResults
  BY <1>9 DEF SaveResults, StoreResults, Fault, TypeOK
<1>10. CASE IncrementRetry
  BY <1>10 DEF IncrementRetry, Onward, RedisOk, RedisErr, Fault, TypeOK
<1>11. CASE PushRetry
  <2>1. /\ wjob \in Jobs /\ wpc = "retry_push" /\ j \notin disturbed
        /\ stranded \subseteq stranded'
    BY <1>11 DEF PushRetry, PushJob, RedisOk, Fault, TypeOK
  <2>2. CASE Enqueue(wjob)
    <3>1. /\ In(queue', j) <=> In(queue, j) \/ j = wjob
          /\ j # wjob /\ Once(queue, j) => Once(queue', j)
          /\ ~In(queue, wjob) => Once(queue', wjob)
          /\ rstatus'[j] = IF j = wjob THEN "pending" ELSE rstatus[j]
      BY <2>1, <2>2, EnqueueEffect
    <3> QED BY <1>11, <2>1, <3>1 DEF PushRetry
  <2>3. CASE EnqueueTwice(wjob) /\ wjob \in disturbed'
    BY <1>11, <2>1, <2>3, EnqueueTwiceEffect DEF PushRetry
  <2>4. CASE UNCHANGED <<queue, rstatus>> /\ wjob \in disturbed'
    BY <1>11, <2>1, <2>4 DEF PushRetry
  <2>5. CASE /\ UNCHANGED <<queue, rstatus>> /\ proc = "stopping"
             /\ rstatus[wjob] = "processing" \/ wjob \in stranded'
    BY <1>11, <2>1, <2>5 DEF PushRetry
  <2> QED BY <1>11, <2>1, <2>2, <2>3, <2>4, <2>5 DEF PushRetry, PushJob, Fault
<1> QED
  BY <1>1, <1>2, <1>3, <1>4, <1>5, <1>6, <1>7, <1>8, <1>9, <1>10, <1>11
  DEF ProcessJob

\* A step from outside.
LEMMA OutsideCustody ==
    ASSUME TypeOK, Outside,
           NEW j \in Jobs \ disturbed', j \notin disturbed => Custody(j)
    PROVE  Custody(j)'
<1> USE JobsAssumption
    DEF redis, store, life, budget, worker, Custody, InQueue, Held, NotShown, Holding
<1>1. ASSUME NEW i \in Jobs, CancelJob(i)
      PROVE  Custody(j)'
  <2>1. /\ ~In(queue', i)
        /\ j # i => (In(queue', j) <=> In(queue, j))
        /\ j # i /\ Once(queue, j) => Once(queue', j)
    BY <1>1, LRemLemma DEF CancelJob, TypeOK
  <2>2. rstatus'[j] = IF j = i THEN "cancelled" ELSE rstatus[j]
    BY <1>1 DEF CancelJob, TypeOK
  <2>3. ~In(queue', j) => Once(queue', j)
    BY DEF In, Once
  <2> QED BY <1>1, <2>1, <2>2, <2>3 DEF CancelJob
<1>2. ASSUME NEW i \in Jobs, LapseStatus(i)
      PROVE  Custody(j)'
  BY <1>2 DEF LapseStatus, Fault, TypeOK
<1>3. CASE Sigterm
  BY <1>3 DEF Sigterm, TypeOK
<1>4. CASE Die
  BY <1>4 DEF Die, TypeOK
<1>5. CASE Boot
  BY <1>5 DEF Boot, TypeOK
<1>6. CASE LoseRedis
  <2>1. /\ j \notin disturbed /\ rstatus[j] = "absent" /\ rstatus'[j] = "absent"
        /\ ~In(queue, j)
    BY <1>6 DEF LoseRedis, Fault, Known
  <2>2. ~In(queue', j) /\ Once(queue', j)
    BY <1>6 DEF LoseRedis, In, Once
  <2>3. UNCHANGED <<req, orphans, wpc, wjob, proc, stranded>>
    BY <1>6 DEF LoseRedis, Fault
  <2> QED BY <2>1, <2>2, <2>3
<1> QED BY <1>1, <1>2, <1>3, <1>4, <1>5, <1>6 DEF Outside

LEMMA NextCustody ==
    ASSUME TypeOK, CustodyInv, [Next]_vars
    PROVE  CustodyInv'
<1> SUFFICES ASSUME NEW j \in Jobs \ disturbed' PROVE Custody(j)'
  BY DEF CustodyInv
<1>1. j \notin disturbed => Custody(j)
  BY DEF CustodyInv
<1>2. CASE UNCHANGED vars
  BY <1>1, <1>2 DEF vars, Custody, InQueue, Held, NotShown
<1> QED
  BY <1>1, <1>2, HandlerCustody, RecoveryCustody, LoopCustody, ProcessCustody,
     OutsideCustody
  DEF Next, Worker

LEMMA CustodyInvariant == Spec => [](TypeOK /\ CustodyInv)
<1>1. Init => TypeOK /\ CustodyInv
  BY InitType, InitCustody
<1>2. TypeOK /\ CustodyInv /\ [Next]_vars => (TypeOK /\ CustodyInv)'
  BY NextType, NextCustody
<1> QED BY <1>1, <1>2, PTL DEF Spec

\* A run that no faulty store call touched is worked on by nobody twice: it is in
\* the list at most once, and in one pair of hands.
THEOREM SingleCustodyHolds == Spec => []SingleCustody
<1>1. TypeOK /\ CustodyInv => SingleCustody
  BY DEF CustodyInv, Custody, SingleCustody
<1> QED BY <1>1, CustodyInvariant, PTL

-----------------------------------------------------------------------------
(* Cancellation.                                                              *)

\* CancelledNotQueued needs no more than its own step, for faulty calls too:
\* every RPUSH comes with SET pending and every SET cancelled with LREM.
LEMMA NextCancelled ==
    ASSUME TypeOK, CancelledNotQueued, [Next]_vars
    PROVE  CancelledNotQueued'
<1> SUFFICES ASSUME NEW j \in Jobs, rstatus'[j] = "cancelled"
             PROVE  ~In(queue', j)
  BY DEF CancelledNotQueued, InQueue
<1> USE DEF redis, store, CancelledNotQueued, InQueue
<1>1. ASSUME NEW i \in Jobs, CancelJob(i)
      PROVE  ~In(queue', j)
  BY <1>1, LRemLemma DEF CancelJob, TypeOK
<1>2. CASE /\ UNCHANGED queue
           /\ rstatus'[j] = rstatus[j] \/ rstatus'[j] # "cancelled"
  BY <1>2
<1>3. ASSUME NEW i \in Jobs, Enqueue(i) \/ EnqueueTwice(i)
      PROVE  ~In(queue', j)
  <2>1. j # i /\ rstatus'[j] = rstatus[j]
    BY <1>3 DEF Enqueue, EnqueueTwice, TypeOK
  <2> QED BY <1>3, <2>1, EnqueueEffect, EnqueueTwiceEffect
<1>4. ASSUME queue # <<>>, queue' = Tail(queue), UNCHANGED rstatus
      PROVE  ~In(queue', j)
  BY <1>4, TailLemma DEF TypeOK
<1>5. ASSUME NEW s, s # "cancelled", SetStatus(wjob, s), UNCHANGED queue
      PROVE  ~In(queue', j)
  BY <1>5 DEF SetStatus, TypeOK
<1>6. CASE \E i \in Jobs : Handler(i)
  BY <1>2, <1>3, <1>6 DEF Handler, CheckActive, CreateRow, SubmitJob, UndoRow
<1>7. CASE Recovery
  <2>1. CASE RecoverPush
    <3>1. wjob \in Jobs
      BY <2>1 DEF RecoverPush, TypeOK, Holding
    <3> QED BY <2>1, <3>1, <1>2, <1>3 DEF RecoverPush, PushJob
  <2>2. ASSUME NEW i \in Jobs, RecoverOrphan(i)
        PROVE  ~In(queue', j)
    BY <1>2, <2>2 DEF RecoverOrphan, SetStatus, TypeOK
  <2>3. CASE RecoverRow \/ ScanStatuses \/ EndRecovery \/ \E i \in Jobs : SkipOrphan(i)
    BY <1>2, <2>3 DEF RecoverRow, ScanStatuses, EndRecovery, SkipOrphan
  <2> QED BY <1>7, <2>1, <2>2, <2>3 DEF Recovery
<1>8. CASE Loop
  BY <1>2, <1>4, <1>8 DEF Loop, TakeJob, LoseReply, WorkerStops, CheckCancelled
<1>9. CASE ProcessJob
  <2>1. CASE PushRetry
    <3>1. wjob \in Jobs
      BY <2>1 DEF PushRetry, TypeOK, Holding
    <3> QED BY <2>1, <3>1, <1>2, <1>3 DEF PushRetry, PushJob
  <2>2. CASE MarkProcessing \/ TellDone \/ TellTerminal \/ TellRetry \/ TellFailed
    BY <1>5, <2>2 DEF MarkProcessing, TellDone, TellTerminal, TellRetry, TellFailed,
                      TerminalStatus, Tell
  <2>3. CASE RowDone \/ RowTerminal \/ RowRetry \/ RowFailed
    BY <1>2, <2>3 DEF RowDone, RowTerminal, RowRetry, RowFailed, Settle
  <2>4. CASE MarkRow \/ LoadModel \/ RunSolver \/ SaveLog \/ SaveResults \/ IncrementRetry
    BY <1>2, <2>4 DEF MarkRow, LoadModel, RunSolver, SaveLog, SaveResults, IncrementRetry
  <2> QED BY <1>9, <2>1, <2>2, <2>3, <2>4 DEF ProcessJob
<1>10. CASE Outside
  <2>1. ASSUME NEW i \in Jobs, LapseStatus(i)
        PROVE  ~In(queue', j)
    BY <1>2, <2>1 DEF LapseStatus, TypeOK
  <2>2. CASE Sigterm \/ Die \/ Boot \/ LoseRedis
    BY <1>2, <2>2 DEF Sigterm, Die, Boot, LoseRedis
  <2> QED BY <1>1, <1>10, <2>1, <2>2 DEF Outside
<1>11. CASE UNCHANGED vars
  BY <1>2, <1>11 DEF vars
<1> QED BY <1>6, <1>7, <1>8, <1>9, <1>10, <1>11 DEF Next, Worker

\* No cancelled job is in the list, whatever store calls fail.
THEOREM CancelledNotQueuedHolds == Spec => []CancelledNotQueued
<1>1. Init => CancelledNotQueued
  BY DEF Init, CancelledNotQueued
<1>2. TypeOK /\ CancelledNotQueued /\ [Next]_vars => CancelledNotQueued'
  BY NextCancelled
<1> QED BY <1>1, <1>2, TypeCorrect, PTL DEF Spec

-----------------------------------------------------------------------------
(* Ownership.  With Custody, RunHasOwner is inductive: a step that takes a run  *)
(* out of one pair of hands puts it in another, closes it, or, if the process   *)
(* dies there, is what stranded records.                                        *)

Owned(j) ==
    pg[j] \in Active /\ rstatus[j] # "cancelled"
    => \/ req[j] \in {"created", "undo"}
       \/ InQueue(j)
       \/ Held(j)
       \/ /\ rstatus[j] = "processing"
          /\ j \in orphans \/ wpc = "scan" \/ proc # "up"

LEMMA HandlerOwned ==
    ASSUME TypeOK, NEW i \in Jobs, Handler(i),
           NEW j \in Jobs, j \notin disturbed', Owned(j)
    PROVE  Owned(j)'
<1> USE DEF redis, store, life, budget, worker, Owned, InQueue, Held
<1>1. CASE CheckActive(i)
  BY <1>1 DEF CheckActive, TypeOK
<1>2. CASE CreateRow(i)
  BY <1>2 DEF CreateRow, Fault, TypeOK
<1>3. CASE SubmitJob(i)
  <2>1. CASE Enqueue(i)
    <3>1. /\ In(queue', j) <=> In(queue, j) \/ j = i
          /\ rstatus'[j] = IF j = i THEN "pending" ELSE rstatus[j]
      BY <2>1, EnqueueEffect
    <3>2. j # i => req'[j] = req[j]
      BY <1>3 DEF SubmitJob, TypeOK
    <3> QED BY <1>3, <3>1, <3>2 DEF SubmitJob
  <2>2. CASE EnqueueTwice(i) /\ i \in disturbed'
    <3>1. j # i
      BY <2>2
    <3>2. req'[j] = req[j]
      BY <1>3, <3>1 DEF SubmitJob, TypeOK
    <3> QED BY <1>3, <2>2, <3>1, <3>2, EnqueueTwiceEffect DEF SubmitJob
  <2>3. CASE UNCHANGED <<queue, rstatus>> /\ req' = [req EXCEPT ![i] = "undo"]
    BY <1>3, <2>3 DEF SubmitJob, TypeOK
  <2> QED BY <1>3, <2>1, <2>2, <2>3 DEF SubmitJob, Fault
<1>4. CASE UndoRow(i)
  BY <1>4 DEF UndoRow, Fault, TypeOK, Active
<1> QED BY <1>1, <1>2, <1>3, <1>4 DEF Handler

LEMMA RecoveryOwned ==
    ASSUME TypeOK, Recovery, NEW j \in Jobs \ (disturbed' \cup stranded'),
           j \notin disturbed => Custody(j), Owned(j)
    PROVE  Owned(j)'
<1> USE JobsAssumption
    DEF redis, store, life, budget, worker, Owned, InQueue, Held, Holding
<1>1. CASE ScanStatuses
  BY <1>1 DEF ScanStatuses, RedisOk, RedisErr, Fault, TypeOK
<1>2. ASSUME NEW i \in Jobs, SkipOrphan(i)
      PROVE  Owned(j)'
  BY <1>2 DEF SkipOrphan, TypeOK, Custody
<1>3. ASSUME NEW i \in Jobs, RecoverOrphan(i)
      PROVE  Owned(j)'
  BY <1>3 DEF RecoverOrphan, SetStatus, RedisOk, RedisErr, Fault, TypeOK
<1>4. CASE RecoverRow
  <2>1. /\ pg'[j] \in Active => pg[j] \in Active \/ j = wjob
        /\ wjob \in Jobs
    BY <1>4 DEF RecoverRow, PutRow, TypeOK
  <2> QED BY <1>4, <2>1 DEF RecoverRow
<1>5. CASE RecoverPush
  <2>1. wjob \in Jobs
    BY <1>5 DEF RecoverPush, TypeOK
  <2>2. CASE Enqueue(wjob)
    <3>1. /\ In(queue', j) <=> In(queue, j) \/ j = wjob
          /\ rstatus'[j] = IF j = wjob THEN "pending" ELSE rstatus[j]
      BY <2>1, <2>2, EnqueueEffect
    <3> QED BY <1>5, <3>1 DEF RecoverPush
  <2>3. CASE EnqueueTwice(wjob) /\ wjob \in disturbed'
    BY <1>5, <2>1, <2>3, EnqueueTwiceEffect DEF RecoverPush
  <2>4. CASE UNCHANGED <<queue, rstatus>> /\ wjob \in disturbed'
    BY <1>5, <2>1, <2>4 DEF RecoverPush
  <2>5. CASE /\ UNCHANGED <<queue, rstatus>> /\ proc = "stopping"
             /\ rstatus[wjob] = "processing" \/ wjob \in stranded'
    BY <1>5, <2>1, <2>5 DEF RecoverPush
  <2> QED BY <1>5, <2>1, <2>2, <2>3, <2>4, <2>5 DEF RecoverPush, PushJob, Fault
<1>6. CASE EndRecovery
  BY <1>6 DEF EndRecovery, LoopHead, TypeOK
<1> QED BY <1>1, <1>2, <1>3, <1>4, <1>5, <1>6 DEF Recovery

LEMMA LoopOwned ==
    ASSUME TypeOK, Loop, NEW j \in Jobs \ disturbed', Owned(j)
    PROVE  Owned(j)'
<1> USE JobsAssumption
    DEF redis, store, life, budget, worker, Owned, InQueue, Held, Holding
<1>1. CASE TakeJob
  <2>1. j # Head(queue) /\ In(queue, j) => In(queue', j)
    BY <1>1, TailLemma DEF TakeJob, TypeOK
  <2> QED BY <1>1, <2>1 DEF TakeJob, TypeOK
<1>2. CASE LoseReply
  <2>1. In(queue, j) => In(queue', j)
    BY <1>2, TailLemma DEF LoseReply, Fault, TypeOK
  <2> QED BY <1>2, <2>1 DEF LoseReply, TypeOK
<1>3. CASE WorkerStops
  BY <1>3 DEF WorkerStops, TypeOK
<1>4. CASE CheckCancelled
  BY <1>4 DEF CheckCancelled, Release, TypeOK
<1> QED BY <1>1, <1>2, <1>3, <1>4 DEF Loop

LEMMA ProcessOwned ==
    ASSUME TypeOK, ProcessJob, NEW j \in Jobs \ (disturbed' \cup stranded'),
           j \notin disturbed \cup stranded, j \notin disturbed => Custody(j), Owned(j)
    PROVE  Owned(j)'
<1> USE JobsAssumption
    DEF redis, store, life, budget, worker, Owned, InQueue, Held, Holding
<1>1. ASSUME NEW from, NEW to, NEW s, Tell(from, s, to), from \in Holding
      PROVE  Owned(j)'
  BY <1>1 DEF Tell, SetStatus, TypeOK
<1>2. CASE MarkProcessing \/ TellDone \/ TellTerminal \/ TellRetry \/ TellFailed
  BY <1>1, <1>2 DEF MarkProcessing, TellDone, TellTerminal, TellRetry, TellFailed
<1>3. ASSUME NEW from, NEW s \in Final, Settle(from, s), from \in Holding
      PROVE  Owned(j)'
  <2>1. pg'[j] \in Active => pg[j] \in Active /\ j # wjob
    BY <1>3 DEF Settle, UpdateRow, PutRow, Fault, TypeOK, Active, Final
  <2> QED BY <1>3, <2>1 DEF Settle, Release, TypeOK
<1>4. CASE RowDone \/ RowTerminal \/ RowFailed
  BY <1>3, <1>4 DEF RowDone, RowTerminal, RowFailed, TerminalStatus, Final
<1>5. CASE RowRetry
  <2>1. /\ j \notin disturbed /\ wjob \in Jobs
        /\ pg'[j] \in Active => pg[j] \in Active \/ j = wjob
    BY <1>5 DEF RowRetry, Settle, UpdateRow, PutRow, Fault, TypeOK
  <2>2. wpc = "retry_pg" /\ wjob' = NoJob /\ UNCHANGED <<queue, rstatus, req, orphans, proc>>
    BY <1>5 DEF RowRetry, Settle, Release
  <2> QED BY <1>5, <2>1, <2>2 DEF Custody
<1>6. CASE MarkRow
  <2>1. /\ wjob \in Jobs
        /\ pg'[j] \in Active => pg[j] \in Active \/ j = wjob
    BY <1>6 DEF MarkRow, UpdateRow, PutRow, TypeOK
  <2> QED BY <1>6, <2>1 DEF MarkRow
<1>7. CASE LoadModel \/ RunSolver \/ SaveLog \/ SaveResults \/ IncrementRetry
  BY <1>7 DEF LoadModel, RunSolver, SaveLog, SaveResults, IncrementRetry, TypeOK
<1>8. CASE PushRetry
  <2>1. wjob \in Jobs
    BY <1>8 DEF PushRetry, TypeOK
  <2>2. CASE Enqueue(wjob)
    <3>1. /\ In(queue', j) <=> In(queue, j) \/ j = wjob
          /\ rstatus'[j] = IF j = wjob THEN "pending" ELSE rstatus[j]
      BY <2>1, <2>2, EnqueueEffect
    <3> QED BY <1>8, <3>1 DEF PushRetry
  <2>3. CASE EnqueueTwice(wjob) /\ wjob \in disturbed'
    BY <1>8, <2>1, <2>3, EnqueueTwiceEffect DEF PushRetry
  <2>4. CASE UNCHANGED <<queue, rstatus>>
    BY <1>8, <2>1, <2>4 DEF PushRetry
  <2> QED BY <1>8, <2>2, <2>3, <2>4 DEF PushRetry, PushJob, RedisErr, Fault
<1> QED BY <1>2, <1>4, <1>5, <1>6, <1>7, <1>8 DEF ProcessJob

LEMMA OutsideOwned ==
    ASSUME TypeOK, Outside,
           NEW j \in Jobs, j \notin disturbed' \cup stranded',
           j \notin disturbed => Custody(j), Owned(j)
    PROVE  Owned(j)'
<1> USE JobsAssumption
    DEF redis, store, life, budget, worker, Owned, InQueue, Held, Holding
<1>1. ASSUME NEW i \in Jobs, CancelJob(i)
      PROVE  Owned(j)'
  <2>1. j # i => (In(queue', j) <=> In(queue, j))
    BY <1>1, LRemLemma DEF CancelJob, TypeOK
  <2>2. rstatus'[j] = IF j = i THEN "cancelled" ELSE rstatus[j]
    BY <1>1 DEF CancelJob, TypeOK
  <2> QED BY <1>1, <2>1, <2>2 DEF CancelJob
<1>2. ASSUME NEW i \in Jobs, LapseStatus(i)
      PROVE  Owned(j)'
  BY <1>2 DEF LapseStatus, Fault, TypeOK
<1>3. CASE Sigterm
  BY <1>3 DEF Sigterm, TypeOK
<1>4. CASE Die
  BY <1>4 DEF Die, LeftBehind, TypeOK, Custody
<1>5. CASE Boot
  BY <1>5 DEF Boot, TypeOK
<1>6. CASE LoseRedis
  <2>1. pg[j] = "absent" /\ pg'[j] = pg[j]
    BY <1>6 DEF LoseRedis, Fault, Known
  <2> QED BY <2>1 DEF Active
<1> QED BY <1>1, <1>2, <1>3, <1>4, <1>5, <1>6 DEF Outside

\* The histories of the exceptions only grow.
LEMMA HistoryGrows ==
    ASSUME TypeOK, [Next]_vars
    PROVE  disturbed \subseteq disturbed' /\ stranded \subseteq stranded'
<1> USE DEF life, budget, RedisOk, RedisErr, Fault
<1>1. CASE \E i \in Jobs : Handler(i)
  BY <1>1 DEF Handler, CheckActive, CreateRow, SubmitJob, UndoRow
<1>2. CASE Recovery
  BY <1>2 DEF Recovery, ScanStatuses, SkipOrphan, RecoverOrphan, RecoverRow,
              RecoverPush, EndRecovery, SetStatus, UpdateRow, PushJob
<1>3. CASE Loop
  BY <1>3 DEF Loop, TakeJob, LoseReply, WorkerStops, CheckCancelled
<1>4. CASE ProcessJob
  <2>1. ASSUME NEW from, NEW to, NEW s, Tell(from, s, to)
        PROVE  disturbed \subseteq disturbed' /\ stranded \subseteq stranded'
    BY <2>1 DEF Tell, SetStatus
  <2>2. ASSUME NEW from, NEW s, Settle(from, s)
        PROVE  disturbed \subseteq disturbed' /\ stranded \subseteq stranded'
    BY <2>2 DEF Settle, UpdateRow
  <2>3. CASE MarkProcessing \/ TellDone \/ TellTerminal \/ TellRetry \/ TellFailed
    BY <2>1, <2>3 DEF MarkProcessing, TellDone, TellTerminal, TellRetry, TellFailed
  <2>4. CASE RowDone \/ RowTerminal \/ RowRetry \/ RowFailed
    BY <2>2, <2>4 DEF RowDone, RowTerminal, RowRetry, RowFailed
  <2>5. CASE MarkRow \/ LoadModel \/ RunSolver \/ SaveLog
    BY <2>5 DEF MarkRow, UpdateRow, LoadModel, RunSolver, SaveLog, StoreLog
  <2>6. CASE SaveResults \/ IncrementRetry \/ PushRetry
    BY <2>6 DEF SaveResults, StoreResults, IncrementRetry, PushRetry, PushJob
  <2> QED BY <1>4, <2>3, <2>4, <2>5, <2>6 DEF ProcessJob
<1>5. CASE Outside
  BY <1>5 DEF Outside, CancelJob, LapseStatus, LoseRedis, Sigterm, Die, Boot
<1>6. CASE UNCHANGED vars
  BY <1>6 DEF vars
<1> QED BY <1>1, <1>2, <1>3, <1>4, <1>5, <1>6 DEF Next, Worker

LEMMA NextOwned ==
    ASSUME TypeOK, CustodyInv, RunHasOwner, [Next]_vars
    PROVE  RunHasOwner'
<1>1. disturbed \subseteq disturbed' /\ stranded \subseteq stranded'
  BY HistoryGrows
<1> SUFFICES ASSUME NEW j \in Jobs, j \notin disturbed' \cup stranded'
             PROVE  Owned(j)'
  BY DEF RunHasOwner, Owned
<1>2. /\ j \notin disturbed \cup stranded /\ Owned(j)
      /\ j \notin disturbed => Custody(j)
  BY <1>1 DEF RunHasOwner, Owned, CustodyInv
<1>3. CASE UNCHANGED vars
  BY <1>2, <1>3 DEF vars, Owned, InQueue, Held
<1> QED
  BY <1>2, <1>3, HandlerOwned, RecoveryOwned, LoopOwned, ProcessOwned, OutsideOwned
  DEF Next, Worker

\* Every active run has somebody to carry it on, except the runs cancelled, the
\* runs a faulty store call touched and those the process died with.
THEOREM RunHasOwnerHolds == Spec => []RunHasOwner
<1>1. Init => RunHasOwner
  BY DEF Init, RunHasOwner, Active
<1>2. TypeOK /\ CustodyInv /\ RunHasOwner /\ [Next]_vars => RunHasOwner'
  BY NextOwned
<1> QED BY <1>1, <1>2, CustodyInvariant, PTL DEF Spec

=============================================================================
