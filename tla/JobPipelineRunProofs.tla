------------------------ MODULE JobPipelineRunProofs -------------------------
(***************************************************************************)
(* Theorems about what PostgreSQL shows of a run: the row agrees with      *)
(* Redis, its final status is final, and JobPipeline implements            *)
(* RunContract.  All three rest on one invariant, RowInv, which follows    *)
(* the row of each undisturbed run through the hands that Custody finds it *)
(* in.                                                                     *)
(*                                                                         *)
(* Theorems that follow one run: what a client that polls is told, what a  *)
(* cancellation keeps, how often the solver is called and logged, and that *)
(* nobody hears of a plan before it is stored.                             *)
(***************************************************************************)
EXTENDS JobPipelineProofs

\* Control points between the UPDATE to processing and the UPDATE that ends the
\* work on the job.
Working == {"load", "solve", "log", "save", "done_status", "done_pg", "fin_status",
            "fin_pg", "inc", "retry_status", "retry_push", "retry_pg",
            "fail_status", "fail_pg"}

RowSays(j) ==
    /\ pg[j] \in Final => /\ ~InQueue(j) /\ req[j] = "accepted"
                          /\ Held(j) => wpc = "rec_pg"
    /\ pg[j] \in Final /\ j \notin unsaid => /\ ~Held(j) /\ j \notin orphans
                                           /\ rstatus[j] \in {pg[j], "cancelled", "absent"}
    /\ req[j] \in {"idle", "checked", "rejected"} => pg[j] = "absent"
    /\ req[j] = "created" => pg[j] = "pending"
    /\ req[j] = "accepted" => pg[j] # "absent"
    /\ req[j] # "undo"
    /\ Held(j) /\ wpc \in Working => pg[j] = "processing"
    /\ Held(j) /\ wpc \in {"done_status", "done_pg"} => results[j] >= 1
    /\ pg[j] = "done" => results[j] >= 1
    /\ Held(j) /\ j \notin unsaid =>
          /\ wpc = "done_pg" => rstatus[j] \in {"done", "cancelled", "absent"}
          /\ wpc = "fin_pg"  => rstatus[j] \in {TerminalStatus, "cancelled", "absent"}
          /\ wpc = "fail_pg" => rstatus[j] \in {"error", "cancelled", "absent"}

RowInv == \A j \in Jobs \ disturbed : RowSays(j)

LEMMA InitRow == Init => RowInv
  BY JobsAssumption DEF Init, RowInv, RowSays, Held, Final

LEMMA HandlerRow ==
    ASSUME TypeOK, NEW i \in Jobs, Handler(i), NEW j \in Jobs \ disturbed',
           j \notin disturbed => Custody(j) /\ RowSays(j)
    PROVE  RowSays(j)'
<1> USE JobsAssumption
    DEF redis, store, life, budget, worker, RowSays, InQueue, Held, TerminalStatus
<1>1. CASE CheckActive(i)
  BY <1>1 DEF CheckActive, TypeOK, Fault
<1>2. CASE CreateRow(i)
  <2>1. j \notin disturbed
    BY <1>2 DEF CreateRow, Fault
  <2>2. CASE j = i
    <3>1. /\ pg'[j] = "pending" /\ req'[j] = "created" /\ req[j] = "checked"
      BY <1>2, <2>2 DEF CreateRow, Fault, TypeOK
    <3>2. ~Held(j)
      BY <2>1, <3>1 DEF Custody
    <3> QED BY <1>2, <3>1, <3>2 DEF CreateRow, Final
  <2>3. CASE j # i
    BY <1>2, <2>1, <2>3 DEF CreateRow, Fault, TypeOK
  <2> QED BY <2>2, <2>3
<1>3. CASE SubmitJob(i)
  <2>1. CASE Enqueue(i)
    <3>1. /\ In(queue', j) <=> In(queue, j) \/ j = i
          /\ rstatus'[j] = IF j = i THEN "pending" ELSE rstatus[j]
      BY <2>1, EnqueueEffect
    <3>2. /\ j \notin disturbed /\ unsaid' = unsaid
          /\ req'[j] = IF j = i THEN "accepted" ELSE req[j]
      BY <1>3, <2>1 DEF SubmitJob, Fault, TypeOK
    <3>3. j = i => req[j] = "created" /\ ~Held(j)
      BY <1>3, <3>2 DEF SubmitJob, Custody
    <3>4. UNCHANGED <<pg, results, wpc, wjob, orphans, verdict>>
      BY <1>3 DEF SubmitJob
    <3> QED BY <3>1, <3>2, <3>3, <3>4 DEF Final
  <2>2. CASE j # i /\ (EnqueueTwice(i) \/ UNCHANGED <<queue, rstatus>>)
    <3>1. j \notin disturbed /\ req'[j] = req[j] /\ unsaid' = unsaid
      BY <1>3, <2>2 DEF SubmitJob, Fault, TypeOK
    <3>2. (In(queue', j) <=> In(queue, j)) /\ rstatus'[j] = rstatus[j]
      BY <2>2, EnqueueTwiceEffect
    <3>3. UNCHANGED <<pg, results, wpc, wjob, orphans, verdict>>
      BY <1>3 DEF SubmitJob
    <3> QED BY <3>1, <3>2, <3>3
  <2> QED BY <1>3, <2>1, <2>2 DEF SubmitJob, Fault
<1>4. CASE UndoRow(i)
  <2>1. j \notin disturbed /\ j # i
    BY <1>4 DEF UndoRow, Fault
  <2> QED BY <1>4, <2>1 DEF UndoRow, Fault, TypeOK
<1> QED BY <1>1, <1>2, <1>3, <1>4 DEF Handler

LEMMA RecoveryRow ==
    ASSUME TypeOK, Recovery, NEW j \in Jobs \ disturbed',
           j \notin disturbed => Custody(j) /\ RowSays(j)
    PROVE  RowSays(j)'
<1> USE JobsAssumption
    DEF redis, store, life, budget, worker, RowSays, InQueue, Held, TerminalStatus,
        Working, Holding
<1>1. CASE ScanStatuses
  <2>1. /\ j \notin disturbed /\ unsaid' = unsaid
        /\ j \in orphans' => rstatus[j] = "processing"
    BY <1>1 DEF ScanStatuses, RedisOk, RedisErr, Fault
  <2> QED BY <1>1, <2>1 DEF ScanStatuses, TypeOK, Final
<1>2. ASSUME NEW i \in Jobs, SkipOrphan(i)
      PROVE  RowSays(j)'
  BY <1>2 DEF SkipOrphan, TypeOK
<1>3. ASSUME NEW i \in Jobs, RecoverOrphan(i)
      PROVE  RowSays(j)'
  <2>1. /\ j \notin disturbed /\ unsaid' = unsaid
        /\ j # i => rstatus'[j] = rstatus[j]
    BY <1>3 DEF RecoverOrphan, SetStatus, RedisOk, Fault, Final, TypeOK
  <2>2. /\ i \in orphans /\ orphans' \subseteq orphans /\ wjob' = i /\ wpc' = "rec_pg"
        /\ UNCHANGED <<pg, results, queue, req>>
    BY <1>3 DEF RecoverOrphan
  <2> QED BY <2>1, <2>2
<1>4. CASE RecoverRow
  <2>1. /\ j \notin disturbed
        /\ pg'[j] = IF j = wjob /\ pg[j] # "absent" THEN "pending" ELSE pg[j]
        /\ j # wjob => (j \in unsaid' <=> j \in unsaid)
    BY <1>4 DEF RecoverRow, PutRow, Fault, TypeOK
  <2>2. /\ UNCHANGED <<results, rstatus, queue, req, wjob, orphans>>
        /\ wpc = "rec_pg" /\ wpc' = "rec_push"
    BY <1>4 DEF RecoverRow
  <2>3. CASE j = wjob
    BY <2>1, <2>2, <2>3 DEF Final, Custody
  <2>4. CASE j # wjob
    BY <2>1, <2>2, <2>4
  <2> QED BY <2>3, <2>4
<1>5. CASE RecoverPush
  <2>1. wjob \in Jobs /\ j \notin disturbed /\ unsaid' = unsaid
    BY <1>5 DEF RecoverPush, PushJob, RedisOk, Fault, TypeOK
  <2>2. /\ In(queue', j) => In(queue, j) \/ j = wjob
        /\ j # wjob => rstatus'[j] = rstatus[j]
    BY <1>5, <2>1, EnqueueEffect, EnqueueTwiceEffect
       DEF RecoverPush, PushJob, Fault
  <2>3. /\ wpc = "rec_push" /\ wjob' = NoJob
        /\ UNCHANGED <<pg, results, req, orphans>>
    BY <1>5 DEF RecoverPush
  <2> QED BY <2>1, <2>2, <2>3
<1>6. CASE EndRecovery
  BY <1>6 DEF EndRecovery, LoopHead, TypeOK
<1> QED BY <1>1, <1>2, <1>3, <1>4, <1>5, <1>6 DEF Recovery

LEMMA LoopRow ==
    ASSUME TypeOK, Loop, NEW j \in Jobs \ disturbed',
           j \notin disturbed => Custody(j) /\ RowSays(j)
    PROVE  RowSays(j)'
<1> USE JobsAssumption
    DEF redis, store, life, budget, worker, RowSays, InQueue, Held, TerminalStatus,
        Working, Holding
<1>1. CASE TakeJob
  <2>1. /\ In(queue, Head(queue))
        /\ In(queue', j) => In(queue, j)
    BY <1>1, TailLemma DEF TakeJob, TypeOK
  <2>2. wjob = NoJob /\ j \notin disturbed
    BY <1>1 DEF TakeJob, TypeOK
  <2> QED BY <1>1, <2>1, <2>2 DEF TakeJob
<1>2. CASE LoseReply
  <2>1. j \notin disturbed /\ (In(queue', j) => In(queue, j))
    BY <1>2, TailLemma DEF LoseReply, Fault, TypeOK
  <2>2. wjob = NoJob
    BY <1>2 DEF LoseReply, TypeOK
  <2>3. unsaid' = unsaid
    BY <1>2 DEF LoseReply, Fault
  <2> QED BY <1>2, <2>1, <2>2, <2>3 DEF LoseReply
<1>3. CASE WorkerStops
  BY <1>3 DEF WorkerStops, TypeOK
<1>4. CASE CheckCancelled
  BY <1>4 DEF CheckCancelled, Release, RedisOk, RedisErr, Fault, TypeOK
<1> QED BY <1>1, <1>2, <1>3, <1>4 DEF Loop

LEMMA ProcessRow ==
    ASSUME TypeOK, ProcessJob, NEW j \in Jobs \ disturbed',
           j \notin disturbed => Custody(j) /\ RowSays(j)
    PROVE  RowSays(j)'
<1> USE JobsAssumption
    DEF redis, store, life, budget, worker, RowSays, InQueue, Held, TerminalStatus,
        Working, Holding
<1>1. ASSUME NEW from, NEW to, NEW s, Tell(from, s, to), from \in Holding
      PROVE  /\ j \notin disturbed
             /\ UNCHANGED <<pg, results, queue, req, orphans, wjob, verdict>>
             /\ wpc = from /\ wpc' = to
             /\ unsaid \subseteq unsaid'
             /\ j # wjob => /\ rstatus'[j] = rstatus[j]
                            /\ j \in unsaid' => j \in unsaid
             /\ j = wjob /\ s \in Final => rstatus'[j] = s \/ j \in unsaid'
  <2>1. wjob \in Jobs
    BY <1>1 DEF Tell, TypeOK
  <2> QED BY <1>1, <2>1 DEF Tell, SetStatus, RedisOk, Fault, TypeOK
<1>2. CASE MarkProcessing \/ TellRetry
  BY <1>1, <1>2 DEF MarkProcessing, TellRetry, Final
<1>3. CASE TellDone
  BY <1>1, <1>3 DEF TellDone, Final
<1>4. CASE TellTerminal
  <2>1. TerminalStatus \in Final
    BY DEF Final
  <2> QED BY <1>1, <1>4, <2>1 DEF TellTerminal
<1>5. CASE TellFailed
  BY <1>1, <1>5 DEF TellFailed, Final
<1>6. ASSUME NEW from, NEW s, Settle(from, s), from \in Working
      PROVE  /\ j \notin disturbed
             /\ pg'[j] = IF j = wjob THEN s ELSE pg[j]
             /\ UNCHANGED <<rstatus, results, queue, req, orphans, unsaid>>
             /\ wpc = from /\ wjob' = NoJob
  <2>1. j \notin disturbed /\ wjob \in Jobs
    BY <1>6 DEF Settle, UpdateRow, Fault, TypeOK
  <2>2. j = wjob => pg[j] # "absent"
    BY <1>6, <2>1 DEF Settle
  <2> QED BY <1>6, <2>1, <2>2 DEF Settle, UpdateRow, PutRow, Release, Fault, TypeOK
<1>7. CASE RowDone
  BY <1>6, <1>7 DEF RowDone, Final, Custody
<1>8. CASE RowTerminal
  BY <1>6, <1>8 DEF RowTerminal, Final, Custody
<1>9. CASE RowRetry
  BY <1>6, <1>9 DEF RowRetry, Final, Custody
<1>10. CASE RowFailed
  BY <1>6, <1>10 DEF RowFailed, Final, Custody
<1>11. CASE MarkRow
  <2>1. j \notin disturbed
    BY <1>11 DEF MarkRow, UpdateRow, Fault
  <2>2. /\ pg'[j] = IF j = wjob /\ pg[j] # "absent" THEN "processing" ELSE pg[j]
        /\ unsaid' = unsaid
    BY <1>11 DEF MarkRow, UpdateRow, PutRow, Fault, TypeOK
  <2>3. j = wjob => pg[j] # "absent"
    BY <1>11, <2>1 DEF MarkRow, TypeOK, Custody
  <2>4. /\ UNCHANGED <<rstatus, results, queue, req, orphans, wjob>>
        /\ wpc = "pgmark" /\ wpc' = "load"
    BY <1>11 DEF MarkRow
  <2>5. CASE j = wjob
    BY <1>11, <2>1, <2>2, <2>3, <2>4, <2>5 DEF Final, Custody
  <2>6. CASE j # wjob
    BY <2>1, <2>2, <2>4, <2>6
  <2> QED BY <2>5, <2>6
<1>12. CASE LoadModel
  BY <1>12 DEF LoadModel
<1>13. CASE RunSolver
  BY <1>13 DEF RunSolver
<1>14. CASE SaveLog
  BY <1>14 DEF SaveLog, StoreLog, Fault, TypeOK, Verdicts
<1>15. CASE SaveResults
  <2>1. j \notin disturbed /\ unsaid' = unsaid
    BY <1>15 DEF SaveResults, StoreResults, Fault
  <2>2. results[j] \in Nat /\ wjob \in Jobs
    BY <1>15 DEF SaveResults, TypeOK
  <2>3. results'[j] \in {results[j], results[j] + 1}
    BY <1>15, <2>1, <2>2 DEF SaveResults, StoreResults, TypeOK
  <2>5. /\ j = wjob /\ wpc' = "done_status" => results'[j] >= 1
        /\ wpc' \in {"done_status", "inc"}
    BY <1>15, <2>1, <2>2 DEF SaveResults, StoreResults, TypeOK
  <2>4. /\ UNCHANGED <<pg, rstatus, queue, req, orphans, wjob, verdict>>
        /\ wpc = "save"
    BY <1>15 DEF SaveResults
  <2> QED BY <2>1, <2>2, <2>3, <2>4, <2>5 DEF Final
<1>16. CASE IncrementRetry
  BY <1>16 DEF IncrementRetry, Onward, RedisOk, RedisErr, Fault, TypeOK
<1>17. CASE PushRetry
  <2>1. wjob \in Jobs /\ j \notin disturbed /\ unsaid' = unsaid
    BY <1>17 DEF PushRetry, PushJob, RedisOk, Fault, TypeOK
  <2>2. /\ In(queue', j) => In(queue, j) \/ j = wjob
        /\ j # wjob => rstatus'[j] = rstatus[j]
    BY <1>17, <2>1, EnqueueEffect, EnqueueTwiceEffect
       DEF PushRetry, PushJob, Fault
  <2>3. /\ wpc = "retry_push" /\ wpc' = "retry_pg"
        /\ UNCHANGED <<pg, results, req, orphans, wjob>>
    BY <1>17 DEF PushRetry
  <2>4. CASE j = wjob
    BY <2>1, <2>2, <2>3, <2>4 DEF Final
  <2>5. CASE j # wjob
    BY <2>1, <2>2, <2>3, <2>5
  <2> QED BY <2>4, <2>5
<1> QED
  BY <1>2, <1>3, <1>4, <1>5, <1>7, <1>8, <1>9, <1>10, <1>11, <1>12, <1>13, <1>14,
     <1>15, <1>16, <1>17
  DEF ProcessJob

LEMMA OutsideRow ==
    ASSUME TypeOK, Outside, NEW j \in Jobs \ disturbed',
           j \notin disturbed => Custody(j) /\ RowSays(j)
    PROVE  RowSays(j)'
<1> USE JobsAssumption
    DEF redis, store, life, budget, worker, RowSays, InQueue, Held, TerminalStatus,
        Working, Holding
<1>1. ASSUME NEW i \in Jobs, CancelJob(i)
      PROVE  RowSays(j)'
  <2>1. In(queue', j) => In(queue, j)
    BY <1>1, LRemLemma DEF CancelJob, TypeOK
  <2>2. rstatus'[j] = IF j = i THEN "cancelled" ELSE rstatus[j]
    BY <1>1 DEF CancelJob, TypeOK
  <2> QED BY <1>1, <2>1, <2>2 DEF CancelJob
<1>2. ASSUME NEW i \in Jobs, LapseStatus(i)
      PROVE  RowSays(j)'
  BY <1>2 DEF LapseStatus, Fault, TypeOK
<1>3. CASE Sigterm
  BY <1>3 DEF Sigterm
<1>4. CASE Die
  BY <1>4 DEF Die, TypeOK
<1>5. CASE Boot
  BY <1>5 DEF Boot, TypeOK
<1>6. CASE LoseRedis
  <2>1. /\ j \notin disturbed /\ pg[j] = "absent" /\ rstatus[j] = "absent"
        /\ UNCHANGED <<pg, results, req, orphans, wpc, wjob, proc, verdict>>
        /\ rstatus'[j] = "absent"
    BY <1>6 DEF LoseRedis, Fault, Known
  <2>2. ~In(queue', j)
    BY <1>6 DEF LoseRedis, In
  <2> QED BY <2>1, <2>2
<1> QED BY <1>1, <1>2, <1>3, <1>4, <1>5, <1>6 DEF Outside

LEMMA NextRow ==
    ASSUME TypeOK, CustodyInv, RowInv, [Next]_vars
    PROVE  RowInv'
<1> SUFFICES ASSUME NEW j \in Jobs \ disturbed' PROVE RowSays(j)'
  BY DEF RowInv
<1>1. j \notin disturbed => Custody(j) /\ RowSays(j)
  BY DEF CustodyInv, RowInv
<1>2. CASE UNCHANGED vars
  BY <1>1, <1>2 DEF vars, RowSays, InQueue, Held, TerminalStatus
<1> QED
  BY <1>1, <1>2, HandlerRow, RecoveryRow, LoopRow, ProcessRow, OutsideRow
  DEF Next, Worker

LEMMA RowInvariant == Spec => [](TypeOK /\ CustodyInv /\ RowInv)
<1>1. Init => RowInv
  BY InitRow
<1>2. TypeOK /\ CustodyInv /\ RowInv /\ [Next]_vars => RowInv'
  BY NextRow
<1> QED BY <1>1, <1>2, CustodyInvariant, PTL DEF Spec

\* A row is closed only with the status Redis shows, cancellation aside.
THEOREM RowFollowsRedisHolds == Spec => []RowFollowsRedis
<1>1. RowInv => RowFollowsRedis
  BY DEF RowInv, RowSays, RowFollowsRedis
<1> QED BY <1>1, RowInvariant, PTL

-----------------------------------------------------------------------------
(* The steps.  RowInv leaves seven ways in which a step may change the rows.  *)

\* Only rows that a faulty store call touched change, if any.
Quiet == \A j \in Jobs \ disturbed' : /\ pg'[j] = pg[j] /\ results'[j] = results[j]
                                      /\ j \in unsaid' <=> j \in unsaid

\* One row goes from a status in from to s.
Moves(j, from, s) == /\ pg[j] \in from
                     /\ pg' = [pg EXCEPT ![j] = s]
                     /\ UNCHANGED <<results, disturbed, unsaid>>

\* A run in progress gets a plan.
Plans(j) == /\ pg[j] = "processing"
            /\ results' = [results EXCEPT ![j] = @ + 1]
            /\ UNCHANGED <<pg, disturbed, unsaid>>

\* A shutdown keeps from Redis the end of a run in progress, and the next start
\* opens the run again.
Muffles(j) == /\ pg[j] = "processing"
              /\ unsaid' = unsaid \cup {j}
              /\ UNCHANGED <<pg, results, disturbed>>

Reopens(j) == /\ j \in unsaid /\ unsaid' = unsaid \ {j}
              /\ pg[j] \in Active \cup Final
              /\ pg' = [pg EXCEPT ![j] = "pending"]
              /\ UNCHANGED <<results, disturbed>>

LawfulStep ==
    \/ Quiet
    \/ \E j \in Jobs : \/ req[j] = "checked" /\ Moves(j, {"absent"}, "pending")
                       \/ Moves(j, Active, "pending")
                       \/ Moves(j, Active, "processing")
                       \/ Plans(j) \/ Muffles(j) \/ Reopens(j)
                       \/ \E s \in Final : /\ s = "done" => results[j] >= 1
                                           /\ Moves(j, {"processing"}, s)

\* The UPDATE of the worker: lawful when an undisturbed row allows it.
LEMMA UpdateLawful ==
    ASSUME TypeOK, UNCHANGED results, NEW s \in Active \cup Final, wjob \in Jobs,
           UpdateRow(wjob, s),
           wjob \notin disturbed /\ s \in Active => pg[wjob] \notin Final,
           wjob \notin disturbed /\ s \in Final =>
              pg[wjob] = "processing" /\ (s = "done" => results[wjob] >= 1)
    PROVE  LawfulStep
<1>1. CASE wjob \in disturbed' \/ pg[wjob] = "absent"
  <2>1. Quiet
    BY <1>1 DEF Quiet, UpdateRow, PutRow, Fault, budget, TypeOK
  <2> QED BY <2>1 DEF LawfulStep
<1>2. CASE wjob \notin disturbed' /\ pg[wjob] # "absent"
  <2>1. /\ wjob \notin disturbed
        /\ pg' = [pg EXCEPT ![wjob] = s] /\ UNCHANGED <<results, disturbed, unsaid>>
    BY <1>2 DEF UpdateRow, PutRow, Fault, budget
  <2>2. CASE s \in Active
    <3>1. pg[wjob] \in Active
      BY <1>2, <2>1, <2>2 DEF TypeOK, PgStatus
    <3> QED BY <2>1, <2>2, <3>1 DEF LawfulStep, Moves, Active
  <2>3. CASE s \in Final
    BY <2>1, <2>3 DEF LawfulStep, Moves
  <2> QED BY <2>2, <2>3
<1> QED BY <1>1, <1>2

LEMMA NextLawful ==
    ASSUME TypeOK, CustodyInv, RowInv, [Next]_vars
    PROVE  LawfulStep
<1> USE JobsAssumption DEF redis, store, life, worker, budget, Fault, RedisOk, RedisErr
<1>1. ASSUME UNCHANGED <<pg, results, unsaid>>
      PROVE  LawfulStep
  BY <1>1 DEF LawfulStep, Quiet
<1>2. ASSUME NEW i \in Jobs, Handler(i)
      PROVE  LawfulStep
  <2>1. CASE CheckActive(i) \/ SubmitJob(i)
    BY <1>1, <2>1 DEF CheckActive, SubmitJob
  <2>2. CASE CreateRow(i)
    <3>1. CASE i \in disturbed'
      <4>1. Quiet
        BY <2>2, <3>1 DEF CreateRow, Quiet, TypeOK
      <4> QED BY <4>1 DEF LawfulStep
    <3>2. CASE i \notin disturbed'
      <4>1. i \notin disturbed /\ req[i] = "checked"
        BY <2>2, <3>2 DEF CreateRow
      <4>2. pg[i] = "absent"
        BY <4>1 DEF RowInv, RowSays
      <4>3. Moves(i, {"absent"}, "pending")
        BY <2>2, <3>2, <4>2 DEF CreateRow, Moves
      <4> QED BY <4>1, <4>3 DEF LawfulStep
    <3> QED BY <3>1, <3>2
  <2>3. CASE UndoRow(i)
    <3>1. i \in disturbed /\ i \in disturbed'
      BY <2>3 DEF UndoRow, RowInv, RowSays
    <3>2. Quiet
      BY <2>3, <3>1 DEF UndoRow, Quiet, TypeOK
    <3> QED BY <3>2 DEF LawfulStep
  <2> QED BY <1>2, <2>1, <2>2, <2>3 DEF Handler
<1>3. CASE Recovery
  <2>1. CASE RecoverRow
    <3>1. /\ wjob \in Jobs /\ wpc = "rec_pg" /\ Held(wjob) /\ UNCHANGED results
          /\ wjob \notin disturbed' => /\ wjob \notin disturbed /\ UNCHANGED disturbed
                                       /\ PutRow(wjob, "pending")
                                       /\ unsaid' = unsaid \ {wjob}
      BY <2>1 DEF RecoverRow, TypeOK, Holding, Held
    <3>2. CASE wjob \in disturbed'
      <4>1. Quiet
        BY <2>1, <3>1, <3>2 DEF RecoverRow, PutRow, Quiet, TypeOK
      <4> QED BY <4>1 DEF LawfulStep
    <3>3. CASE wjob \notin disturbed'
      <4>1. Custody(wjob) /\ RowSays(wjob)
        BY <3>1, <3>3 DEF CustodyInv, RowInv
      <4>2. pg[wjob] \in Active \cup Final
        BY <3>1, <4>1 DEF Custody, RowSays, TypeOK, PgStatus
      <4>3. pg' = [pg EXCEPT ![wjob] = "pending"]
        BY <3>1, <3>3, <4>2 DEF PutRow, Active, Final
      <4>4. CASE wjob \in unsaid
        BY <3>1, <3>3, <4>2, <4>3, <4>4 DEF LawfulStep, Reopens
      <4>5. CASE wjob \notin unsaid
        <5>1. pg[wjob] \in Active /\ UNCHANGED unsaid
          BY <3>1, <3>3, <4>1, <4>2, <4>5 DEF RowSays
        <5>2. Moves(wjob, Active, "pending")
          BY <3>1, <3>3, <4>3, <5>1 DEF Moves
        <5> QED BY <3>1, <5>2 DEF LawfulStep
      <4> QED BY <4>4, <4>5
    <3> QED BY <3>2, <3>3
  <2>2. CASE ScanStatuses \/ (\E i \in Jobs : SkipOrphan(i)) \/ RecoverPush \/ EndRecovery
    BY <1>1, <2>2 DEF ScanStatuses, SkipOrphan, RecoverPush, PushJob, EndRecovery
  <2>3. ASSUME NEW i \in Jobs, RecoverOrphan(i)
        PROVE  LawfulStep
    BY <1>1, <2>3 DEF RecoverOrphan, SetStatus, Final
  <2> QED BY <1>3, <2>1, <2>2, <2>3 DEF Recovery
<1>4. CASE Loop
  BY <1>1, <1>4 DEF Loop, TakeJob, LoseReply, WorkerStops, CheckCancelled
<1>5. CASE ProcessJob
  <2>2. CASE LoadModel \/ RunSolver \/ SaveLog \/ IncrementRetry \/ PushRetry
    BY <1>1, <2>2
    DEF LoadModel, RunSolver, SaveLog, StoreLog, IncrementRetry, PushRetry, PushJob
  <2>3. wpc \in Holding => /\ wjob \in Jobs
                           /\ wjob \notin disturbed /\ wpc # "rec_pg"
                              => pg[wjob] \notin Final
    BY DEF TypeOK, RowInv, RowSays, Held
  <2>4. wpc \in Working /\ wjob \notin disturbed /\ wjob \in Jobs
        => /\ pg[wjob] = "processing"
           /\ wpc = "done_pg" => results[wjob] >= 1
    BY DEF RowInv, RowSays, Held
  <2>5. /\ {"pending", "processing"} = Active /\ Final = {"done", "error", "infeasible"}
        /\ Working \subseteq Holding /\ "pgmark" \in Holding /\ "rec_pg" \notin Working
        /\ TerminalStatus \in {"infeasible", "error"}
    BY DEF Active, Final, Working, Holding, TerminalStatus
  <2>1. ASSUME NEW from, NEW s, NEW to, Tell(from, s, to),
               s \in Final => from \in Working
        PROVE  LawfulStep
    <3>1. CASE UNCHANGED unsaid
      BY <1>1, <2>1, <3>1 DEF Tell
    <3>2. CASE unsaid' # unsaid
      <4>1. /\ s \in Final /\ unsaid' = unsaid \cup {wjob} /\ wpc \in Working
            /\ UNCHANGED <<pg, results, disturbed>>
        BY <2>1, <3>2 DEF Tell, SetStatus
      <4>2. CASE wjob \in disturbed
        <5>1. Quiet
          BY <4>1, <4>2 DEF Quiet
        <5> QED BY <5>1 DEF LawfulStep
      <4>3. CASE wjob \notin disturbed
        <5>1. wjob \in Jobs /\ Muffles(wjob)
          BY <2>3, <2>4, <2>5, <4>1, <4>3 DEF Muffles
        <5> QED BY <5>1 DEF LawfulStep
      <4> QED BY <4>2, <4>3
    <3> QED BY <3>1, <3>2
  <2>10. CASE MarkProcessing \/ TellRetry
    BY <2>1, <2>10 DEF MarkProcessing, TellRetry, Final
  <2>11. CASE TellDone \/ TellTerminal \/ TellFailed
    BY <2>1, <2>11 DEF TellDone, TellTerminal, TellFailed, Working
  <2>6. CASE MarkRow
    BY <2>3, <2>5, <2>6, UpdateLawful DEF MarkRow
  <2>7. ASSUME NEW from \in Working, NEW s \in Active \cup Final, Settle(from, s),
               s = "done" => from = "done_pg"
        PROVE  LawfulStep
    BY <2>3, <2>4, <2>5, <2>7, UpdateLawful DEF Settle
  <2>8. CASE RowDone \/ RowTerminal \/ RowRetry \/ RowFailed
    BY <2>5, <2>7, <2>8 DEF RowDone, RowTerminal, RowRetry, RowFailed, Working
  <2>9. CASE SaveResults
    <3>1. CASE wjob \in disturbed'
      <4>1. Quiet
        BY <2>9, <3>1 DEF SaveResults, StoreResults, Quiet, TypeOK
      <4> QED BY <4>1 DEF LawfulStep
    <3>2. CASE wjob \notin disturbed'
      <4>1. wjob \in Jobs /\ wjob \notin disturbed /\ wpc \in Working
        BY <2>9, <3>2 DEF SaveResults, StoreResults, Working, TypeOK, Holding
      <4>2. CASE UNCHANGED results
        BY <1>1, <2>9, <3>2, <4>2 DEF SaveResults, StoreResults
      <4>3. CASE ~UNCHANGED results
        <5>1. Plans(wjob)
          BY <2>4, <2>9, <3>2, <4>1, <4>3 DEF SaveResults, StoreResults, Plans
        <5> QED BY <4>1, <5>1 DEF LawfulStep
      <4> QED BY <4>2, <4>3
    <3> QED BY <3>1, <3>2
  <2> QED BY <1>5, <2>2, <2>6, <2>8, <2>9, <2>10, <2>11 DEF ProcessJob
<1>6. CASE Outside
  BY <1>1, <1>6 DEF Outside, CancelJob, LapseStatus, LoseRedis, Sigterm, Die, Boot
<1>7. CASE UNCHANGED vars
  BY <1>1, <1>7 DEF vars
<1> QED BY <1>2, <1>3, <1>4, <1>5, <1>6, <1>7 DEF Next, Worker

\* What a lawful step leaves alone.
LEMMA LawfulKeeps ==
    ASSUME TypeOK, LawfulStep, NEW j \in Jobs, pg[j] \in Final,
           j \notin disturbed' \cup unsaid
    PROVE  pg'[j] = pg[j] /\ results'[j] = results[j] /\ j \notin unsaid'
<1> DEFINE Kept == pg'[j] = pg[j] /\ results'[j] = results[j] /\ j \notin unsaid'
<1>1. CASE Quiet
  BY <1>1 DEF Quiet
<1>2. ASSUME NEW i \in Jobs, NEW from, NEW s, Moves(i, from, s), from \cap Final = {}
      PROVE  Kept
  BY <1>2 DEF Moves, TypeOK
<1>3. ASSUME NEW i \in Jobs, Plans(i) \/ Muffles(i)
      PROVE  Kept
  BY <1>3 DEF Plans, Muffles, TypeOK, Final
<1>4. ASSUME NEW i \in Jobs, Reopens(i)
      PROVE  Kept
  BY <1>4 DEF Reopens, TypeOK
<1>5. /\ {"absent"} \cap Final = {} /\ Active \cap Final = {}
      /\ {"processing"} \cap Final = {}
  BY DEF Active, Final
<1> QED BY <1>1, <1>2, <1>3, <1>4, <1>5 DEF LawfulStep

\* A row that has reached a final status keeps it and its plans, unless a failed
\* store call touched the run or a shutdown kept its end from Redis.
THEOREM FinalIsFinalHolds == Spec => FinalIsFinal
<1> DEFINE Kept == \A j \in Jobs : pg[j] \in Final /\ j \notin disturbed' \cup unsaid
                                   => pg'[j] = pg[j] /\ results'[j] = results[j]
<1>1. TypeOK /\ CustodyInv /\ RowInv /\ [Next]_vars => [Kept]_vars
  BY NextLawful, LawfulKeeps
<1> QED BY <1>1, RowInvariant, PTL DEF Spec, FinalIsFinal

\* Only the count lets a request past it, and only on finding no active run.
LEMMA CountLetsPast ==
    ASSUME TypeOK, [Next]_vars, NEW j \in Jobs \ disturbed',
           req[j] # "checked", req'[j] = "checked"
    PROVE  ActiveRuns(ScenOf[j]) = {}
<1> USE DEF redis, store, life, budget, worker
<1>1. ASSUME NEW i \in Jobs, Handler(i)
      PROVE  ActiveRuns(ScenOf[j]) = {}
  <2>1. CASE CheckActive(i)
    BY <2>1 DEF CheckActive, Fault, TypeOK
  <2>2. CASE CreateRow(i)
    BY <2>2 DEF CreateRow, TypeOK
  <2>3. CASE SubmitJob(i)
    BY <2>3 DEF SubmitJob, TypeOK
  <2>4. CASE UndoRow(i)
    BY <2>4 DEF UndoRow, TypeOK
  <2> QED BY <1>1, <2>1, <2>2, <2>3, <2>4 DEF Handler
<1>2. CASE UNCHANGED req
  BY <1>2
<1>3. CASE Recovery
  BY <1>2, <1>3 DEF Recovery, ScanStatuses, SkipOrphan, RecoverOrphan, RecoverRow,
                    RecoverPush, EndRecovery
<1>4. CASE Loop
  BY <1>2, <1>4 DEF Loop, TakeJob, LoseReply, WorkerStops, CheckCancelled
<1>5. CASE MarkProcessing \/ TellDone \/ TellTerminal \/ TellRetry \/ TellFailed
  BY <1>2, <1>5
  DEF MarkProcessing, TellDone, TellTerminal, TellRetry, TellFailed, Tell
<1>6. CASE RowDone \/ RowTerminal \/ RowRetry \/ RowFailed \/ MarkRow
  BY <1>2, <1>6 DEF RowDone, RowTerminal, RowRetry, RowFailed, Settle, MarkRow
<1>7. CASE LoadModel \/ RunSolver \/ SaveLog \/ SaveResults \/ IncrementRetry \/ PushRetry
  BY <1>2, <1>7
  DEF LoadModel, RunSolver, SaveLog, SaveResults, IncrementRetry, PushRetry
<1>8. CASE (\E i \in Jobs : CancelJob(i) \/ LapseStatus(i)) \/ LoseRedis \/ Sigterm \/ Boot
  BY <1>2, <1>8 DEF CancelJob, LapseStatus, LoseRedis, Sigterm, Boot
<1>9. CASE Die
  BY <1>9 DEF Die, TypeOK
<1>10. CASE UNCHANGED vars
  BY <1>2, <1>10 DEF vars
<1> QED
  BY <1>1, <1>3, <1>4, <1>5, <1>6, <1>7, <1>8, <1>9, <1>10
  DEF Next, Worker, ProcessJob, Outside

\* While a run of its scenario is active, a request gets a second one only by the
\* race of the two counts.
THEOREM DuplicatesOnlyByRaceHolds == Spec => DuplicatesOnlyByRace
<1> DEFINE Raced(j) == /\ \E i \in Jobs \ {j} : ScenOf[i] = ScenOf[j] /\ pg[i] \in Active
                       /\ ~AheadOf(j) /\ j \notin disturbed' \cup unsaid
           Kept == \A j \in Jobs : Raced(j) => ~AheadOf(j)'
<1>1. ASSUME TypeOK, LawfulStep, [Next]_vars PROVE Kept
  <2> SUFFICES ASSUME NEW j \in Jobs, Raced(j), AheadOf(j)'
               PROVE  FALSE
    OBVIOUS
  <2>1. /\ j \in Jobs \ disturbed' /\ j \notin unsaid
        /\ pg[j] \notin Active /\ req[j] # "checked"
    BY DEF AheadOf
  <2>2. req'[j] # "checked"
    <3>1. ActiveRuns(ScenOf[j]) # {}
      BY DEF ActiveRuns
    <3> QED BY <1>1, <2>1, <3>1, CountLetsPast
  <2>3. pg'[j] \in Active
    BY <2>2 DEF AheadOf
  <2>4. CASE Quiet
    BY <2>1, <2>3, <2>4 DEF Quiet
  <2>5. ASSUME NEW i \in Jobs, NEW from, NEW s, Moves(i, from, s),
               i = j => from \subseteq Active \/ s \notin Active
        PROVE  FALSE
    BY <2>1, <2>3, <2>5 DEF Moves, TypeOK
  <2>6. ASSUME NEW i \in Jobs, Plans(i)
        PROVE  FALSE
    BY <2>1, <2>3, <2>6 DEF Plans
  <2>7. ASSUME NEW i \in Jobs, Muffles(i)
        PROVE  FALSE
    BY <2>1, <2>3, <2>7 DEF Muffles
  <2>8. ASSUME NEW i \in Jobs, Reopens(i)
        PROVE  FALSE
    <3>1. pg'[j] = pg[j]
      BY <2>1, <2>8 DEF Reopens, TypeOK
    <3> QED BY <2>1, <2>3, <3>1
  <2>9. Active \subseteq Active /\ Active \cap Final = {}
    BY DEF Active, Final
  <2> QED BY <1>1, <2>1, <2>4, <2>5, <2>6, <2>7, <2>8, <2>9 DEF LawfulStep
<1>2. TypeOK /\ CustodyInv /\ RowInv /\ [Next]_vars => [Kept]_vars
  BY <1>1, NextLawful
<1> QED BY <1>2, RowInvariant, PTL DEF Spec, DuplicatesOnlyByRace

-----------------------------------------------------------------------------
(* The refinement: initial states map to initial states, and every lawful     *)
(* step to a step of RunContract or to a stutter.                             *)

LEMMA ContractNames ==
    /\ Contract!Active = Active /\ Contract!Final = Final
    /\ Contract!Phases = PgStatus
  BY DEF Contract!Active, Contract!Final, Contract!Phases, Active, Final, PgStatus

LEMMA ContractInit == Init => Contract!Init
<1> SUFFICES ASSUME Init PROVE Contract!Init
  OBVIOUS
<1>1. \A j \in Jobs : (results[j] >= 1) = FALSE
  BY DEF Init
<1>2. [j \in Jobs |-> results[j] >= 1] = [j \in Jobs |-> FALSE]
  BY <1>1, Zenon
<1> QED BY <1>2 DEF Init, Contract!Init

\* What the store calls do to the set of disturbed runs.
LEMMA DisturbedGrows ==
    ASSUME [Next]_vars
    PROVE  disturbed \subseteq disturbed'
<1> USE DEF redis, store, life, budget, worker, Fault, RedisOk, RedisErr, SetStatus,
            PushJob, UpdateRow, PutRow
<1>1. ASSUME NEW i \in Jobs, Handler(i)
      PROVE  disturbed \subseteq disturbed'
  BY <1>1 DEF Handler, CheckActive, CreateRow, SubmitJob, UndoRow
<1>2. CASE Recovery
  BY <1>2 DEF Recovery, ScanStatuses, SkipOrphan, RecoverOrphan, RecoverRow,
              RecoverPush, EndRecovery
<1>3. CASE Loop
  BY <1>3 DEF Loop, TakeJob, LoseReply, WorkerStops, CheckCancelled
<1>4. CASE MarkProcessing \/ TellDone \/ TellTerminal \/ TellRetry \/ TellFailed
  BY <1>4 DEF MarkProcessing, TellDone, TellTerminal, TellRetry, TellFailed, Tell
<1>5. CASE RowDone \/ RowTerminal \/ RowRetry \/ RowFailed \/ MarkRow
  BY <1>5 DEF RowDone, RowTerminal, RowRetry, RowFailed, Settle, MarkRow
<1>6. CASE LoadModel \/ RunSolver \/ IncrementRetry \/ PushRetry
  BY <1>6 DEF LoadModel, RunSolver, IncrementRetry, PushRetry
<1>7. CASE SaveLog
  BY <1>7 DEF SaveLog, StoreLog
<1>8. CASE SaveResults
  BY <1>8 DEF SaveResults, StoreResults
<1>9. CASE Outside
  BY <1>9 DEF Outside, CancelJob, LapseStatus, LoseRedis, Sigterm, Die, Boot
<1>10. CASE UNCHANGED vars
  BY <1>10 DEF vars
<1> QED
  BY <1>1, <1>2, <1>3, <1>4, <1>5, <1>6, <1>7, <1>8, <1>9, <1>10
  DEF Next, Worker, ProcessJob

LEMMA ContractStep ==
    ASSUME TypeOK, TypeOK', CustodyInv, RowInv, [Next]_vars
    PROVE  Contract!Next
<1> DEFINE planned == [j \in Jobs |-> results[j] >= 1]
<1>1. CASE Quiet
  <2>1. /\ disturbed \subseteq disturbed' /\ disturbed' \subseteq Jobs
        /\ unsaid' \subseteq Jobs
        /\ pg' \in [Jobs -> PgStatus]
    BY DisturbedGrows DEF TypeOK
  <2>2. /\ planned' \in [Jobs -> BOOLEAN]
        /\ \A j \in Jobs \ disturbed' : pg'[j] = pg[j] /\ planned'[j] = planned[j]
    BY <1>1 DEF Quiet
  <2>3. \A j \in Jobs \ disturbed' : j \in unsaid' <=> j \in unsaid
    BY <1>1 DEF Quiet
  <2>4. Contract!Release
    BY <2>1, <2>2, <2>3, ContractNames DEF Contract!Release
  <2> QED BY <2>4 DEF Contract!Next
<1>2. ASSUME NEW j \in Jobs, NEW from, NEW s, Moves(j, from, s)
      PROVE  Contract!Move(j, from, s)
  BY <1>2 DEF Moves, Contract!Move
<1>3. ASSUME NEW j \in Jobs, Plans(j)
      PROVE  Contract!Plan(j)
  <2>1. results \in [Jobs -> Nat]
    BY DEF TypeOK
  <2>2. planned' = [planned EXCEPT ![j] = TRUE]
    <3>1. /\ (results[j] >= 1)' = TRUE
          /\ \A i \in Jobs \ {j} : results'[i] = results[i]
      BY <1>3, <2>1 DEF Plans
    <3>2. planned' = [i \in Jobs |-> IF i = j THEN TRUE ELSE results[i] >= 1]
      BY <3>1, Zenon
    <3>3. [planned EXCEPT ![j] = TRUE]
          = [i \in Jobs |-> IF i = j THEN TRUE ELSE results[i] >= 1]
      BY Zenon
    <3> QED BY <3>2, <3>3
  <2> QED BY <1>3, <2>2 DEF Plans, Contract!Plan
<1>4. ASSUME NEW j \in Jobs, NEW s \in Final, s = "done" => results[j] >= 1,
             Moves(j, {"processing"}, s)
      PROVE  Contract!End(j)
  BY <1>2, <1>4, ContractNames DEF Contract!End
<1>5. CASE \E j \in Jobs : \/ Moves(j, {"absent"}, "pending")
                           \/ Moves(j, Active, "pending")
                           \/ Moves(j, Active, "processing")
  BY <1>2, <1>5, ContractNames
  DEF Contract!Next, Contract!Submit, Contract!Begin, Contract!Requeue
<1>6. ASSUME NEW j \in Jobs, Muffles(j)
      PROVE  Contract!Muffle(j)
  BY <1>6 DEF Muffles, Contract!Muffle
<1>7. ASSUME NEW j \in Jobs, Reopens(j)
      PROVE  Contract!Reopen(j)
  BY <1>7, ContractNames DEF Reopens, Contract!Reopen
<1> QED
  BY NextLawful, <1>1, <1>3, <1>4, <1>5, <1>6, <1>7 DEF LawfulStep, Contract!Next

\* JobPipeline implements RunContract: the rows keep the contract of their readers.
THEOREM KeepsContractHolds == Spec => KeepsContract
<1>1. TypeOK /\ TypeOK' /\ CustodyInv /\ RowInv /\ [Next]_vars
      => [Contract!Next]_(Contract!cvars)
  BY ContractStep
<1> QED
  BY <1>1, ContractInit, RowInvariant, PTL DEF Spec, KeepsContract, Contract!Spec


-----------------------------------------------------------------------------
(* The log and the plan.  Both invariants are inductive beside TypeOK; the     *)
(* second, for disturbed runs too, once it says that nothing is known of a run *)
(* whose request has not created its row.                                      *)

Logged(j) ==
    attempts[j] <= logs[j] + restarts
                   + IF Held(j) /\ wpc \in {"solve", "log"} THEN 1 ELSE 0

Unknown(j) == /\ pg[j] = "absent" /\ rstatus[j] = "absent" /\ announced[j] = "absent"
              /\ ~InQueue(j) /\ ~Held(j) /\ j \notin orphans

Planned(j) ==
    /\ req[j] \in {"idle", "checked"} => Unknown(j)
    /\ \/ "done" \in {pg[j], rstatus[j], announced[j]}
       \/ Held(j) /\ wpc \in {"done_status", "done_pg"}
       => pg[j] = "absent" \/ results[j] >= 1

\* A run may call the solver again while somebody has it who could still get there
\* before the process dies: after SIGTERM, that is only who has not yet called it.
Ahead  == {"check", "mark", "pgmark", "load"}
Behind == {"retry_status", "retry_push", "retry_pg", "rec_pg", "rec_push"}

MayRun(j) == \/ req[j] \in {"idle", "checked", "created", "undo"}
             \/ InQueue(j)
             \/ Held(j) /\ wpc \in Ahead
             \/ /\ proc # "stopping"
                /\ \/ j \in orphans
                   \/ Held(j) /\ wpc \in Behind
                   \/ rstatus[j] = "processing" /\ ~Held(j)

Tried(j) ==
    /\ pg[j] = "absent" => attempts[j] = 0
    /\ attempts[j] <= retries[j] + restarts + 1
    /\ attempts[j] <= MaxRetries + restarts + 1
    /\ MayRun(j) => /\ attempts[j] <= retries[j] + restarts
                    /\ attempts[j] <= MaxRetries + restarts

\* Redis gets a final status only on the way to the row's, which lags behind it until
\* the worker closes it or, if the process dies first, for ever.
Told(j) ==
    rstatus[j] \in Final => /\ req[j] = "accepted"
                            /\ Held(j) => wpc \in {"done_pg", "fin_pg", "fail_pg"}
                            /\ pg[j] \in Active => RowLags(j)

LoggedInv  == \A j \in Jobs \ disturbed : Logged(j)
PlannedInv == \A j \in Jobs : Planned(j)
TriedInv   == \A j \in Jobs \ disturbed : Tried(j)
ToldInv    == \A j \in Jobs \ disturbed : Told(j)

\* A push, whatever came of it, for any run.
LEMMA PushMoves ==
    ASSUME TypeOK, NEW i \in Jobs, NEW j \in Jobs,
           Enqueue(i) \/ EnqueueTwice(i) \/ UNCHANGED <<queue, rstatus>>
    PROVE  /\ In(queue', j) => In(queue, j) \/ j = i
           /\ rstatus'[j] \in {rstatus[j], "pending"}
           /\ j # i => rstatus'[j] = rstatus[j]
<1>1. CASE Enqueue(i)
  BY <1>1, EnqueueEffect
<1>2. CASE EnqueueTwice(i)
  <2>1. rstatus'[j] \in {rstatus[j], "pending"}
    BY <1>2 DEF EnqueueTwice, TypeOK
  <2> QED BY <1>2, <2>1, EnqueueTwiceEffect
<1>3. CASE UNCHANGED <<queue, rstatus>>
  BY <1>3
<1> QED BY <1>1, <1>2, <1>3

-----------------------------------------------------------------------------
(* The log.                                                                    *)

LEMMA NextLogged ==
    ASSUME TypeOK, LoggedInv, [Next]_vars
    PROVE  LoggedInv'
<1> SUFFICES ASSUME NEW j \in Jobs \ disturbed' PROVE Logged(j)'
  BY DEF LoggedInv
<1> USE JobsAssumption DEF redis, store, life, budget, worker, Logged, Held
<1>1. /\ attempts[j] \in Nat /\ logs[j] \in Nat /\ restarts \in Nat
      /\ j \notin disturbed => Logged(j)
  BY DEF TypeOK, LoggedInv
<1>2. ASSUME UNCHANGED <<attempts, logs, restarts>>, disturbed \subseteq disturbed',
             Held(j) /\ wpc \in {"solve", "log"} => Held(j)' /\ wpc' \in {"solve", "log"}
      PROVE  Logged(j)'
  BY <1>1, <1>2
<1>3. ASSUME NEW i \in Jobs, Handler(i)
      PROVE  Logged(j)'
  BY <1>2, <1>3 DEF Handler, CheckActive, CreateRow, SubmitJob, UndoRow, Fault
<1>4. CASE Recovery
  BY <1>2, <1>4
  DEF Recovery, ScanStatuses, SkipOrphan, RecoverOrphan, RecoverRow, RecoverPush,
      EndRecovery, SetStatus, UpdateRow, PushJob, RedisOk, RedisErr, Fault
<1>5. CASE Loop
  BY <1>2, <1>5
  DEF Loop, TakeJob, LoseReply, WorkerStops, CheckCancelled, RedisOk, RedisErr, Fault
<1>6. CASE ProcessJob
  <2>1. CASE LoadModel
    <3>1. \/ /\ wpc' = "solve"
             /\ attempts'[j] = IF j = wjob THEN attempts[j] + 1 ELSE attempts[j]
          \/ wpc' = "inc" /\ attempts'[j] = attempts[j]
      BY <2>1 DEF LoadModel, TypeOK
    <3>2. /\ wpc = "load" /\ UNCHANGED <<logs, restarts, wjob>> /\ j \notin disturbed
      BY <2>1 DEF LoadModel
    <3> QED BY <1>1, <3>1, <3>2
  <2>2. CASE SaveLog
    <3>1. /\ j \notin disturbed
          /\ logs'[j] = IF j = wjob THEN logs[j] + 1 ELSE logs[j]
      BY <2>2 DEF SaveLog, StoreLog, Fault, TypeOK
    <3>2. wpc' \notin {"solve", "log"} /\ UNCHANGED <<attempts, restarts>>
      BY <2>2 DEF SaveLog, TypeOK, Verdicts
    <3> QED BY <1>1, <3>1, <3>2
  <2>3. CASE MarkProcessing \/ TellDone \/ TellTerminal \/ TellRetry \/ TellFailed
    BY <1>2, <2>3
    DEF MarkProcessing, TellDone, TellTerminal, TellRetry, TellFailed, Tell, SetStatus,
        RedisOk, RedisErr, Fault
  <2>4. CASE RowDone \/ RowTerminal \/ RowRetry \/ RowFailed
    BY <1>2, <2>4
    DEF RowDone, RowTerminal, RowRetry, RowFailed, Settle, UpdateRow, Fault
  <2>5. CASE MarkRow \/ RunSolver \/ SaveResults \/ IncrementRetry \/ PushRetry
    BY <1>2, <2>5
    DEF MarkRow, RunSolver, SaveResults, StoreResults, IncrementRetry, PushRetry,
        UpdateRow, PushJob, RedisOk, RedisErr, Fault
  <2> QED BY <1>6, <2>1, <2>2, <2>3, <2>4, <2>5 DEF ProcessJob
<1>7. CASE Outside
  <2>1. CASE Die
    BY <1>1, <2>1 DEF Die
  <2>2. CASE (\E i \in Jobs : CancelJob(i) \/ LapseStatus(i)) \/ LoseRedis \/ Sigterm
             \/ Boot
    BY <1>2, <2>2 DEF CancelJob, LapseStatus, LoseRedis, Sigterm, Boot, Fault, TypeOK
  <2> QED BY <1>7, <2>1, <2>2 DEF Outside
<1>8. CASE UNCHANGED vars
  BY <1>2, <1>8 DEF vars
<1> QED BY <1>3, <1>4, <1>5, <1>6, <1>7, <1>8 DEF Next, Worker

\* Every call of LINGO leaves its log, unless the process died in between.
THEOREM SolverRunsAreLoggedHolds == Spec => []SolverRunsAreLogged
<1>1. Init => LoggedInv
  BY JobsAssumption DEF Init, LoggedInv, Logged, Held
<1>2. TypeOK /\ LoggedInv /\ [Next]_vars => LoggedInv'
  BY NextLogged
<1>3. LoggedInv => SolverRunsAreLogged
  BY DEF LoggedInv, Logged, SolverRunsAreLogged
<1> QED BY <1>1, <1>2, <1>3, TypeCorrect, PTL DEF Spec

-----------------------------------------------------------------------------
(* The plan, and what is known of a run before its row.                        *)

LEMMA NextPlanned ==
    ASSUME TypeOK, PlannedInv, [Next]_vars
    PROVE  PlannedInv'
<1> SUFFICES ASSUME NEW j \in Jobs PROVE Planned(j)'
  BY DEF PlannedInv
<1> USE JobsAssumption
    DEF redis, store, life, budget, worker, Planned, Unknown, Held, InQueue
<1>1. Planned(j)
  BY DEF PlannedInv
<1>2. ASSUME NEW i \in Jobs, Handler(i)
      PROVE  Planned(j)'
  <2>1. CASE CheckActive(i)
    BY <1>1, <2>1 DEF CheckActive, TypeOK
  <2>2. CASE CreateRow(i)
    <3>1. CASE j = i
      <4>1. /\ Unknown(j) /\ pg'[j] \in {"absent", "pending"}
            /\ req'[j] \in {"created", "rejected"}
            /\ UNCHANGED <<rstatus, announced, queue, wjob, orphans, results>>
        BY <1>1, <2>2, <3>1 DEF CreateRow, TypeOK
      <4> QED BY <4>1
    <3>2. CASE j # i
      BY <1>1, <2>2, <3>2 DEF CreateRow, TypeOK
    <3> QED BY <3>1, <3>2
  <2>3. CASE SubmitJob(i)
    <3>1. /\ In(queue', j) => In(queue, j) \/ j = i
          /\ rstatus'[j] \in {rstatus[j], "pending"}
          /\ j # i => rstatus'[j] = rstatus[j]
      BY <2>3, PushMoves DEF SubmitJob
    <3>2. /\ j # i => req'[j] = req[j]
          /\ UNCHANGED <<pg, results, announced, wpc, wjob, orphans>>
      BY <2>3 DEF SubmitJob, TypeOK
    <3>3. j = i => req'[j] \in {"accepted", "undo"}
      BY <2>3 DEF SubmitJob, TypeOK
    <3> QED BY <1>1, <3>1, <3>2, <3>3
  <2>4. CASE UndoRow(i)
    BY <1>1, <2>4 DEF UndoRow, TypeOK
  <2> QED BY <1>2, <2>1, <2>2, <2>3, <2>4 DEF Handler
<1>3. CASE Recovery
  <2>1. CASE ScanStatuses \/ EndRecovery
    BY <1>1, <2>1 DEF ScanStatuses, EndRecovery, TypeOK, Holding, LoopHead
  <2>2. ASSUME NEW i \in Jobs, SkipOrphan(i)
        PROVE  Planned(j)'
    BY <1>1, <2>2 DEF SkipOrphan
  <2>3. ASSUME NEW i \in Jobs, RecoverOrphan(i)
        PROVE  Planned(j)'
    <3>1. /\ rstatus'[j] = rstatus[j] \/ (j = i /\ rstatus'[j] = "pending")
          /\ wjob' = i /\ wpc' = "rec_pg" /\ i \in orphans /\ orphans' \subseteq orphans
          /\ UNCHANGED <<pg, results, announced, req, queue>>
      BY <2>3 DEF RecoverOrphan, SetStatus, TypeOK
    <3> QED BY <1>1, <3>1
  <2>4. CASE RecoverRow
    <3>1. /\ pg'[j] = pg[j] \/ (j = wjob /\ pg[j] # "absent" /\ pg'[j] = "pending")
          /\ wpc' = "rec_push"
          /\ UNCHANGED <<rstatus, results, announced, req, queue, wjob, orphans>>
      BY <2>4 DEF RecoverRow, PutRow, TypeOK
    <3> QED BY <1>1, <3>1
  <2>5. CASE RecoverPush
    <3>1. wjob \in Jobs
      BY <2>5 DEF RecoverPush, TypeOK, Holding
    <3>2. /\ In(queue', j) => In(queue, j) \/ j = wjob
          /\ rstatus'[j] \in {rstatus[j], "pending"}
          /\ j # wjob => rstatus'[j] = rstatus[j]
      BY <2>5, <3>1, PushMoves DEF RecoverPush, PushJob
    <3>3. /\ wjob' = NoJob
          /\ UNCHANGED <<pg, results, announced, req, orphans>>
      BY <2>5 DEF RecoverPush
    <3> QED BY <1>1, <3>2, <3>3
  <2> QED BY <1>3, <2>1, <2>2, <2>3, <2>4, <2>5 DEF Recovery
<1>4. CASE Loop
  <2>1. CASE TakeJob \/ LoseReply
    <3>1. /\ In(queue, Head(queue))
          /\ In(queue', j) => In(queue, j)
      BY <2>1, TailLemma DEF TakeJob, LoseReply, TypeOK
    <3> QED BY <1>1, <2>1, <3>1 DEF TakeJob, LoseReply, LoopHead
  <2>2. CASE WorkerStops \/ CheckCancelled
    BY <1>1, <2>2 DEF WorkerStops, CheckCancelled, Release, LoopHead
  <2> QED BY <1>4, <2>1, <2>2 DEF Loop
<1>5. CASE ProcessJob
  <2>1. wjob \in Jobs
    BY <1>5 DEF ProcessJob, MarkProcessing, MarkRow, LoadModel, RunSolver, SaveLog,
                SaveResults, TellDone, RowDone, TellTerminal, RowTerminal,
                IncrementRetry, TellRetry, PushRetry, RowRetry, TellFailed, RowFailed,
                Tell, Settle, TypeOK, Holding
  <2>2. ASSUME NEW from, NEW to, NEW s, Tell(from, s, to)
        PROVE  /\ rstatus'[j] = rstatus[j] \/ (j = wjob /\ rstatus'[j] = s)
               /\ announced'[j] = announced[j] \/ (j = wjob /\ announced'[j] = s)
               /\ wpc = from /\ wpc' = to
               /\ UNCHANGED <<pg, results, queue, req, wjob, orphans>>
    BY <2>2 DEF Tell, SetStatus, Broadcast, TypeOK
  <2>3. CASE MarkProcessing \/ TellTerminal \/ TellRetry \/ TellFailed
    BY <1>1, <2>2, <2>3
    DEF MarkProcessing, TellTerminal, TellRetry, TellFailed, TerminalStatus
  <2>4. CASE TellDone
    BY <1>1, <2>2, <2>4 DEF TellDone
  <2>5. ASSUME NEW from, NEW s, Settle(from, s)
        PROVE  /\ pg'[j] = pg[j] \/ (j = wjob /\ pg[j] # "absent" /\ pg'[j] = s)
               /\ wpc = from /\ wjob' = NoJob
               /\ UNCHANGED <<rstatus, announced, results, queue, req, orphans>>
    BY <2>5 DEF Settle, UpdateRow, PutRow, Release, TypeOK
  <2>6. CASE RowTerminal \/ RowRetry \/ RowFailed
    BY <1>1, <2>1, <2>5, <2>6 DEF RowTerminal, RowRetry, RowFailed, TerminalStatus
  <2>7. CASE RowDone
    BY <1>1, <2>1, <2>5, <2>7 DEF RowDone
  <2>8. CASE MarkRow
    <3>1. /\ pg'[j] = pg[j] \/ (j = wjob /\ pg[j] # "absent" /\ pg'[j] = "processing")
          /\ wpc' = "load"
          /\ UNCHANGED <<rstatus, results, announced, req, queue, wjob, orphans>>
      BY <2>8 DEF MarkRow, UpdateRow, PutRow, TypeOK
    <3> QED BY <1>1, <3>1
  <2>9. CASE LoadModel \/ RunSolver \/ SaveLog \/ IncrementRetry
    BY <1>1, <2>9
    DEF LoadModel, RunSolver, SaveLog, IncrementRetry, Onward, TypeOK, Verdicts
  <2>10. CASE SaveResults
    <3>1. results[j] \in Nat
      BY DEF TypeOK
    <3>2. results'[j] \in {results[j], results[j] + 1}
      BY <2>10, <3>1 DEF SaveResults, StoreResults, TypeOK
    <3>3. /\ j = wjob /\ wpc' = "done_status" => pg[j] = "absent" \/ results'[j] >= 1
          /\ wpc' \in {"done_status", "inc"}
      BY <2>10, <3>1 DEF SaveResults, StoreResults, TypeOK
    <3>4. UNCHANGED <<pg, rstatus, announced, req, queue, wjob, orphans>>
      BY <2>10 DEF SaveResults
    <3> QED BY <1>1, <3>1, <3>2, <3>3, <3>4
  <2>11. CASE PushRetry
    <3>1. /\ In(queue', j) => In(queue, j) \/ j = wjob
          /\ rstatus'[j] \in {rstatus[j], "pending"}
          /\ j # wjob => rstatus'[j] = rstatus[j]
      BY <2>1, <2>11, PushMoves DEF PushRetry, PushJob
    <3>2. /\ wpc' = "retry_pg"
          /\ UNCHANGED <<pg, results, announced, req, wjob, orphans>>
      BY <2>11 DEF PushRetry
    <3> QED BY <1>1, <3>1, <3>2
  <2> QED
    BY <1>5, <2>3, <2>4, <2>6, <2>7, <2>8, <2>9, <2>10, <2>11 DEF ProcessJob
<1>6. CASE Outside
  <2>1. ASSUME NEW i \in Jobs, CancelJob(i)
        PROVE  Planned(j)'
    <3>1. /\ In(queue', j) => In(queue, j)
          /\ rstatus'[j] = IF j = i THEN "cancelled" ELSE rstatus[j]
          /\ Known(i)
          /\ UNCHANGED <<pg, results, announced, req, wpc, wjob, orphans>>
      BY <2>1, LRemLemma DEF CancelJob, TypeOK
    <3> QED BY <1>1, <3>1 DEF Known
  <2>2. ASSUME NEW i \in Jobs, LapseStatus(i)
        PROVE  Planned(j)'
    BY <1>1, <2>2 DEF LapseStatus, TypeOK
  <2>3. CASE LoseRedis
    <3>1. ~In(queue', j)
      BY <2>3 DEF LoseRedis, In
    <3> QED BY <1>1, <2>3, <3>1 DEF LoseRedis
  <2>4. CASE Sigterm
    BY <1>1, <2>4 DEF Sigterm
  <2>5. CASE Die
    BY <1>1, <2>5 DEF Die, TypeOK
  <2>6. CASE Boot
    BY <1>1, <2>6 DEF Boot, TypeOK, Holding
  <2> QED BY <1>6, <2>1, <2>2, <2>3, <2>4, <2>5, <2>6 DEF Outside
<1>7. CASE UNCHANGED vars
  BY <1>1, <1>7 DEF vars
<1> QED BY <1>2, <1>3, <1>4, <1>5, <1>6, <1>7 DEF Next, Worker

LEMMA PlannedInvariant == Spec => [](TypeOK /\ PlannedInv)
<1>1. Init => PlannedInv
  BY JobsAssumption DEF Init, PlannedInv, Planned, Unknown, Held, InQueue, In
<1>2. TypeOK /\ PlannedInv /\ [Next]_vars => PlannedInv'
  BY NextPlanned
<1> QED BY <1>1, <1>2, TypeCorrect, PTL DEF Spec

\* Nobody is told of a plan that is not stored, even of a run a store call failed on.
THEOREM PlanBeforeDoneHolds == Spec => []PlanBeforeDone
<1>1. PlannedInv => PlanBeforeDone
  BY DEF PlannedInv, Planned, PlanBeforeDone
<1> QED BY <1>1, PlannedInvariant, PTL

-----------------------------------------------------------------------------
(* What a client that polls is told.  A final status in Redis is touched by a  *)
(* cancellation only: the run is out of all hands, or the worker is on the way *)
(* to close its row with it.                                                   *)

Stays(j) ==
    rstatus[j] \in Final =>
       /\ rstatus'[j] \in {rstatus[j], "cancelled", "absent"}
       /\ pg[j] \in Active /\ j \notin unsaid => pg'[j] = rstatus[j] \/ RowLags(j)'

\* A step that neither ends the run in Redis nor, once it has ended there, does
\* anything to it but cancel it, forget it or leave it to nobody.
LEMMA ToldStays ==
    ASSUME NEW j \in Jobs, Told(j), stranded \subseteq stranded',
           \/ rstatus'[j] \in {rstatus[j], "cancelled", "absent"}
           \/ rstatus[j] \notin Final /\ rstatus'[j] \notin Final,
           rstatus[j] \in Final => /\ req'[j] = req[j] /\ pg'[j] = pg[j]
                                   /\ wjob' = j => wjob = j /\ wpc' = wpc
                                   /\ wjob = j => wjob' = j \/ j \in stranded'
    PROVE  Told(j)' /\ Stays(j)
<1>1. CASE rstatus[j] \in Final
  BY <1>1 DEF Told, Stays, RowLags, Held, Final
<1>2. CASE rstatus[j] \notin Final
  BY <1>2 DEF Told, Stays, Final
<1> QED BY <1>1, <1>2

LEMMA HandlerTold ==
    ASSUME TypeOK, NEW i \in Jobs, Handler(i), NEW j \in Jobs \ disturbed', Told(j),
           stranded \subseteq stranded'
    PROVE  Told(j)' /\ Stays(j)
<1>1. UNCHANGED <<wpc, wjob>>
  BY DEF Handler, CheckActive, CreateRow, SubmitJob, UndoRow, worker
<1>2. j = i => rstatus[j] \notin Final
  BY DEF Told, Handler, CheckActive, CreateRow, SubmitJob, UndoRow
<1>3. j # i => req'[j] = req[j] /\ pg'[j] = pg[j]
  BY DEF Handler, CheckActive, CreateRow, SubmitJob, UndoRow, store, TypeOK
<1>4. /\ rstatus'[j] \in {rstatus[j], "pending"}
      /\ j # i => rstatus'[j] = rstatus[j]
  BY PushMoves DEF Handler, CheckActive, CreateRow, SubmitJob, UndoRow, redis
<1> QED BY <1>1, <1>2, <1>3, <1>4, ToldStays DEF Final

LEMMA RecoveryTold ==
    ASSUME TypeOK, Recovery, NEW j \in Jobs \ disturbed', Custody(j), Told(j),
           stranded \subseteq stranded'
    PROVE  Told(j)' /\ Stays(j)
<1> USE JobsAssumption DEF redis, store
<1>1. CASE ScanStatuses \/ (\E i \in Jobs : SkipOrphan(i)) \/ EndRecovery
  <2>1. wjob = NoJob
    BY <1>1 DEF ScanStatuses, SkipOrphan, EndRecovery, TypeOK, Holding
  <2>2. UNCHANGED <<rstatus, req, pg, wjob>>
    BY <1>1 DEF ScanStatuses, SkipOrphan, EndRecovery
  <2> QED BY <2>1, <2>2, ToldStays
<1>2. ASSUME NEW i \in Jobs, RecoverOrphan(i)
      PROVE  Told(j)' /\ Stays(j)
  <2>1. wjob = NoJob /\ wjob' = i /\ UNCHANGED <<req, pg>>
    BY <1>2 DEF RecoverOrphan, TypeOK, Holding
  <2>2. j = i => rstatus[j] \notin Final
    BY <1>2 DEF RecoverOrphan, Custody, Final
  <2>3. /\ rstatus'[j] \in {rstatus[j], "pending"}
        /\ j # i => rstatus'[j] = rstatus[j]
    BY <1>2 DEF RecoverOrphan, SetStatus, TypeOK
  <2> QED BY <2>1, <2>2, <2>3, ToldStays DEF Final
<1>3. CASE RecoverRow
  <2>1. j = wjob => rstatus[j] \notin Final
    BY <1>3 DEF RecoverRow, Told, Held
  <2>2. /\ UNCHANGED <<rstatus, req, wjob>>
        /\ j # wjob => pg'[j] = pg[j]
    BY <1>3 DEF RecoverRow, PutRow, TypeOK
  <2> QED BY <2>1, <2>2, ToldStays
<1>4. CASE RecoverPush
  <2>1. j = wjob => rstatus[j] \notin Final
    BY <1>4 DEF RecoverPush, Told, Held
  <2>2. wjob \in Jobs /\ wjob' = NoJob /\ UNCHANGED <<req, pg>>
    BY <1>4 DEF RecoverPush, TypeOK, Holding
  <2>3. /\ rstatus'[j] \in {rstatus[j], "pending"}
        /\ j # wjob => rstatus'[j] = rstatus[j]
    BY <1>4, <2>2, PushMoves DEF RecoverPush, PushJob
  <2> QED BY <2>1, <2>2, <2>3, ToldStays DEF Final
<1> QED BY <1>1, <1>2, <1>3, <1>4 DEF Recovery

LEMMA LoopTold ==
    ASSUME TypeOK, Loop, NEW j \in Jobs \ disturbed', Custody(j), Told(j),
           stranded \subseteq stranded'
    PROVE  Told(j)' /\ Stays(j)
<1> USE JobsAssumption DEF redis, store
<1>1. CASE TakeJob
  <2>1. j = Head(queue) => rstatus[j] \notin Final
    BY <1>1, TailLemma DEF TakeJob, TypeOK, Custody, InQueue, Final
  <2>2. wjob = NoJob /\ wjob' = Head(queue) /\ UNCHANGED <<rstatus, req, pg>>
    BY <1>1 DEF TakeJob, TypeOK, Holding
  <2> QED BY <2>1, <2>2, ToldStays
<1>2. CASE LoseReply \/ WorkerStops
  <2>1. wjob = NoJob /\ UNCHANGED <<rstatus, req, pg, wjob>>
    BY <1>2 DEF LoseReply, WorkerStops, TypeOK, Holding
  <2> QED BY <2>1, ToldStays
<1>3. CASE CheckCancelled
  <2>1. j = wjob => rstatus[j] \notin Final
    BY <1>3 DEF CheckCancelled, Told, Held
  <2>2. wjob' \in {wjob, NoJob} /\ UNCHANGED <<rstatus, req, pg>>
    BY <1>3 DEF CheckCancelled, Release
  <2> QED BY <2>1, <2>2, ToldStays
<1> QED BY <1>1, <1>2, <1>3 DEF Loop

LEMMA ProcessTold ==
    ASSUME TypeOK, ProcessJob, NEW j \in Jobs \ disturbed',
           Custody(j), RowSays(j), Told(j), stranded \subseteq stranded'
    PROVE  Told(j)' /\ Stays(j)
<1> USE JobsAssumption DEF redis, store
<1> DEFINE Closing == {"done_pg", "fin_pg", "fail_pg"}
<1>1. ASSUME NEW from \in Holding, NEW to, NEW s, Tell(from, s, to),
             from \notin Closing, s \in Final => to \in Closing
      PROVE  Told(j)' /\ Stays(j)
  <2>1. /\ rstatus'[j] \in {rstatus[j], s}
        /\ j # wjob => rstatus'[j] = rstatus[j]
        /\ UNCHANGED <<req, pg, wjob>> /\ wpc = from /\ wpc' = to
    BY <1>1 DEF Tell, SetStatus, TypeOK
  <2>2. j = wjob => rstatus[j] \notin Final
    BY <1>1, <2>1 DEF Told, Held
  <2>3. CASE j = wjob /\ rstatus'[j] \in Final
    <3>1. s \in Final /\ to \in Closing
      BY <1>1, <2>1, <2>2, <2>3
    <3>2. req[j] = "accepted"
      BY <2>3 DEF Custody, Held
    <3> QED BY <2>1, <2>2, <2>3, <3>1, <3>2 DEF Told, Stays, RowLags, Held
  <2>4. CASE ~(j = wjob /\ rstatus'[j] \in Final)
    BY <2>1, <2>2, <2>4, ToldStays
  <2> QED BY <2>3, <2>4
<1>2. CASE MarkProcessing \/ TellRetry
  BY <1>1, <1>2 DEF MarkProcessing, TellRetry, Final, Holding
<1>3. CASE TellDone \/ TellTerminal \/ TellFailed
  BY <1>1, <1>3 DEF TellDone, TellTerminal, TellFailed, Holding
<1>4. ASSUME NEW from, NEW s, Settle(from, s)
      PROVE  /\ wpc = from /\ wjob' = NoJob /\ UNCHANGED <<rstatus, req>>
             /\ j # wjob => pg'[j] = pg[j]
             /\ j = wjob /\ pg[j] # "absent" => pg'[j] = s
  <2>1. UpdateRow(wjob, s) => PutRow(wjob, s) \/ wjob \in disturbed'
    BY DEF UpdateRow, Fault
  <2>2. wjob \in Jobs \/ pg' = pg
    BY <1>4 DEF Settle, UpdateRow, PutRow, TypeOK, Fault
  <2> QED BY <1>4, <2>1, <2>2 DEF Settle, UpdateRow, PutRow, Release, TypeOK
<1>5. CASE j = wjob /\ rstatus[j] \in Final /\ (RowDone \/ RowTerminal \/ RowFailed)
  <2>1. wpc \in Closing
    BY <1>4, <1>5 DEF RowDone, RowTerminal, RowFailed
  <2>2. pg[j] = "processing"
    BY <1>5, <2>1 DEF RowSays, Held, Working
  <2>3. CASE RowDone
    BY <1>4, <1>5, <2>2, <2>3 DEF RowDone, RowSays, Told, Stays, Held, Active, Final
  <2>4. CASE RowTerminal
    <3>1. wpc = "fin_pg" /\ pg'[j] = TerminalStatus /\ UNCHANGED <<rstatus, req>>
      BY <1>4, <1>5, <2>2, <2>4 DEF RowTerminal
    <3>2. TerminalStatus \in Final /\ TerminalStatus \notin Active
      BY DEF TerminalStatus, Final, Active
    <3>3. j \notin unsaid => rstatus[j] \in {TerminalStatus, "cancelled", "absent"}
      BY <1>5, <3>1 DEF RowSays, Held
    <3> QED BY <1>4, <1>5, <2>4, <3>1, <3>2, <3>3 DEF RowTerminal, Told, Stays, Held, Final
  <2>5. CASE RowFailed
    BY <1>4, <1>5, <2>2, <2>5 DEF RowFailed, RowSays, Told, Stays, Held, Active, Final
  <2> QED BY <1>5, <2>3, <2>4, <2>5
<1>6. CASE (RowDone \/ RowTerminal \/ RowFailed) /\ ~(j = wjob /\ rstatus[j] \in Final)
  BY <1>4, <1>6, ToldStays DEF RowDone, RowTerminal, RowFailed
<1>7. CASE RowRetry
  <2>1. j = wjob => rstatus[j] \notin Final
    BY <1>4, <1>7 DEF RowRetry, Told, Held
  <2> QED BY <1>4, <1>7, <2>1, ToldStays DEF RowRetry
<1>8. CASE MarkRow
  <2>1. j = wjob => rstatus[j] \notin Final
    BY <1>8 DEF MarkRow, Told, Held
  <2>2. /\ UNCHANGED <<rstatus, req, wjob>>
        /\ j # wjob => pg'[j] = pg[j]
    BY <1>8 DEF MarkRow, UpdateRow, PutRow, TypeOK
  <2> QED BY <2>1, <2>2, ToldStays
<1>9. CASE LoadModel \/ RunSolver \/ SaveLog \/ SaveResults \/ IncrementRetry
  <2>1. j = wjob => rstatus[j] \notin Final
    BY <1>9 DEF LoadModel, RunSolver, SaveLog, SaveResults, IncrementRetry, Told, Held
  <2>2. UNCHANGED <<rstatus, req, wjob, pg>>
    BY <1>9 DEF LoadModel, RunSolver, SaveLog, SaveResults, IncrementRetry
  <2> QED BY <2>1, <2>2, ToldStays
<1>10. CASE PushRetry
  <2>1. j = wjob => rstatus[j] \notin Final
    BY <1>10 DEF PushRetry, Told, Held
  <2>2. wjob \in Jobs /\ UNCHANGED <<req, wjob, pg>>
    BY <1>10 DEF PushRetry, TypeOK, Holding
  <2>3. /\ rstatus'[j] \in {rstatus[j], "pending"}
        /\ j # wjob => rstatus'[j] = rstatus[j]
    BY <1>10, <2>2, PushMoves DEF PushRetry, PushJob
  <2> QED BY <2>1, <2>2, <2>3, ToldStays DEF Final
<1> QED
  BY <1>2, <1>3, <1>5, <1>6, <1>7, <1>8, <1>9, <1>10 DEF ProcessJob

LEMMA OutsideTold ==
    ASSUME TypeOK, Outside, NEW j \in Jobs \ disturbed', Custody(j), Told(j),
           stranded \subseteq stranded'
    PROVE  Told(j)' /\ Stays(j)
<1> USE JobsAssumption DEF redis, store, life, worker
<1>1. ASSUME NEW i \in Jobs, CancelJob(i) \/ LapseStatus(i)
      PROVE  Told(j)' /\ Stays(j)
  <2>1. /\ rstatus'[j] \in {rstatus[j], "cancelled", "absent"}
        /\ UNCHANGED <<req, pg, wpc, wjob>>
    BY <1>1 DEF CancelJob, LapseStatus, TypeOK
  <2> QED BY <2>1, ToldStays
<1>2. CASE LoseRedis
  <2>1. rstatus'[j] = "absent" /\ UNCHANGED <<req, pg, wpc, wjob>>
    BY <1>2 DEF LoseRedis
  <2> QED BY <2>1, ToldStays
<1>3. CASE Sigterm
  <2>1. UNCHANGED <<rstatus, req, pg, wpc, wjob>>
    BY <1>3 DEF Sigterm
  <2> QED BY <2>1, ToldStays
<1>4. CASE Die
  <2>1. rstatus[j] \in Final => req'[j] = req[j]
    BY <1>4 DEF Die, Told
  <2>2. wjob = j /\ rstatus[j] \in Final => j \in stranded'
    BY <1>4 DEF Die, LeftBehind, Held, Custody, Final
  <2>3. wjob' = NoJob /\ UNCHANGED <<rstatus, pg>>
    BY <1>4 DEF Die
  <2> QED BY <2>1, <2>2, <2>3, ToldStays
<1>5. CASE Boot
  <2>1. wjob = NoJob /\ UNCHANGED <<rstatus, req, pg, wjob>>
    BY <1>5 DEF Boot, TypeOK, Holding
  <2> QED BY <2>1, ToldStays
<1> QED BY <1>1, <1>2, <1>3, <1>4, <1>5 DEF Outside

LEMMA NextTold ==
    ASSUME TypeOK, CustodyInv, RowInv, ToldInv, [Next]_vars, NEW j \in Jobs \ disturbed'
    PROVE  Told(j)' /\ Stays(j)
<1>1. disturbed \subseteq disturbed' /\ stranded \subseteq stranded'
  BY HistoryGrows
<1>2. j \notin disturbed /\ Custody(j) /\ RowSays(j) /\ Told(j)
  BY <1>1 DEF CustodyInv, RowInv, ToldInv
<1>3. CASE UNCHANGED vars
  BY <1>2, <1>3, ToldStays DEF vars
<1> QED
  BY <1>1, <1>2, <1>3, HandlerTold, RecoveryTold, LoopTold, ProcessTold, OutsideTold
  DEF Next, Worker

LEMMA ToldInvariant == Spec => []ToldInv
<1>1. Init => ToldInv
  BY DEF Init, ToldInv, Told, Final
<1>2. TypeOK /\ CustodyInv /\ RowInv /\ ToldInv /\ [Next]_vars => ToldInv'
  <2> SUFFICES ASSUME TypeOK, CustodyInv, RowInv, ToldInv, [Next]_vars,
                      NEW j \in Jobs \ disturbed'
               PROVE  Told(j)'
    BY DEF ToldInv
  <2> QED BY NextTold
<1> QED BY <1>1, <1>2, RowInvariant, PTL DEF Spec

\* Whoever polls and may be told of an end may then be told that end or of a
\* cancellation only, and, while the row lags behind Redis, what the row says.
THEOREM AnswerStaysHolds == Spec => AnswerStays
<1> DEFINE Kept ==
             \A j \in Jobs : \A s \in GetJobStatus(j) \cap Final :
                j \notin disturbed' \cup unsaid
                => GetJobStatus(j)' \subseteq
                      {s, "cancelled"} \cup (IF RowLags(j)' THEN {pg'[j]} ELSE {})
<1>1. TypeOK /\ CustodyInv /\ RowInv /\ RowInv' /\ ToldInv /\ [Next]_vars => [Kept]_vars
  <2> SUFFICES ASSUME TypeOK, CustodyInv, RowInv, RowInv', ToldInv, [Next]_vars,
                      NEW j \in Jobs, NEW s \in Final, s \in GetJobStatus(j),
                      j \notin disturbed' \cup unsaid
               PROVE  /\ pg'[j] \in {s, "cancelled"} \/ RowLags(j)'
                      /\ rstatus'[j] \in {s, "cancelled", "absent"}
    BY DEF GetJobStatus
  <2>1. j \notin disturbed /\ RowSays(j) /\ Told(j) /\ RowSays(j)'
    BY DisturbedGrows DEF RowInv, ToldInv
  <2>2. CASE pg[j] = s
    <3>1. LawfulStep
      BY NextLawful
    <3>2. pg'[j] = s /\ j \notin unsaid'
      BY <2>2, <3>1, LawfulKeeps
    <3> QED BY <2>1, <3>2 DEF RowSays
  <2>3. CASE pg[j] # s
    <3>1. rstatus[j] = s /\ pg[j] \in Active
      <4>1. rstatus[j] = s /\ pg[j] # "absent"
        BY <2>1, <2>3 DEF GetJobStatus, Told, RowSays
      <4>2. pg[j] \notin Final
        BY <2>1, <2>3, <4>1 DEF RowSays, Final
      <4> QED BY <4>1, <4>2 DEF TypeOK, PgStatus
    <3> QED BY <3>1, NextTold DEF Stays
  <2> QED BY <2>2, <2>3
<1> QED BY <1>1, RowInvariant, ToldInvariant, PTL DEF Spec, AnswerStays

-----------------------------------------------------------------------------
(* What a cancellation keeps.                                                  *)

LEMMA NextCancelSticks ==
    ASSUME TypeOK, PlannedInv, CancelledNotQueued, [Next]_vars,
           NEW j \in Jobs, CancelledAtRest(j)
    PROVE  (CancelledAtRest(j) \/ rstatus[j] = "absent")'
<1> USE JobsAssumption
    DEF redis, store, life, budget, worker, CancelledAtRest, Held, Holding
<1>1. /\ rstatus[j] = "cancelled" /\ ~In(queue, j) /\ wjob # j /\ j \notin orphans
      /\ req[j] \notin {"idle", "checked", "created"}
  BY DEF CancelledNotQueued, InQueue, PlannedInv, Planned, Unknown
<1>2. ASSUME rstatus'[j] = rstatus[j], wjob' \in {wjob, NoJob}, orphans' \subseteq orphans,
             UNCHANGED req
      PROVE  CancelledAtRest(j)'
  BY <1>1, <1>2
<1>3. ASSUME NEW i \in Jobs, Handler(i)
      PROVE  CancelledAtRest(j)'
  <2>1. CASE CheckActive(i)
    BY <1>1, <2>1 DEF CheckActive, TypeOK
  <2>2. CASE CreateRow(i)
    BY <1>1, <2>2 DEF CreateRow, TypeOK
  <2>3. CASE SubmitJob(i)
    <3>1. j # i /\ req'[j] = req[j] /\ UNCHANGED <<wjob, orphans>>
      BY <1>1, <2>3 DEF SubmitJob, TypeOK
    <3>2. rstatus'[j] = rstatus[j]
      BY <2>3, <3>1, PushMoves DEF SubmitJob
    <3> QED BY <1>1, <3>1, <3>2
  <2>4. CASE UndoRow(i)
    BY <1>1, <2>4 DEF UndoRow, TypeOK
  <2> QED BY <1>3, <2>1, <2>2, <2>3, <2>4 DEF Handler
<1>4. CASE Recovery
  <2>1. CASE ScanStatuses
    BY <1>1, <2>1 DEF ScanStatuses
  <2>2. ASSUME NEW i \in Jobs, SkipOrphan(i)
        PROVE  CancelledAtRest(j)'
    BY <1>1, <2>2 DEF SkipOrphan
  <2>3. ASSUME NEW i \in Jobs, RecoverOrphan(i)
        PROVE  CancelledAtRest(j)'
    BY <1>1, <2>3 DEF RecoverOrphan, SetStatus, TypeOK
  <2>4. CASE RecoverRow \/ EndRecovery
    BY <1>2, <2>4 DEF RecoverRow, EndRecovery
  <2>5. CASE RecoverPush
    <3>1. wjob \in Jobs
      BY <2>5 DEF RecoverPush, TypeOK
    <3>2. rstatus'[j] = rstatus[j]
      BY <1>1, <2>5, <3>1, PushMoves DEF RecoverPush, PushJob
    <3> QED BY <1>2, <2>5, <3>2 DEF RecoverPush
  <2> QED BY <1>4, <2>1, <2>2, <2>3, <2>4, <2>5 DEF Recovery
<1>5. CASE Loop
  <2>1. CASE TakeJob
    <3>1. In(queue, Head(queue))
      BY <2>1, TailLemma DEF TakeJob, TypeOK
    <3>2. j # Head(queue)
      BY <1>1, <3>1
    <3> QED BY <1>1, <2>1, <3>2 DEF TakeJob
  <2>2. CASE LoseReply \/ WorkerStops \/ CheckCancelled
    BY <1>2, <2>2 DEF LoseReply, WorkerStops, CheckCancelled, Release
  <2> QED BY <1>5, <2>1, <2>2 DEF Loop
<1>6. CASE ProcessJob
  <2>1. ASSUME NEW from, NEW to, NEW s, Tell(from, s, to)
        PROVE  CancelledAtRest(j)'
    <3>1. rstatus'[j] = rstatus[j]
      BY <1>1, <2>1 DEF Tell, SetStatus, TypeOK
    <3> QED BY <1>2, <2>1, <3>1 DEF Tell
  <2>2. CASE MarkProcessing \/ TellDone \/ TellTerminal \/ TellRetry \/ TellFailed
    BY <2>1, <2>2 DEF MarkProcessing, TellDone, TellTerminal, TellRetry, TellFailed
  <2>3. CASE RowDone \/ RowTerminal \/ RowRetry \/ RowFailed
    BY <1>2, <2>3 DEF RowDone, RowTerminal, RowRetry, RowFailed, Settle, Release
  <2>4. CASE MarkRow \/ LoadModel \/ RunSolver \/ SaveLog \/ SaveResults \/ IncrementRetry
    BY <1>2, <2>4 DEF MarkRow, LoadModel, RunSolver, SaveLog, SaveResults, IncrementRetry
  <2>5. CASE PushRetry
    <3>1. wjob \in Jobs
      BY <2>5 DEF PushRetry, TypeOK
    <3>2. rstatus'[j] = rstatus[j]
      BY <1>1, <2>5, <3>1, PushMoves DEF PushRetry, PushJob
    <3> QED BY <1>2, <2>5, <3>2 DEF PushRetry
  <2> QED BY <1>6, <2>2, <2>3, <2>4, <2>5 DEF ProcessJob
<1>7. CASE Outside
  <2>1. ASSUME NEW i \in Jobs, CancelJob(i) \/ LapseStatus(i)
        PROVE  (CancelledAtRest(j) \/ rstatus[j] = "absent")'
    BY <1>1, <2>1 DEF CancelJob, LapseStatus, TypeOK
  <2>2. CASE LoseRedis
    BY <2>2 DEF LoseRedis
  <2>3. CASE Sigterm \/ Boot
    BY <1>2, <2>3 DEF Sigterm, Boot
  <2>4. CASE Die
    BY <1>1, <2>4 DEF Die, TypeOK
  <2> QED BY <1>7, <2>1, <2>2, <2>3, <2>4 DEF Outside
<1>8. CASE UNCHANGED vars
  BY <1>2, <1>8 DEF vars
<1> QED BY <1>3, <1>4, <1>5, <1>6, <1>7, <1>8 DEF Next, Worker

\* A job cancelled while nobody has it stays cancelled and is taken by nobody, even
\* if store calls fail, for as long as Redis keeps its key.
THEOREM CancelSticksHolds == Spec => CancelSticks
<1> DEFINE Kept == \A j \in Jobs : CancelledAtRest(j)
                                   => (CancelledAtRest(j) \/ rstatus[j] = "absent")'
<1>1. TypeOK /\ PlannedInv /\ CancelledNotQueued /\ [Next]_vars => [Kept]_vars
  BY NextCancelSticks
<1> QED BY <1>1, PlannedInvariant, CancelledNotQueuedHolds, PTL DEF Spec, CancelSticks

-----------------------------------------------------------------------------
(* The budget of a run.  A failure takes one try, a death of the process one   *)
(* restart; the worker counts the failure before it decides on another try, so *)
(* a run that may still call the solver has one call left.                     *)

LEMMA TriedStays ==
    ASSUME TypeOK, NEW j \in Jobs, Tried(j), UNCHANGED <<attempts, restarts>>,
           retries'[j] = retries[j], pg'[j] = "absent" => pg[j] = "absent",
           MayRun(j)' => MayRun(j)
    PROVE  Tried(j)'
  BY DEF Tried

LEMMA HandlerTried ==
    ASSUME TypeOK, NEW i \in Jobs, Handler(i), NEW j \in Jobs \ disturbed',
           j \notin disturbed => RowSays(j) /\ Tried(j)
    PROVE  Tried(j)'
<1> USE JobsAssumption DEF redis, store, life, budget, worker, MayRun, InQueue, Held
<1>1. CASE CheckActive(i)
  BY <1>1, TriedStays DEF CheckActive, Fault, TypeOK
<1>2. CASE CreateRow(i)
  BY <1>2, TriedStays DEF CreateRow, Fault, TypeOK
<1>3. CASE SubmitJob(i)
  <2>1. /\ In(queue', j) => In(queue, j) \/ j = i
        /\ j # i => rstatus'[j] = rstatus[j]
    BY <1>3, PushMoves DEF SubmitJob
  <2>2. /\ j \notin disturbed /\ UNCHANGED <<wpc, wjob, orphans, attempts, restarts>>
        /\ UNCHANGED <<retries, pg, proc>>
        /\ j # i => req'[j] = req[j]
        /\ j = i => req[j] = "created"
    BY <1>3 DEF SubmitJob, Fault, TypeOK
  <2> QED BY <2>1, <2>2, TriedStays
<1>4. CASE UndoRow(i)
  <2>1. j # i /\ j \notin disturbed
    BY <1>4 DEF UndoRow, Fault, RowSays
  <2> QED BY <1>4, <2>1, TriedStays DEF UndoRow, TypeOK
<1> QED BY <1>1, <1>2, <1>3, <1>4 DEF Handler

LEMMA RecoveryTried ==
    ASSUME TypeOK, Recovery, NEW j \in Jobs \ disturbed',
           j \notin disturbed => Custody(j) /\ Tried(j)
    PROVE  Tried(j)'
<1> USE JobsAssumption
    DEF redis, store, life, budget, worker, MayRun, InQueue, Held, Ahead, Behind, Holding
<1>1. CASE ScanStatuses
  <2>1. j \notin disturbed /\ (j \in orphans' => rstatus[j] = "processing")
    BY <1>1 DEF ScanStatuses, RedisOk, RedisErr, Fault
  <2>2. wjob = NoJob
    BY <1>1 DEF ScanStatuses, TypeOK
  <2> QED BY <1>1, <2>1, <2>2, TriedStays DEF ScanStatuses
<1>2. ASSUME NEW i \in Jobs, SkipOrphan(i)
      PROVE  Tried(j)'
  BY <1>2, TriedStays DEF SkipOrphan
<1>3. ASSUME NEW i \in Jobs, RecoverOrphan(i)
      PROVE  Tried(j)'
  <2>1. /\ j \notin disturbed /\ wjob = NoJob /\ wjob' = i /\ i \in orphans
        /\ wpc' = "rec_pg"
        /\ orphans' \subseteq orphans
        /\ rstatus'[j] \in {rstatus[j], "pending"}
        /\ UNCHANGED <<queue, retries, pg, req, attempts, restarts, proc>>
        /\ j # i => rstatus'[j] = rstatus[j]
    BY <1>3 DEF RecoverOrphan, SetStatus, RedisOk, Fault, TypeOK
  <2> QED BY <2>1, TriedStays
<1>4. CASE RecoverRow
  <2>1. j \notin disturbed /\ (pg'[j] = "absent" => pg[j] = "absent")
    BY <1>4 DEF RecoverRow, PutRow, Fault, TypeOK
  <2> QED BY <1>4, <2>1, TriedStays DEF RecoverRow
<1>5. CASE RecoverPush
  <2>1. wjob \in Jobs /\ j \notin disturbed
    BY <1>5 DEF RecoverPush, PushJob, RedisOk, Fault, TypeOK
  <2>2. /\ In(queue', j) => In(queue, j) \/ j = wjob
        /\ rstatus'[j] \in {rstatus[j], "pending"}
    BY <1>5, <2>1, PushMoves DEF RecoverPush, PushJob
  <2>3. /\ wpc = "rec_push" /\ wjob' = NoJob
        /\ UNCHANGED <<retries, pg, req, orphans, attempts, restarts, proc>>
        /\ j # wjob => rstatus'[j] = rstatus[j]
    BY <1>5, <2>1, PushMoves DEF RecoverPush, PushJob
  <2>4. j = wjob /\ proc = "stopping" => UNCHANGED <<queue, rstatus>>
    BY <1>5 DEF RecoverPush, PushJob, RedisOk, Fault
  <2> QED BY <2>1, <2>2, <2>3, <2>4, TriedStays
<1>6. CASE EndRecovery
  BY <1>6, TriedStays DEF EndRecovery, TypeOK
<1> QED BY <1>1, <1>2, <1>3, <1>4, <1>5, <1>6 DEF Recovery

LEMMA LoopTried ==
    ASSUME TypeOK, Loop, NEW j \in Jobs \ disturbed',
           j \notin disturbed => Custody(j) /\ Tried(j)
    PROVE  Tried(j)'
<1> USE JobsAssumption
    DEF redis, store, life, budget, worker, MayRun, InQueue, Held, Ahead, Behind, Holding
<1>1. CASE TakeJob
  <2>1. /\ In(queue, Head(queue)) /\ (In(queue', j) => In(queue, j))
        /\ wjob = NoJob /\ j \notin disturbed
    BY <1>1, TailLemma DEF TakeJob, TypeOK
  <2> QED BY <1>1, <2>1, TriedStays DEF TakeJob
<1>2. CASE LoseReply
  <2>1. (In(queue', j) => In(queue, j)) /\ j \notin disturbed /\ wjob = NoJob
    BY <1>2, TailLemma DEF LoseReply, Fault, TypeOK
  <2> QED BY <1>2, <2>1, TriedStays DEF LoseReply
<1>3. CASE WorkerStops
  BY <1>3, TriedStays DEF WorkerStops, TypeOK
<1>4. CASE CheckCancelled
  BY <1>4, TriedStays
  DEF CheckCancelled, Release, RedisOk, RedisErr, Fault, TypeOK
<1> QED BY <1>1, <1>2, <1>3, <1>4 DEF Loop

LEMMA ProcessTried ==
    ASSUME TypeOK, ProcessJob, NEW j \in Jobs \ disturbed',
           j \notin disturbed => Custody(j) /\ RowSays(j) /\ Tried(j)
    PROVE  Tried(j)'
<1> USE JobsAssumption
    DEF redis, store, life, budget, worker, MayRun, InQueue, Held, Ahead, Behind, Holding
<1>1. ASSUME NEW from \in Holding, NEW to \in Holding, NEW s, Tell(from, s, to),
             to \in Ahead => from \in Ahead, to \in Behind => from \in Behind
      PROVE  Tried(j)'
  <2>1. /\ j \notin disturbed
        /\ j # wjob => rstatus'[j] = rstatus[j]
        /\ UNCHANGED <<queue, retries, pg, req, orphans, wjob, attempts, restarts, proc>>
        /\ wpc = from /\ wpc' = to
    BY <1>1 DEF Tell, SetStatus, RedisOk, Fault, TypeOK
  <2>2. MayRun(j)' => MayRun(j)
    BY <1>1, <2>1
  <2> QED BY <2>1, <2>2, TriedStays
<1>2. CASE MarkProcessing \/ TellRetry
  BY <1>1, <1>2 DEF MarkProcessing, TellRetry
<1>3. CASE TellDone \/ TellTerminal \/ TellFailed
  BY <1>1, <1>3 DEF TellDone, TellTerminal, TellFailed
<1>4. ASSUME NEW from \in NotShown, NEW s, Settle(from, s), s # "absent"
      PROVE  Tried(j)'
  <2>1. /\ j \notin disturbed /\ (pg'[j] = "absent" => pg[j] = "absent")
        /\ wpc = from /\ wjob' = NoJob
        /\ UNCHANGED <<rstatus, queue, retries, req, orphans, attempts, restarts, proc>>
    BY <1>4 DEF Settle, UpdateRow, PutRow, Release, Fault, TypeOK
  <2>2. Held(j) => rstatus[j] # "processing" \/ proc = "stopping"
    BY <1>4, <2>1 DEF Custody
  <2> QED BY <2>1, <2>2, TriedStays
<1>5. CASE RowDone \/ RowTerminal \/ RowRetry \/ RowFailed
  BY <1>4, <1>5 DEF RowDone, RowTerminal, RowRetry, RowFailed, TerminalStatus, NotShown
<1>6. CASE MarkRow
  <2>1. /\ j \notin disturbed /\ (pg'[j] = "absent" => pg[j] = "absent")
        /\ wpc = "pgmark"
        /\ UNCHANGED <<rstatus, queue, retries, req, orphans, wjob, attempts, restarts,
                       proc>>
    BY <1>6 DEF MarkRow, UpdateRow, PutRow, Fault, TypeOK
  <2> QED BY <2>1, TriedStays
<1>7. CASE LoadModel
  <2>1. /\ j \notin disturbed /\ wpc = "load" /\ wpc' \in {"solve", "inc"}
        /\ UNCHANGED <<rstatus, queue, retries, pg, req, orphans, wjob, restarts, proc>>
        /\ attempts'[j] \in {attempts[j], attempts[j] + 1}
        /\ j # wjob => attempts'[j] = attempts[j]
    BY <1>7 DEF LoadModel, TypeOK
  <2>2. CASE j = wjob
    <3>1. /\ attempts[j] <= retries[j] + restarts
          /\ attempts[j] <= MaxRetries + restarts
      BY <2>1, <2>2 DEF Tried
    <3>2. pg[j] = "processing"
      BY <2>1, <2>2 DEF RowSays, Working
    <3>3. ~MayRun(j)'
      BY <2>1, <2>2 DEF Custody, RowSays
    <3>4. attempts[j] \in Nat /\ retries[j] \in Nat /\ restarts \in Nat
      BY DEF TypeOK
    <3> QED BY <2>1, <2>2, <3>1, <3>2, <3>3, <3>4, BoundsAssumption DEF Tried
  <2>3. CASE j # wjob
    <3>1. MayRun(j)' => MayRun(j)
      BY <2>1, <2>3
    <3> QED BY <2>1, <2>3, <3>1 DEF Tried
  <2> QED BY <2>2, <2>3
<1>8. CASE RunSolver
  BY <1>8, TriedStays DEF RunSolver
<1>9. CASE SaveLog \/ SaveResults
  <2>1. /\ j \notin disturbed /\ wpc' \notin Ahead \cup Behind
        /\ UNCHANGED <<rstatus, queue, retries, pg, req, orphans, wjob, attempts, restarts,
                       proc>>
    BY <1>9 DEF SaveLog, StoreLog, SaveResults, StoreResults, Fault, TypeOK, Verdicts
  <2> QED BY <2>1, TriedStays
<1>10. CASE IncrementRetry
  <2>1. /\ wpc = "inc"
        /\ UNCHANGED <<rstatus, queue, pg, req, orphans, wjob, attempts, restarts, proc>>
    BY <1>10 DEF IncrementRetry
  <2>2. attempts[j] \in Nat /\ retries[j] \in Nat /\ restarts \in Nat
    BY DEF TypeOK
  <2>3. CASE j = wjob
    <3>1. /\ j \notin disturbed
          /\ \/ /\ retries'[j] = retries[j] + 1
                /\ wpc' = IF retries[j] + 1 <= MaxRetries THEN "retry_status"
                                                          ELSE "fail_status"
             \/ /\ retries'[j] = retries[j] /\ proc = "stopping"
                /\ wpc' \in {"retry_status", "fail_status"}
      BY <1>10, <2>3 DEF IncrementRetry, Onward, RedisOk, RedisErr, Fault, TypeOK
    <3>2. MayRun(j)' => retries[j] + 1 <= MaxRetries /\ proc # "stopping"
      BY <2>1, <2>3, <3>1 DEF Custody, RowSays
    <3> QED BY <2>1, <2>2, <3>1, <3>2, BoundsAssumption DEF Tried
  <2>4. CASE j # wjob
    <3>1. j \notin disturbed /\ retries'[j] = retries[j]
      BY <1>10, <2>4 DEF IncrementRetry, RedisOk, RedisErr, Fault, TypeOK
    <3> QED BY <2>1, <2>4, <3>1, TriedStays
  <2> QED BY <2>3, <2>4
<1>11. CASE PushRetry
  <2>1. wjob \in Jobs /\ j \notin disturbed
    BY <1>11 DEF PushRetry, PushJob, RedisOk, Fault, TypeOK
  <2>2. /\ In(queue', j) => In(queue, j) \/ j = wjob
        /\ j # wjob => rstatus'[j] = rstatus[j]
    BY <1>11, <2>1, PushMoves DEF PushRetry, PushJob
  <2>3. /\ wpc = "retry_push" /\ wpc' = "retry_pg"
        /\ UNCHANGED <<retries, pg, req, orphans, wjob, attempts, restarts, proc>>
    BY <1>11 DEF PushRetry
  <2>4. j = wjob /\ proc = "stopping" => UNCHANGED <<queue, rstatus>>
    BY <1>11 DEF PushRetry, PushJob, RedisOk, Fault
  <2> QED BY <2>1, <2>2, <2>3, <2>4, TriedStays
<1> QED
  BY <1>2, <1>3, <1>5, <1>6, <1>7, <1>8, <1>9, <1>10, <1>11 DEF ProcessJob

LEMMA OutsideTried ==
    ASSUME TypeOK, Outside, NEW j \in Jobs \ disturbed',
           j \notin disturbed => Custody(j) /\ RowSays(j) /\ Tried(j)
    PROVE  Tried(j)'
<1> USE JobsAssumption
    DEF redis, store, life, budget, worker, MayRun, InQueue, Held, Ahead, Behind, Holding
<1>1. attempts[j] \in Nat /\ retries[j] \in Nat /\ restarts \in Nat
  BY DEF TypeOK
<1>2. ASSUME NEW i \in Jobs, CancelJob(i)
      PROVE  Tried(j)'
  <2>1. /\ In(queue', j) => In(queue, j)
        /\ rstatus'[j] = IF j = i THEN "cancelled" ELSE rstatus[j]
    BY <1>2, LRemLemma DEF CancelJob, TypeOK
  <2> QED BY <1>2, <2>1, TriedStays DEF CancelJob
<1>3. ASSUME NEW i \in Jobs, LapseStatus(i)
      PROVE  Tried(j)'
  BY <1>3, TriedStays DEF LapseStatus, Fault, TypeOK
<1>4. CASE LoseRedis
  <2>1. /\ j \notin disturbed /\ pg[j] = "absent" /\ retries'[j] = 0
        /\ UNCHANGED <<pg, attempts, restarts>>
    BY <1>4 DEF LoseRedis, Fault, Known
  <2> QED BY <1>1, <2>1, BoundsAssumption DEF Tried
<1>5. CASE Sigterm \/ Boot
  BY <1>5, TriedStays DEF Sigterm, Boot, TypeOK
<1>6. CASE Die
  BY <1>1, <1>6, BoundsAssumption DEF Die, Tried
<1> QED BY <1>2, <1>3, <1>4, <1>5, <1>6 DEF Outside

LEMMA NextTried ==
    ASSUME TypeOK, CustodyInv, RowInv, TriedInv, [Next]_vars
    PROVE  TriedInv'
<1> SUFFICES ASSUME NEW j \in Jobs \ disturbed' PROVE Tried(j)'
  BY DEF TriedInv
<1>1. j \notin disturbed => Custody(j) /\ RowSays(j) /\ Tried(j)
  BY DEF CustodyInv, RowInv, TriedInv
<1>2. CASE UNCHANGED vars
  BY <1>1, <1>2 DEF vars, Tried, MayRun, InQueue, Held
<1> QED
  BY <1>1, <1>2, HandlerTried, RecoveryTried, LoopTried, ProcessTried, OutsideTried
  DEF Next, Worker

\* A run calls LINGO once, once more for each retry, and once more for each time the
\* process died.
THEOREM RetryBudgetHolds == Spec => []RetryBudget
<1>1. Init => TriedInv
  BY BoundsAssumption DEF Init, TriedInv, Tried
<1>2. TypeOK /\ CustodyInv /\ RowInv /\ TriedInv /\ [Next]_vars => TriedInv'
  BY NextTried
<1>3. TypeOK /\ TriedInv => RetryBudget
  BY BoundsAssumption DEF TypeOK, TriedInv, Tried, RetryBudget
<1> QED BY <1>1, <1>2, <1>3, RowInvariant, PTL DEF Spec
=============================================================================
