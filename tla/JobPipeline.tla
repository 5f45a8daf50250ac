----------------------------- MODULE JobPipeline -----------------------------
(***************************************************************************)
(* The life of an optimization run, from the request that starts it to its *)
(* final status, over the three places that remember it:                   *)
(*                                                                         *)
(*   - Redis: the job list, a status key and a retry counter per job       *)
(*     (internal/queue/redis.go);                                          *)
(*   - PostgreSQL: the optimizations row, the committed plans, LingoLog;   *)
(*   - the process: the OptimizeScenario handlers and the single worker    *)
(*     goroutine (internal/worker/worker.go), which die together.          *)
(*                                                                         *)
(* One job stands for one POST .../optimize request and for the run it     *)
(* creates.  Every store call is a step of its own: between two of them    *)
(* other requests, the admin CLI, a signal or a crash may come.            *)
(***************************************************************************)
EXTENDS Integers, Sequences, FiniteSets

CONSTANTS
    Jobs,          \* the optimize requests, each with the job id it creates
    Scenarios,     \* the scenarios they target
    ScenOf,        \* [Jobs -> Scenarios], the scenario of each request
    NoJob,         \* the worker holds no job
    MaxRetries,    \* const maxRetries (3)
    MaxRestarts,   \* bound: crashes and shutdowns explored
    MaxFaults,     \* bound: failed store calls and lapsed keys explored
    Cancellable,   \* the jobs somebody may cancel with the admin CLI
    Signals,       \* TRUE when SIGTERM shutdowns are explored
    KeysExpire,    \* TRUE when the 24 h TTL of a status key may lapse
    RedisVolatile  \* TRUE when Redis may restart and lose what it had

ASSUME JobsAssumption   == IsFiniteSet(Jobs) /\ NoJob \notin Jobs
ASSUME ScenOfAssumption == ScenOf \in [Jobs -> Scenarios]
ASSUME BoundsAssumption == /\ MaxRetries \in Nat
                           /\ MaxRestarts \in Nat
                           /\ MaxFaults \in Nat
ASSUME ScopeAssumption  == /\ Cancellable \subseteq Jobs
                           /\ Signals \in BOOLEAN
                           /\ KeysExpire \in BOOLEAN
                           /\ RedisVolatile \in BOOLEAN

VARIABLES
    queue,       \* Redis list lingo:jobs
    rstatus,     \* Redis lingo:status:<job>, "absent" when there is no key
    retries,     \* Redis lingo:retries:<job>, 0 when there is no key
    pg,          \* optimizations.status, "absent" when there is no row
    results,     \* committed result sets of the run (optimization_results)
    logs,        \* LingoLog rows of the job
    announced,   \* last status handed to the WebSocket hub
    req,         \* progress of the request that creates the job
    proc,        \* the backend process: up, stopping (after SIGTERM), down
    wpc,         \* control point of the worker goroutine
    wjob,        \* the job the worker is on
    orphans,     \* recovery: jobs read as processing and not yet re-queued
    verdict,     \* what the solver said of wjob
    attempts,    \* history: calls of RunLINGO for the job
    restarts,    \* history: times the process died
    faults,      \* history: failed store calls and lapsed keys so far
    disturbed,   \* history: jobs a failed store call touched
    stranded,    \* history: jobs that a death, a shutdown or a lapsed key left
                 \* to nobody
    unsaid       \* history: jobs whose end a shutdown kept from Redis, until a
                 \* recovery puts their row back to pending

redis  == <<queue, rstatus, retries>>
store  == <<pg, results, logs>>
life   == <<proc, restarts>>
budget == <<faults, disturbed, stranded, unsaid>>
worker == <<wpc, wjob, orphans, verdict>>
vars   == <<queue, rstatus, retries, pg, results, logs, announced, req, proc,
            wpc, wjob, orphans, verdict, attempts, restarts, faults, disturbed,
            stranded, unsaid>>

Active   == {"pending", "processing"}
Final    == {"done", "error", "infeasible"}
RStatus  == Active \cup Final \cup {"cancelled", "absent"}
PgStatus == Active \cup Final \cup {"absent"}
ReqState == {"idle", "checked", "created", "undo", "accepted", "rejected",
             "dead"}

\* What a solver run comes to: a plan, no plan, or "failed" when RunLINGO returns
\* an error or ParseOutput cannot read the output.
Verdicts == {"none", "solved", "infeasible", "unbounded", "failed"}

\* Control points: what the worker does next.  From "check" to "fail_pg" it is
\* inside the iteration, or the recovery, of wjob.
Holding == {"check", "mark", "pgmark", "load", "solve", "log", "save",
            "done_status", "done_pg", "fin_status", "fin_pg", "inc",
            "retry_status", "retry_push", "retry_pg", "fail_status",
            "fail_pg", "rec_pg", "rec_push"}
WorkerPc == Holding \cup {"off", "scan", "recover", "pop"}

In(q, j)   == \E k \in 1 .. Len(q) : q[k] = j
Once(q, j) == \A a, b \in 1 .. Len(q) : q[a] = j /\ q[b] = j => a = b
InQueue(j) == In(queue, j)
Held(j)    == wjob = j
Serving    == proc \in {"up", "stopping"}

-----------------------------------------------------------------------------
(* Store calls.  A call of the worker that fails is reported to code that     *)
(* ignores the error: the fault is charged to MaxFaults and the job           *)
(* remembered in disturbed.  After SIGTERM the worker's context is cancelled  *)
(* and its Redis calls are refused: that is no fault, costs nothing and       *)
(* disturbs nobody.                                                           *)

RedisOk == proc = "up" /\ UNCHANGED budget

Fault(js) == /\ faults < MaxFaults
             /\ faults' = faults + 1
             /\ disturbed' = disturbed \cup js
             /\ UNCHANGED <<stranded, unsaid>>

RedisErr(js) == \/ Fault(js)
                \/ proc = "stopping" /\ UNCHANGED budget

\* The end of a run that is refused is one Redis never learns of.
SetStatus(j, s) == \/ RedisOk /\ rstatus' = [rstatus EXCEPT ![j] = s]
                   \/ Fault({j}) /\ UNCHANGED rstatus
                   \/ /\ proc = "stopping"
                      /\ unsaid' = IF s \in Final THEN unsaid \cup {j} ELSE unsaid
                      /\ UNCHANGED <<rstatus, faults, disturbed, stranded>>

\* MULTI / RPUSH / SET / EXEC.
Enqueue(j) == /\ queue' = Append(queue, j)
              /\ rstatus' = [rstatus EXCEPT ![j] = "pending"]

\* The client repeats a transaction whose reply it lost.
EnqueueTwice(j) == /\ queue' = queue \o <<j, j>>
                   /\ rstatus' = [rstatus EXCEPT ![j] = "pending"]

\* PushJob as the worker calls it, its error ignored.  A job whose push is refused
\* is lost, unless Redis still shows it as processing to the next start.
PushJob(j) == \/ RedisOk /\ Enqueue(j)
              \/ Fault({j}) /\ EnqueueTwice(j)
              \/ Fault({j}) /\ UNCHANGED <<queue, rstatus>>
              \/ /\ proc = "stopping"
                 /\ stranded' = IF rstatus[j] = "processing" THEN stranded
                                                             ELSE stranded \cup {j}
                 /\ UNCHANGED <<queue, rstatus, faults, disturbed, unsaid>>

\* UPDATE optimizations SET status = s WHERE job_id = j; these calls do not
\* take the worker's context.
PutRow(j, s) == pg' = IF pg[j] = "absent" THEN pg ELSE [pg EXCEPT ![j] = s]

UpdateRow(j, s) == \/ PutRow(j, s) /\ UNCHANGED budget
                   \/ Fault({j}) /\ UNCHANGED pg

\* Mutants of LRem: LREM list 1 j, which stops at the first occurrence, and no
\* LREM at all.
LRemFirst(q, j) ==
    LET at == {k \in 1 .. Len(q) : q[k] = j}
        first == CHOOSE k \in at : \A i \in at : k <= i
    IN IF at = {} THEN {q}
       ELSE {[k \in 1 .. Len(q) - 1 |-> IF k < first THEN q[k] ELSE q[k + 1]]}
LRemNone(q, j) == {q}

\* LREM list 0 j: the list without j, in the same order.
LRem(q, j) ==
    LET kept == {k \in 1 .. Len(q) : q[k] # j}
        places == 1 .. Cardinality(kept)
        inOrder == {g \in [places -> kept] :
                        /\ \A a, b \in places : a < b => g[a] < g[b]
                        /\ \A k \in kept : \E a \in places : g[a] = k}
    IN {[a \in places |-> q[g[a]]] : g \in inOrder}

\* broadcastStatus: never waits; which clients the hub then serves is its own
\* matter.
Broadcast(j, s) == announced' = [announced EXCEPT ![j] = s]

Init ==
    /\ queue = <<>>
    /\ rstatus = [j \in Jobs |-> "absent"]
    /\ retries = [j \in Jobs |-> 0]
    /\ pg = [j \in Jobs |-> "absent"]
    /\ results = [j \in Jobs |-> 0]
    /\ logs = [j \in Jobs |-> 0]
    /\ announced = [j \in Jobs |-> "absent"]
    /\ req = [j \in Jobs |-> "idle"]
    /\ proc = "up"
    /\ wpc = "scan"
    /\ wjob = NoJob
    /\ orphans = {}
    /\ verdict = "none"
    /\ attempts = [j \in Jobs |-> 0]
    /\ restarts = 0
    /\ faults = 0
    /\ disturbed = {}
    /\ stranded = {}
    /\ unsaid = {}

-----------------------------------------------------------------------------
(* OptimizeScenario, one request: count the active runs of the scenario,      *)
(* create the row, push the job, or delete the row again.                     *)

\* The runs that block another.  Its mutant counts only those not yet taken.
PendingRuns(s) == {i \in Jobs : ScenOf[i] = s /\ pg[i] = "pending"}
ActiveRuns(s) == {i \in Jobs : ScenOf[i] = s /\ pg[i] \in Active}

\* The count of active runs; a failing COUNT leaves it at zero.
CheckActive(j) ==
    /\ Serving /\ req[j] = "idle"
    /\ \/ /\ req' = [req EXCEPT ![j] = IF ActiveRuns(ScenOf[j]) = {}
                                         THEN "checked" ELSE "rejected"]
          /\ UNCHANGED budget
       \/ Fault({j}) /\ req' = [req EXCEPT ![j] = "checked"]
    /\ UNCHANGED <<redis, store, announced, life, worker, attempts>>

\* db.Create: the row, or an error, after which the row may exist all the same.
CreateRow(j) ==
    /\ Serving /\ req[j] = "checked"
    /\ \/ /\ pg' = [pg EXCEPT ![j] = "pending"]
          /\ req' = [req EXCEPT ![j] = "created"]
          /\ UNCHANGED budget
       \/ /\ Fault({j})
          /\ pg' \in {pg, [pg EXCEPT ![j] = "pending"]}
          /\ req' = [req EXCEPT ![j] = "rejected"]
    /\ UNCHANGED <<redis, results, logs, announced, life, worker, attempts>>

\* PushJob with the request's context: 202, or an error although the job may
\* have reached the list.
SubmitJob(j) ==
    /\ Serving /\ req[j] = "created"
    /\ \/ /\ Enqueue(j)
          /\ req' = [req EXCEPT ![j] = "accepted"]
          /\ UNCHANGED budget
       \/ /\ Fault({j})
          /\ \/ Enqueue(j) /\ req' = [req EXCEPT ![j] = "undo"]
             \/ EnqueueTwice(j) /\ req' = [req EXCEPT ![j] = "accepted"]
             \/ UNCHANGED <<queue, rstatus>> /\ req' = [req EXCEPT ![j] = "undo"]
    /\ UNCHANGED <<retries, store, announced, life, worker, attempts>>

\* db.Delete(&opt), the results with it (ON DELETE CASCADE); its error is ignored.
UndoRow(j) ==
    /\ Serving /\ req[j] = "undo"
    /\ req' = [req EXCEPT ![j] = "rejected"]
    /\ \/ /\ pg' = [pg EXCEPT ![j] = "absent"]
          /\ results' = [results EXCEPT ![j] = 0]
          /\ UNCHANGED budget
       \/ Fault({j}) /\ UNCHANGED <<pg, results>>
    /\ UNCHANGED <<redis, logs, announced, life, worker, attempts>>

-----------------------------------------------------------------------------
(* recoverOrphanJobs, run once when the worker starts.                        *)

\* The check of ctx.Done() at the head of the loop, which comes before BLPOP.
LoopHead == IF proc = "stopping" THEN "off" ELSE "pop"

\* Mutant of ScanStatuses: the recovery takes the pending jobs too.
ScanActive ==
    /\ wpc = "scan" /\ wpc' = "recover"
    /\ RedisOk
    /\ orphans' = {j \in Jobs : rstatus[j] \in Active}
    /\ UNCHANGED <<redis, store, announced, req, life, wjob, verdict, attempts>>

\* GetAllJobsStatus: the jobs read as processing.  A failing GET misses its key,
\* a failing SCAN all of them.
ScanStatuses ==
    LET processing == {j \in Jobs : rstatus[j] = "processing"}
    IN /\ wpc = "scan" /\ wpc' = "recover"
       /\ \E missed \in SUBSET processing :
             /\ \/ RedisOk /\ missed = {}
                \/ RedisErr(missed)
             /\ orphans' = processing \ missed
       /\ UNCHANGED <<redis, store, announced, req, life, wjob, verdict, attempts>>

\* The keys are read one by one: a job cancelled before its turn is not seen.
SkipOrphan(j) ==
    /\ wpc = "recover" /\ j \in orphans /\ rstatus[j] # "processing"
    /\ orphans' = orphans \ {j}
    /\ UNCHANGED <<redis, store, announced, req, life, budget, wpc, wjob,
                   verdict, attempts>>

RecoverOrphan(j) ==
    /\ wpc = "recover" /\ j \in orphans
    /\ orphans' = orphans \ {j}
    /\ SetStatus(j, "pending")
    /\ wjob' = j /\ wpc' = "rec_pg"
    /\ UNCHANGED <<queue, retries, store, announced, req, life, verdict, attempts>>

\* The row goes back to pending, whatever it said.
RecoverRow ==
    /\ wpc = "rec_pg" /\ wpc' = "rec_push"
    /\ \/ /\ PutRow(wjob, "pending")
          /\ unsaid' = unsaid \ {wjob}
          /\ UNCHANGED <<faults, disturbed, stranded>>
       \/ Fault({wjob}) /\ UNCHANGED pg
    /\ UNCHANGED <<redis, results, logs, announced, req, life, wjob, orphans,
                   verdict, attempts>>

RecoverPush ==
    /\ wpc = "rec_push" /\ wpc' = "recover"
    /\ PushJob(wjob)
    /\ wjob' = NoJob
    /\ UNCHANGED <<retries, store, announced, req, life, orphans, verdict, attempts>>

\* Mutant of EndRecovery: the loop over the statuses may stop early.
EndRecoveryEarly ==
    /\ wpc = "recover" /\ wpc' = LoopHead
    /\ UNCHANGED <<redis, store, announced, req, life, budget, wjob, orphans,
                   verdict, attempts>>

EndRecovery ==
    /\ wpc = "recover" /\ orphans = {}
    /\ wpc' = LoopHead
    /\ UNCHANGED <<redis, store, announced, req, life, budget, wjob, orphans,
                   verdict, attempts>>

-----------------------------------------------------------------------------
(* Start: the loop of the worker.                                             *)

\* BLPOP.  One that was waiting when SIGTERM came still takes a job.
TakeJob ==
    /\ wpc = "pop" /\ queue # <<>>
    /\ wjob' = Head(queue) /\ queue' = Tail(queue)
    /\ wpc' = "check"
    /\ UNCHANGED <<rstatus, retries, store, announced, req, life, budget,
                   orphans, verdict, attempts>>

\* The list gave the job up but the reply was lost: error, pause, next BLPOP.
LoseReply ==
    /\ wpc = "pop" /\ queue # <<>>
    /\ Fault({Head(queue)})
    /\ queue' = Tail(queue) /\ wpc' = LoopHead
    /\ UNCHANGED <<rstatus, retries, store, announced, req, life, wjob, orphans,
                   verdict, attempts>>

\* SIGTERM between the check of the context and BLPOP: context.Canceled.
WorkerStops ==
    /\ wpc = "pop" /\ proc = "stopping"
    /\ wpc' = "off"
    /\ UNCHANGED <<redis, store, announced, req, life, budget, wjob, orphans,
                   verdict, attempts>>

\* The job leaves the worker's hands.
Release == wjob' = NoJob /\ verdict' = "none" /\ wpc' = LoopHead

\* GetStatus: a cancelled job is dropped; an error reads as not cancelled.
CheckCancelled ==
    /\ wpc = "check"
    /\ \/ /\ RedisOk
          /\ IF rstatus[wjob] = "cancelled"
               THEN Release
               ELSE wpc' = "mark" /\ UNCHANGED <<wjob, verdict>>
       \/ RedisErr({wjob}) /\ wpc' = "mark" /\ UNCHANGED <<wjob, verdict>>
    /\ UNCHANGED <<redis, store, announced, req, life, orphans, attempts>>

-----------------------------------------------------------------------------
(* processJob.                                                                *)

\* q.SetStatus(wjob, s), broadcastStatus(wjob, s), on the way from one control
\* point to the next.
Tell(from, s, to) ==
    /\ wpc = from /\ wpc' = to
    /\ SetStatus(wjob, s)
    /\ Broadcast(wjob, s)
    /\ UNCHANGED <<queue, retries, store, req, life, wjob, orphans, verdict, attempts>>

\* The UPDATE that ends the work on wjob.
Settle(from, s) ==
    /\ wpc = from
    /\ UpdateRow(wjob, s)
    /\ Release
    /\ UNCHANGED <<redis, results, logs, announced, req, life, orphans, attempts>>

MarkProcessing == Tell("mark", "processing", "pgmark")

MarkRow ==
    /\ wpc = "pgmark" /\ wpc' = "load"
    /\ UpdateRow(wjob, "processing")
    /\ UNCHANGED <<redis, results, logs, announced, req, life, wjob, orphans,
                   verdict, attempts>>

\* First and BuildModel: a model, and RunLINGO is called, or an error (no row, no
\* scenario, bad data, a failing query), which goes to handleJobError.
LoadModel ==
    /\ wpc = "load"
    /\ \/ /\ wpc' = "solve" /\ pg[wjob] # "absent"
          /\ attempts' = [attempts EXCEPT ![wjob] = @ + 1]
       \/ wpc' = "inc" /\ UNCHANGED attempts
    /\ UNCHANGED <<redis, store, announced, req, life, budget, wjob, orphans, verdict>>

\* RunLINGO returns, with what ParseOutput will make of its output.  A cancelled context
\* kills the solver.
RunSolver ==
    /\ wpc = "solve" /\ wpc' = "log"
    /\ verdict' \in IF proc = "up" THEN Verdicts \ {"none"} ELSE {"failed"}
    /\ UNCHANGED <<redis, store, announced, req, life, budget, wjob, orphans, attempts>>

\* Mutant of StoreLog: only the runs that failed are logged.
StoreLogOnError ==
    /\ IF verdict = "failed" THEN logs' = [logs EXCEPT ![wjob] = @ + 1]
                             ELSE UNCHANGED logs
    /\ UNCHANGED budget

\* SaveLingoLog.
StoreLog == \/ logs' = [logs EXCEPT ![wjob] = @ + 1] /\ UNCHANGED budget
            \/ Fault({wjob}) /\ UNCHANGED logs

\* The log, whatever came out, then the branch on the outcome.
SaveLog ==
    /\ wpc = "log"
    /\ StoreLog
    /\ wpc' = CASE verdict = "solved" -> "save"
                [] verdict \in {"infeasible", "unbounded"} -> "fin_status"
                [] verdict = "failed" -> "inc"
    /\ verdict' = IF wpc' = "fin_status" THEN verdict ELSE "none"
    /\ UNCHANGED <<redis, pg, results, announced, req, life, wjob, orphans, attempts>>

\* Mutant of StoreResults: an error of the transaction is ignored.
StoreResultsUnchecked ==
    /\ wpc' = "done_status"
    /\ results' \in {results, [results EXCEPT ![wjob] = @ + 1]}
    /\ UNCHANGED budget

\* The transaction that stores the plan: it commits, or commits and loses the
\* reply, or is rolled back, by a failure or by the foreign key on a product deleted
\* meanwhile.  Without the row only a plan with no result rows commits.
StoreResults ==
    \/ /\ pg[wjob] # "absent"
       /\ results' = [results EXCEPT ![wjob] = @ + 1]
       /\ \/ wpc' = "done_status" /\ UNCHANGED budget
          \/ wpc' = "inc" /\ Fault({wjob})
    \/ /\ wpc' = "inc" \/ (pg[wjob] = "absent" /\ wpc' = "done_status")
       /\ UNCHANGED <<results, budget>>

SaveResults ==
    /\ wpc = "save"
    /\ StoreResults
    /\ UNCHANGED <<redis, pg, logs, announced, req, life, wjob, orphans, verdict,
                   attempts>>

\* Mutant of TellDone: the hub is told and Redis is not.
TellDoneToHub ==
    /\ wpc = "done_status" /\ wpc' = "done_pg"
    /\ Broadcast(wjob, "done")
    /\ UNCHANGED <<redis, store, req, life, budget, wjob, orphans, verdict, attempts>>

TellDone == Tell("done_status", "done", "done_pg")
RowDone  == Settle("done_pg", "done")

\* finalizeTerminal.  Mutant of TerminalStatus: unbounded ends as done.
TerminalDone   == IF verdict = "infeasible" THEN "infeasible" ELSE "done"
TerminalStatus == IF verdict = "infeasible" THEN "infeasible" ELSE "error"
\* Mutant of TellTerminal: Redis gets "error" whatever the cause.
TellError      == Tell("fin_status", "error", "fin_pg")
TellTerminal   == Tell("fin_status", TerminalStatus, "fin_pg")
RowTerminal    == Settle("fin_pg", TerminalStatus)

\* handleJobError: another try while the count is within the limit.  Its mutant
\* allows one more.
OnwardOneMore(n) == IF n <= MaxRetries + 1 THEN "retry_status" ELSE "fail_status"
Onward(n) == IF n <= MaxRetries THEN "retry_status" ELSE "fail_status"

\* IncrementRetry, whose error reads as zero retries; an INCR repeated after a lost
\* reply counts twice.
IncrementRetry ==
    LET counted(n) == [retries EXCEPT ![wjob] = @ + n]
    IN /\ wpc = "inc"
       /\ \/ RedisOk /\ retries' = counted(1) /\ wpc' = Onward(counted(1)[wjob])
          \/ Fault({wjob}) /\ retries' = counted(2) /\ wpc' = Onward(counted(2)[wjob])
          \/ Fault({wjob}) /\ retries' = counted(1) /\ wpc' = Onward(0)
          \/ RedisErr({wjob}) /\ UNCHANGED retries /\ wpc' = Onward(0)
       /\ UNCHANGED <<queue, rstatus, store, announced, req, life, wjob, orphans,
                      verdict, attempts>>

\* Mutant of TellRetry: a failed try shows as an error, though another follows.
TellRetryError == Tell("retry_status", "error", "retry_push")
TellRetry == Tell("retry_status", "pending", "retry_push")

\* Mutant of PushRetry: the status goes back to pending and nothing is pushed.
PushRetryForgotten ==
    /\ wpc = "retry_push" /\ wpc' = "retry_pg"
    /\ UNCHANGED <<redis, store, announced, req, life, budget, wjob, orphans,
                   verdict, attempts>>

PushRetry ==
    /\ wpc = "retry_push" /\ wpc' = "retry_pg"
    /\ PushJob(wjob)
    /\ UNCHANGED <<retries, store, announced, req, life, wjob, orphans, verdict,
                   attempts>>

RowRetry == Settle("retry_pg", "pending")

TellFailed == Tell("fail_status", "error", "fail_pg")
RowFailed  == Settle("fail_pg", "error")

-----------------------------------------------------------------------------
(* The admin CLI, the process and the clock.                                  *)

Known(j) == rstatus[j] # "absent" \/ pg[j] # "absent"

\* CancelJob: MULTI / LREM / SET cancelled / EXEC, from another process.
CancelJob(j) ==
    /\ j \in Cancellable /\ Known(j)
    /\ queue' \in LRem(queue, j)
    /\ rstatus' = [rstatus EXCEPT ![j] = "cancelled"]
    /\ UNCHANGED <<retries, store, announced, req, life, budget, worker, attempts>>

\* SIGTERM: the worker's context is cancelled; the API serves for another second.
Sigterm ==
    /\ Signals /\ proc = "up" /\ restarts < MaxRestarts
    /\ proc' = "stopping"
    /\ UNCHANGED <<redis, store, announced, req, restarts, budget, worker, attempts>>

\* A run in hand that Redis does not show as processing, and that is not in the
\* list, is nobody's once the process is gone; so is a row not yet pushed.
LeftBehind ==
    {j \in Jobs : /\ ~InQueue(j)
                  /\ rstatus[j] # "processing"
                  /\ Held(j) \/ req[j] \in {"created", "undo"}}

\* A crash, or the end of main after the one-second sleep.
Die ==
    /\ Serving /\ (proc = "up" => restarts < MaxRestarts)
    /\ proc' = "down" /\ restarts' = restarts + 1
    /\ stranded' = stranded \cup LeftBehind
    /\ req' = [j \in Jobs |-> IF req[j] \in {"checked", "created", "undo"}
                                THEN "dead" ELSE req[j]]
    /\ wpc' = "off" /\ wjob' = NoJob /\ orphans' = {} /\ verdict' = "none"
    /\ UNCHANGED <<redis, store, announced, faults, disturbed, unsaid, attempts>>

\* Mutant of Boot: the worker starts without its recovery.
BootNoRecovery ==
    /\ proc = "down"
    /\ proc' = "up" /\ wpc' = "pop"
    /\ UNCHANGED <<redis, store, announced, req, restarts, budget, wjob, orphans,
                   verdict, attempts>>

\* systemd starts the service again (Restart=always); main starts the worker.
Boot ==
    /\ proc = "down"
    /\ proc' = "up" /\ wpc' = "scan"
    /\ UNCHANGED <<redis, store, announced, req, restarts, budget, wjob, orphans,
                   verdict, attempts>>

\* The 24 h TTL of lingo:status:<job> runs out.  A job outside the list is then
\* found by no recovery.
LapseStatus(j) ==
    /\ KeysExpire /\ rstatus[j] # "absent"
    /\ rstatus' = [rstatus EXCEPT ![j] = "absent"]
    /\ faults < MaxFaults /\ faults' = faults + 1
    /\ stranded' = IF InQueue(j) THEN stranded ELSE stranded \cup {j}
    /\ UNCHANGED <<queue, retries, store, announced, req, life, worker, attempts,
                   disturbed, unsaid>>

\* Redis restarts without a volume (docker-compose.yml): the list and every key
\* are gone.  The runs it knew, and those that have a row, are disturbed.
LoseRedis ==
    /\ RedisVolatile
    /\ Fault({j \in Jobs : Known(j) \/ InQueue(j)})
    /\ queue' = <<>>
    /\ rstatus' = [j \in Jobs |-> "absent"]
    /\ retries' = [j \in Jobs |-> 0]
    /\ UNCHANGED <<store, announced, req, life, worker, attempts>>

\* What GET /optimizations/:job_id may answer: the Redis status, or the row's if
\* there is no key or the GET fails for any reason ("absent": 404).
GetJobStatus(j) == {pg[j]} \cup ({rstatus[j]} \ {"absent"})

-----------------------------------------------------------------------------
Handler(j) == CheckActive(j) \/ CreateRow(j) \/ SubmitJob(j) \/ UndoRow(j)

Recovery == \/ ScanStatuses
            \/ \E j \in Jobs : SkipOrphan(j) \/ RecoverOrphan(j)
            \/ RecoverRow \/ RecoverPush \/ EndRecovery

Loop == TakeJob \/ LoseReply \/ WorkerStops \/ CheckCancelled

ProcessJob == \/ MarkProcessing \/ MarkRow \/ LoadModel \/ RunSolver
              \/ SaveLog \/ SaveResults \/ TellDone \/ RowDone
              \/ TellTerminal \/ RowTerminal
              \/ IncrementRetry \/ TellRetry \/ PushRetry \/ RowRetry
              \/ TellFailed \/ RowFailed

Worker == Recovery \/ Loop \/ ProcessJob

Outside == \/ \E j \in Jobs : CancelJob(j) \/ LapseStatus(j)
           \/ LoseRedis \/ Sigterm \/ Die \/ Boot

Next == (\E j \in Jobs : Handler(j)) \/ Worker \/ Outside

Spec == Init /\ [][Next]_vars

\* The worker goroutine keeps running, a started handler is carried through,
\* systemd restarts the service and main ends after SIGTERM.  Nothing makes LINGO
\* terminate, for RunLINGO has no timeout: "solve" may last for ever.
Fairness == /\ WF_vars(Worker /\ wpc # "solve")
            /\ \A j \in Jobs : WF_vars(CreateRow(j) \/ SubmitJob(j) \/ UndoRow(j))
            /\ WF_vars(Boot)
            /\ WF_vars(proc = "stopping" /\ Die)

FairSpec == Spec /\ Fairness

-----------------------------------------------------------------------------
(* Safety.                                                                    *)

TypeOK ==
    /\ queue \in Seq(Jobs)
    /\ rstatus \in [Jobs -> RStatus]
    /\ retries \in [Jobs -> Nat]
    /\ pg \in [Jobs -> PgStatus]
    /\ results \in [Jobs -> Nat]
    /\ logs \in [Jobs -> Nat]
    /\ announced \in [Jobs -> RStatus]
    /\ req \in [Jobs -> ReqState]
    /\ proc \in {"up", "stopping", "down"}
    /\ wpc \in WorkerPc
    /\ proc = "down" => wpc = "off"
    /\ proc = "up" => wpc # "off"
    /\ wjob \in Jobs \cup {NoJob}
    /\ wjob \in Jobs <=> wpc \in Holding
    /\ orphans \subseteq Jobs
    /\ orphans # {} => wpc \in {"recover", "rec_pg", "rec_push"}
    /\ verdict \in Verdicts
    /\ verdict # "none" <=> wpc \in {"log", "fin_status", "fin_pg"}
    /\ wpc \in {"fin_status", "fin_pg"} => verdict \in {"infeasible", "unbounded"}
    /\ attempts \in [Jobs -> Nat]
    /\ restarts \in Nat
    /\ faults \in 0 .. MaxFaults
    /\ disturbed \subseteq Jobs
    /\ stranded \subseteq Jobs
    /\ unsaid \subseteq Jobs

\* No run is worked on twice at once: a job is in the list at most once, and
\* while a handler, the recovery or the worker has it, nobody else does
\* (PushJob, PopJob and recoverOrphanJobs hand it on).
SingleCustody ==
    \A j \in Jobs \ disturbed :
        /\ Once(queue, j)
        /\ InQueue(j) => /\ j \notin orphans
                         /\ Held(j) => wpc = "retry_pg"
                         /\ req[j] = "accepted"
        /\ Held(j) => j \notin orphans /\ req[j] = "accepted"

\* An active row always has somebody who will carry the run on: the request that
\* is about to push it, the list, the worker, or the recovery of this start or the
\* next, which is still to see its key as processing.  The exceptions are exactly
\* the cancelled runs, the runs a failed store call touched, and the stranded
\* ones: not shown as processing when the process died with them or a shutdown
\* refused their push, or out of the list when their key lapsed.
RunHasOwner ==
    \A j \in Jobs :
        pg[j] \in Active /\ rstatus[j] # "cancelled" /\ j \notin disturbed \cup stranded
        => \/ req[j] \in {"created", "undo"}
           \/ InQueue(j)
           \/ Held(j)
           \/ /\ rstatus[j] = "processing"
              /\ j \in orphans \/ wpc = "scan" \/ proc # "up"

\* A cancelled job is not in the list (redis.go: the cancel keeps a queued job
\* from being processed).
CancelledNotQueued ==
    \A j \in Jobs : rstatus[j] = "cancelled" => ~InQueue(j)

\* Nobody is told a run is done before its plan is committed, wherever they
\* look: the row, the Redis status or the WebSocket.
PlanBeforeDone ==
    \A j \in Jobs :
        pg[j] # "absent" /\ "done" \in {pg[j], rstatus[j], announced[j]}
        => results[j] >= 1

\* PostgreSQL closes no run that Redis, while it has the key, shows otherwise,
\* cancellation aside: GET /optimizations/:job_id reads Redis, GET /results/:id the
\* row.  Excepted are the runs a failed store call touched and those whose end a
\* shutdown kept from Redis: the worker closes their row all the same.
RowFollowsRedis ==
    \A j \in Jobs \ (disturbed \cup unsaid) :
        pg[j] \in Final => rstatus[j] \in {pg[j], "cancelled", "absent"}

\* A run calls LINGO at most once plus maxRetries times, and once more for each
\* time the process died, for handleJobError counts every failure but those.  A run
\* that a failed store call touched may have lost its count, and is not counted on.
RetryBudget ==
    \A j \in Jobs \ disturbed : attempts[j] <= MaxRetries + 1 + restarts

\* Every call of LINGO leaves its log before the run moves on (docs/04: the log
\* is saved whatever happens), unless the process died in between or a store call
\* failed on the run: the error of the INSERT is dropped.
SolverRunsAreLogged ==
    \A j \in Jobs \ disturbed :
        attempts[j] <= logs[j] + restarts
                       + IF Held(j) /\ wpc \in {"solve", "log"} THEN 1 ELSE 0

\* A job cancelled while nobody has it in hand stays cancelled, and nobody takes
\* it in hand again: not the worker, not a recovery.
CancelledAtRest(j) == /\ rstatus[j] = "cancelled"
                      /\ ~Held(j) /\ j \notin orphans /\ req[j] # "created"
CancelSticks ==
    [][\A j \in Jobs : CancelledAtRest(j)
                      => (CancelledAtRest(j) \/ rstatus[j] = "absent")']_vars

\* A row that reached a final status keeps it, and gets no second plan, through
\* crashes, recoveries, retries and cancellations, with two exceptions.  A run that
\* a failed store call touched may be opened again; and so may, once, a run whose
\* end a shutdown kept from Redis: after SIGTERM SetStatus is refused, the row is
\* closed all the same, and the recovery of the next start finds "processing" and
\* puts the row back to pending (ClosedStaysClosed shows it).
FinalIsFinal ==
    [][\A j \in Jobs :
          pg[j] \in Final /\ j \notin disturbed' \cup unsaid
          => pg'[j] = pg[j] /\ results'[j] = results[j]
      ]_vars

\* The row has not followed an end that Redis was told of: the worker is on its way
\* to close it, or never will, for the process died on that way.
RowLags(j) == pg[j] \in Active /\ (Held(j) \/ j \in stranded)

\* A client that polls and may be told of an end may afterwards be told that end, or
\* that the run was cancelled, and nothing else, with these exceptions.  As long as
\* the row lags behind Redis, a poll that Redis does not answer, because its 24 h
\* key lapsed or the GET failed, is answered with the row, which still says the run
\* goes on: for ever, if the process died between SetStatus and the UPDATE.  Runs
\* that a failed store call touched, and those whose end a shutdown kept from
\* Redis, which a recovery opens again, are excepted altogether.
AnswerStays ==
    [][\A j \in Jobs : \A s \in GetJobStatus(j) \cap Final :
          j \notin disturbed' \cup unsaid
          => GetJobStatus(j)' \subseteq
                {s, "cancelled"} \cup (IF RowLags(j)' THEN {pg'[j]} ELSE {})
      ]_vars

\* A scenario has a second active run only by the race of two requests that both
\* counted before either had its row: while one run is active, another becomes so,
\* or gets past the count, only if its request was past the count already.  Excepted
\* are the runs a failed store call touched, and those whose end a shutdown kept
\* from Redis: the recovery that opens them again counts nothing.
AheadOf(j) == pg[j] \in Active \/ req[j] = "checked"
DuplicatesOnlyByRace ==
    [][\A j \in Jobs :
          /\ \E i \in Jobs \ {j} : ScenOf[i] = ScenOf[j] /\ pg[i] \in Active
          /\ ~AheadOf(j) /\ j \notin disturbed' \cup unsaid
          => ~AheadOf(j)']_vars

\* The row keeps the contract its readers see: the statuses in their order, the
\* end only from processing, "done" only with a stored plan, the end for good.  The
\* contract lets go of the runs a failed store call touched, and lets a run whose
\* end a shutdown kept from Redis be opened again, once.
Contract == INSTANCE RunContract
              WITH phase <- pg,
                   planned <- [j \in Jobs |-> results[j] >= 1],
                   released <- disturbed,
                   unheard <- unsaid
KeepsContract == Contract!Spec

-----------------------------------------------------------------------------
(* Liveness, under Fairness.                                                  *)

\* The solver does not hang.
SolverEnds == []<>(wpc # "solve")

\* A run that is active ends, through any retries, deaths and shutdowns, unless it
\* is cancelled, a store call failed on it, or it was left to nobody (stranded: see
\* RunHasOwner).  A solver that hangs is the only other thing that can keep it, or
\* any run behind it.
EveryRunEnds ==
    SolverEnds =>
    \A j \in Jobs :
        pg[j] \in Active ~> \/ pg[j] \notin Active
                           \/ rstatus[j] = "cancelled"
                           \/ j \in disturbed \cup stranded

\* A job that Redis shows as processing is moved on, by the worker or, when the
\* process died, by the recovery of the next start, if the solver does not hang.
ProcessingMovesOn ==
    SolverEnds =>
    \A j \in Jobs : rstatus[j] = "processing" ~> rstatus[j] # "processing"

-----------------------------------------------------------------------------
(* What the documents and comments say and the code does not keep.            *)

\* "NO reintenta" (finalizeTerminal), "Job marcado como error definitivo"
\* (handleJobError): a run that was closed stays closed.  After SIGTERM the status is
\* not told to Redis and the row is closed; the next start opens the run again.
ClosedStaysClosed == [][\A j \in Jobs : pg[j] \in Final => pg'[j] = pg[j]]_vars

\* "Fila por producto" (docs/02-data-dictionary.md): a run has one result row per
\* product, so one result set.  A crash after the commit runs it again.
OneResultSet == \A j \in Jobs : results[j] <= 1

\* "cancelled: cancelado via admin CLI" (docs/04): the run's status.  CancelJob
\* never writes the row, which stays active and blocks the scenario.
CancelReachesRow ==
    \A j \in Jobs :
        rstatus[j] = "cancelled" ~> pg[j] \notin Active \/ rstatus[j] # "cancelled"

=============================================================================
