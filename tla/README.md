# pasty-bakery-or in TLA+

The backend of a production planner for a bakery. A *scenario* (products,
ingredients, machines, recipes) is optimised by a *run*: an HTTP request creates
a row and pushes a job on a Redis list, one worker goroutine takes the job,
builds a LINGO model, calls the solver, stores the plan and tells the browsers
over a WebSocket. This directory models that program, checks it with TLC on
small instances and proves what can be proved for every instance with TLAPS.

## Inventory

| component | code | state it keeps | operations | who it talks to |
|---|---|---|---|---|
| Job queue and status | `internal/queue/redis.go` | list `lingo:jobs`, keys `lingo:status:<job>` and `lingo:retries:<job>` (24 h) | PushJob (MULTI RPUSH+SET), PopJob (BLPOP), SetStatus, GetStatus, CancelJob (MULTI LREM+SET), IncrementRetry, GetAllJobsStatus (SCAN+GETs) | Redis |
| Worker | `internal/worker/worker.go` | nothing between two jobs; the job in hand and how far it is | Start (recovery, then the loop), processJob, finalizeTerminal, handleJobError, recoverOrphanJobs | queue, PostgreSQL, solver, hub |
| Optimize request | `internal/handlers/scenarios.go` 309-380 | one goroutine per request | count active runs, freeze, create row, push, undo | PostgreSQL, queue |
| Scenario lifecycle | `internal/handlers/scenarios.go` 23-172 | `scenarios.status`: draft, frozen, archived | create, update, delete-or-archive | PostgreSQL |
| Catalog and recipes | `products.go`, `ingredients.go`, `machines.go`, `operational_resources.go` | the scenario's entities and recipe cells | CRUD behind `requireDraft` / `productDraftGuard` | PostgreSQL |
| Clone | `scenarios.go` 174-307 | none | copy of seven tables in one transaction, `canonical_id` roots | PostgreSQL |
| Status and results reads | `optimize.go`, `logs.go` | none | GET status (Redis, else the row), results, queue | Redis, PostgreSQL |
| WebSocket hub | `internal/ws/hub.go`, `handlers/ws.go` | map of clients, three unbuffered channels, a 256-message buffer per client | Run, Broadcast, RegisterClient, writePump, readPump | worker, browsers |
| Model builder and parser | `internal/solver/lingo.go` | none | BuildModel, RunLINGO, ParseOutput | PostgreSQL, `runlingo` |
| Admin CLI | `cmd/admin/main.go` | none, another process | cancel, status, list | Redis |
| Process | `cmd/api/main.go`, `lingo-api.service` | up, or in the second after SIGTERM, or dead | boot, SIGTERM, exit, restart by systemd | all |
| Schema | `internal/db/postgres.go`, `internal/models/models.go` | constraints, foreign keys, composite keys of the recipe matrices | migrate, at every start of the API and of the seed | PostgreSQL |
| Seed | `cmd/seed/main.go`, `scripts` | none, another process | fill the first scenario from a spreadsheet | PostgreSQL |
| API key | `internal/middleware` | none | one comparison | |

What is hard here: a run is remembered in **three places written one after the
other** (Redis, the row, the WebSocket) with every error of the worker's Redis
calls ignored; the **process may die** between any two of those writes and what
it was doing is rebuilt from one Redis status only; **another process** (the
admin CLI) changes the same keys at any moment; after SIGTERM Redis calls fail
at once while PostgreSQL calls still succeed; every handler **reads, then
writes**, with no lock and no transaction around the two; the one transaction,
the clone, reads seven tables statement by statement while others write them; and
every start **drops and adds the keys** of the recipe matrices while another
process may be serving. `PROJECT.json`
("hazards") lists each of these at its line, with the properties that cover it, or
says why none does: where the code loses a run or a count, a property can only name
the loss among its exceptions.

What makes each component correct:

- queue + worker + request: a run is never in two hands, never in nobody's,
  ends, gets its bounded number of tries, is not reported done before its plan
  is stored, keeps its final status; a cancellation of a run at rest holds;
- scenario lifecycle: past its freeze a scenario changes no more, so that a plan
  is computed from the inputs it will be shown with; one with runs is archived,
  not lost; a clone is a copy of one version of its source;
- catalog and clone: a recipe cell joins a product and an item of its own
  scenario, an identity link is one hop long, a clone is its source under other
  ids, and what is done to one scenario shows in no other;
- hub: it never panics nor blocks, a client misses no message that the hub took
  while the client was registered, and a dead connection's goroutines end;
- model builder and parser: the plan stored for the products, by id, is one the
  scenario allows and the best one, through the positions LINGO works with.

## Modules

| module | models | main state | steps |
|---|---|---|---|
| `JobPipeline` | queue, worker, recovery, the row side of optimize, admin cancel, process | `queue`, `rstatus`, `retries` (Redis); `pg`, `results`, `logs` (PostgreSQL); `req`, `wpc`, `wjob`, `orphans`, `verdict` (where each goroutine is) | one per store call |
| `RunContract` | what readers of the row may rely on; abstract | `phase`, `planned`, `released`, `unheard` | submit, begin, requeue, plan, end, muffle, reopen, release |
| `Catalog` | the handlers of products, ingredients, machines, resources and recipe cells, clone, seed, foreign keys, migration | `status`, `rows`, `cells`, `keyed` (keys in force), `mig`; `req` (the handler each request is in, and what it holds) | one per SQL statement |
| `WsHub` | hub loop, pumps, register, broadcast | `hub`, `clients`, `buf`, `closed`, `writer`, `reader`, `conn`, `peer` | one per channel operation or write |
| `ClientFeed` | what a browser may rely on; abstract | `members`, `gone`, `owed`, `given` | admit, announce, give, leave |
| `ScenarioLifecycle` | every writing handler of scenarios and entities, the reads of the worker and of the clone | `status`, `inputs` (a version), per request `pc`, `on`, `seen`, `run`, `link` | one per SQL statement |
| `LingoModel` | BuildModel, the solver, ParseOutput, the result rows | `db`, `seen` (what each query found), `model`, `answer`, `plan` | one per query, then build, solve, store |
| `MC*` | instances for TLC: symmetry, small scenarios | | |
| `JobPipelineProofs`, `JobPipelineRunProofs` | theorems about `JobPipeline`: its types, the list and the hands; the row, and one run from end to end | | |
| `WsHubProofs` | theorems about `WsHub`, the refinement of `ClientFeed` among them | | |
| `ScenarioLifecycleProofs` | theorems about `ScenarioLifecycle` | | |
| `CatalogProofs`, `CatalogCloneProofs` | theorems about `Catalog`: types and cells; links, what stays in one scenario, and what a clone is | | |
| `Sums` | lemmas about finite sums of integers | | |
| `LingoModelProofs` | theorems about `LingoModel` | | |

`JobPipeline` is refined against `RunContract` (`KeepsContract`: the row is the
phase, "some result set is stored" is planned, the runs that a failed store call
touched are released from the promise, and a run whose end a shutdown kept from Redis
may be opened again, once), and `WsHub` against `ClientFeed`
(`KeepsFeed`). The others overlap with `JobPipeline` at one point each: `announced` in `JobPipeline` is what `Broadcast` is called with in
`WsHub`; `RunSolver`'s outcome in `JobPipeline` is what `LingoModel` computes;
`CheckActive`/`CreateRow`/`SubmitJob` in `JobPipeline` and
`CheckRuns`/`CreateRun`/`Push` in `ScenarioLifecycle` are the same statements,
seen once from the stores of the run and once from the scenario. `Catalog` and
`ScenarioLifecycle` share the handlers of the entities and the clone: the first
has their rows, cells and keys and lets the status of a scenario move freely, the
second has the status, the runs and the worker and counts what the handlers write
as versions.

### JobPipeline

A job stands for one POST to `/optimize`, the row it inserts and the job it
pushes. `req[j]` follows the handler (idle, checked, created, accepted, or undo
and failed after a failing push); `wpc` and `wjob` follow the worker goroutine:
`scan`, `recover`, `rec_pg`, `rec_push` are `recoverOrphanJobs`, `pop` and
`check` the loop, `mark` to `save` the steps of `processJob`, the `done_*`,
`fin_*`, `retry_*` and `fail_*` pairs the writes to Redis and to the row that end
a job or return it. Every Redis or PostgreSQL call is a step; a call whose error
the code ignores is a step that may leave its store unchanged, at the price of a
fault (`MaxFaults`); a transaction repeated by the Redis client puts the job in
the list twice. `Die` is a crash, or the end of `main` one second after SIGTERM:
the worker and all handlers vanish. In between (`proc = "stopping"`) Redis calls
fail, for their context is cancelled, and PostgreSQL calls go through: that is what
the program does, no fault, so it costs nothing of `MaxFaults` and disturbs nobody.
`CancelJob` is the admin CLI, another process, at any moment. `LapseStatus` is
the 24 h expiry of a status key, `LoseRedis` a restart of Redis, which has no volume.
`GetJobStatus` is what a client that polls may be answered: by Redis, or by the row if
there is no key or the GET fails for any reason.

History variables name the runs a property has to except, each with its cause:

- `disturbed`: a store call failed on the run, or Redis was lost while it knew the run
  or PostgreSQL had a row for it. Nothing else gets a run in here: no crash, no SIGTERM,
  no lapsed key;
- `stranded`: nobody has the run any more. The process died with it in hand and Redis
  not showing it as processing, a shutdown refused its push, or its key lapsed out of
  the list;
- `unsaid`: a shutdown refused the `SetStatus` of its end, so that Redis still shows it
  as processing while its row is closed; until a recovery sets the row to pending.

`FinalIsFinal`, `AnswerStays`, `RowFollowsRedis` and `DuplicatesOnlyByRace` except the
disturbed and the unsaid, as does the contract; `RunHasOwner` and `EveryRunEnds` except
the disturbed and the stranded, `SingleCustody`, `RetryBudget` and
`SolverRunsAreLogged` the disturbed; `PlanBeforeDone`, `CancelledNotQueued`,
`CancelSticks` and `ProcessingMovesOn` nobody. Each says so where it is stated. What an ordinary SIGTERM does to a
closed run is the run `closed_again`. `attempts` counts the calls of `RunLINGO` from
their start, those a death cuts short included; `restarts` the deaths.

### ScenarioLifecycle

A request is a process that arrives at a scenario (`getScenario`, then the guard
of its handler), and makes its statements one by one: `write` is a product,
entity or recipe cell, `save` UpdateScenario, `count`, `unlink`, `archive`,
`erase` DeleteScenario, `check`, `freeze`, `create`, `push` OptimizeScenario,
`begin`, `copy` CloneScenario. What the scenario contains is a version number,
which every write increases. `late` counts the versions made past the draft: by a
write whose request had read a draft before the freeze, or by the deletion. So
`Versions(s)`, from `inputs[s] - late[s]` to `inputs[s]`, is what the scenario had when
it was frozen and what late writes made of it; a plan may be computed from any of these,
and from several (`ReproduciblePlan`), for `BuildModel` reads table by table. Only
`unsealed` scenarios are excepted from more than that: a late `UpdateScenario` put them
back to draft, or the UPDATE that freezes them failed. The run `frozen_written` shows
what the late requests do.

### Catalog

A request is admitted by a statement that reads its scenario (`getScenario`,
`requireDraft`), and then makes its statements one by one: `create`; `fetch`, then
`save` of the whole row it holds; `delete`; `upsert` or `remove` of a cell, which
first count the product (`productDraftGuard`) and look for the cell, then `put` or
`drop`. `Save` updates by id and inserts a row that is gone, as GORM's does; the ids
so put back are remembered in `revived`. Deletions cascade to cells, set links to
NULL, and wait for clones that pin the row by a foreign key's lock. The clone takes
one step for each of its eight statements and commits in a ninth; what it has copied
so far is its own (`copy`: old id to new id; `made`, `drawn`: the rows and cells to
come). `Connect` starts a migration at any time, `ensureRecipeCompositeFK` takes one
step for each matrix whose keys it drops and one for each whose keys it adds, and
fails on a cell they refuse. `Seed` is the first step of a database that is empty.
`Content(s)` is what a scenario is made of; `steady` remembers the clones whose source
nobody has changed meanwhile.

### LingoModel

`db` holds the scenario's tables, by id; the nine queries of `BuildModel` copy
them one at a time, and late writes may fall anywhere in between. `BuildModel` numbers the rows and flattens the recipe
matrices; `Feasible` and `Profit` are the constraints and the objective of the
text it writes; LINGO (external) returns an optimum, or says infeasible, or prints
nothing usable. `ParseOutput` and `ResultRows` go back to products. The
reference (`Respects`, `Worth`) is stated on ids, without positions and without W.
The scenarios it starts from are `Tables`: no value is negative, which the CHECK
constraints of `ensureDomainChecks` see to, and the cost and the cells of a row that
is not there read as zeros, as `BuildModel` reads them. A late write is bounded by
`db \in Catalogs`: for TLC, where `Catalogs` is a few scenarios and what a write
leaves is not one of them, that is one write, and it creates a cell; where `Catalogs` is all of `Tables`, as
the theorems allow, it is any number, of cells and rows, created, changed or deleted.
An answer without a readable objective line, which `ParseOutput` stores with a
`total_profit` of zero, is left out: what LINGO prints with its optimum is taken to be
readable.

### WsHub

The hub is at the head of its loop, parked in its `select`, sending a broadcast
client by client, or panicked. A send on an unbuffered channel is a joint step
with the hub. Each connection has a handler that registers, a writer and a
reader; the browser answers, falls silent, or goes. In `ClientFeed` an announcement is
owed at once to every member, a member is given what it is owed in order, and whoever
leaves may lose only the last of it. The mapping owes a client what is in its
writer's hand, then in its buffer, then the message the loop has not yet offered it.

## Runs

| run | instance | asks |
|---|---|---|
| `pipeline_pair` | 2 requests for 1 scenario, 1 retry, 1 crash or SIGTERM, 1 fault (a failed call, a lapsed key or the loss of Redis), both cancellable | who has each run; what the stores say of it, and a poll; what a cancellation keeps; where a second active run may come from; the contract |
| `pipeline_live` | 2 requests, 1 retry, 1 crash or SIGTERM, 1 cancellable, no fault | every run ends, no job stays processing, unless the solver hangs |
| `catalog` | 2 requests in flight, 5 arrivals (requests, moves of a status, migrations), 3 scenarios, 7 rows, a seed of one product and one ingredient | cells stay in their scenario, links one hop long, clones are copies, scenarios do not touch each other |
| `hub_safety` | 2 connections, buffer 1, 3 broadcasts | no panic, no gap, no leftover; the feed |
| `hub_live` | 1 connection, buffer 2, 4 broadcasts | goroutines end, messages arrive, nobody waits for ever |
| `scenario_races` | 2 scenarios, 3 requests of any kind, 2 crashes or failed statements | frozen stays frozen once the late requests are through; plans and clones come from the versions since the freeze |
| `solver_round_trip` | 4 small scenarios of 2 products, 3 settings of the run, 1 late write | the stored plan is allowed, optimal, and adds up |
| `dup_results` | 1 run, 1 crash | finding |
| `cancelled_row` | 1 run, cancelled | finding |
| `closed_again` | 1 run, 1 SIGTERM, no fault | finding |
| `frozen_written` | 1 scenario, 2 requests | finding |
| `archive_lost` | 1 scenario, 3 requests | finding |

Why the bounds are enough. The races of the pipeline are between one job in hand,
one in the list, one canceller and one death, which two requests give; the worker
is a single goroutine, so more jobs add length to the list and no new kind of
neighbour (the theorems below hold for any number of jobs, crashes, faults and
retries, a second crash inside the recovery from the first included). The races of the scenario are between a check and a write of
another request, so of two requests, with a third that queues or reads in between.
The hub treats clients one by one: two connections show that evicting one leaves
the other's stream whole; a buffer of 1 fills, empties and overflows (and the
theorems hold for 256). `Catalog` needs two requests that overlap, and enough arrivals for the longest
stories: a clone, a clone of the clone and the deletion of a root under a late
save; a migration whose window lets in a cell of another scenario and the deletion
that takes it. Three scenarios are an original, a copy and a copy of the copy; one
sequence for the ids of the four tables loses nothing, for a row's table is part of it.
In
`LingoModel` two products and one or two entities of a kind tell every wrong
stride or index apart; ids (2 and 5) are not positions (1 and 2); the theorems hold for
any number of each.

Deadlock is not checked: all these systems may come to rest (no more requests,
everything ended), and `HubServes`, `EveryRunEnds` and `ProcessingMovesOn` say
what must not be left waiting.

## Fairness

`JobPipeline`: the worker goroutine is scheduled except in the solver (WF of
`Worker /\ wpc # "solve"`), a handler that has its request is carried through,
systemd restarts the service (`Restart=always` in `lingo-api.service`), `main` ends
after SIGTERM. No fairness for new requests, cancellations, crashes or faults, and
none for LINGO: `RunLINGO` has no timeout, so the solver may hang, and with it the
only worker and every queued run. `EveryRunEnds` and `ProcessingMovesOn` say that
this is the only thing that may: they are promised in every behaviour in which the
solver does not stay for ever (`SolverEnds`).

`Catalog` is safety only: nothing in it waits for anything but a transaction.

`WsHub`: the hub and the pumps are scheduled. `Listen` has strong fairness,
since Go's `select` chooses at random among the ready cases and so pings cannot
keep `writePump` from its channel for ever. A write ends if the browser answers
or the connection is down; a read ends by its deadline, which `readPump` arms and
only a pong renews. No fairness for browsers, broadcasts or new connections.

## What the violated runs show

- `dup_results`: the plan is committed before the status leaves processing. A crash
  in between makes the next start run the job again and store a second result set;
  the endpoints then show every product twice.
- `cancelled_row`: a cancellation writes Redis only. The row stays pending for
  ever, and `OptimizeScenario` answers 409 for its scenario from then on.
- `closed_again`: after SIGTERM the worker's Redis calls are refused and its PostgreSQL
  calls are not, so a run that ends in that second is closed in its row and stays
  processing in Redis. The next start takes it for an orphan, sets the row back to
  pending and runs it again: an infeasible run, which "NO reintenta", is solved once
  more (the trace); a done run gets a second plan; one whose retries were used up gets
  another try. No store call has to fail.
- `frozen_written`: a request that read a draft writes after the freeze. On a child (the
  trace), the plan of the run under way may come from inputs that the scenario does not
  have, or never had at once; with `UpdateScenario`, which saves the whole row it read,
  the frozen scenario is a draft again. docs/04 builds its reproducibility on neither
  being possible.
- `archive_lost`: archiving unlinks the runs; a second DELETE counts none and
  erases the archived scenario.

Seen in the code and without a run: two optimize requests may both count no active
run and both insert one (the models keep this race in all runs, and
`DuplicatesOnlyByRace` says that nothing else gives a scenario two); a row of a base
scenario keeps `canonical_id` NULL while its copies carry the row's id, and
`processJob` stores that NULL in the results, so a GROUP BY `canonical_id` (ADR 0006)
does not put a base product and its copies together; deleting a root sets the links of
its copies to NULL and leaves the tags of old results dangling; a PATCH saves the
whole row it read, so of two at once one is lost; a cell that gets into the window of
the migration with an item of another scenario makes every later start fail
(`mig = 7`) until it is removed by hand; `use_integer_vars
= false` and `use_binary_vars = false` cannot be stored, for GORM replaces a false
with the column's `default:true` on insert, so the modes of ADR 0007 have
no effect; the announcement of `done` comes before the row is done, so a browser
that asks at once may still see processing; a process that dies between the status and the
row leaves the row processing for ever, and a poll says so again once the key has lapsed
(`AnswerStays` excepts it: `RowLags`); the comment in `GetJobStatus` speaks of a status
that Redis no longer has, and any error of Redis has the row answered; docs/04 says that
the recovery decides by the retries ("los reencola o marca según reintentos", line 84),
and it never reads them, so every death allows one more try (`RetryBudget` counts
`restarts`); the machine constraint (`lingo.go:234`) takes the minutes of the recipe once
per lot, while the glossary (line 41) gives them "por unidad"; the recipe check of M4 precedes the
freeze, so a late delete may leave a model of zeros.

## Proved

`JobPipelineProofs` and `JobPipelineRunProofs`, for every set of requests, every assignment of scenarios, every retry limit and every bound on
crashes and faults, from the assumptions named in `JobPipeline` only; all its safety
properties are among them:

| theorem | property |
|---|---|
| `TypeCorrect` | `TypeOK` |
| `SingleCustodyHolds` | `SingleCustody` |
| `CancelledNotQueuedHolds` | `CancelledNotQueued` |
| `RunHasOwnerHolds` | `RunHasOwner` |
| `RowFollowsRedisHolds` | `RowFollowsRedis` |
| `FinalIsFinalHolds` | `FinalIsFinal` |
| `DuplicatesOnlyByRaceHolds` | `DuplicatesOnlyByRace` |
| `KeepsContractHolds` | `KeepsContract`, the refinement of `RunContract` |
| `PlanBeforeDoneHolds` | `PlanBeforeDone` |
| `AnswerStaysHolds` | `AnswerStays` |
| `CancelSticksHolds` | `CancelSticks` |
| `RetryBudgetHolds` | `RetryBudget` |
| `SolverRunsAreLoggedHolds` | `SolverRunsAreLogged` |

The argument. About the list only `In` and `Once` are used; four lemmas say what
RPUSH, the repeated RPUSH, BLPOP and LREM do to them. `SingleCustody` is not
inductive: an orphan could be pushed while it is in the list, were it not that
whoever the recovery finds as processing is in nobody's hands. `CustodyInv` adds
for each undisturbed job which hand may have it together with which Redis status:
in particular (`NotShown`) the control points at which a job in hand is not shown
as processing, and that a job in the list never is. `RowInv` adds what the row says
in each hand: processing from `MarkRow` on, a stored plan before any `done`, and
for a final row that nobody but a recovery holds the job, and not even that unless the
run is unsaid. From `RowInv`, `LawfulStep` reads each action as one of seven ways to
move one row, two of them the shutdown that keeps an end from Redis (`Muffles`) and the
recovery that opens the run again (`Reopens`); `FinalIsFinal`, `DuplicatesOnlyByRace` (with `CountLetsPast`: only the count lets a request past it)
and the steps of `RunContract` follow from it. `CancelledNotQueued` and `RunHasOwner`
are inductive beside `TypeOK` and `CustodyInv`; the first holds for disturbed runs
too. So does `PlannedInv`, from which `PlanBeforeDone` and `CancelSticks` follow: a
run whose request has not created its row is unknown to all stores and in nobody's
hands, so that a row can appear neither under an old "done" nor under a cancellation.
`ToldInv`: Redis has a final status only of a run whose row says the same, or is about
to, or lags behind for ever because the process died on the way; `Stays` reads from it
what each step leaves of an answer that was given. `RetryBudget` is not inductive: `TriedInv` tells the runs that may
still reach the solver (`MayRun`), which have one call less behind them, counted
once against the retry counter and once against the limit; a failure moves the
counter before the limit is looked at, and a death raises both bounds.

`ScenarioLifecycleProofs`, for every set of scenarios and of requests and every
bound on faults, from the assumptions named in `ScenarioLifecycle` only:

| theorem | property |
|---|---|
| `LifecycleTyped` | `TypeOK`, with the foreign key of optimizations |
| `RunsReferenceFrozenHolds` | `RunsReferenceFrozen` |
| `ReproduciblePlanHolds` | `ReproduciblePlan` |
| `ClonesAreWholeHolds` | `ClonesAreWhole` |
| `FrozenStaysHolds` | `FrozenStays` |

The argument. `Past(s)` says that s is no draft, or is unsealed and may be one
again. `Settles` shows of every step that it is never undone, and that, unless the scenario is
unsealed, each change of its inputs is counted in `late`: a write needs a request that
saw a draft. So `inputs - late`, the version it had when it was frozen, does not move
(`VersionsKept`). `AllKnow` follows a request up to
its run: what was read as frozen, and what the freeze has passed, is `Past`, so the
scenario of a row is. With that, `AllRead` bounds what the worker has read by the
versions since the freeze; a crash or an error empties it. The three
invariants are consequences of `TypeOK /\ AllKnow /\ AllRead`, and `FrozenStays`
is read off each step from the first two. `frozen_written` is the run
that shows what late requests can do, to a scenario that stays sealed and to one that
does not.

`WsHubProofs`, for every set of connections, every capacity of their buffers and every
number of broadcasts, from the assumptions named in `WsHub` only:

| theorem | property |
|---|---|
| `HubTyped` | `TypeOK`, with the capacity of the buffers |
| `NeverPanicsHolds` | `NeverPanics` |
| `MapMatchesPumpsHolds` | `MapMatchesPumps` |
| `NoGapsHolds` | `NoGaps` |
| `KeepsFeedHolds` | `KeepsFeed`, the refinement of `ClientFeed` |

The argument. `SoundInv`: whoever is in the map has an open channel, whoever left it a
closed one, and a connection that has not registered is as it was made; then neither
the eviction of a slow client nor two unregisters can close a channel twice, and the
loop, whose `todo` is a part of the map, sends to open channels only. For the feed, a
client is owed what is in its writer's hand, in its buffer and in the loop; a step
that passes a message on regroups a concatenation and changes nothing, a write takes
the head, an eviction drops the last. For `NoGaps`, the stream of a client is a
stretch of the log of what the hub took (`Reached`), from where it came to the end, or
one short of it while the loop is still to reach the client; a client that left keeps
its stretch.

`CatalogProofs` and `CatalogCloneProofs`, for every spreadsheet and every number of requests in flight, scenarios, rows and arrivals, from the assumptions
named in `Catalog` only:

| theorem | property |
|---|---|
| `CatalogTyped` | `TypeOK` |
| `CellsAgreeHolds` | `CellsAgree` |
| `OneHopHolds` | `OneHop` |
| `OwnWritesHolds` | `OwnWrites` |
| `ClonesAreCopiesHolds` | `ClonesAreCopies` |

The argument. None of the properties is inductive, for they speak of the tables and the next
step writes what a request has held since it read them. `Agreed`: an id is of one table
and one scenario for ever, and all who know it agree on that, be it the table, a save
that holds a whole row, a cell about to be inserted or an open clone; ids come from a
sequence, so a new one contradicts nobody. With the foreign keys that gives
`CellsAgree`, though no handler compares scenarios at the write. For `OneHop` the
invariant is about the links that late saves and open clones hold as well as those of
the table (`Roots`): none leads to a row that has a link, unless that one is `Past`
(its row is gone, or was put back by a late save, which `OneHop` excepts); two holders
of a row's link agree, or the one is `Past`; and nobody knows the rows of an open
clone (`Reserved`). `OwnWrites` is read off each step once an open clone writes to a
scenario no other has (`Targets`) and a held row is of the scenario its request names
(`OwnRow`). `MirrorInv` follows a clone whose source nobody changes, statement by
statement: the tables and matrices copied so far are those of the source under the
clone's ids, and at the last statement that is all of them.

`LingoModelProofs`, for every finite set of ids, every set of scenarios among `Tables`
(all of them included), every setting of the runs and every bound on lots, from the
assumptions named in `LingoModel` only:

| theorem | property |
|---|---|
| `LingoTyped` | `TypeOK` |
| `PlanRespectsHolds` | `PlanRespectsScenario` |
| `PlanIsBestHolds` | `PlanIsBest` |
| `PlanIsBestOfAllHolds` | `PlanIsBestOfAll` (stated in the module) |
| `ProfitAddsUpHolds` | `ProfitAddsUp` |

The argument. The steps only pass things on: `ReadInv` (each query is made or to be
made, and what it found was a scenario), `ModelInv` (the model is that of what was
read), `AnswerInv` (the answer is an optimum of the model, or there is none) and
`PlanInv` (the plan is the rows of the answer) are inductive together, late writes and
new tries included, and the four properties follow from them in the state they speak
of. There the work is about the data. `SortedIs`: `ORDER BY id` makes positions and
rows one to one. `CoefIs`: at row i and column j LINGO finds the cell of their ids, for
the cells do not meet where the stride is the number of columns (`Strides`). So each
sum of the model over positions is the sum of the reference over ids (`LoadIs`,
`CostIs`, `ProfitIs`), what LINGO may answer keeps within the scenario (`FeasibleIs`)
and the reverse, where W has to be found: 1 where something is made (`RespectsIs`).
The rows leave out the lots of a product without units (`Trimmed`); no limit minds and
the plan is worth no less (`TrimmedIs`; here no value may be negative), and as LINGO
could have answered that plan too, it is worth the same. `PlanIsBestOfAll` takes the
bounds away, which BuildModel does not set: among all the plans in natural numbers none
that keeps within the scenario is worth more, if `MaxLots` is at least `order.max`. The
sum of the units keeps each within `max`, and a plan with more lots of a product than
units does no better than one with as many lots as units (`Capped`). TLC has no part
in it: its runs set `MaxLots` below `max`. For `ProfitAddsUp` the rows pay
product by product and LINGO entity by entity (`SpentIs`): two sums change places, and
the entities that are not in the list add zero.

`Sums` proves what this needs of `SumFunction`: it is the value of a recursive function
on the subsets of a set, so that the function exists, that any term may be taken out of
a sum, and then that sums may be compared, added, multiplied, renamed and exchanged, is
shown for a smallest set on which it would fail. The library states that the strict
subsets of a finite set are well founded, and that a well-founded order has minimal
elements, without an operator for a parameter; so a lemma takes the set of the sets for
which a fact holds where the induction theorems take a predicate.

## Only model-checked

Liveness (`EveryRunEnds`, `ProcessingMovesOn`, the four of the hub) stays with
TLC: the prover does not handle ENABLED. Every safety property of the passing runs is
proved.

## Not modelled, and why

Reads for display (history, results, logs, queue listing): no effect; what they may
show is what the invariants relate. Routing, CORS, API key, logging: no state. Of the
seed, the reading of the spreadsheet and `--reset`, a deletion before the first step;
the shell script. Of the schema, the CHECK constraints on single values (but those that
keep values from being negative, in `LingoModel`) and the drop of two legacy columns and
indexes. The text of the LINGO model and of its answer
(number formats, regular expressions), continuous variables (the solver's optimum
could not be enumerated, and the mode cannot be stored), the unbounded verdict in
`LingoModel` (X is bounded by M). The TTL of the retry counter. In `Catalog` the DROPs
and ADDs of the migration are six steps and its keys are added when no clone is open;
one migration runs at a time and none is cut short; the seed meets an empty database or
does nothing. `hub_live` checks liveness with one connection. Unrelated columns
(names, notes, parameters of a scenario: a run has its own copy), and the defaults
GORM puts in place of zeros.

## Plan

Done: `JobPipeline` with `RunContract` and their proofs; `WsHub` with `ClientFeed` and their proofs;
`ScenarioLifecycle` and its proofs; `Catalog` and its proofs; `LingoModel` and its
proofs. What is left stays with TLC, for the reasons above, or is listed under "Not modelled".
