-------------------------- MODULE ScenarioLifecycle --------------------------
(***************************************************************************)
(* The life of a scenario: draft, frozen once it is optimized, archived,   *)
(* against the handlers that edit, update, delete, optimize and clone it   *)
(* (internal/handlers/scenarios.go, products.go, ingredients.go,           *)
(* machines.go, operational_resources.go) and the worker that reads it     *)
(* (solver.BuildModel).                                                    *)
(*                                                                         *)
(* Every handler reads the scenario, decides, and writes in later          *)
(* statements, with no lock and, but for the clone, no transaction.  A     *)
(* request is a process that goes from statement to statement; what the    *)
(* scenario contains is a version number.  An optimize request also stands *)
(* for the run it creates.                                                 *)
(***************************************************************************)
EXTENDS Integers, FiniteSets

CONSTANTS
    Scenarios,     \* ids of scenarios, never reused
    Requests,      \* the HTTP requests that write
    NoScenario,    \* NULL
    MaxFaults      \* bound: crashes and failed unchecked statements explored

ASSUME NullAssumption  == NoScenario \notin Scenarios
ASSUME BoundAssumption == MaxFaults \in Nat

VARIABLES
    status,     \* scenarios.status, "unborn" before the row and "gone" after it
    inputs,     \* version of the products, ingredients, ..., recipe cells
    pc,         \* the statement each request is about to make
    on,         \* the scenario it is about
    seen,       \* the status getScenario read
    run,        \* the run of an optimize request: its optimizations row
    link,       \* optimizations.scenario_id
    source,     \* what the worker, or the clone, is reading from
    read,       \* the versions it has read
    late,       \* history: changes of the inputs past the draft, by requests that
                \* had read it as a draft, or by its deletion
    unsealed,   \* history: scenarios put back to draft, or whose freeze failed
    faults      \* history: crashes and failed statements so far

scens == <<status, inputs>>
calls == <<pc, on, seen>>
runs  == <<run, link, source, read>>
past  == <<late, unsealed>>
vars  == <<status, inputs, pc, on, seen, run, link, source, read, late,
           unsealed, faults>>

Status == {"unborn", "draft", "frozen", "archived", "gone"}
Steps  == {"write", "save", "count", "unlink", "archive", "erase", "check",
           "freeze", "create", "push", "begin", "copy"}
Exists(s) == status[s] \notin {"unborn", "gone"}

Goes(r, from, to) == pc[r] = from /\ pc' = [pc EXCEPT ![r] = to]

Fault == faults < MaxFaults /\ faults' = faults + 1

Init ==
    /\ status = [s \in Scenarios |-> "unborn"]
    /\ inputs = [s \in Scenarios |-> 0]
    /\ pc = [r \in Requests |-> "idle"]
    /\ on = [r \in Requests |-> NoScenario]
    /\ seen = [r \in Requests |-> "unborn"]
    /\ run = [r \in Requests |-> "none"]
    /\ link = [r \in Requests |-> NoScenario]
    /\ source = [r \in Requests |-> NoScenario]
    /\ read = [r \in Requests |-> {}]
    /\ late = [s \in Scenarios |-> 0]
    /\ unsealed = {} /\ faults = 0

CreateScenario(s) ==
    /\ status[s] = "unborn"
    /\ status' = [status EXCEPT ![s] = "draft"]
    /\ UNCHANGED <<inputs, calls, runs, past, faults>>

-----------------------------------------------------------------------------
(* Arrival: getScenario and the guard of each handler.                        *)

\* requireDraft.  Its mutant forgets the frozen scenarios.
NotArchived(s) == status[s] # "archived"
Editable(s) == status[s] = "draft"

\* The first statement after the guard, by handler.
Admits(s, step) == \/ step \in {"write", "save"} /\ Editable(s)
                   \/ step \in {"count", "begin"}
                   \/ step = "check" /\ status[s] # "archived"

Arrive(r, s, step) ==
    /\ Exists(s) /\ Admits(s, step)
    /\ Goes(r, "idle", step)
    /\ on' = [on EXCEPT ![r] = s]
    /\ seen' = [seen EXCEPT ![r] = status[s]]
    /\ UNCHANGED <<scens, runs, past, faults>>

-----------------------------------------------------------------------------
(* Writes on a draft.                                                         *)

\* A late write: the request saw a draft and it no longer is one.
Late(r) == seen[r] = "draft" /\ status[on[r]] # "draft"

\* A product, an ingredient, a machine, a resource or a recipe cell is created,
\* saved or deleted, or that fails: a taken name, a row that is not there, always
\* when the scenario is gone (foreign key).
Write(r) ==
    LET s == on[r]
    IN /\ Goes(r, "write", "done")
       /\ \/ UNCHANGED <<inputs, late>>
          \/ /\ Exists(s)
             /\ inputs' = [inputs EXCEPT ![s] = @ + 1]
             /\ late' = IF Late(r) THEN [late EXCEPT ![s] = @ + 1] ELSE late
       /\ UNCHANGED <<status, on, seen, runs, unsealed, faults>>

\* UpdateScenario: db.Save writes the whole row as it was read, and inserts it
\* again if it is gone; or it fails (a taken name).
SaveRow(r) ==
    /\ Goes(r, "save", "done")
    /\ \/ UNCHANGED <<status, unsealed>>
       \/ /\ status' = [status EXCEPT ![on[r]] = seen[r]]
          /\ unsealed' = IF Late(r) THEN unsealed \cup {on[r]} ELSE unsealed
    /\ UNCHANGED <<inputs, on, seen, runs, late, faults>>

-----------------------------------------------------------------------------
(* DeleteScenario: count the runs, then archive or erase.                     *)

RunsOf(s) == {q \in Requests : link[q] = s}

\* A failing COUNT leaves zero.
CountRuns(r) ==
    /\ \/ Goes(r, "count", IF RunsOf(on[r]) # {} THEN "unlink" ELSE "erase")
          /\ UNCHANGED faults
       \/ Goes(r, "count", "erase") /\ Fault
    /\ UNCHANGED <<scens, on, seen, runs, past>>

\* UPDATE optimizations SET scenario_id = NULL, its error ignored.
Unlink(r) ==
    /\ Goes(r, "unlink", "archive")
    /\ \/ /\ link' = [q \in Requests |-> IF link[q] = on[r] THEN NoScenario ELSE link[q]]
          /\ UNCHANGED faults
       \/ UNCHANGED link /\ Fault
    /\ UNCHANGED <<scens, on, seen, run, source, read, past>>

\* db.Save(s), which may fail (a taken name, a root that is gone), its error
\* ignored; it too brings a row back.
Archive(r) ==
    /\ Goes(r, "archive", "done")
    /\ status' \in {status, [status EXCEPT ![on[r]] = "archived"]}
    /\ UNCHANGED <<inputs, on, seen, runs, past, faults>>

\* DELETE: the entities go with it (CASCADE) and its runs lose it (SET NULL), or it
\* fails.  It waits for a clone, whose insert holds a key lock on its parent.
Erase(r) ==
    LET s == on[r]
    IN /\ Goes(r, "erase", "done")
       /\ \A q \in Requests : ~(pc[q] = "copy" /\ on[q] = s)
       /\ \/ UNCHANGED <<scens, link, late>>
          \/ /\ Exists(s)
             /\ status' = [status EXCEPT ![s] = "gone"]
             /\ inputs' = [inputs EXCEPT ![s] = @ + 1]
             /\ link' = [q \in Requests |-> IF link[q] = s THEN NoScenario ELSE link[q]]
             /\ late' = [late EXCEPT ![s] = @ + 1]
       /\ UNCHANGED <<on, seen, run, source, read, unsealed, faults>>

-----------------------------------------------------------------------------
(* OptimizeScenario: the checks, the freeze, the row, the push.               *)

\* The recipe is there and no run is active, or 422 or 409.  A failing COUNT of
\* the runs leaves zero.
CheckRuns(r) ==
    /\ \/ /\ Goes(r, "check", "freeze") /\ UNCHANGED faults
          /\ \A q \in RunsOf(on[r]) : run[q] # "active"
       \/ Goes(r, "check", "freeze") /\ Fault
       \/ Goes(r, "check", "done") /\ UNCHANGED faults
    /\ UNCHANGED <<scens, on, seen, runs, past>>

\* Mutant of Freeze: the freeze is left to the worker.
FreezeLater(r) ==
    /\ Goes(r, "freeze", "create")
    /\ UNCHANGED <<scens, on, seen, runs, past, faults>>

\* UPDATE scenarios SET status = frozen WHERE id, if it was read as a draft; the
\* error is ignored.
Freeze(r) ==
    LET s == on[r]
    IN /\ Goes(r, "freeze", "create")
       /\ \/ /\ seen[r] = "draft" /\ Exists(s)
             /\ status' = [status EXCEPT ![s] = "frozen"]
             /\ UNCHANGED <<unsealed, faults>>
          \/ /\ seen[r] # "draft" \/ ~Exists(s)
             /\ UNCHANGED <<status, unsealed, faults>>
          \/ /\ seen[r] = "draft" /\ Fault
             /\ unsealed' = unsealed \cup {s}
             /\ UNCHANGED status
       /\ UNCHANGED <<inputs, on, seen, runs, late>>

\* Mutant of CreateRun: nothing in the schema ties the run to its scenario.
CreateRunUntied(r) ==
    /\ Goes(r, "create", "push")
    /\ run' = [run EXCEPT ![r] = "active"]
    /\ link' = [link EXCEPT ![r] = on[r]]
    /\ UNCHANGED <<scens, on, seen, source, read, past, faults>>

\* The row needs its scenario (foreign key); any error is a 500.
CreateRun(r) ==
    \/ /\ Goes(r, "create", "done")
       /\ UNCHANGED <<scens, on, seen, runs, past, faults>>
    \/ /\ Goes(r, "create", "push") /\ Exists(on[r])
       /\ run' = [run EXCEPT ![r] = "active"]
       /\ link' = [link EXCEPT ![r] = on[r]]
       /\ UNCHANGED <<scens, on, seen, source, read, past, faults>>

\* The run is queued, or its row deleted again.
Push(r) ==
    /\ Goes(r, "push", "done")
    /\ \/ UNCHANGED <<run, link, faults>>
       \/ /\ Fault
          /\ run' = [run EXCEPT ![r] = "none"]
          /\ link' = [link EXCEPT ![r] = NoScenario]
    /\ UNCHANGED <<scens, on, seen, source, read, past>>

-----------------------------------------------------------------------------
(* The worker: BuildModel reads the scenario of the run, table by table.      *)

Queued(r) == run[r] = "active" /\ pc[r] = "done"

LoadRun(r) ==
    /\ Queued(r) /\ link[r] # NoScenario
    /\ \A q \in Requests : run[q] = "active" => source[q] = NoScenario
    /\ source' = [source EXCEPT ![r] = link[r]]
    /\ UNCHANGED <<scens, calls, run, link, read, past, faults>>

ReadInputs(r) ==
    /\ Queued(r) /\ source[r] # NoScenario
    /\ read' = [read EXCEPT ![r] = @ \cup {inputs[source[r]]}]
    /\ UNCHANGED <<scens, calls, run, link, source, past, faults>>

StorePlan(r) ==
    /\ Queued(r) /\ read[r] # {}
    /\ run' = [run EXCEPT ![r] = "done"]
    /\ UNCHANGED <<scens, calls, link, source, read, past, faults>>

\* An error: another try, or the end.
FailRun(r) ==
    /\ Queued(r)
    /\ run' \in {run, [run EXCEPT ![r] = "error"]}
    /\ source' = [source EXCEPT ![r] = NoScenario]
    /\ read' = [read EXCEPT ![r] = {}]
    /\ UNCHANGED <<scens, calls, link, past, faults>>

-----------------------------------------------------------------------------
(* CloneScenario: one transaction, at read committed, table by table.         *)

\* The insert of the copy, which needs its parent.
BeginClone(r) ==
    /\ \/ Goes(r, "begin", "copy") /\ Exists(on[r])
       \/ Goes(r, "begin", "done")
    /\ UNCHANGED <<scens, on, seen, runs, past, faults>>

CopyTable(r) ==
    /\ pc[r] = "copy"
    /\ read' = [read EXCEPT ![r] = @ \cup {inputs[on[r]]}]
    /\ UNCHANGED <<scens, calls, run, link, source, past, faults>>

\* Commit, or rollback: a taken name, or a cell of an entity created since its
\* table was read.
EndClone(r) ==
    /\ Goes(r, "copy", "done") /\ read[r] # {}
    /\ \/ UNCHANGED scens
       \/ \E d \in Scenarios :
             /\ status[d] = "unborn"
             /\ status' = [status EXCEPT ![d] = "draft"]
             /\ UNCHANGED inputs
    /\ UNCHANGED <<on, seen, runs, past, faults>>

-----------------------------------------------------------------------------
\* The process dies: its requests end where they are, the worker's reads are lost.
Crash ==
    /\ Fault
    /\ pc' = [r \in Requests |-> IF pc[r] \in Steps THEN "dead" ELSE pc[r]]
    /\ source' = [r \in Requests |-> IF run[r] = "active" THEN NoScenario ELSE source[r]]
    /\ read' = [r \in Requests |-> IF run[r] = "active" THEN {} ELSE read[r]]
    /\ UNCHANGED <<scens, on, seen, run, link, past>>

Handler(r) == \/ \E s \in Scenarios, step \in Steps : Arrive(r, s, step)
              \/ Write(r) \/ SaveRow(r)
              \/ CountRuns(r) \/ Unlink(r) \/ Archive(r) \/ Erase(r)
              \/ CheckRuns(r) \/ Freeze(r) \/ CreateRun(r) \/ Push(r)
              \/ BeginClone(r) \/ CopyTable(r) \/ EndClone(r)

Worker(r) == LoadRun(r) \/ ReadInputs(r) \/ StorePlan(r) \/ FailRun(r)

Next == \/ \E s \in Scenarios : CreateScenario(s)
        \/ \E r \in Requests : Handler(r) \/ Worker(r)
        \/ Crash

Spec == Init /\ [][Next]_vars

-----------------------------------------------------------------------------
TypeOK ==
    /\ status \in [Scenarios -> Status]
    /\ inputs \in [Scenarios -> Nat]
    /\ pc \in [Requests -> Steps \cup {"idle", "done", "dead"}]
    /\ on \in [Requests -> Scenarios \cup {NoScenario}]
    /\ \A r \in Requests : pc[r] \in Steps => on[r] \in Scenarios
    /\ seen \in [Requests -> Status]
    /\ run \in [Requests -> {"none", "active", "done", "error"}]
    /\ link \in [Requests -> Scenarios \cup {NoScenario}]
    /\ \A r \in Requests : link[r] # NoScenario => run[r] # "none" /\ Exists(link[r])
    /\ source \in [Requests -> Scenarios \cup {NoScenario}]
    /\ read \in [Requests -> SUBSET Nat]
    /\ late \in [Scenarios -> Nat]
    /\ unsealed \subseteq Scenarios
    /\ faults \in 0 .. MaxFaults

\* Nobody is about to write on s, or to freeze it, having read it as a draft.
Settled(s) == \A r \in Requests :
                 on[r] = s /\ seen[r] = "draft"
                 => pc[r] \notin {"write", "save", "check", "freeze"}

\* Past draft, a scenario changes no more and only moves on, to archived or away,
\* once the requests that were under way have ended (docs/03: M3 and L1, which the
\* code keeps for every request that comes after, and for those alone: see
\* FrozenIsImmutable).
FrozenStays ==
    [][\A s \in Scenarios :
          status[s] \in {"frozen", "archived"} /\ Settled(s)
          => \/ status'[s] = "gone"
             \/ inputs'[s] = inputs[s] /\ status'[s] \in {status[s], "archived"}]_vars

\* A run is never created for, nor kept on, a scenario that may still be edited
\* (docs/03: M6), but for those that a save under way put back to draft and those
\* whose freeze failed.
RunsReferenceFrozen ==
    \A r \in Requests : link[r] \in Scenarios \ unsealed => status[link[r]] # "draft"

\* The versions a scenario has had since it was last a draft: one, and one more for
\* each late change.
Versions(s) == inputs[s] - late[s] .. inputs[s]

\* A plan is computed from the inputs its scenario had when it was frozen, and GET
\* /results/:id leads to them as long as the run keeps its scenario (docs/04,
\* reproducibility), with two exceptions that need no failure.  A late change, the
\* write of a request that had passed requireDraft before the freeze, or a
\* deletion, may fall before, between or after the queries of BuildModel; the plan
\* is then one of the versions that led up to it, or of several.  And nothing is
\* said of a scenario that a late save put back to draft, nor of one whose freeze
\* failed: those may be edited at will.
ReproduciblePlan ==
    \A r \in Requests :
        run[r] = "done" /\ source[r] \notin unsealed
        => /\ read[r] # {} /\ read[r] \subseteq Versions(source[r])
           /\ link[r] \in {source[r], NoScenario}

\* The clone of a scenario that was past draft when it was asked for is a copy of
\* one version of it, if no late write fell among the queries of the clone and no
\* late save put the scenario back to draft; if late writes did, a mixture of the
\* versions they made.
ClonesAreWhole ==
    \A r \in Requests :
        pc[r] = "copy" /\ seen[r] # "draft" /\ on[r] \notin unsealed
        => read[r] \subseteq Versions(on[r])

-----------------------------------------------------------------------------
(* What the documents say and the code does not keep.                         *)


\* "Identidad con historia se archiva, nunca se borra" (docs/03, M5; models.go of
\* archived: "conserva historia"): archiving unlinks the runs, so a DELETE that
\* finds the scenario archived counts none and erases it.
ArchivedIsKept ==
    [][\A r \in Requests :
          seen[r] = "archived" /\ Goes(r, "erase", "done")
          => status'[on[r]] = status[on[r]]]_vars
=============================================================================
