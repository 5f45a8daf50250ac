----------------------------- MODULE RunContract -----------------------------
(***************************************************************************)
(* What a client may rely on when it follows a run in PostgreSQL           *)
(* (GET /results, GET /results/:id): the statuses of models.go and the     *)
(* order docs/04 gives them.  Nothing here says how a run is carried out;  *)
(* JobPipeline implements it.                                              *)
(***************************************************************************)
CONSTANT Jobs

VARIABLES
    phase,     \* optimizations.status, "absent" before the row
    planned,   \* whether a plan of the run is stored
    released,  \* the runs for which the promise is off: a store call failed
    unheard    \* the runs whose end a shutdown kept from Redis

Active  == {"pending", "processing"}
Final   == {"done", "error", "infeasible"}
Phases  == Active \cup Final \cup {"absent"}

cvars == <<phase, planned, released, unheard>>

Init == /\ phase = [j \in Jobs |-> "absent"]
        /\ planned = [j \in Jobs |-> FALSE]
        /\ released = {}
        /\ unheard = {}

Move(j, from, to) == /\ phase[j] \in from
                     /\ phase' = [phase EXCEPT ![j] = to]
                     /\ UNCHANGED <<planned, released, unheard>>

Submit(j) == Move(j, {"absent"}, "pending")
Begin(j)  == Move(j, Active, "processing")

\* Back in line: another try after an error, or after the process died.
Requeue(j) == Move(j, Active, "pending")

\* A plan is stored only while the run is processing, though maybe more than once.
Plan(j) == /\ phase[j] = "processing"
           /\ planned' = [planned EXCEPT ![j] = TRUE]
           /\ UNCHANGED <<phase, released, unheard>>

\* The end, from processing only, and "done" only with a plan.
End(j) == \E s \in Final : /\ s = "done" => planned[j]
                           /\ Move(j, {"processing"}, s)

\* A shutdown: Redis will not hear of the end that the run is coming to.
Muffle(j) == /\ phase[j] = "processing"
             /\ unheard' = unheard \cup {j}
             /\ UNCHANGED <<phase, planned, released>>

\* The next start takes it for a run in progress: back in line, even from its end,
\* and once only for each time it was muffled.
Reopen(j) == /\ j \in unheard
             /\ unheard' = unheard \ {j}
             /\ phase[j] \in Active \cup Final
             /\ phase' = [phase EXCEPT ![j] = "pending"]
             /\ UNCHANGED <<planned, released>>

\* Runs may be released at any time; the others do not move meanwhile.
Release == /\ released \subseteq released' /\ released' \subseteq Jobs
           /\ phase' \in [Jobs -> Phases]
           /\ planned' \in [Jobs -> BOOLEAN]
           /\ unheard' \subseteq Jobs
           /\ \A j \in Jobs \ released' :
                 /\ phase'[j] = phase[j] /\ planned'[j] = planned[j]
                 /\ j \in unheard' <=> j \in unheard

Next == \/ \E j \in Jobs : \/ Submit(j) \/ Begin(j) \/ Requeue(j) \/ Plan(j) \/ End(j)
                          \/ Muffle(j) \/ Reopen(j)
        \/ Release

Spec == Init /\ [][Next]_cvars
=============================================================================
