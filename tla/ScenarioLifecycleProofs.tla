----------------------- MODULE ScenarioLifecycleProofs -----------------------
(***************************************************************************)
(* Theorems about ScenarioLifecycle, for any scenarios, any number of      *)
(* requests and any bound on faults.                                       *)
(*                                                                         *)
(* A scenario is past its draft when it is no longer a draft, or when      *)
(* unsealed says why it may be one again.  That is never undone, and       *)
(* unless it is unsealed, every change of the inputs of such a scenario is *)
(* a late one, so that its first version past the draft, inputs less late, *)
(* stays what it was: this is Settles, a fact about every step.  The rest  *)
(* follows each request.                                                   *)
(***************************************************************************)
EXTENDS ScenarioLifecycle, TLAPS

Past(s) == s \in unsealed \/ status[s] \notin {"draft", "unborn"}

\* What a request knows of its scenario, and a run of the one it is on.
Knows(r) ==
    /\ pc[r] \in Steps => /\ seen[r] \in {"draft", "frozen", "archived"}
                          /\ status[on[r]] # "unborn"
                          /\ seen[r] # "draft" => Past(on[r])
    /\ pc[r] \in {"write", "save"} => seen[r] = "draft"
    /\ pc[r] = "create" => Past(on[r])
    /\ link[r] \in Scenarios => Past(link[r])

\* What the worker has read for a run, and a clone of its source.
Reads(r) ==
    /\ run[r] # "none" => pc[r] \in {"push", "done", "dead"}
    /\ source[r] \in Scenarios => /\ run[r] # "none" /\ pc[r] = "done"
                                  /\ Past(source[r])
                                  /\ link[r] \in {source[r], NoScenario}
    /\ run[r] # "none" =>
          read[r] \subseteq IF source[r] = NoScenario THEN {}
                            ELSE IF source[r] \in unsealed THEN Nat
                            ELSE Versions(source[r])
    /\ run[r] = "done" => read[r] # {}
    /\ run[r] = "none" /\ pc[r] \notin {"copy", "done", "dead"} => read[r] = {}
    /\ pc[r] = "copy" /\ seen[r] # "draft" /\ on[r] \notin unsealed
          => read[r] \subseteq Versions(on[r])

AllKnow == \A r \in Requests : Knows(r)
AllRead == \A r \in Requests : Reads(r)
IInv == TypeOK /\ AllKnow /\ AllRead

LEMMA InitHolds == Init => IInv
  BY NullAssumption, BoundAssumption
  DEF Init, IInv, TypeOK, AllKnow, AllRead, Knows, Reads, Status, Steps, Exists

-----------------------------------------------------------------------------
(* The type invariant.                                                        *)

LEMMA HandlerType ==
    ASSUME TypeOK, AllKnow, NEW r \in Requests, Handler(r)
    PROVE  TypeOK'
<1> USE NullAssumption, BoundAssumption
    DEF TypeOK, scens, calls, runs, past, Status, Steps, Exists, Goes, Fault
<1>1. CASE \E s \in Scenarios, step \in Steps : Arrive(r, s, step)
  BY <1>1 DEF Arrive
<1>2. CASE Write(r)
  BY <1>2 DEF Write
<1>3. CASE SaveRow(r)
  BY <1>3 DEF SaveRow, AllKnow, Knows
<1>4. CASE CountRuns(r)
  BY <1>4 DEF CountRuns
<1>5. CASE Unlink(r)
  BY <1>5 DEF Unlink
<1>6. CASE Archive(r)
  BY <1>6 DEF Archive
<1>7. CASE Erase(r)
  BY <1>7 DEF Erase
<1>8. CASE CheckRuns(r)
  BY <1>8 DEF CheckRuns
<1>9. CASE Freeze(r)
  BY <1>9 DEF Freeze
<1>10. CASE CreateRun(r)
  BY <1>10 DEF CreateRun
<1>11. CASE Push(r)
  BY <1>11 DEF Push
<1>12. CASE BeginClone(r)
  BY <1>12 DEF BeginClone
<1>13. CASE CopyTable(r)
  BY <1>13 DEF CopyTable
<1>14. CASE EndClone(r)
  BY <1>14 DEF EndClone
<1> QED
  BY <1>1, <1>2, <1>3, <1>4, <1>5, <1>6, <1>7, <1>8, <1>9, <1>10, <1>11, <1>12,
     <1>13, <1>14 DEF Handler

LEMMA NextType ==
    ASSUME TypeOK, AllKnow, [Next]_vars
    PROVE  TypeOK'
<1> USE NullAssumption, BoundAssumption
    DEF TypeOK, scens, calls, runs, past, Status, Steps, Exists, Goes, Fault
<1>1. CASE \E s \in Scenarios : CreateScenario(s)
  BY <1>1 DEF CreateScenario
<1>2. ASSUME NEW r \in Requests, Handler(r) PROVE TypeOK'
  BY <1>2, HandlerType
<1>3. ASSUME NEW r \in Requests, Worker(r) PROVE TypeOK'
  <2>1. CASE LoadRun(r)
    BY <2>1 DEF LoadRun, Queued
  <2>2. CASE ReadInputs(r)
    BY <2>2 DEF ReadInputs, Queued
  <2>3. CASE StorePlan(r)
    BY <2>3 DEF StorePlan, Queued
  <2>4. CASE FailRun(r)
    BY <2>4 DEF FailRun, Queued
  <2> QED BY <1>3, <2>1, <2>2, <2>3, <2>4 DEF Worker
<1>4. CASE Crash
  BY <1>4 DEF Crash
<1>5. CASE UNCHANGED vars
  BY <1>5 DEF vars
<1> QED BY <1>1, <1>2, <1>3, <1>4, <1>5 DEF Next

-----------------------------------------------------------------------------
(* What every step keeps of a scenario past its draft.                        *)

\* A scenario past its draft stays so, and unless it is unsealed, each change of its
\* inputs makes a version more and is counted as late.
World ==
    /\ unsealed \subseteq unsealed'
    /\ \A s \in Scenarios :
          /\ status[s] # "unborn" => status'[s] # "unborn"
          /\ Past(s) => Past(s)'
          /\ Past(s) /\ s \notin unsealed'
             => inputs'[s] - late'[s] = inputs[s] - late[s] /\ inputs'[s] >= inputs[s]

LEMMA HandlerSettles ==
    ASSUME TypeOK, AllKnow, NEW r \in Requests, Handler(r)
    PROVE  World
<1> USE DEF TypeOK, AllKnow, Knows, World, Past, scens, calls, runs, past, Status,
            Steps, Exists, Goes
<1>1. CASE \E s \in Scenarios, step \in Steps : Arrive(r, s, step)
  BY <1>1 DEF Arrive
<1>2. CASE Write(r)
  BY <1>2 DEF Write, Late
<1>3. CASE SaveRow(r)
  BY <1>3 DEF SaveRow, Late
<1>4. CASE CountRuns(r)
  BY <1>4 DEF CountRuns
<1>5. CASE Unlink(r)
  BY <1>5 DEF Unlink
<1>6. CASE Archive(r)
  BY <1>6 DEF Archive
<1>7. CASE Erase(r)
  <2>1. CASE UNCHANGED <<scens, link, late>>
    BY <1>7, <2>1 DEF Erase
  <2>2. CASE ~UNCHANGED <<scens, link, late>>
    <3>1. /\ on[r] \in Scenarios /\ UNCHANGED unsealed
          /\ status' = [status EXCEPT ![on[r]] = "gone"]
          /\ inputs' = [inputs EXCEPT ![on[r]] = @ + 1]
          /\ late' = [late EXCEPT ![on[r]] = @ + 1]
      BY <1>7, <2>2 DEF Erase
    <3> QED BY <3>1
  <2> QED BY <2>1, <2>2
<1>8. CASE CheckRuns(r)
  BY <1>8 DEF CheckRuns
<1>9. CASE Freeze(r)
  BY <1>9 DEF Freeze
<1>10. CASE CreateRun(r)
  BY <1>10 DEF CreateRun
<1>11. CASE Push(r)
  BY <1>11 DEF Push
<1>12. CASE BeginClone(r)
  BY <1>12 DEF BeginClone
<1>13. CASE CopyTable(r)
  BY <1>13 DEF CopyTable
<1>14. CASE EndClone(r)
  BY <1>14 DEF EndClone
<1> QED
  BY <1>1, <1>2, <1>3, <1>4, <1>5, <1>6, <1>7, <1>8, <1>9, <1>10, <1>11, <1>12,
     <1>13, <1>14 DEF Handler

LEMMA Settles ==
    ASSUME TypeOK, AllKnow, [Next]_vars
    PROVE  World
<1> USE DEF TypeOK, World, Past, scens, past
<1>1. CASE \E s \in Scenarios : CreateScenario(s)
  BY <1>1 DEF CreateScenario
<1>2. ASSUME NEW r \in Requests, Handler(r) PROVE World
  BY <1>2, HandlerSettles
<1>3. ASSUME NEW r \in Requests, Worker(r) PROVE World
  BY <1>3 DEF Worker, LoadRun, ReadInputs, StorePlan, FailRun
<1>4. CASE Crash
  BY <1>4 DEF Crash
<1>5. CASE UNCHANGED vars
  BY <1>5 DEF vars
<1> QED BY <1>1, <1>2, <1>3, <1>4, <1>5 DEF Next

-----------------------------------------------------------------------------
(* What each request knows.                                                   *)

LEMMA HandlerKnows ==
    ASSUME IInv, TypeOK', World, NEW r \in Requests, Handler(r)
    PROVE  AllKnow'
<1> USE NullAssumption DEF IInv, TypeOK, AllKnow, Knows, World, Past, scens, calls, past,
                           runs, Status, Steps, Exists, Goes
<1>1. CASE \E s \in Scenarios, step \in Steps : Arrive(r, s, step)
  <2>1. PICK s \in Scenarios, step \in Steps : Arrive(r, s, step)
    BY <1>1
  <2>2. Knows(r)'
    BY <2>1 DEF Arrive, Admits, Editable
  <2>3. ASSUME NEW q \in Requests, q # r PROVE Knows(q)'
    BY <2>1, <2>3 DEF Arrive
  <2> QED BY <2>2, <2>3
<1>2. CASE Write(r)
  BY <1>2 DEF Write
<1>3. CASE SaveRow(r)
  BY <1>3 DEF SaveRow
<1>4. CASE CountRuns(r)
  BY <1>4 DEF CountRuns
<1>5. CASE Unlink(r)
  BY <1>5 DEF Unlink
<1>6. CASE Archive(r)
  BY <1>6 DEF Archive
<1>7. CASE Erase(r)
  BY <1>7 DEF Erase
<1>8. CASE CheckRuns(r)
  BY <1>8 DEF CheckRuns
<1>9. CASE Freeze(r)
  BY <1>9 DEF Freeze
<1>10. CASE CreateRun(r)
  BY <1>10 DEF CreateRun
<1>11. CASE Push(r)
  BY <1>11 DEF Push
<1>12. CASE BeginClone(r)
  BY <1>12 DEF BeginClone
<1>13. CASE CopyTable(r)
  BY <1>13 DEF CopyTable
<1>14. CASE EndClone(r)
  BY <1>14 DEF EndClone
<1> QED
  BY <1>1, <1>2, <1>3, <1>4, <1>5, <1>6, <1>7, <1>8, <1>9, <1>10, <1>11, <1>12,
     <1>13, <1>14 DEF Handler

LEMMA NextKnows ==
    ASSUME IInv, TypeOK', World, [Next]_vars
    PROVE  AllKnow'
<1> USE NullAssumption DEF IInv, TypeOK, AllKnow, Knows, World, Past, scens, calls, past,
                           runs, Status, Steps, Exists, Goes
<1>1. CASE \E s \in Scenarios : CreateScenario(s)
  BY <1>1 DEF CreateScenario
<1>2. ASSUME NEW r \in Requests, Handler(r) PROVE AllKnow'
  BY <1>2, HandlerKnows
<1>3. ASSUME NEW r \in Requests, Worker(r) PROVE AllKnow'
  <2>1. CASE LoadRun(r)
    BY <2>1 DEF LoadRun, Queued
  <2>2. CASE ReadInputs(r)
    BY <2>2 DEF ReadInputs, Queued
  <2>3. CASE StorePlan(r)
    BY <2>3 DEF StorePlan, Queued
  <2>4. CASE FailRun(r)
    BY <2>4 DEF FailRun, Queued
  <2> QED BY <1>3, <2>1, <2>2, <2>3, <2>4 DEF Worker
<1>4. CASE Crash
  BY <1>4 DEF Crash
<1>5. CASE UNCHANGED vars
  BY <1>5 DEF vars
<1> QED BY <1>1, <1>2, <1>3, <1>4, <1>5 DEF Next

-----------------------------------------------------------------------------
(* What each run, and each clone, has read.                                   *)

\* The versions of a scenario past its draft: its inputs are one of them, and each
\* stays one.
Kept ==
    \A s \in Scenarios :
        /\ inputs[s] \in Versions(s)
        /\ Past(s) /\ s \notin unsealed' => Versions(s) \subseteq Versions(s)'

LEMMA VersionsKept ==
    ASSUME TypeOK, TypeOK', World
    PROVE  Kept
  BY DEF TypeOK, World, Kept, Versions

LEMMA HandlerReads ==
    ASSUME IInv, TypeOK', World, NEW r \in Requests, Handler(r)
    PROVE  AllRead'
<1>0. Kept
  BY VersionsKept DEF IInv
<1> USE NullAssumption DEF IInv, TypeOK, AllKnow, AllRead, Knows, Reads, Past,
                           scens, calls, runs, past, Steps, Goes
<1>1. CASE \E s \in Scenarios, step \in Steps : Arrive(r, s, step)
  BY <1>0, <1>1 DEF Kept, Arrive
<1>2. CASE Write(r)
  BY <1>0, <1>2 DEF Kept, Write
<1>3. CASE SaveRow(r)
  BY <1>0, <1>3 DEF Kept, SaveRow, Late
<1>4. CASE CountRuns(r)
  BY <1>0, <1>4 DEF Kept, CountRuns
<1>5. CASE Unlink(r)
  BY <1>0, <1>5 DEF Kept, Unlink
<1>6. CASE Archive(r)
  BY <1>0, <1>6 DEF Kept, Archive
<1>7. CASE Erase(r)
  BY <1>0, <1>7 DEF Kept, Erase
<1>8. CASE CheckRuns(r)
  BY <1>0, <1>8 DEF Kept, CheckRuns
<1>9. CASE Freeze(r)
  BY <1>0, <1>9 DEF Kept, Freeze
<1>10. CASE CreateRun(r)
  BY <1>0, <1>10 DEF Kept, CreateRun
<1>11. CASE Push(r)
  BY <1>0, <1>11 DEF Kept, Push
<1>12. CASE BeginClone(r)
  BY <1>0, <1>12 DEF Kept, BeginClone
<1>13. CASE CopyTable(r)
  BY <1>0, <1>13 DEF Kept, CopyTable
<1>14. CASE EndClone(r)
  BY <1>0, <1>14 DEF Kept, EndClone
<1> QED
  BY <1>1, <1>2, <1>3, <1>4, <1>5, <1>6, <1>7, <1>8, <1>9, <1>10, <1>11, <1>12,
     <1>13, <1>14 DEF Handler

LEMMA NextReads ==
    ASSUME IInv, TypeOK', World, [Next]_vars
    PROVE  AllRead'
<1>0. Kept
  BY VersionsKept DEF IInv
<1> USE NullAssumption DEF IInv, TypeOK, AllKnow, AllRead, Knows, Reads, Past,
                           scens, calls, runs, past, Steps, Goes
<1>1. CASE \E s \in Scenarios : CreateScenario(s)
  BY <1>0, <1>1 DEF Kept, CreateScenario
<1>2. ASSUME NEW r \in Requests, Handler(r) PROVE AllRead'
  BY <1>2, HandlerReads
<1>3. ASSUME NEW r \in Requests, Worker(r) PROVE AllRead'
  <2>1. CASE LoadRun(r)
    BY <1>0, <2>1 DEF Kept, LoadRun, Queued
  <2>2. CASE ReadInputs(r)
    BY <1>0, <2>2 DEF Kept, ReadInputs, Queued
  <2>3. CASE StorePlan(r)
    BY <1>0, <2>3 DEF Kept, StorePlan, Queued
  <2>4. CASE FailRun(r)
    BY <1>0, <2>4 DEF Kept, FailRun, Queued
  <2> QED BY <1>3, <2>1, <2>2, <2>3, <2>4 DEF Worker
<1>4. CASE Crash
  BY <1>0, <1>4 DEF Kept, Crash
<1>5. CASE UNCHANGED vars
  BY <1>0, <1>5 DEF Kept, vars
<1> QED BY <1>1, <1>2, <1>3, <1>4, <1>5 DEF Next

-----------------------------------------------------------------------------
(* The theorems.                                                              *)

LEMMA IInvStep == IInv /\ [Next]_vars => IInv' /\ World
<1> SUFFICES ASSUME IInv, [Next]_vars PROVE IInv' /\ World
  OBVIOUS
<1>1. TypeOK'
  BY NextType DEF IInv
<1>2. World
  BY Settles DEF IInv
<1>3. AllKnow'
  BY <1>1, <1>2, NextKnows
<1>4. AllRead'
  BY <1>1, <1>2, NextReads
<1> QED BY <1>1, <1>2, <1>3, <1>4 DEF IInv

LEMMA Always == Spec => []IInv
  BY InitHolds, IInvStep, PTL DEF Spec

\* Every variable has its type, a request under way has a scenario, and a run that
\* names a scenario names one that exists (the foreign key of optimizations).
THEOREM LifecycleTyped == Spec => []TypeOK
  BY Always, PTL DEF IInv

\* A run is never created for, nor kept on, a scenario that may still be edited,
\* but for the unsealed ones (OptimizeScenario: the freeze precedes the row).
THEOREM RunsReferenceFrozenHolds == Spec => []RunsReferenceFrozen
<1>1. IInv => RunsReferenceFrozen
  BY DEF IInv, TypeOK, AllKnow, Knows, Past, Exists, RunsReferenceFrozen
<1> QED BY <1>1, Always, PTL

\* The plan of a finished run was computed from versions its scenario has had since
\* it was frozen: one, unless a write that had passed requireDraft before the freeze,
\* or the deletion of the scenario, fell after it; nothing is said of an unsealed
\* scenario (BuildModel reads the tables one by one, with no transaction).
THEOREM ReproduciblePlanHolds == Spec => []ReproduciblePlan
<1>1. ASSUME IInv PROVE ReproduciblePlan
  <2>1. SUFFICES ASSUME NEW r \in Requests, run[r] = "done", source[r] \notin unsealed
                 PROVE  /\ read[r] # {} /\ read[r] \subseteq Versions(source[r])
                        /\ link[r] \in {source[r], NoScenario}
    BY DEF ReproduciblePlan
  <2>2. Reads(r) /\ source[r] \in Scenarios
    BY <1>1, <2>1 DEF IInv, AllRead, Reads, TypeOK
  <2> QED BY <2>1, <2>2, NullAssumption DEF Reads
<1> QED BY <1>1, Always, PTL

\* The clone of a scenario past its draft copies versions the scenario has had since
\* it was frozen: one, but for late writes, and nothing is said of an unsealed one
\* (CloneScenario reads it table by table, at read committed).
THEOREM ClonesAreWholeHolds == Spec => []ClonesAreWhole
<1>1. IInv => ClonesAreWhole
  BY DEF IInv, AllRead, Reads, ClonesAreWhole
<1> QED BY <1>1, Always, PTL

\* A scenario past its draft, with no request under way that read it as one, keeps
\* its inputs, and its status only moves on (requireDraft and the freeze).
LEMMA FrozenStep ==
    ASSUME IInv, [Next]_vars, NEW s \in Scenarios,
           status[s] \in {"frozen", "archived"}, Settled(s)
    PROVE  \/ status'[s] = "gone"
           \/ inputs'[s] = inputs[s] /\ status'[s] \in {status[s], "archived"}
<1> USE DEF IInv, TypeOK, AllKnow, Knows, Settled, scens, calls, runs, past, Goes
<1>1. CASE \E z \in Scenarios : CreateScenario(z)
  BY <1>1 DEF CreateScenario
<1>2. ASSUME NEW r \in Requests, Handler(r)
      PROVE  \/ status'[s] = "gone"
             \/ inputs'[s] = inputs[s] /\ status'[s] \in {status[s], "archived"}
  <2>1. CASE \E z \in Scenarios, step \in Steps : Arrive(r, z, step)
    BY <2>1 DEF Arrive
  <2>2. CASE Write(r)
    BY <2>2 DEF Write
  <2>3. CASE SaveRow(r)
    BY <2>3 DEF SaveRow
  <2>4. CASE CountRuns(r)
    BY <2>4 DEF CountRuns
  <2>5. CASE Unlink(r)
    BY <2>5 DEF Unlink
  <2>6. CASE Archive(r)
    BY <2>6 DEF Archive
  <2>7. CASE Erase(r)
    BY <2>7 DEF Erase
  <2>8. CASE CheckRuns(r)
    BY <2>8 DEF CheckRuns
  <2>9. CASE Freeze(r)
    BY <2>9 DEF Freeze
  <2>10. CASE CreateRun(r)
    BY <2>10 DEF CreateRun
  <2>11. CASE Push(r)
    BY <2>11 DEF Push
  <2>12. CASE BeginClone(r)
    BY <2>12 DEF BeginClone
  <2>13. CASE CopyTable(r)
    BY <2>13 DEF CopyTable
  <2>14. CASE EndClone(r)
    BY <2>14 DEF EndClone
  <2> QED
    BY <1>2, <2>1, <2>2, <2>3, <2>4, <2>5, <2>6, <2>7, <2>8, <2>9, <2>10, <2>11,
       <2>12, <2>13, <2>14 DEF Handler
<1>3. ASSUME NEW r \in Requests, Worker(r) PROVE UNCHANGED scens
  BY <1>3 DEF Worker, LoadRun, ReadInputs, StorePlan, FailRun
<1>4. CASE Crash
  BY <1>4 DEF Crash
<1>5. CASE UNCHANGED vars
  BY <1>5 DEF vars
<1> QED BY <1>1, <1>2, <1>3, <1>4, <1>5 DEF Next

\* FrozenStep, of every step of every behaviour.
THEOREM FrozenStaysHolds == Spec => FrozenStays
<1>1. IInv /\ [Next]_vars
      => [\A s \in Scenarios :
            status[s] \in {"frozen", "archived"} /\ Settled(s)
            => \/ status'[s] = "gone"
               \/ inputs'[s] = inputs[s] /\ status'[s] \in {status[s], "archived"}]_vars
  BY FrozenStep
<1> QED BY <1>1, Always, PTL DEF Spec, FrozenStays
=============================================================================
