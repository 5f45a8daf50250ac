---------------------------- MODULE CatalogProofs ----------------------------
(***************************************************************************)
(* Theorems about Catalog, for every spreadsheet, any number of requests   *)
(* in flight, of scenarios, of rows and of arrivals.                       *)
(***************************************************************************)
EXTENDS Catalog, FiniteSetTheorems, TLAPS

-----------------------------------------------------------------------------
(* The steps of a request, each on its own.                                   *)

Quiet == UNCHANGED <<tables, next, schema, revived>>

\* What a request holds once it is admitted: names only, no row.
Fresh ==
    [do : {"create"}, scen : Scenarios, kind : Kinds]
    \cup [do : {"fetch", "delete"}, scen : Scenarios, kind : Kinds, id : Ids]
    \cup [do : {"upsert", "remove"}, scen : Scenarios, kind : Items, product : Ids, item : Ids]

Admission(r) == Comes(r) /\ Quiet /\ \E to \in Fresh : Goes(r, to)

Begins(r)  == Comes(r) /\ \E s \in Scenarios : BeginClone(r, s)
Inserts(r) == Busy(r, "create") /\ Insert(r)
Fetches(r) == Busy(r, "fetch") /\ Fetch(r)
Saves(r)   == Busy(r, "save") /\ Save(r)
Erases(r)  == /\ Busy(r, "delete") /\ Erase(Doomed(r)) /\ Ends(r)
              /\ UNCHANGED <<status, next, schema, arrivals, revived>>
Looks(r)   == \/ Busy(r, "upsert") /\ Look(r, "put")
              \/ Busy(r, "remove") /\ Look(r, "drop")
Puts(r)    == Busy(r, "put") /\ Put(r)
Drops(r)   == /\ Busy(r, "drop")
              /\ cells' = {c \in cells : CellKey(c) # CellKey(Cited(r))}
              /\ Ends(r)
              /\ UNCHANGED <<status, rows, next, schema, arrivals, revived>>
Copies(r)  == Busy(r, "clone") /\ CopyRows(r)
Joins(r)   == Busy(r, "clone") /\ CopyCells(r)
Commits(r) == Busy(r, "clone") /\ Commit(r)

LEMMA LiveIds == ASSUME TypeOK PROVE Live \subseteq Ids
  BY BoundAssumption DEF TypeOK, Ids

LEMMA HandleSteps ==
    ASSUME TypeOK, NEW r \in Requests, Handle(r)
    PROVE  \/ Admission(r) \/ Begins(r) \/ Inserts(r) \/ Fetches(r) \/ Saves(r)
           \/ Erases(r) \/ Looks(r) \/ Puts(r) \/ Drops(r)
           \/ Copies(r) \/ Joins(r) \/ Commits(r) \/ Fail(r)
<1> DEFINE Parts == \/ Admission(r) \/ Begins(r) \/ Inserts(r) \/ Fetches(r) \/ Saves(r)
                    \/ Erases(r) \/ Looks(r) \/ Puts(r) \/ Drops(r)
                    \/ Copies(r) \/ Joins(r) \/ Commits(r) \/ Fail(r)
<1> USE LiveIds
<1>1. ASSUME NEW k \in Kinds, Creates(r, k) PROVE Parts
  BY <1>1 DEF Creates, Admission, Quiet, Admit, Fresh, Inserts
<1>2. ASSUME NEW k \in Kinds, Updates(r, k) PROVE Parts
  BY <1>2 DEF Updates, Admission, Quiet, Admit, Fresh, Fetches, Saves
<1>3. ASSUME NEW k \in Kinds, Deletes(r, k) PROVE Parts
  BY <1>3 DEF Deletes, Admission, Quiet, Admit, Fresh, Erases
<1>4. ASSUME NEW k \in Items, NEW do \in {"upsert", "remove"}, Cite(r, k, do)
      PROVE  Admission(r)
  BY <1>4 DEF Cite, Admission, Quiet, Admit, Fresh
<1>5. ASSUME NEW k \in Items, Upserts(r, k) PROVE Parts
  BY <1>4, <1>5 DEF Upserts, Looks, Puts
<1>6. ASSUME NEW k \in Items, Removes(r, k) PROVE Parts
  BY <1>4, <1>6 DEF Removes, Looks, Drops
<1>7. CASE CloneScenario(r)
  BY <1>7 DEF CloneScenario, Begins, Copies, Joins, Commits
<1>8. CASE Fail(r)
  BY <1>8
<1> QED
  BY <1>1, <1>2, <1>3, <1>5, <1>6, <1>7, <1>8
  DEF Handle, Kinds, Items,
      CreateProduct, UpdateProduct, DeleteProduct,
      CreateIngredient, UpdateIngredient, DeleteIngredient,
      CreateMachine, UpdateMachine, DeleteMachine,
      CreateOperationalResource, UpdateOperationalResource, DeleteOperationalResource,
      UpsertProductIngredient, RemoveProductIngredient,
      UpsertProductMachine, RemoveProductMachine,
      UpsertProductOperationalResource, RemoveProductOperationalResource

-----------------------------------------------------------------------------
(* Types.  The invariant adds to TypeOK what an open clone holds, and that     *)
(* nothing is in flight before the seed.                                      *)

CloneShape(q) ==
    /\ q = [do |-> "clone", scen |-> q.scen, dst |-> q.dst, stage |-> q.stage,
            copy |-> q.copy, made |-> q.made, drawn |-> q.drawn]
    /\ q.scen \in Scenarios /\ DOMAIN q.copy \subseteq 1 .. next - 1

\* The ids a call has read were given before.
CallOK(r) ==
    \/ /\ req[r] \in Calls
       /\ Busy(r, "save") => req[r].id \in 1 .. next - 1
       /\ Busy(r, "put") \/ Busy(r, "drop") => req[r].product \in 1 .. next - 1
    \/ Busy(r, "clone") /\ CloneOK(req[r]) /\ CloneShape(req[r])

StoreOK ==
    /\ status \in [Scenarios -> {"unborn", "draft", "frozen", "gone"}]
    /\ next \in 1 .. MaxId + 1 /\ Live \subseteq 1 .. next - 1
    /\ \A i \in Live : rows[i] \in Row
    /\ cells \subseteq Cell
    /\ keyed \subseteq Items /\ mig \in 0 .. 7
    /\ arrivals \in 0 .. MaxArrivals + 1
    /\ revived \subseteq Ids /\ steady \subseteq Requests

Typed == /\ StoreOK
         /\ DOMAIN req = Requests
         /\ \A r \in Requests : CallOK(r)
         /\ arrivals = 0 => \A r \in Requests : req[r] = Idle

LEMMA TypedTypes == Typed => TypeOK
  BY DEF Typed, StoreOK, TypeOK, CallOK

LEMMA InitTyped == Init => Typed
  BY BoundAssumption DEF Init, Typed, StoreOK, CallOK, Calls, Idle, Items, Live, Busy

\* A call is of one kind.
LEMMA CallKinds ==
    ASSUME NEW r, CallOK(r)
    PROVE  /\ Busy(r, "clone") => CloneOK(req[r]) /\ CloneShape(req[r])
           /\ Busy(r, "create") => req[r].scen \in Scenarios /\ req[r].kind \in Kinds
           /\ Busy(r, "fetch") \/ Busy(r, "delete") =>
                 req[r].scen \in Scenarios /\ req[r].kind \in Kinds /\ req[r].id \in Ids
           /\ Busy(r, "save") => /\ req[r].scen \in Scenarios /\ req[r].kind \in Kinds
                                 /\ req[r].id \in Ids /\ req[r].row \in Row
           /\ \A do \in {"upsert", "remove", "put", "drop"} : Busy(r, do) =>
                 /\ req[r].scen \in Scenarios /\ req[r].kind \in Items
                 /\ req[r].product \in Ids /\ req[r].item \in Ids
  BY DEF CallOK, Calls, Busy, Idle

\* A step of one request leaves the others alone, and gives ids only to take them.
LEMMA OnlyOne ==
    ASSUME Typed, NEW r \in Requests, Handle(r)
    PROVE  /\ DOMAIN req' = Requests
           /\ \A p \in Requests \ {r} : req'[p] = req[p]
<1>1. \E to : Goes(r, to)
  BY HandleSteps, TypedTypes
  DEF Admission, Begins, Inserts, Fetches, Saves, Erases, Looks, Puts, Drops, Copies, Joins,
      Commits, BeginClone, Insert, Fetch, Save, Look, Put, CopyRows, CopyCells, Commit,
      Fail, Ends
<1> QED BY <1>1 DEF Goes, Typed

LEMMA Widens ==
    ASSUME NEW m \in Nat, NEW n \in Nat, m <= n
    PROVE  1 .. m - 1 \subseteq 1 .. n - 1
  OBVIOUS

LEMMA OthersTyped ==
    ASSUME Typed, next' \in Nat, next <= next', NEW p \in Requests, req'[p] = req[p]
    PROVE  CallOK(p)'
<1>0. 1 .. next - 1 \subseteq 1 .. next' - 1
  <2>1. next \in Nat
    BY BoundAssumption DEF Typed, StoreOK
  <2> QED BY <2>1, Widens
<1>1. CASE /\ req[p] \in Calls
           /\ Busy(p, "save") => req[p].id \in 1 .. next - 1
           /\ Busy(p, "put") \/ Busy(p, "drop") => req[p].product \in 1 .. next - 1
  BY <1>0, <1>1 DEF CallOK, Busy
<1>2. CASE Busy(p, "clone") /\ CloneOK(req[p]) /\ CloneShape(req[p])
  BY <1>0, <1>2 DEF CallOK, CloneOK, CloneShape, Busy
<1> QED BY <1>1, <1>2 DEF Typed, CallOK

LEMMA TrackTyped == Track => steady' \subseteq Requests
  BY DEF Track

\* What is left to show of a step of a request.
LEMMA RequestTyped ==
    ASSUME Typed, NEW r \in Requests, Handle(r), StoreOK', next <= next', CallOK(r)',
           \/ arrivals' = arrivals + 1
           \/ UNCHANGED arrivals /\ ~Busy(r, "idle")
    PROVE  Typed'
<1>1. arrivals' # 0
  BY DEF Typed, StoreOK, Busy, Idle
<1>2. next' \in Nat
  BY DEF StoreOK
<1> QED BY <1>1, <1>2, OnlyOne, OthersTyped DEF Typed

LEMMA AdmitTyped ==
    ASSUME Typed, Track, NEW r \in Requests, Handle(r), Admission(r)
    PROVE  Typed'
<1>1. StoreOK'
  BY TrackTyped, BoundAssumption DEF Admission, Quiet, Typed, StoreOK, tables, schema, Comes, Arrives, Live
<1>2. CallOK(r)'
  BY DEF Admission, Goes, Typed, CallOK, Fresh, Calls, Busy
<1> QED BY <1>1, <1>2, RequestTyped DEF Admission, Quiet, Comes, Arrives, Typed, StoreOK

LEMMA BeginTyped ==
    ASSUME Typed, Track, NEW r \in Requests, Handle(r), Begins(r)
    PROVE  Typed'
<1>1. StoreOK'
  BY TrackTyped, BoundAssumption DEF Begins, BeginClone, Typed, StoreOK, tables, schema, Comes, Arrives, Live
<1>2. CallOK(r)'
  BY DEF Begins, BeginClone, Goes, Typed, CallOK, CloneOK, CloneShape, Busy, Scenarios
<1> QED BY <1>1, <1>2, RequestTyped DEF Begins, BeginClone, Comes, Arrives, Typed, StoreOK

\* A statement that writes no row: a read, or one that writes cells.
LEMMA LookTyped ==
    ASSUME Typed, Track, NEW r \in Requests, Handle(r),
           Fetches(r) \/ Looks(r) \/ Puts(r) \/ Drops(r) \/ Fail(r)
    PROVE  Typed'
<1> USE TypedTypes, CallKinds
<1>1. CallOK(r)
  BY DEF Typed
<1>2. CASE Fetches(r)
  <2>1. CallOK(r)'
    <3>1. /\ req[r].id \in 1 .. next - 1 /\ rows[req[r].id] \in Row
      BY <1>2 DEF Fetches, Fetch, RowsOf, Typed, StoreOK
    <3> QED BY <1>1, <1>2, <3>1 DEF Fetches, Fetch, Goes, Typed, CallOK, Calls, Busy, tables
  <2>2. StoreOK'
    BY <1>2, TrackTyped DEF Fetches, Fetch, Typed, StoreOK, tables, schema, Live
  <2> QED BY <1>2, <2>1, <2>2, RequestTyped DEF Fetches, Fetch, Busy, Typed, StoreOK
<1>3. CASE Looks(r)
  <2>1. CallOK(r)'
    <3>1. req[r].product \in 1 .. next - 1
      BY <1>3 DEF Looks, Look, Counted, RowsOf, Typed, StoreOK
    <3>2. /\ req[r].scen \in Scenarios /\ req[r].kind \in Items
          /\ req[r].product \in Ids /\ req[r].item \in Ids
      BY <1>1, <1>3 DEF Looks
    <3>3. next' = next /\ \E to \in {"put", "drop"}, found \in BOOLEAN :
             req'[r] = [do |-> to, scen |-> req[r].scen, kind |-> req[r].kind,
                        product |-> req[r].product, item |-> req[r].item, found |-> found]
      BY <1>3 DEF Looks, Look, Goes, Typed
    <3> QED BY <3>1, <3>2, <3>3 DEF CallOK, Calls, Busy
  <2>2. StoreOK'
    BY <1>3, TrackTyped DEF Looks, Look, Typed, StoreOK, tables, schema, Live
  <2> QED BY <1>3, <2>1, <2>2, RequestTyped DEF Looks, Look, Busy, Typed, StoreOK
<1>4. CASE Puts(r)
  <2>1. CallOK(r)'
    BY <1>4 DEF Puts, Put, Ends, Goes, Typed, CallOK, Calls, Idle, Busy
  <2>2. Cited(r) \in Cell
    BY <1>1, <1>4 DEF Puts, Cited, Cell
  <2>3. StoreOK'
    BY <1>4, <2>2, TrackTyped DEF Puts, Put, Typed, StoreOK, schema, Live
  <2> QED BY <1>4, <2>1, <2>3, RequestTyped DEF Puts, Put, Busy, Typed, StoreOK
<1>5. CASE Drops(r)
  <2>1. CallOK(r)'
    BY <1>5 DEF Drops, Ends, Goes, Typed, CallOK, Calls, Idle, Busy
  <2>2. StoreOK'
    BY <1>5, TrackTyped DEF Drops, Typed, StoreOK, schema, Live
  <2> QED BY <1>5, <2>1, <2>2, RequestTyped DEF Drops, Busy, Typed, StoreOK
<1>6. CASE Fail(r)
  <2>1. CallOK(r)'
    BY <1>6 DEF Fail, Ends, Goes, Typed, CallOK, Calls, Idle, Busy
  <2>2. StoreOK'
    BY <1>6, TrackTyped DEF Fail, Typed, StoreOK, tables, schema, Live
  <2> QED BY <1>6, <2>1, <2>2, RequestTyped DEF Fail, Busy, Typed, StoreOK
<1> QED BY <1>2, <1>3, <1>4, <1>5, <1>6

LEMMA EraseTyped ==
    ASSUME Typed, NEW D, Erase(D)
    PROVE  /\ Live' \subseteq Live /\ \A i \in Live' : rows'[i] \in Row
           /\ cells' \subseteq cells
<1>1. /\ Live' = Live \ D
      /\ \A i \in Live' : rows'[i] = Unlinked(rows[i], D)
  BY DEF Erase, Live
<1>2. \A i \in Live : Unlinked(rows[i], D) \in Row
  <2>1. NoRoot \in Ids \cup {NoRoot}
    OBVIOUS
  <2>2. \A row \in Row : [row EXCEPT !.root = NoRoot] \in Row
    BY <2>1 DEF Row
  <2> QED BY <2>2 DEF Typed, StoreOK, Unlinked
<1> QED BY <1>1, <1>2 DEF Erase

LEMMA WriteTyped ==
    ASSUME Typed, Track, NEW r \in Requests, Handle(r),
           Inserts(r) \/ Saves(r) \/ Erases(r)
    PROVE  Typed'
<1> USE TypedTypes, CallKinds
<1>1. CallOK(r)
  BY DEF Typed
<1>2. CallOK(r)'
  BY DEF Inserts, Insert, Saves, Save, Erases, Ends, Goes, Typed, CallOK, Calls, Idle, Busy
<1>3. CASE Inserts(r)
  <2> DEFINE row == [kind |-> req[r].kind, scen |-> req[r].scen, root |-> NoRoot, val |-> 0]
  <2>1. row \in Row
    BY <1>1, <1>3 DEF Inserts, Row, Values
  <2>2. /\ Live' = Live \cup {next}
        /\ \A i \in Live' : rows'[i] = IF i = next THEN row ELSE rows[i]
    BY <1>3 DEF Inserts, Insert, Over, Live
  <2>3. next' = next + 1 /\ next \in 1 .. MaxId
    BY <1>3 DEF Inserts, Insert, Taking, Typed, StoreOK
  <2>4. Live' \subseteq 1 .. next' - 1 /\ next' \in 1 .. MaxId + 1
    BY <2>2, <2>3, BoundAssumption DEF Typed, StoreOK
  <2>5. StoreOK'
    BY <1>3, <2>1, <2>2, <2>4, TrackTyped DEF Inserts, Insert, Typed, StoreOK, schema
  <2> QED BY <1>2, <1>3, <2>3, <2>5, RequestTyped DEF Inserts, Insert, Busy
<1>4. CASE Saves(r)
  <2>1. PICK v \in Values : rows' = Over([j \in {req[r].id} |-> [req[r].row EXCEPT !.val = v]], rows)
    BY <1>4 DEF Saves, Save
  <2>2. [req[r].row EXCEPT !.val = v] \in Row
    BY <1>1, <1>4 DEF Saves, Row
  <2>3. /\ Live' = Live \cup {req[r].id}
        /\ \A i \in Live' : rows'[i] = IF i = req[r].id THEN [req[r].row EXCEPT !.val = v] ELSE rows[i]
    BY <2>1 DEF Over, Live
  <2>4. revived' \subseteq Ids
    BY <1>1, <1>4 DEF Saves, Save, Typed, StoreOK
  <2>5. req[r].id \in 1 .. next - 1
    BY <1>1, <1>4 DEF Saves, CallOK, Busy
  <2> QED BY <1>2, <1>4, <2>2, <2>3, <2>4, <2>5, RequestTyped, TrackTyped DEF Saves, Save, Busy, Typed, StoreOK, schema
<1>5. CASE Erases(r)
  <2>1. StoreOK'
    BY <1>5, EraseTyped, TrackTyped DEF Erases, Typed, StoreOK, schema
  <2> QED BY <1>2, <1>5, <2>1, RequestTyped DEF Erases, Busy, Typed, StoreOK
<1> QED BY <1>3, <1>4, <1>5

-----------------------------------------------------------------------------
(* The new ids of a table's copies are the next ones of the sequence, one each. *)

LEMMA Numbering ==
    ASSUME NEW S \in SUBSET Nat, IsFiniteSet(S)
    PROVE  /\ \A i \in S : Cardinality({j \in S : j < i}) \in 0 .. Cardinality(S) - 1
           /\ \A i, k \in S : i # k => Cardinality({j \in S : j < i}) # Cardinality({j \in S : j < k})
<1> DEFINE Below(i) == {j \in S : j < i}
<1>1. ASSUME NEW i \in S
      PROVE  IsFiniteSet(Below(i)) /\ Cardinality(Below(i)) \in 0 .. Cardinality(S) - 1
  <2>1. Below(i) \in SUBSET S /\ i \in S \ Below(i)
    OBVIOUS
  <2> HIDE DEF Below
  <2>2. /\ IsFiniteSet(Below(i)) /\ Cardinality(Below(i)) <= Cardinality(S)
        /\ Cardinality(Below(i)) # Cardinality(S)
    BY <2>1, FS_Subset
  <2>3. Cardinality(Below(i)) \in Nat /\ Cardinality(S) \in Nat
    BY <2>2, FS_CardinalityType
  <2> QED BY <2>2, <2>3
<1>2. ASSUME NEW i \in S, NEW k \in S, i < k
      PROVE  Cardinality(Below(i)) # Cardinality(Below(k))
  <2>1. Below(i) \in SUBSET Below(k) /\ i \in Below(k) \ Below(i)
    <3>1. \A j \in S : j < i => j < k
      BY <1>2
    <3>2. i \in Below(k) /\ i \notin Below(i)
      BY <1>2
    <3> QED BY <3>1, <3>2
  <2>2. IsFiniteSet(Below(k))
    BY <1>1
  <2> QED
    <3> HIDE DEF Below
    <3> QED BY <2>1, <2>2, FS_Subset
<1> HIDE DEF Below
<1>3. \A i, k \in S : i # k => Cardinality(Below(i)) # Cardinality(Below(k))
  <2> SUFFICES ASSUME NEW i \in S, NEW k \in S, i # k
               PROVE  Cardinality(Below(i)) # Cardinality(Below(k))
    OBVIOUS
  <2>1. i < k \/ k < i
    OBVIOUS
  <2> QED BY <1>2, <2>1
<1> QED BY <1>1, <1>3 DEF Below

LEMMA RowsFinite ==
    ASSUME Typed, NEW s, NEW k
    PROVE  RowsOf(s, k) \in SUBSET Nat /\ IsFiniteSet(RowsOf(s, k))
<1>1. next - 1 \in Int /\ RowsOf(s, k) \subseteq 1 .. next - 1
  <2>1. RowsOf(s, k) \subseteq Live
    BY DEF RowsOf
  <2>2. next \in 1 .. MaxId + 1 /\ Live \subseteq 1 .. next - 1
    BY DEF Typed, StoreOK
  <2>3. next - 1 \in Int
    BY <2>2
  <2> QED BY <2>1, <2>2, <2>3
<1>2. IsFiniteSet(1 .. next - 1) /\ 1 .. next - 1 \subseteq Nat
  BY <1>1, FS_Interval
<1> QED BY <1>1, <1>2, FS_Subset

\* New ids for the rows of S.
Numbers(new, S) ==
    /\ DOMAIN new = S
    /\ \A i \in S : new[i] \in next .. next' - 1
    /\ \A i, j \in S : new[i] = new[j] => i = j

CopyOf(i, r) == [rows[i] EXCEPT !.scen = req[r].dst, !.root = rootCanonical(i)]

LEMMA CopiesNumber ==
    ASSUME Typed, NEW r \in Requests, Copies(r)
    PROVE  LET S == RowsOf(req[r].scen, Tables[req[r].stage])
           IN \E new :
                 /\ Numbers(new, S)
                 /\ req'[r] = [req[r] EXCEPT !.stage = @ + 1, !.copy = Over(new, @),
                                             !.made = Over([n \in {new[i] : i \in S} |->
                                                              req'[r].made[n]], @)]
                 /\ \A i \in S : req'[r].made[new[i]] = CopyOf(i, r)
<1> DEFINE q == req[r]
           S == RowsOf(q.scen, Tables[q.stage])
           new == [i \in S |-> next + Cardinality({j \in S : j < i})]
           old(n) == CHOOSE i \in S : new[i] = n
           made == [n \in {new[i] : i \in S} |-> CopyOf(old(n), r)]
<1>1. S \in SUBSET Nat /\ IsFiniteSet(S) /\ Cardinality(S) \in Nat
  BY RowsFinite, FS_CardinalityType
<1>2. next \in Nat /\ next' = next + Cardinality(S)
  <2>1. next \in Nat
    BY BoundAssumption DEF Typed, StoreOK
  <2>2. next' = next + Cardinality(S)
    BY DEF Copies, CopyRows, Taking
  <2> QED BY <2>1, <2>2
<1>3. /\ \A i \in S : Cardinality({j \in S : j < i}) \in 0 .. Cardinality(S) - 1
      /\ \A i, k \in S : i # k => Cardinality({j \in S : j < i}) # Cardinality({j \in S : j < k})
  <2> HIDE DEF S
  <2> QED BY <1>1, Numbering
<1>4. req'[r] = [q EXCEPT !.stage = @ + 1, !.copy = Over(new, @), !.made = Over(made, @)]
  BY DEF Copies, CopyRows, Goes, CopyOf, Typed
<1>5. Numbers(new, S)
  <2> HIDE DEF S
  <2> QED BY <1>1, <1>2, <1>3 DEF Numbers
<1>6. \A i \in S : old(new[i]) = i
  <2> HIDE DEF S, new
  <2> QED BY <1>5 DEF Numbers
<1>7. q = [do |-> "clone", scen |-> q.scen, dst |-> q.dst, stage |-> q.stage,
           copy |-> q.copy, made |-> q.made, drawn |-> q.drawn]
  BY CallKinds DEF Copies, Typed, CloneShape
<1> HIDE DEF q, S, new, old
<1>8. req'[r].made = Over(made, q.made)
  BY <1>4, <1>7
<1>9. \A n \in {new[i] : i \in S} : req'[r].made[n] = made[n]
  BY <1>8 DEF Over
<1>10. made = [n \in {new[i] : i \in S} |-> req'[r].made[n]]
  BY <1>9
<1>11. req'[r] = [q EXCEPT !.stage = @ + 1, !.copy = Over(new, @),
                           !.made = Over([n \in {new[i] : i \in S} |-> req'[r].made[n]], @)]
  BY <1>4, <1>10
<1>12. \A i \in S : req'[r].made[new[i]] = CopyOf(i, r)
  BY <1>6, <1>9
<1> QED BY <1>5, <1>11, <1>12 DEF q, S

\* A clone's record, one statement on.
Open(scen, dst, stage, copy, made, drawn) ==
    [do |-> "clone", scen |-> scen, dst |-> dst, stage |-> stage,
     copy |-> copy, made |-> made, drawn |-> drawn]

LEMMA CopyStep ==
    ASSUME NEW q, NEW copy, NEW made, NEW p,
           q = Open(q.scen, q.dst, q.stage, q.copy, q.made, q.drawn),
           p = [q EXCEPT !.stage = q.stage + 1, !.copy = copy, !.made = made]
    PROVE  p = Open(q.scen, q.dst, q.stage + 1, copy, made, q.drawn)
<1>1. PICK scen, dst, stage, c, m, d : q = Open(scen, dst, stage, c, m, d)
  OBVIOUS
<1>2. q.scen = scen /\ q.dst = dst /\ q.stage = stage /\ q.drawn = d
  BY <1>1 DEF Open
<1>3. p = [Open(scen, dst, stage, c, m, d) EXCEPT !.stage = stage + 1, !.copy = copy,
                                                  !.made = made]
  BY <1>1, <1>2
<1> QED BY <1>2, <1>3 DEF Open

LEMMA JoinStep ==
    ASSUME NEW q, NEW drawn, NEW p,
           q = Open(q.scen, q.dst, q.stage, q.copy, q.made, q.drawn),
           p = [q EXCEPT !.stage = q.stage + 1, !.drawn = drawn]
    PROVE  p = Open(q.scen, q.dst, q.stage + 1, q.copy, q.made, drawn)
<1>1. PICK scen, dst, stage, c, m, d : q = Open(scen, dst, stage, c, m, d)
  OBVIOUS
<1>2. /\ q.scen = scen /\ q.dst = dst /\ q.stage = stage
      /\ q.copy = c /\ q.made = m
  BY <1>1 DEF Open
<1>3. p = [Open(scen, dst, stage, c, m, d) EXCEPT !.stage = stage + 1, !.drawn = drawn]
  BY <1>1, <1>2
<1> QED BY <1>2, <1>3 DEF Open

LEMMA NextIds ==
    ASSUME Typed
    PROVE  /\ MaxId \in Nat /\ next \in Nat /\ 1 <= next /\ next <= MaxId + 1
           /\ 1 .. next - 1 \subseteq Ids /\ Live \subseteq 1 .. next - 1
<1>1. MaxId \in Nat
  BY BoundAssumption
<1> QED BY <1>1 DEF Typed, StoreOK, Ids

\* The copies of rows are rows, of the clone's scenario.
LEMMA CopyTyped ==
    ASSUME Typed, NEW r \in Requests, Busy(r, "clone"), NEW i \in Live
    PROVE  /\ CopyOf(i, r) \in Row
           /\ CopyOf(i, r).kind = rows[i].kind /\ CopyOf(i, r).val = rows[i].val
           /\ CopyOf(i, r).scen = req[r].dst /\ CopyOf(i, r).root = rootCanonical(i)
<1>1. rows[i] \in Row /\ i \in Ids
  BY LiveIds, TypedTypes DEF Typed, StoreOK
<1>2. req[r].dst \in Scenarios
  BY CallKinds DEF Typed, CloneOK
<1>3. rootCanonical(i) \in Ids \cup {NoRoot}
  BY <1>1 DEF rootCanonical, Row
<1> QED BY <1>1, <1>2, <1>3 DEF CopyOf, Row

\* What a clone holds after CopyRows: new says which row of S became which.
Copied(r, new, S) ==
    LET q == req[r]
        p == req'[r]
    IN /\ Numbers(new, S)
       /\ p = Open(q.scen, q.dst, q.stage + 1, p.copy, p.made, q.drawn)
       /\ DOMAIN p.copy = S \cup DOMAIN q.copy
       /\ \A i \in DOMAIN p.copy : p.copy[i] = IF i \in S THEN new[i] ELSE q.copy[i]
       /\ DOMAIN p.made = {new[i] : i \in S} \cup DOMAIN q.made
       /\ \A n \in DOMAIN p.made \ {new[i] : i \in S} : p.made[n] = q.made[n]
       /\ \A i \in S : p.made[new[i]] = CopyOf(i, r)

LEMMA CopiesState ==
    ASSUME Typed, NEW r \in Requests, Copies(r)
    PROVE  \E new : Copied(r, new, RowsOf(req[r].scen, Tables[req[r].stage]))
<1> DEFINE q == req[r]
           S == RowsOf(q.scen, Tables[q.stage])
<1>1. PICK new :
         /\ Numbers(new, S)
         /\ req'[r] = [q EXCEPT !.stage = @ + 1, !.copy = Over(new, @),
                                !.made = Over([n \in {new[i] : i \in S} |-> req'[r].made[n]], @)]
         /\ \A i \in S : req'[r].made[new[i]] = CopyOf(i, r)
  BY CopiesNumber
<1>2. CloneShape(q)
  BY CallKinds DEF Copies, Typed
<1> HIDE DEF S
<1> DEFINE p == req'[r]
           made == [n \in {new[i] : i \in S} |-> p.made[n]]
<1>3. p = Open(q.scen, q.dst, q.stage + 1, Over(new, q.copy), Over(made, q.made), q.drawn)
  <2>1. p = [q EXCEPT !.stage = q.stage + 1, !.copy = Over(new, q.copy),
                      !.made = Over(made, q.made)]
    BY <1>1
  <2> HIDE DEF p, q, made
  <2>2. q = Open(q.scen, q.dst, q.stage, q.copy, q.made, q.drawn)
    BY <1>2 DEF CloneShape, Open
  <2> QED BY <2>1, <2>2, CopyStep
<1>4. /\ p.copy = Over(new, q.copy) /\ p.made = Over(made, q.made)
      /\ p = Open(q.scen, q.dst, q.stage + 1, p.copy, p.made, q.drawn)
  <2> HIDE DEF p
  <2> QED BY <1>3 DEF Open
<1>5. /\ DOMAIN p.copy = S \cup DOMAIN q.copy
      /\ \A i \in DOMAIN p.copy : p.copy[i] = IF i \in S THEN new[i] ELSE q.copy[i]
  BY <1>1, <1>4 DEF Over, Numbers
<1>6. /\ DOMAIN p.made = {new[i] : i \in S} \cup DOMAIN q.made
      /\ \A n \in DOMAIN p.made \ {new[i] : i \in S} : p.made[n] = q.made[n]
  BY <1>4 DEF Over
<1> QED BY <1>1, <1>4, <1>5, <1>6 DEF Copied, S

LEMMA CopiesTyped ==
    ASSUME Typed, Track, NEW r \in Requests, Handle(r), Copies(r)
    PROVE  Typed'
<1> DEFINE q == req[r]
           p == req'[r]
           S == RowsOf(q.scen, Tables[q.stage])
<1>1. PICK new : Copied(r, new, S)
  BY CopiesState
<1>2. CloneOK(q) /\ CloneShape(q)
  BY CallKinds DEF Copies, Typed
<1>3. next' \in Nat /\ next <= next' /\ next' <= MaxId + 1
  <2>1. Cardinality(S) \in Nat
    BY RowsFinite, FS_CardinalityType
  <2>2. next' = next + Cardinality(S) /\ next' <= MaxId + 1
    BY DEF Copies, CopyRows, Taking
  <2> HIDE DEF S
  <2> QED BY <2>1, <2>2, NextIds
<1>4. StoreOK'
  <2>1. 1 .. next - 1 \subseteq 1 .. next' - 1 /\ next' \in 1 .. MaxId + 1
    BY <1>3, NextIds
  <2> QED BY <2>1, TrackTyped DEF Copies, CopyRows, Typed, StoreOK, tables, schema, Live
<1>5. S \subseteq Live /\ S \subseteq 1 .. next - 1
  BY DEF RowsOf, Typed, StoreOK
<1>6. q.stage \in 1 .. 4
  BY DEF Copies, CopyRows
<1> HIDE DEF S
<1>7. CallOK(r)'
  <2>1. \A n \in DOMAIN p.made : p.made[n] \in Row
    <3>1. \A i \in S : p.made[new[i]] \in Row
      BY <1>1, <1>5, CopyTyped DEF Copied, Copies
    <3> QED BY <1>1, <1>2, <3>1 DEF CloneOK, Copied
  <2>2. 1 .. next - 1 \subseteq 1 .. next' - 1 /\ next .. next' - 1 \subseteq 1 .. next' - 1
        /\ 1 .. next - 1 \subseteq Ids
    BY <1>3, NextIds
  <2>3. DOMAIN p.copy \subseteq Ids /\ DOMAIN p.copy \subseteq 1 .. next' - 1
    BY <1>1, <1>2, <1>5, <2>2 DEF CloneOK, CloneShape, Copied
  <2>4. DOMAIN p.made \subseteq 1 .. next' - 1
    BY <1>1, <1>2, <2>2 DEF CloneOK, Numbers, Copied
  <2>5. \A i \in DOMAIN p.copy : p.copy[i] \in DOMAIN p.made
    BY <1>1, <1>2 DEF CloneOK, Copied
  <2>6. p = Open(q.scen, q.dst, q.stage + 1, p.copy, p.made, q.drawn)
    BY <1>1 DEF Copied
  <2>7. /\ p.do = "clone" /\ p.scen = q.scen /\ p.dst = q.dst /\ p.stage = q.stage + 1
        /\ p.drawn = q.drawn
        /\ p = [do |-> "clone", scen |-> p.scen, dst |-> p.dst, stage |-> p.stage,
                copy |-> p.copy, made |-> p.made, drawn |-> p.drawn]
    <3> HIDE DEF p, q
    <3> QED BY <2>6 DEF Open
  <2>8. p.dst \in Scenarios /\ p.stage \in 1 .. 8 /\ p.drawn \subseteq Cell /\ p.scen \in Scenarios
    BY <1>2, <1>6, <2>7 DEF CloneOK, CloneShape
  <2> QED BY <2>1, <2>3, <2>4, <2>5, <2>7, <2>8 DEF CallOK, CloneOK, CloneShape, Busy
<1> QED BY <1>3, <1>4, <1>7, RequestTyped DEF Copies, CopyRows, Busy

LEMMA JoinsTyped ==
    ASSUME Typed, Track, NEW r \in Requests, Handle(r), Joins(r) \/ Commits(r)
    PROVE  Typed'
<1> DEFINE q == req[r]
<1>1. CloneOK(q) /\ CloneShape(q)
  BY CallKinds DEF Joins, Commits, Typed
<1>2. CASE Joins(r)
  <2> DEFINE C == CellsOf(q.scen, Matrices[q.stage - 4])
  <2>1. StoreOK'
    BY <1>2, TrackTyped DEF Joins, CopyCells, Typed, StoreOK, tables, schema, Live
  <2>2. /\ q.stage \in 5 .. 7 /\ next' = next
        /\ req'[r] = [q EXCEPT !.stage = @ + 1,
                               !.drawn = @ \cup {Remap(q.copy, c, q.dst) : c \in C}]
        /\ \A c \in C : c.product \in DOMAIN q.copy /\ c.item \in DOMAIN q.copy
    BY <1>2 DEF Joins, CopyCells, Goes, Typed
  <2> HIDE DEF C
  <2>3. \A c \in C : Remap(q.copy, c, q.dst) \in Cell
    <3>1. \A i \in DOMAIN q.copy : q.copy[i] \in Ids
      BY <1>1, NextIds DEF CloneOK
    <3> QED BY <1>1, <2>2, <3>1 DEF Remap, Cell, CloneOK
  <2>4. CallOK(r)'
    <3> DEFINE p == req'[r]
    <3>0. p = Open(q.scen, q.dst, q.stage + 1, q.copy, q.made,
                   q.drawn \cup {Remap(q.copy, c, q.dst) : c \in C})
      <4> HIDE DEF q, C
      <4>1. q = Open(q.scen, q.dst, q.stage, q.copy, q.made, q.drawn)
        BY <1>1 DEF CloneShape, Open
      <4>2. p = [q EXCEPT !.stage = q.stage + 1,
                          !.drawn = q.drawn \cup {Remap(q.copy, c, q.dst) : c \in C}]
        BY <2>2
      <4> QED BY <4>1, <4>2, JoinStep
    <3>1. /\ p.do = "clone" /\ p.scen = q.scen /\ p.dst = q.dst /\ p.stage = q.stage + 1
          /\ p.drawn = q.drawn \cup {Remap(q.copy, c, q.dst) : c \in C}
          /\ p.copy = q.copy /\ p.made = q.made
          /\ p = [do |-> "clone", scen |-> p.scen, dst |-> p.dst, stage |-> p.stage,
                  copy |-> p.copy, made |-> p.made, drawn |-> p.drawn]
      <4> HIDE DEF p
      <4> QED BY <3>0 DEF Open
    <3>2. p.drawn \subseteq Cell /\ p.stage \in 1 .. 8
      BY <1>1, <2>2, <2>3, <3>1 DEF CloneOK
    <3> HIDE DEF p
    <3>3. /\ p.dst \in Scenarios /\ p.scen \in Scenarios
          /\ DOMAIN p.copy \subseteq Ids /\ DOMAIN p.copy \subseteq 1 .. next' - 1
          /\ DOMAIN p.made \subseteq 1 .. next' - 1
          /\ \A i \in DOMAIN p.copy : p.copy[i] \in DOMAIN p.made
          /\ \A n \in DOMAIN p.made : p.made[n] \in Row
      BY <1>1, <2>2, <3>1 DEF CloneOK, CloneShape
    <3> QED BY <3>1, <3>2, <3>3 DEF p, CallOK, CloneOK, CloneShape, Busy
  <2> QED BY <1>2, <2>1, <2>2, <2>4, RequestTyped DEF Joins, CopyCells, Busy, Typed, StoreOK
<1>3. CASE Commits(r)
  <2>1. CallOK(r)'
    BY <1>3 DEF Commits, Commit, Ends, Goes, Typed, CallOK, Calls, Idle, Busy
  <2>2. /\ Live' = DOMAIN q.made \cup Live
        /\ \A i \in Live' : rows'[i] = IF i \in DOMAIN q.made THEN q.made[i] ELSE rows[i]
    BY <1>3 DEF Commits, Commit, Over, Live
  <2>3. status' \in [Scenarios -> {"unborn", "draft", "frozen", "gone"}]
    BY <1>1, <1>3 DEF Commits, Commit, Typed, StoreOK, CloneOK
  <2>4. StoreOK'
    BY <1>1, <1>3, <2>2, <2>3, TrackTyped DEF Commits, Commit, Typed, StoreOK, CloneOK, schema
  <2> QED BY <1>3, <2>1, <2>4, RequestTyped DEF Commits, Commit, Busy, Typed, StoreOK
<1> QED BY <1>2, <1>3

LEMMA HandleTyped ==
    ASSUME Typed, Track, NEW r \in Requests, Handle(r)
    PROVE  Typed'
  BY HandleSteps, TypedTypes, AdmitTyped, BeginTyped, LookTyped, WriteTyped, CopiesTyped,
     JoinsTyped

LEMMA SeedTyped ==
    ASSUME Typed, Track, Seed
    PROVE  Typed'
<1>1. /\ Len(Sheet) \in Nat /\ \A i \in Lines : Sheet[i] \in Kinds
      /\ MaxId \in Nat /\ Len(Sheet) <= MaxId
  BY SheetAssumption, BoundAssumption DEF Lines
<1>2. Lines \subseteq Ids
  BY <1>1 DEF Lines, Ids
<1>3. 1 \in Scenarios
  BY BoundAssumption DEF Scenarios
<1>4. /\ Live' = Lines
      /\ \A i \in Lines : rows'[i] = [kind |-> Sheet[i], scen |-> 1, root |-> NoRoot, val |-> 0]
  BY DEF Seed, Live
<1>5. \A i \in Lines : rows'[i] \in Row
  <2> SUFFICES ASSUME NEW i \in Lines PROVE rows'[i] \in Row
    OBVIOUS
  <2>1. Sheet[i] \in Kinds /\ 0 \in Values /\ NoRoot \in Ids \cup {NoRoot}
    BY <1>1 DEF Values
  <2>2. [kind |-> Sheet[i], scen |-> 1, root |-> NoRoot, val |-> 0] \in Row
    BY <1>3, <2>1 DEF Row
  <2> QED BY <1>4, <2>2
<1>6. next' \in 1 .. MaxId + 1 /\ Live' \subseteq 1 .. next' - 1
  BY <1>1, <1>4 DEF Seed, Lines
<1>7. cells' \subseteq Cell
  BY <1>2, <1>3 DEF Seed, Cell, Entries
<1>8. status' \in [Scenarios -> {"unborn", "draft", "frozen", "gone"}]
  BY DEF Seed, Typed, StoreOK
<1>9. arrivals' = 1 /\ arrivals' \in 0 .. MaxArrivals + 1
  BY BoundAssumption DEF Seed
<1>10. StoreOK'
  BY <1>4, <1>5, <1>6, <1>7, <1>8, <1>9, TrackTyped DEF Seed, Typed, StoreOK, schema
<1>11. \A r \in Requests : CallOK(r)'
  BY DEF Seed, Typed, CallOK, Calls, Busy, Idle
<1> QED BY <1>9, <1>10, <1>11 DEF Typed, Seed

LEMMA MatrixItems == \A n \in 1 .. 3 : Matrices[n] \in Items
  BY DEF Matrices, Items

\* A step of no request.
Aside == \/ Connect \/ ensureRecipeCompositeFK
         \/ \E s \in Scenarios : CreateScenario(s) \/ DeleteScenario(s) \/ Restatus(s)

LEMMA AsideTyped ==
    ASSUME Typed, Track, Aside
    PROVE  Typed'
<1>1. UNCHANGED <<req, next>>
  BY DEF Aside, Connect, ensureRecipeCompositeFK, CreateScenario, DeleteScenario, Restatus
<1>2. \A r \in Requests : CallOK(r)'
  BY <1>1 DEF Typed, CallOK, CloneOK, CloneShape, Busy
<1>3. \/ arrivals' = arrivals + 1 /\ arrivals < MaxArrivals
      \/ UNCHANGED arrivals
  BY DEF Aside, Connect, ensureRecipeCompositeFK, CreateScenario, DeleteScenario, Restatus,
         Arrives
<1>4. arrivals' \in 0 .. MaxArrivals + 1 /\ (arrivals' = 0 => arrivals = 0)
  BY <1>3, BoundAssumption DEF Typed, StoreOK
<1>5. StoreOK'
  <2>1. CASE Connect
    BY <1>4, <2>1, TrackTyped DEF Connect, Typed, StoreOK, tables, Live
  <2>2. CASE ensureRecipeCompositeFK
    <3>1. keyed' \subseteq Items
      BY <2>2, MatrixItems DEF ensureRecipeCompositeFK, Typed, StoreOK
    <3>2. mig' \in 0 .. 7
      BY <2>2 DEF ensureRecipeCompositeFK, Typed, StoreOK
    <3> QED BY <1>4, <2>2, <3>1, <3>2, TrackTyped
            DEF ensureRecipeCompositeFK, Typed, StoreOK, tables, Live
  <2>3. ASSUME NEW s \in Scenarios, CreateScenario(s) \/ Restatus(s)
        PROVE  StoreOK'
    BY <1>1, <1>4, <2>3, TrackTyped DEF CreateScenario, Restatus, Typed, StoreOK, schema, Live
  <2>4. ASSUME NEW s \in Scenarios, DeleteScenario(s)
        PROVE  StoreOK'
    BY <1>1, <1>4, <2>4, EraseTyped, TrackTyped DEF DeleteScenario, Typed, StoreOK, schema
  <2> QED BY <2>1, <2>2, <2>3, <2>4 DEF Aside
<1> QED BY <1>1, <1>2, <1>4, <1>5 DEF Typed

LEMMA NextParts == Next <=> Track /\ (Seed \/ Aside \/ \E r \in Requests : Handle(r))
  BY DEF Next, Step, Aside

LEMMA NextTyped == Typed /\ [Next]_vars => Typed'
<1> SUFFICES ASSUME Typed, [Next]_vars PROVE Typed'
  OBVIOUS
<1>1. CASE UNCHANGED vars
  BY <1>1 DEF vars, tables, schema, Typed, StoreOK, CallOK, CloneOK, CloneShape, Busy, Live
<1> QED BY <1>1, NextParts, SeedTyped, AsideTyped, HandleTyped

\* Every request, row, cell and id is of its type, however requests overlap: no id
\* is used that the sequence of the database has not given.
THEOREM CatalogTyped == Spec => []TypeOK
<1>1. Init => Typed
  BY InitTyped
<1>2. Typed /\ [Next]_vars => Typed'
  BY NextTyped
<1>3. Typed => TypeOK
  BY TypedTypes
<1> QED BY <1>1, <1>2, <1>3, PTL DEF Spec

-----------------------------------------------------------------------------
(* An id is of one table and of one scenario for ever.  Rows are deleted and    *)
(* inserted again, and requests hold copies of them; whoever holds an id agrees *)
(* with all the others.                                                        *)

Held(r, i, k, s) ==
    \/ Busy(r, "save") /\ req[r].id = i /\ req[r].row.kind = k /\ req[r].row.scen = s
    \/ /\ Busy(r, "put") \/ Busy(r, "drop")
       /\ req[r].product = i /\ k = "product" /\ req[r].scen = s
    \/ /\ Busy(r, "clone") /\ i \in DOMAIN req[r].made
       /\ req[r].made[i].kind = k /\ req[r].made[i].scen = s
    \/ /\ Busy(r, "clone") /\ i \in DOMAIN req[r].copy
       /\ req[r].made[req[r].copy[i]].kind = k /\ req[r].scen = s

Stored(i, k, s) == i \in Live /\ rows[i].kind = k /\ rows[i].scen = s

Says(i, k, s) == Stored(i, k, s) \/ \E r \in Requests : Held(r, i, k, s)

Agreed == \A i, k, s, l, t : Says(i, k, s) /\ Says(i, l, t) => k = l /\ s = t

\* What a clone is about to write joins rows it is about to write.
Drawn(r) ==
    Busy(r, "clone") =>
       /\ \A n \in DOMAIN req[r].made : req[r].made[n].scen = req[r].dst
       /\ \A c \in req[r].drawn : /\ {c.product, c.item} \subseteq DOMAIN req[r].made
                                  /\ req[r].made[c.product].kind = "product"
                                  /\ req[r].made[c.item].kind \in Items
                                  /\ c.scen = req[r].dst

LEMMA OldIds ==
    ASSUME Typed, NEW i, NEW k, NEW s, Says(i, k, s)
    PROVE  i \in 1 .. next - 1
<1>1. CASE Stored(i, k, s)
  BY <1>1 DEF Typed, StoreOK, Stored
<1>2. ASSUME NEW r \in Requests, Held(r, i, k, s)
      PROVE  i \in 1 .. next - 1
  <2>1. CallOK(r)
    BY DEF Typed
  <2> QED BY <1>2, <2>1, CallKinds DEF CallOK, Held, Busy, CloneOK, CloneShape
<1> QED BY <1>1, <1>2 DEF Says

\* A step after which nobody says anything new of an id that was given before.
NothingNew == \A i, k, s : Says(i, k, s)' /\ i \in 1 .. next - 1 => Says(i, k, s)

LEMMA AgreedStays ==
    ASSUME Agreed,
           \A i, k, s : Says(i, k, s)' => Says(i, k, s)
    PROVE  Agreed' /\ NothingNew
  BY DEF Agreed, NothingNew

\* A request step in which only that request, or the store, says what is said.
LEMMA AgreedStep ==
    ASSUME Typed, Agreed, NEW r \in Requests, Handle(r),
           \A i, k, s : Stored(i, k, s)' => Says(i, k, s),
           \A i, k, s : Held(r, i, k, s)' => Says(i, k, s)
    PROVE  Agreed' /\ NothingNew
<1>1. ASSUME NEW p \in Requests, p # r, NEW i, NEW k, NEW s, Held(p, i, k, s)'
      PROVE  Held(p, i, k, s)
  BY <1>1, OnlyOne DEF Held, Busy
<1> QED BY <1>1, AgreedStays DEF Says

LEMMA IdleHolds ==
    ASSUME Typed, NEW r \in Requests, Ends(r), NEW i, NEW k, NEW s
    PROVE  ~Held(r, i, k, s)'
  BY DEF Ends, Goes, Held, Busy, Idle, Typed

LEMMA EraseSays ==
    ASSUME Typed, NEW D, Erase(D), NEW i, NEW k, NEW s, Stored(i, k, s)'
    PROVE  Stored(i, k, s)
<1>1. i \in Live /\ rows'[i] = Unlinked(rows[i], D)
  BY DEF Erase, Live, Stored
<1>2. rows[i] \in Row
  BY <1>1 DEF Typed, StoreOK
<1> QED BY <1>1, <1>2 DEF Stored, Unlinked, Row

\* What a clone holds after CopyCells.
LEMMA JoinsState ==
    ASSUME Typed, NEW r \in Requests, Joins(r)
    PROVE  /\ req'[r].do = "clone" /\ req'[r].scen = req[r].scen /\ req'[r].dst = req[r].dst
           /\ req'[r].stage = req[r].stage + 1
           /\ req'[r].copy = req[r].copy /\ req'[r].made = req[r].made
           /\ req'[r].drawn = req[r].drawn
                 \cup {Remap(req[r].copy, c, req[r].dst) :
                        c \in CellsOf(req[r].scen, Matrices[req[r].stage - 4])}
<1> DEFINE q == req[r]
           new == {Remap(q.copy, c, q.dst) : c \in CellsOf(q.scen, Matrices[q.stage - 4])}
<1>1. CloneShape(q)
  BY CallKinds DEF Joins, Typed
<1>2. req'[r] = [q EXCEPT !.stage = @ + 1, !.drawn = @ \cup new]
  BY DEF Joins, CopyCells, Goes, Typed
<1> HIDE DEF new
<1>3. /\ req'[r].do = "clone" /\ req'[r].scen = q.scen /\ req'[r].dst = q.dst
      /\ req'[r].stage = q.stage + 1 /\ req'[r].copy = q.copy /\ req'[r].made = q.made
      /\ req'[r].drawn = q.drawn \cup new
  BY <1>1, <1>2 DEF CloneShape
<1> QED BY <1>3 DEF new

LEMMA HandleAgreed ==
    ASSUME Typed, Agreed, NEW r \in Requests, Handle(r), ~Inserts(r), ~Copies(r)
    PROVE  Agreed' /\ NothingNew
<1> USE TypedTypes
<1>0. CallOK(r)
  BY DEF Typed
<1>1. CASE Admission(r)
  <2>1. \A i, k, s : ~Held(r, i, k, s)'
    BY <1>1 DEF Admission, Goes, Held, Busy, Fresh, Typed
  <2> QED BY <1>1, <2>1, AgreedStep DEF Admission, Quiet, tables, Stored, Says, Live
<1>2. CASE Begins(r)
  <2>1. \A i, k, s : ~Held(r, i, k, s)'
    BY <1>2 DEF Begins, BeginClone, Goes, Held, Busy, Typed
  <2> QED BY <1>2, <2>1, AgreedStep DEF Begins, BeginClone, tables, Stored, Says, Live
<1>3. CASE Fetches(r)
  <2>1. \A i, k, s : Held(r, i, k, s)' => Stored(i, k, s)
    BY <1>3 DEF Fetches, Fetch, Goes, Held, Busy, Stored, RowsOf, Typed
  <2> QED BY <1>3, <2>1, AgreedStep DEF Fetches, Fetch, tables, Stored, Says, Live
<1>4. CASE Looks(r)
  <2>1. \A i, k, s : Held(r, i, k, s)' => Stored(i, k, s)
    BY <1>4 DEF Looks, Look, Counted, Goes, Held, Busy, Stored, RowsOf, Typed
  <2> QED BY <1>4, <2>1, AgreedStep DEF Looks, Look, tables, Stored, Says, Live
<1>5. CASE Puts(r) \/ Drops(r) \/ Fail(r)
  <2>1. Ends(r) /\ UNCHANGED rows
    BY <1>5 DEF Puts, Put, Drops, Fail, tables
  <2> QED BY <2>1, IdleHolds, AgreedStep DEF Stored, Says, Live
<1>6. CASE Saves(r)
  <2>1. Ends(r) /\ req[r].row \in Row
    BY <1>0, <1>6, CallKinds DEF Saves, Save
  <2>2. \A i, k, s : Stored(i, k, s)' => Stored(i, k, s) \/ Held(r, i, k, s)
    <3>1. PICK v \in Values : rows' = Over([j \in {req[r].id} |-> [req[r].row EXCEPT !.val = v]], rows)
      BY <1>6 DEF Saves, Save
    <3>2. \A i \in Live' : /\ i \in Live \cup {req[r].id}
                           /\ rows'[i] = IF i = req[r].id THEN [req[r].row EXCEPT !.val = v] ELSE rows[i]
      BY <3>1 DEF Over, Live
    <3>3. /\ [req[r].row EXCEPT !.val = v].kind = req[r].row.kind
          /\ [req[r].row EXCEPT !.val = v].scen = req[r].row.scen
      BY <2>1 DEF Row
    <3> QED BY <1>6, <3>2, <3>3 DEF Stored, Held, Saves
  <2> QED BY <2>1, <2>2, IdleHolds, AgreedStep DEF Says
<1>7. CASE Erases(r)
  <2>1. Ends(r) /\ \A i, k, s : Stored(i, k, s)' => Stored(i, k, s)
    BY <1>7, EraseSays DEF Erases
  <2> QED BY <2>1, IdleHolds, AgreedStep DEF Says
<1>8. CASE Joins(r)
  <2>2. \A i, k, s : Held(r, i, k, s)' => Held(r, i, k, s)
    BY <1>8, JoinsState DEF Joins, Held, Busy
  <2> QED BY <1>8, <2>2, AgreedStep DEF Joins, CopyCells, tables, Stored, Says, Live
<1>9. CASE Commits(r)
  <2>1. Ends(r) /\ \A i, k, s : Stored(i, k, s)' => Stored(i, k, s) \/ Held(r, i, k, s)
    BY <1>9 DEF Commits, Commit, Over, Stored, Held, Live
  <2> QED BY <2>1, IdleHolds, AgreedStep DEF Says
<1> QED BY <1>1, <1>2, <1>3, <1>4, <1>5, <1>6, <1>7, <1>8, <1>9, HandleSteps

\* Something may be said of a new id, if all say the same.
LEMMA AgreedGrows ==
    ASSUME Agreed, NothingNew,
           \A i, k, s, l, t : i \notin 1 .. next - 1 /\ Says(i, k, s)' /\ Says(i, l, t)'
                              => k = l /\ s = t
    PROVE  Agreed'
  BY DEF Agreed, NothingNew

\* What the other requests hold they held before, so of an old id.
LEMMA OthersHold ==
    ASSUME Typed, NEW r \in Requests, Handle(r), NEW p \in Requests \ {r},
           NEW i, NEW k, NEW s, Held(p, i, k, s)'
    PROVE  Says(i, k, s) /\ i \in 1 .. next - 1
<1>1. Held(p, i, k, s)
  BY OnlyOne DEF Held, Busy
<1> QED BY <1>1, OldIds DEF Says

LEMMA InsertAgreed ==
    ASSUME Typed, Agreed, NEW r \in Requests, Handle(r), Inserts(r)
    PROVE  Agreed' /\ NothingNew
<1> DEFINE row == [kind |-> req[r].kind, scen |-> req[r].scen, root |-> NoRoot, val |-> 0]
<1>1. /\ Live' = Live \cup {next}
      /\ \A i \in Live' : rows'[i] = IF i = next THEN row ELSE rows[i]
  BY DEF Inserts, Insert, Over, Live
<1>2. next \notin 1 .. next - 1
  BY NextIds
<1>3. Live \subseteq 1 .. next - 1
  BY NextIds
<1>4. \A i, k, s : ~Held(r, i, k, s)'
  BY IdleHolds DEF Inserts, Insert
<1>5. ASSUME NEW i, NEW k, NEW s, Says(i, k, s)', i # next
      PROVE  Says(i, k, s) /\ i \in 1 .. next - 1
  BY <1>1, <1>3, <1>4, <1>5, OthersHold DEF Says, Stored
<1>6. ASSUME NEW i, NEW k, NEW s, Says(i, k, s)', i \notin 1 .. next - 1
      PROVE  k = row.kind /\ s = row.scen
  <2>1. i = next
    BY <1>5, <1>6
  <2>2. \A p \in Requests : ~Held(p, i, k, s)'
    BY <1>2, <1>4, <2>1, OthersHold
  <2>3. i \in Live' /\ rows'[i].kind = k /\ rows'[i].scen = s
    BY <1>6, <2>2 DEF Says, Stored
  <2>4. rows'[i] = row
    BY <1>1, <2>1, <2>3
  <2> QED BY <2>3, <2>4
<1> HIDE DEF row
<1>7. ASSUME NEW i, NEW k, NEW s, Says(i, k, s)', i \in 1 .. next - 1
      PROVE  Says(i, k, s)
  BY <1>2, <1>5, <1>7
<1> QED BY <1>6, <1>7, AgreedGrows DEF NothingNew

LEMMA CopiesAgreed ==
    ASSUME Typed, Agreed, NEW r \in Requests, Handle(r), Copies(r)
    PROVE  Agreed' /\ NothingNew
<1> DEFINE q == req[r]
           p == req'[r]
           S == RowsOf(q.scen, Tables[q.stage])
<1>1. PICK new : Copied(r, new, S)
  BY CopiesState
<1>2. CloneOK(q) /\ CloneShape(q)
  BY CallKinds DEF Copies, Typed
<1>3. p.do = "clone" /\ p.scen = q.scen
  <2>1. p = Open(q.scen, q.dst, q.stage + 1, p.copy, p.made, q.drawn)
    BY <1>1 DEF Copied
  <2> HIDE DEF p, q
  <2> QED BY <2>1 DEF Open
<1>4. /\ \A n \in DOMAIN q.made : n \in 1 .. next - 1
      /\ \A i \in S : new[i] \notin 1 .. next - 1
      /\ \A i \in DOMAIN p.copy : i \in 1 .. next - 1
  <2>1. S \subseteq 1 .. next - 1
    BY NextIds DEF RowsOf
  <2>2. \A n \in next .. next' - 1 : n \notin 1 .. next - 1
    BY NextIds
  <2> QED BY <1>1, <1>2, <2>1, <2>2 DEF Copied, Numbers, CloneOK, CloneShape
<1>5. \A i \in S : i \in Live /\ rows[i].scen = q.scen
  BY DEF RowsOf
<1> HIDE DEF S
<1>6. ASSUME NEW i, NEW k, NEW s, Held(r, i, k, s)', i \in 1 .. next - 1
      PROVE  Says(i, k, s)
  <2>1. CASE i \in DOMAIN p.made /\ p.made[i].kind = k /\ p.made[i].scen = s
    <3>1. i \in DOMAIN q.made /\ p.made[i] = q.made[i]
      BY <1>1, <1>4, <1>6, <2>1 DEF Copied
    <3> QED BY <2>1, <3>1 DEF Says, Held, Copies
  <2>2. CASE i \in DOMAIN p.copy /\ p.made[p.copy[i]].kind = k /\ p.scen = s
    <3>1. CASE i \in S
      <4>1. p.copy[i] = new[i] /\ p.made[new[i]].kind = rows[i].kind
        BY <1>1, <1>5, <2>2, <3>1, CopyTyped DEF Copied, Copies
      <4> QED BY <1>3, <1>5, <2>2, <3>1, <4>1 DEF Says, Stored
    <3>2. CASE i \notin S
      <4>1. i \in DOMAIN q.copy /\ p.copy[i] = q.copy[i] /\ q.copy[i] \in DOMAIN q.made
        BY <1>1, <1>2, <2>2, <3>2 DEF Copied, CloneOK
      <4>2. p.made[q.copy[i]] = q.made[q.copy[i]]
        BY <1>1, <1>4, <4>1 DEF Copied
      <4> QED BY <1>3, <2>2, <4>1, <4>2 DEF Says, Held, Copies
    <3> QED BY <3>1, <3>2
  <2> QED BY <1>3, <1>6, <2>1, <2>2 DEF Held, Busy
<1>7. ASSUME NEW i, NEW k, NEW s, Held(r, i, k, s)', i \notin 1 .. next - 1
      PROVE  k = p.made[i].kind /\ s = p.made[i].scen
  BY <1>3, <1>4, <1>7 DEF Held, Busy
<1>8. \A i, k, s : Stored(i, k, s)' => Stored(i, k, s) /\ i \in 1 .. next - 1
  BY NextIds DEF Copies, CopyRows, tables, Stored, Live
<1>9. ASSUME NEW i, NEW k, NEW s, Says(i, k, s)', i \in 1 .. next - 1
      PROVE  Says(i, k, s)
  BY <1>6, <1>8, <1>9, OthersHold DEF Says
<1>10. ASSUME NEW i, NEW k, NEW s, Says(i, k, s)', i \notin 1 .. next - 1
       PROVE  k = p.made[i].kind /\ s = p.made[i].scen
  BY <1>7, <1>8, <1>10, OthersHold DEF Says
<1> QED BY <1>9, <1>10, AgreedGrows DEF NothingNew

LEMMA SeedAgreed ==
    ASSUME Typed, Seed
    PROVE  Agreed'
<1>1. \A r \in Requests : \A i, k, s : ~Held(r, i, k, s)'
  BY DEF Seed, Typed, Held, Busy, Idle
<1> QED BY <1>1 DEF Agreed, Says, Stored

LEMMA AsideAgreed ==
    ASSUME Typed, Agreed, Aside
    PROVE  Agreed' /\ NothingNew
<1>1. UNCHANGED req
  BY DEF Aside, Connect, ensureRecipeCompositeFK, CreateScenario, DeleteScenario, Restatus
<1>2. UNCHANGED rows \/ \E D : Erase(D)
  BY DEF Aside, Connect, ensureRecipeCompositeFK, CreateScenario, DeleteScenario, Restatus,
         tables
<1>3. \A i, k, s : Stored(i, k, s)' => Stored(i, k, s)
  BY <1>2, EraseSays DEF Stored, Live
<1> QED BY <1>1, <1>3, AgreedStays DEF Says, Held, Busy

LEMMA NextAgreed == Typed /\ Agreed /\ [Next]_vars => Agreed'
<1> SUFFICES ASSUME Typed, Agreed, [Next]_vars PROVE Agreed'
  OBVIOUS
<1>1. CASE UNCHANGED vars
  <2>1. UNCHANGED <<rows, req>>
    BY <1>1 DEF vars, tables
  <2>2. \A i, k, s : Stored(i, k, s)' <=> Stored(i, k, s)
    BY <2>1 DEF Stored, Live
  <2>3. \A r, i, k, s : Held(r, i, k, s)' <=> Held(r, i, k, s)
    BY <2>1 DEF Held, Busy
  <2> QED BY <2>2, <2>3 DEF Agreed, Says
<1> QED BY <1>1, NextParts, SeedAgreed, AsideAgreed, InsertAgreed, CopiesAgreed, HandleAgreed

-----------------------------------------------------------------------------
(* The cells.                                                                 *)

CellsSound == CellsAgree /\ \A c \in cells : rows[c.item].kind \in Items

\* The row of an id that stays, or comes back, is of the same table and scenario.
SameRow(i) == i \in Live' /\ rows'[i].kind = rows[i].kind /\ rows'[i].scen = rows[i].scen

LEMMA CellsStay ==
    ASSUME CellsSound, keyed' \subseteq keyed,
           \A c \in cells' : c \in cells /\ SameRow(c.product) /\ SameRow(c.item)
    PROVE  CellsSound'
  BY DEF CellsSound, CellsAgree, SameRow

LEMMA EraseCells ==
    ASSUME Typed, CellsSound, UNCHANGED keyed, NEW D, Erase(D)
    PROVE  CellsSound'
<1>1. \A i \in Live : i \notin D => i \in Live' /\ rows'[i] = Unlinked(rows[i], D)
  BY DEF Erase, Live
<1>2. \A i \in Live : i \notin D => SameRow(i)
  BY <1>1 DEF SameRow, Unlinked, Typed, StoreOK, Row
<1> QED BY <1>2, CellsStay DEF Erase, CellsSound, CellsAgree

LEMMA SaveCells ==
    ASSUME Typed, Agreed, CellsSound, NEW r \in Requests, Saves(r)
    PROVE  CellsSound'
<1>1. PICK v \in Values : rows' = Over([j \in {req[r].id} |-> [req[r].row EXCEPT !.val = v]], rows)
  BY DEF Saves, Save
<1>2. req[r].row \in Row
  BY CallKinds DEF Saves, Typed
<1>3. /\ [req[r].row EXCEPT !.val = v].kind = req[r].row.kind
      /\ [req[r].row EXCEPT !.val = v].scen = req[r].row.scen
  BY <1>2 DEF Row
<1>4. \A i \in Live : i \in Live'
                      /\ rows'[i] = IF i = req[r].id THEN [req[r].row EXCEPT !.val = v] ELSE rows[i]
  BY <1>1 DEF Over, Live
<1>5. ASSUME req[r].id \in Live
      PROVE  req[r].row.kind = rows[req[r].id].kind /\ req[r].row.scen = rows[req[r].id].scen
  <2>1. Says(req[r].id, req[r].row.kind, req[r].row.scen)
    BY DEF Says, Held, Saves
  <2>2. Says(req[r].id, rows[req[r].id].kind, rows[req[r].id].scen)
    BY <1>5 DEF Says, Stored
  <2> QED BY <2>1, <2>2 DEF Agreed
<1>6. \A i \in Live : SameRow(i)
  BY <1>3, <1>4, <1>5 DEF SameRow
<1> QED BY <1>6, CellsStay DEF Saves, Save, schema, CellsSound, CellsAgree

LEMMA PutCells ==
    ASSUME Typed, Agreed, CellsSound, NEW r \in Requests, Puts(r)
    PROVE  CellsSound'
<1>1. UNCHANGED <<rows, keyed>>
  BY DEF Puts, Put, schema
<1>2. CASE UNCHANGED cells
  BY <1>1, <1>2 DEF CellsSound, CellsAgree, Live
<1>3. CASE Referenced(Cited(r), req[r].kind) /\ cells' = cells \cup {Cited(r)}
  <2> DEFINE c == Cited(r)
  <2>1. c.product = req[r].product /\ c.item = req[r].item /\ c.scen = req[r].scen
    BY DEF Cited
  <2>2. /\ c.product \in Live /\ rows[c.product].kind = "product"
        /\ c.item \in Live /\ rows[c.item].kind = req[r].kind
        /\ req[r].kind \in keyed => rows[c.item].scen = c.scen
    BY <1>3 DEF Referenced, SameScenario
  <2>7. req[r].kind \in Items
    BY CallKinds DEF Typed, Puts
  <2>3. Says(c.product, "product", c.scen)
    BY <2>1 DEF Says, Held, Puts
  <2>4. Says(c.product, rows[c.product].kind, rows[c.product].scen)
    BY <2>2 DEF Says, Stored
  <2>5. rows[c.product].scen = c.scen
    BY <2>3, <2>4 DEF Agreed
  <2> HIDE DEF c
  <2>6. cells' = cells \cup {c}
    BY <1>3 DEF c
  <2> QED BY <1>1, <2>2, <2>5, <2>6, <2>7 DEF CellsSound, CellsAgree, Live
<1> QED BY <1>2, <1>3 DEF Puts, Put

LEMMA CommitCells ==
    ASSUME Typed, Agreed, CellsSound, NEW r \in Requests, Drawn(r), Commits(r)
    PROVE  CellsSound'
<1> DEFINE made == req[r].made
<1>1. /\ \A i \in Live \cup DOMAIN made :
              i \in Live' /\ rows'[i] = IF i \in DOMAIN made THEN made[i] ELSE rows[i]
      /\ cells' = cells \cup req[r].drawn /\ UNCHANGED keyed
  BY DEF Commits, Commit, Over, Live, schema
<1>2. ASSUME NEW i \in Live
      PROVE  SameRow(i)
  <2>1. CASE i \in DOMAIN made
    <3>1. Says(i, made[i].kind, made[i].scen)
      BY <2>1 DEF Says, Held, Commits
    <3>2. Says(i, rows[i].kind, rows[i].scen)
      BY <1>2 DEF Says, Stored
    <3>3. made[i].kind = rows[i].kind /\ made[i].scen = rows[i].scen
      BY <3>1, <3>2 DEF Agreed
    <3> QED BY <1>1, <2>1, <3>3 DEF SameRow
  <2>2. CASE i \notin DOMAIN made
    BY <1>1, <2>2 DEF SameRow
  <2> QED BY <2>1, <2>2
<1>3. ASSUME NEW c \in req[r].drawn
      PROVE  /\ {c.product, c.item} \subseteq Live'
             /\ rows'[c.product].kind = "product" /\ rows'[c.product].scen = c.scen
             /\ rows'[c.item].scen = c.scen /\ rows'[c.item].kind \in Items
  BY <1>1, <1>3 DEF Drawn, Commits
<1> QED BY <1>1, <1>2, <1>3 DEF CellsSound, CellsAgree, SameRow

LEMMA HandleCells ==
    ASSUME Typed, Agreed, CellsSound, NEW r \in Requests, Drawn(r), Handle(r)
    PROVE  CellsSound'
<1>1. CASE Admission(r) \/ Begins(r) \/ Fetches(r) \/ Looks(r) \/ Copies(r) \/ Joins(r) \/ Fail(r)
  BY <1>1 DEF Admission, Quiet, Begins, BeginClone, Fetches, Fetch, Looks, Look, Copies,
              CopyRows, Joins, CopyCells, Fail, tables, schema, CellsSound, CellsAgree, Live
<1>2. CASE Inserts(r)
  <2>1. /\ \A i \in Live : i \in Live' /\ (i # next => rows'[i] = rows[i])
        /\ next \notin Live
    BY <1>2, NextIds DEF Inserts, Insert, Over, Live
  <2> QED BY <1>2, <2>1, CellsStay DEF Inserts, Insert, schema, CellsSound, CellsAgree, SameRow
<1>3. CASE Drops(r)
  BY <1>3, CellsStay DEF Drops, schema, CellsSound, CellsAgree, SameRow, Live
<1>4. CASE Erases(r)
  BY <1>4, EraseCells DEF Erases, schema
<1> QED BY <1>1, <1>2, <1>3, <1>4, SaveCells, PutCells, CommitCells, HandleSteps, TypedTypes

LEMMA SeedCells ==
    ASSUME Typed, Seed
    PROVE  CellsSound'
<1>1. /\ Live' = Lines
      /\ \A i \in Lines : rows'[i].kind = Sheet[i] /\ rows'[i].scen = 1
  BY DEF Seed, Live
<1>2. \A c \in cells' : /\ c.scen = 1 /\ c.product \in Lines /\ c.item \in Lines
                        /\ Sheet[c.product] = "product" /\ Sheet[c.item] \in Items
  <2>1. \A i \in Lines : Sheet[i] # "product" => Sheet[i] \in Items
    BY SheetAssumption DEF Lines, Kinds, Items
  <2> QED BY <2>1 DEF Seed, Entries
<1> QED BY <1>1, <1>2 DEF CellsSound, CellsAgree

LEMMA AsideCells ==
    ASSUME Typed, CellsSound, Aside
    PROVE  CellsSound'
<1>1. CASE ensureRecipeCompositeFK
  <2>1. UNCHANGED <<rows, cells>>
    BY <1>1 DEF ensureRecipeCompositeFK, tables
  <2>2. CASE keyed' \subseteq keyed
    BY <2>1, <2>2 DEF CellsSound, CellsAgree, Live
  <2>3. ASSUME NEW k, keyed' = keyed \cup {k},
               {c \in cells : rows[c.item].kind = k /\ rows[c.item].scen # c.scen} = {}
        PROVE  CellsSound'
    BY <2>1, <2>3 DEF CellsSound, CellsAgree, Live
  <2> QED BY <1>1, <2>2, <2>3 DEF ensureRecipeCompositeFK
<1>2. CASE Connect
  BY <1>2 DEF Connect, tables, CellsSound, CellsAgree, Live
<1>3. ASSUME NEW s \in Scenarios, CreateScenario(s) \/ Restatus(s)
      PROVE  CellsSound'
  BY <1>3 DEF CreateScenario, Restatus, schema, CellsSound, CellsAgree, Live
<1>4. ASSUME NEW s \in Scenarios, DeleteScenario(s)
      PROVE  CellsSound'
  BY <1>4, EraseCells DEF DeleteScenario, schema
<1> QED BY <1>1, <1>2, <1>3, <1>4 DEF Aside

LEMMA CopiesDrawn ==
    ASSUME Typed, NEW r \in Requests, Drawn(r), Copies(r)
    PROVE  Drawn(r)'
<1> DEFINE q == req[r]
           p == req'[r]
           S == RowsOf(q.scen, Tables[q.stage])
<1>1. PICK new : Copied(r, new, S)
  BY CopiesState
<1>2. p.dst = q.dst /\ p.drawn = q.drawn
  <2>1. p = Open(q.scen, q.dst, q.stage + 1, p.copy, p.made, q.drawn)
    BY <1>1 DEF Copied
  <2> HIDE DEF p, q
  <2> QED BY <2>1 DEF Open
<1>3. \A n \in DOMAIN q.made : n \in DOMAIN p.made /\ p.made[n] = q.made[n]
  <2>1. \A n \in DOMAIN q.made : n \in 1 .. next - 1
    BY CallKinds DEF Copies, Typed, CloneOK
  <2>2. \A n \in next .. next' - 1 : n \notin 1 .. next - 1
    BY NextIds
  <2> QED BY <1>1, <2>1, <2>2 DEF Copied, Numbers
<1>4. \A i \in S : p.made[new[i]].scen = q.dst
  <2>1. S \subseteq Live
    BY DEF RowsOf
  <2> QED BY <1>1, <2>1, CopyTyped DEF Copied, Copies
<1>5. \A n \in DOMAIN p.made : p.made[n].scen = q.dst
  BY <1>1, <1>3, <1>4 DEF Copied, Drawn, Copies
<1> QED BY <1>2, <1>3, <1>5 DEF Drawn, Copies

LEMMA JoinsDrawn ==
    ASSUME Typed, Agreed, CellsSound, NEW r \in Requests, Drawn(r), Joins(r)
    PROVE  Drawn(r)'
<1> DEFINE q == req[r]
           p == req'[r]
           C == CellsOf(q.scen, Matrices[q.stage - 4])
<1>1. CloneOK(q) /\ CloneShape(q)
  BY CallKinds DEF Joins, Typed
<1>2. \A c \in C : c.product \in DOMAIN q.copy /\ c.item \in DOMAIN q.copy
  BY DEF Joins, CopyCells
<1>3. /\ p.dst = q.dst /\ p.made = q.made
      /\ p.drawn = q.drawn \cup {Remap(q.copy, c, q.dst) : c \in C}
  BY JoinsState
<1>4. ASSUME NEW c \in C
      PROVE  /\ q.made[q.copy[c.product]].kind = "product"
             /\ q.made[q.copy[c.item]].kind \in Items
  <2>1. Says(c.product, q.made[q.copy[c.product]].kind, q.scen)
    BY <1>2, <1>4 DEF Says, Held, Joins
  <2>2. Says(c.product, "product", c.scen)
    BY <1>4 DEF CellsOf, CellsSound, CellsAgree, Says, Stored
  <2>3. Says(c.item, q.made[q.copy[c.item]].kind, q.scen)
    BY <1>2, <1>4 DEF Says, Held, Joins
  <2>4. Says(c.item, rows[c.item].kind, rows[c.item].scen) /\ rows[c.item].kind \in Items
    BY <1>4 DEF CellsOf, CellsSound, CellsAgree, Says, Stored
  <2>5. q.made[q.copy[c.product]].kind = "product"
    BY <2>1, <2>2 DEF Agreed
  <2>6. q.made[q.copy[c.item]].kind = rows[c.item].kind
    BY <2>3, <2>4 DEF Agreed
  <2> QED BY <2>4, <2>5, <2>6
<1> HIDE DEF C
<1>5. ASSUME NEW c \in C
      PROVE  LET d == Remap(q.copy, c, q.dst)
             IN /\ {d.product, d.item} \subseteq DOMAIN q.made
                /\ q.made[d.product].kind = "product" /\ q.made[d.item].kind \in Items
                /\ d.scen = q.dst
  BY <1>1, <1>2, <1>4, <1>5 DEF Remap, CloneOK
<1> QED BY <1>3, <1>5 DEF Drawn, Joins

LEMMA HandleDrawn ==
    ASSUME Typed, Agreed, CellsSound, NEW r \in Requests, Drawn(r), Handle(r)
    PROVE  Drawn(r)'
<1>1. CASE Begins(r)
  BY <1>1 DEF Begins, BeginClone, Goes, Drawn, Typed
<1>2. CASE Admission(r) \/ Fetches(r) \/ Looks(r)
  BY <1>2 DEF Admission, Fresh, Fetches, Fetch, Looks, Look, Goes, Drawn, Busy, Typed
<1>3. ASSUME Ends(r) PROVE Drawn(r)'
  BY <1>3 DEF Ends, Goes, Idle, Drawn, Busy, Typed
<1>4. CASE Inserts(r) \/ Saves(r) \/ Erases(r) \/ Puts(r) \/ Drops(r) \/ Commits(r) \/ Fail(r)
  BY <1>3, <1>4 DEF Inserts, Insert, Saves, Save, Erases, Puts, Put, Drops, Commits, Commit, Fail
<1> QED BY <1>1, <1>2, <1>4, CopiesDrawn, JoinsDrawn, HandleSteps, TypedTypes

CellsInv == Typed /\ Agreed /\ CellsSound /\ \A r \in Requests : Drawn(r)

LEMMA InitCells == Init => CellsInv
  BY InitTyped
  DEF Init, CellsInv, Agreed, Says, Stored, Held, Busy, Idle, CellsSound, CellsAgree, Drawn, Live

LEMMA NextCells == CellsInv /\ [Next]_vars => CellsInv'
<1> SUFFICES ASSUME CellsInv, [Next]_vars PROVE CellsInv'
  OBVIOUS
<1> USE DEF CellsInv
<1>1. Typed' /\ Agreed'
  BY NextTyped, NextAgreed
<1>2. CASE UNCHANGED vars
  BY <1>1, <1>2 DEF vars, tables, schema, CellsSound, CellsAgree, Drawn, Busy, Live
<1>3. CASE Seed
  BY <1>1, <1>3, SeedCells DEF Seed, Drawn, Busy
<1>4. CASE Aside
  <2>1. UNCHANGED req
    BY <1>4 DEF Aside, Connect, ensureRecipeCompositeFK, CreateScenario, DeleteScenario, Restatus
  <2> QED BY <1>1, <1>4, <2>1, AsideCells DEF Drawn, Busy
<1>5. ASSUME NEW r \in Requests, Handle(r) PROVE CellsInv'
  <2>1. ASSUME NEW p \in Requests PROVE Drawn(p)'
    <3>1. CASE p = r
      BY <1>5, <3>1, HandleDrawn
    <3>2. CASE p # r
      BY <1>5, <3>2, OnlyOne DEF Drawn, Busy
    <3> QED BY <3>1, <3>2
  <2> QED BY <1>1, <1>5, <2>1, HandleCells
<1> QED BY <1>2, <1>3, <1>4, <1>5, NextParts

\* A recipe cell joins rows of its own scenario, for any requests, clones and
\* migrations that overlap: no handler checks it at the write, the ids do.
THEOREM CellsAgreeHolds == Spec => []CellsAgree
<1>1. Init => CellsInv
  BY InitCells
<1>2. CellsInv /\ [Next]_vars => CellsInv'
  BY NextCells
<1>3. CellsInv => CellsAgree
  BY DEF CellsInv, CellsSound
<1> QED BY <1>1, <1>2, <1>3, PTL DEF Spec
=============================================================================
