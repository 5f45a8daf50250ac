------------------------------- MODULE Catalog -------------------------------
(***************************************************************************)
(* What a scenario is made of: products, ingredients, machines, resources  *)
(* and the recipe cells that join them (internal/handlers/products.go,     *)
(* ingredients.go, machines.go, operational_resources.go), the clone that  *)
(* copies them (scenarios.go), the seed that writes the first ones         *)
(* (cmd/seed/main.go), the tables and their foreign keys                   *)
(* (internal/models/models.go) and the migration that drops and adds the   *)
(* composite ones while requests are served (internal/db/postgres.go).     *)
(*                                                                         *)
(* A request checks the scenario in one statement, reads its row in        *)
(* another and writes in a third, with no transaction.  Save writes the    *)
(* whole row it read, and inserts it again if it is gone.  The clone is    *)
(* one transaction at READ COMMITTED: each of its statements reads what is *)
(* committed by then, and what it writes is seen by nobody before the end. *)
(*                                                                         *)
(* One sequence gives the ids of the four tables: a row's kind is its      *)
(* table.  The parameters of a row are one value, those of a cell none.    *)
(* How a scenario goes from one status to another is ScenarioLifecycle's   *)
(* matter: here the status moves freely.                                   *)
(***************************************************************************)
EXTENDS Integers, Sequences, FiniteSets

CONSTANTS
    Requests,      \* the HTTP requests in flight at a time
    Sheet,         \* the kinds of the rows of the seed's spreadsheet, in order
    Blank,         \* pairs of its rows whose matrix entry is 0
    MaxScenario,   \* bound: scenarios
    MaxId,         \* bound: rows
    MaxArrivals    \* bound: requests, status moves and migrations

Kinds    == {"product", "ingredient", "machine", "resource"}
Tables   == <<"product", "ingredient", "machine", "resource">>
Matrices == <<"ingredient", "machine", "resource">>
Items    == {"ingredient", "machine", "resource"}

ASSUME SheetAssumption == Sheet \in Seq(Kinds)
ASSUME BoundAssumption ==
    /\ MaxScenario \in Nat \ {0} /\ MaxArrivals \in Nat
    /\ MaxId \in Nat /\ MaxId >= Len(Sheet)

Scenarios == 1 .. MaxScenario
Ids       == 1 .. MaxId
NoRoot    == 0               \* NULL in canonical_id
Values    == {0, 1}          \* prices, stocks, capacities ...: 0 is a legal one

VARIABLES
    status,     \* scenarios.status, "unborn" before the row and "gone" after it
    rows,       \* the rows of the four tables, by id
    cells,      \* product_ingredients, product_machines, product_operational_...
    next,       \* the next id of the sequence
    keyed,      \* the matrices whose composite foreign keys are in force
    mig,        \* the statement the migration is at: 0 none, 7 it has failed
    req,        \* the handler each request is in, and what it holds
    arrivals,   \* history: requests, status moves and migrations so far
    revived,    \* history: ids of rows inserted again after they were deleted
    steady      \* history: clones whose source has not changed since they began

tables == <<status, rows, cells>>
schema == <<keyed, mig>>
vars   == <<status, rows, cells, next, keyed, mig, req, arrivals, revived, steady>>

Row  == [kind : Kinds, scen : Scenarios, root : Ids \cup {NoRoot}, val : Values]
Cell == [product : Ids, item : Ids, scen : Scenarios]

Live      == DOMAIN rows
Exists(s) == status[s] \in {"draft", "frozen"}
RowsOf(s, k)  == {i \in Live : rows[i].scen = s /\ rows[i].kind = k}
CellsOf(s, k) == {c \in cells : c.scen = s /\ rows[c.item].kind = k}

\* INSERT or UPDATE of some rows: f over g.
Over(f, g) == [i \in DOMAIN f \cup DOMAIN g |-> IF i \in DOMAIN f THEN f[i] ELSE g[i]]

Idle  == [do |-> "idle"]
Ready == keyed = Items /\ mig = 0

Init ==
    /\ status = [s \in Scenarios |-> "unborn"]
    /\ rows = [i \in {} |-> NoRoot] /\ cells = {} /\ next = 1
    /\ keyed = Items /\ mig = 0
    /\ req = [r \in Requests |-> Idle]
    /\ arrivals = 0 /\ revived = {} /\ steady = {}

Lines   == 1 .. Len(Sheet)
Entries == {e \in Lines \X Lines : Sheet[e[1]] = "product" /\ Sheet[e[2]] # "product"}

\* cmd/seed: the base scenario, its rows and the cells that are not 0, in one
\* transaction, once the migration of its db.Connect is over.
Seed ==
    /\ Ready /\ \A s \in Scenarios : status[s] = "unborn"
    /\ arrivals = 0 /\ arrivals' = 1
    /\ status' = [status EXCEPT ![1] = "draft"]
    /\ rows' = [i \in Lines |->
                  [kind |-> Sheet[i], scen |-> 1, root |-> NoRoot, val |-> 0]]
    /\ cells' = {[product |-> e[1], item |-> e[2], scen |-> 1] : e \in Entries \ Blank}
    /\ next' = Len(Sheet) + 1
    /\ UNCHANGED <<schema, req, revived>>

-----------------------------------------------------------------------------
(* Requests.                                                                  *)

Busy(r, do) == req[r].do = do
Goes(r, to) == req' = [req EXCEPT ![r] = to]
Ends(r)     == Goes(r, Idle)

Arrives == arrivals < MaxArrivals /\ arrivals' = arrivals + 1

Comes(r) == Busy(r, "idle") /\ Arrives

\* getScenario and requireDraft.
Admit(r, s, call) ==
    /\ status[s] = "draft"
    /\ Goes(r, call)
    /\ UNCHANGED <<tables, next, schema, revived>>

\* A handler answers with an error: the row is not there, a constraint or the
\* connection fails.  An open transaction is rolled back.
Fail(r) ==
    /\ ~Busy(r, "idle") /\ Ends(r)
    /\ UNCHANGED <<tables, next, schema, arrivals, revived>>

-----------------------------------------------------------------------------
(* Rows: create, update and delete, the same for the four tables.             *)

\* n ids are taken from the sequence.  Its mutant gives the last one again.
TakingTwice(n) == next + n - 1
Taking(n)      == next + n

Insert(r) ==
    LET s == req[r].scen
    IN /\ Exists(s)                                   \* foreign key
       /\ next <= MaxId /\ next' = Taking(1)
       /\ rows' = Over([i \in {next} |-> [kind |-> req[r].kind, scen |-> s,
                                          root |-> NoRoot, val |-> 0]], rows)
       /\ Ends(r)
       /\ UNCHANGED <<status, cells, schema, arrivals, revived>>

Creates(r, k) ==
    \/ Comes(r) /\ \E s \in Scenarios :
          Admit(r, s, [do |-> "create", scen |-> s, kind |-> k])
    \/ Busy(r, "create") /\ req[r].kind = k /\ Insert(r)

\* First: the row, if it is of that scenario.
Fetch(r) ==
    LET i == req[r].id
    IN /\ i \in RowsOf(req[r].scen, req[r].kind)
       /\ Goes(r, [do |-> "save", scen |-> req[r].scen, kind |-> req[r].kind,
                   id |-> i, row |-> rows[i]])
       /\ UNCHANGED <<tables, next, schema, arrivals, revived>>

\* Save: every column, the ones nobody asked to change included.
Save(r) ==
    LET i == req[r].id
        h == req[r].row
    IN /\ Exists(h.scen) /\ h.root \in Live \cup {NoRoot}     \* foreign keys
       /\ \E v \in Values : rows' = Over([j \in {i} |-> [h EXCEPT !.val = v]], rows)
       /\ revived' = IF i \in Live THEN revived ELSE revived \cup {i}
       /\ Ends(r)
       /\ UNCHANGED <<status, cells, next, schema, arrivals>>

Updates(r, k) ==
    \/ Comes(r) /\ \E s \in Scenarios, i \in Live :
          Admit(r, s, [do |-> "fetch", scen |-> s, kind |-> k, id |-> i])
    \/ Busy(r, "fetch") /\ req[r].kind = k /\ Fetch(r)
    \/ Busy(r, "save") /\ req[r].kind = k /\ Save(r)

Clones == {r \in Requests : Busy(r, "clone")}

\* Rows an open clone keeps from being deleted: the canonical rows of its copies.
Pinned == UNION {{req[r].made[i].root : i \in DOMAIN req[r].made} : r \in Clones}

\* canonical_id becomes NULL where it was a deleted row.  The mutant has no
\* constraint on the column.
Dangling(row, D) == row
Unlinked(row, D) == IF row.root \in D THEN [row EXCEPT !.root = NoRoot] ELSE row

\* ON DELETE: the cells of the rows go, and the links to them.
Erase(D) ==
    /\ D \cap Pinned = {}
    /\ rows' = [i \in Live \ D |-> Unlinked(rows[i], D)]
    /\ cells' = {c \in cells : c.product \notin D /\ c.item \notin D}

\* The WHERE of the delete.  Its mutant forgets scenario_id.
AnyScenarios(r) == {req[r].id} \cap {i \in Live : rows[i].kind = req[r].kind}
Doomed(r) == {req[r].id} \cap RowsOf(req[r].scen, req[r].kind)

Deletes(r, k) ==
    \/ Comes(r) /\ \E s \in Scenarios, i \in Live :
          Admit(r, s, [do |-> "delete", scen |-> s, kind |-> k, id |-> i])
    \/ /\ Busy(r, "delete") /\ req[r].kind = k
       /\ Erase(Doomed(r)) /\ Ends(r)
       /\ UNCHANGED <<status, next, schema, arrivals, revived>>

CreateProduct(r)             == Creates(r, "product")
UpdateProduct(r)             == Updates(r, "product")
DeleteProduct(r)             == Deletes(r, "product")
CreateIngredient(r)          == Creates(r, "ingredient")
UpdateIngredient(r)          == Updates(r, "ingredient")
DeleteIngredient(r)          == Deletes(r, "ingredient")
CreateMachine(r)             == Creates(r, "machine")
UpdateMachine(r)             == Updates(r, "machine")
DeleteMachine(r)             == Deletes(r, "machine")
CreateOperationalResource(r) == Creates(r, "resource")
UpdateOperationalResource(r) == Updates(r, "resource")
DeleteOperationalResource(r) == Deletes(r, "resource")

-----------------------------------------------------------------------------
(* Recipe cells: upsert and remove, the same for the three matrices.          *)

CellKey(c) == <<c.product, c.item>>
Cited(r)   == [product |-> req[r].product, item |-> req[r].item, scen |-> req[r].scen]

\* productDraftGuard: the product is counted in the scenario.
Counted(r) == req[r].product \in RowsOf(req[r].scen, "product")

\* The foreign keys of a cell: the two rows, of the cell's scenario if the
\* composite keys are in force.  The mutant has the keys of AutoMigrate only.
SimpleKeys(c, k)   == TRUE
SameScenario(c, k) == k \in keyed => rows[c.item].scen = c.scen /\ rows[c.product].scen = c.scen
Referenced(c, k) ==
    /\ c.product \in Live /\ rows[c.product].kind = "product"
    /\ c.item \in Live /\ rows[c.item].kind = k
    /\ SameScenario(c, k)

Look(r, to) ==
    /\ Counted(r)
    /\ Goes(r, [do |-> to, scen |-> req[r].scen, kind |-> req[r].kind,
                product |-> req[r].product, item |-> req[r].item,
                found |-> \E c \in cells : CellKey(c) = CellKey(Cited(r))])
    /\ UNCHANGED <<tables, next, schema, arrivals, revived>>

\* Create, which fails if the cell is there by now, or Save, which inserts it if
\* it no longer is.
Put(r) ==
    /\ req[r].found \/ \A c \in cells : CellKey(c) # CellKey(Cited(r))
    /\ \/ \E c \in cells : CellKey(c) = CellKey(Cited(r)) /\ UNCHANGED cells
       \/ /\ \A c \in cells : CellKey(c) # CellKey(Cited(r))
          /\ Referenced(Cited(r), req[r].kind)
          /\ cells' = cells \cup {Cited(r)}
    /\ Ends(r)
    /\ UNCHANGED <<status, rows, next, schema, arrivals, revived>>

Cite(r, k, do) ==
    Comes(r) /\ \E s \in Scenarios, p \in Live, i \in Live :
       /\ rows[p].kind = "product" /\ rows[i].kind = k
       /\ Admit(r, s, [do |-> do, scen |-> s, kind |-> k, product |-> p, item |-> i])

Upserts(r, k) ==
    \/ Cite(r, k, "upsert")
    \/ Busy(r, "upsert") /\ req[r].kind = k /\ Look(r, "put")
    \/ Busy(r, "put") /\ req[r].kind = k /\ Put(r)

Removes(r, k) ==
    \/ Cite(r, k, "remove")
    \/ Busy(r, "remove") /\ req[r].kind = k /\ Look(r, "drop")
    \/ /\ Busy(r, "drop") /\ req[r].kind = k
       /\ cells' = {c \in cells : CellKey(c) # CellKey(Cited(r))}
       /\ Ends(r)
       /\ UNCHANGED <<status, rows, next, schema, arrivals, revived>>

UpsertProductIngredient(r)          == Upserts(r, "ingredient")
RemoveProductIngredient(r)          == Removes(r, "ingredient")
UpsertProductMachine(r)             == Upserts(r, "machine")
RemoveProductMachine(r)             == Removes(r, "machine")
UpsertProductOperationalResource(r) == Upserts(r, "resource")
RemoveProductOperationalResource(r) == Removes(r, "resource")

-----------------------------------------------------------------------------
(* CloneScenario: one transaction.                                            *)

\* The next id of the scenarios' sequence.
Taken == {s \in Scenarios : status[s] # "unborn"} \cup {req[r].dst : r \in Clones}
NextScenario(d) ==
    d \notin Taken /\ \A e \in 1 .. d - 1 : e \in Taken

\* rootCanonical: the canonical row of row i, or i itself.
rootCanonical(i) == IF rows[i].root = NoRoot THEN i ELSE rows[i].root

\* The scenario row.  The foreign key of parent_id keeps the source from being
\* deleted until the end.
BeginClone(r, s) ==
    /\ Exists(s)
    /\ \E d \in Scenarios :
          /\ NextScenario(d)
          /\ Goes(r, [do |-> "clone", scen |-> s, dst |-> d, stage |-> 1,
                      copy |-> [i \in {} |-> NoRoot], made |-> [i \in {} |-> NoRoot],
                      drawn |-> {}])
    /\ UNCHANGED <<tables, next, schema, revived>>

\* One table: a copy of every row, under new ids.  The map from old to new.
CopyRows(r) ==
    LET s    == req[r].scen
        S    == RowsOf(s, Tables[req[r].stage])
        new  == [i \in S |-> next + Cardinality({j \in S : j < i})]
        old(n) == CHOOSE i \in S : new[i] = n
        made == [n \in {new[i] : i \in S} |->
                   [rows[old(n)] EXCEPT !.scen = req[r].dst, !.root = rootCanonical(old(n))]]
    IN /\ req[r].stage \in 1 .. 4
       /\ next + Cardinality(S) <= MaxId + 1
       /\ next' = Taking(Cardinality(S))
       /\ Goes(r, [req[r] EXCEPT !.stage = @ + 1, !.copy = Over(new, @),
                                 !.made = Over(made, @)])
       /\ UNCHANGED <<tables, schema, arrivals, revived>>

\* A cell's copy.  Its mutant leaves the item as it was.
KeepItem(m, c, d) == [product |-> m[c.product], item |-> c.item, scen |-> d]
Remap(m, c, d)    == [product |-> m[c.product], item |-> m[c.item], scen |-> d]

\* One matrix: a copy of every cell, remapped.  A row the map does not have
\* gives 0, which no foreign key accepts: the clone fails.
CopyCells(r) ==
    LET C == CellsOf(req[r].scen, Matrices[req[r].stage - 4])
        m == req[r].copy
    IN /\ req[r].stage \in 5 .. 7
       /\ \A c \in C : c.product \in DOMAIN m /\ c.item \in DOMAIN m
       /\ Goes(r, [req[r] EXCEPT !.stage = @ + 1,
                                 !.drawn = @ \cup {Remap(m, c, req[r].dst) : c \in C}])
       /\ UNCHANGED <<tables, next, schema, arrivals, revived>>

Commit(r) ==
    /\ req[r].stage = 8
    /\ status' = [status EXCEPT ![req[r].dst] = "draft"]
    /\ rows' = Over(req[r].made, rows)
    /\ cells' = cells \cup req[r].drawn
    /\ Ends(r)
    /\ UNCHANGED <<next, schema, arrivals, revived>>

CloneScenario(r) ==
    \/ Comes(r) /\ \E s \in Scenarios : BeginClone(r, s)
    \/ Busy(r, "clone") /\ (CopyRows(r) \/ CopyCells(r) \/ Commit(r))

-----------------------------------------------------------------------------
(* The scenario row, and the migration.                                       *)

CreateScenario(d) ==
    /\ Arrives /\ NextScenario(d)
    /\ status' = [status EXCEPT ![d] = "draft"]
    /\ UNCHANGED <<rows, cells, next, schema, req, revived>>

\* DeleteScenario, of one with no runs: ON DELETE CASCADE takes its rows.
DeleteScenario(s) ==
    /\ Arrives /\ Exists(s)
    /\ \A q \in Clones : req[q].scen # s
    /\ status' = [status EXCEPT ![s] = "gone"]
    /\ Erase({i \in Live : rows[i].scen = s})
    /\ UNCHANGED <<next, schema, req, revived>>

\* Whatever else happens to a scenario's row: it is frozen or archived, and a
\* late save writes it back or inserts it again.
Restatus(s) ==
    /\ Arrives
    /\ \/ status[s] = "draft" /\ status' = [status EXCEPT ![s] = "frozen"]
       \/ status[s] \in {"frozen", "gone"} /\ status' = [status EXCEPT ![s] = "draft"]
    /\ UNCHANGED <<rows, cells, next, schema, req, revived>>

\* db.Connect of an API that starts, or of a seed that runs beside it.
Connect ==
    /\ Arrives /\ mig \in {0, 7}
    /\ mig' = 1
    /\ UNCHANGED <<tables, next, keyed, req, revived>>

\* ensureRecipeCompositeFK: a statement drops the keys of a matrix, then one adds
\* them, or fails on a cell they refuse.  ALTER TABLE waits for the open clones.
ensureRecipeCompositeFK ==
    /\ Clones = {}
    /\ \/ /\ mig \in 1 .. 3 /\ mig' = mig + 1
          /\ keyed' = keyed \ {Matrices[mig]}
       \/ LET k == Matrices[mig - 3]
              strangers == {c \in cells : rows[c.item].kind = k
                                          /\ rows[c.item].scen # c.scen}
          IN /\ mig \in 4 .. 6
             /\ IF strangers = {}
                THEN keyed' = keyed \cup {k} /\ mig' = (mig + 1) % 7
                ELSE mig' = 7 /\ UNCHANGED keyed
    /\ UNCHANGED <<tables, next, req, arrivals, revived>>

Handle(r) ==
    \/ CreateProduct(r) \/ UpdateProduct(r) \/ DeleteProduct(r)
    \/ CreateIngredient(r) \/ UpdateIngredient(r) \/ DeleteIngredient(r)
    \/ CreateMachine(r) \/ UpdateMachine(r) \/ DeleteMachine(r)
    \/ CreateOperationalResource(r) \/ UpdateOperationalResource(r)
    \/ DeleteOperationalResource(r)
    \/ UpsertProductIngredient(r) \/ RemoveProductIngredient(r)
    \/ UpsertProductMachine(r) \/ RemoveProductMachine(r)
    \/ UpsertProductOperationalResource(r) \/ RemoveProductOperationalResource(r)
    \/ CloneScenario(r)
    \/ Fail(r)

\* What a scenario is made of, its identity links aside.
Content(s) == [rows  |-> {<<i, rows[i].kind, rows[i].val>> : i \in {j \in Live : rows[j].scen = s}},
               cells |-> {CellKey(c) : c \in {d \in cells : d.scen = s}}]

\* History: which clones still copy an unchanged source.
Track == steady' = {r \in Requests : /\ req'[r].do = "clone"
                                     /\ \/ req[r].do # "clone"
                                        \/ r \in steady /\ Content(req[r].scen)' = Content(req[r].scen)}

Step ==
    \/ Seed \/ Connect \/ ensureRecipeCompositeFK
    \/ \E s \in Scenarios : CreateScenario(s) \/ DeleteScenario(s) \/ Restatus(s)
    \/ \E r \in Requests : Handle(r)

Next == Step /\ Track

Spec == Init /\ [][Next]_vars

-----------------------------------------------------------------------------
(* Properties.                                                                *)

CloneOK(q) ==
    /\ q.dst \in Scenarios /\ q.stage \in 1 .. 8
    /\ DOMAIN q.copy \subseteq Ids /\ DOMAIN q.made \subseteq 1 .. next - 1
    /\ \A i \in DOMAIN q.copy : q.copy[i] \in DOMAIN q.made
    /\ \A n \in DOMAIN q.made : q.made[n] \in Row
    /\ q.drawn \subseteq Cell

Calls ==
    {Idle}
    \cup [do : {"create"}, scen : Scenarios, kind : Kinds]
    \cup [do : {"fetch", "delete"}, scen : Scenarios, kind : Kinds, id : Ids]
    \cup [do : {"save"}, scen : Scenarios, kind : Kinds, id : Ids, row : Row]
    \cup [do : {"upsert", "remove"}, scen : Scenarios, kind : Items, product : Ids, item : Ids]
    \cup [do : {"put", "drop"}, scen : Scenarios, kind : Items, product : Ids, item : Ids,
          found : BOOLEAN]

\* The state is of its type: no id is used that the sequence has not given.
TypeOK ==
    /\ status \in [Scenarios -> {"unborn", "draft", "frozen", "gone"}]
    /\ next \in 1 .. MaxId + 1 /\ Live \subseteq 1 .. next - 1
    /\ \A i \in Live : rows[i] \in Row
    /\ cells \subseteq Cell
    /\ keyed \subseteq Items /\ mig \in 0 .. 7
    /\ \A r \in Requests : req[r] \in Calls \/ (Busy(r, "clone") /\ CloneOK(req[r]))
    /\ arrivals \in 0 .. MaxArrivals + 1
    /\ revived \subseteq Ids /\ steady \subseteq Requests

\* A recipe cell joins a product and an item that exist and, while the composite
\* keys of its matrix are in force, that are of its scenario (invariant M2),
\* whatever edits, deletions, clones and migrations overlap.
CellsAgree ==
    \A c \in cells :
       /\ {c.product, c.item} \subseteq Live
       /\ rows[c.product].kind = "product" /\ rows[c.product].scen = c.scen
       /\ rows[c.item].kind \in keyed => rows[c.item].scen = c.scen

\* canonical_id is one hop long: it names a row that exists, of the same table,
\* and that is nobody's copy, however often copies are cloned and canonical rows
\* deleted.  The exception is a row whose own canonical row was deleted and then
\* put back by a late PATCH.
OneHop ==
    \A i \in Live :
       LET o == rows[i].root
       IN o # NoRoot => /\ o \in Live /\ rows[o].kind = rows[i].kind
                        /\ rows[o].root \in revived \cup {NoRoot}

\* A clone that is about to be committed and whose source nobody has changed since
\* it began is the source again under other ids: every row once, with its
\* parameters, every cell between the copies of its two rows, and nothing else.
ClonesAreCopies ==
    \A r \in Clones \cap steady :
       LET q == req[r]
           S == {i \in Live : rows[i].scen = q.scen}
       IN q.stage = 8 =>
          /\ DOMAIN q.copy = S /\ DOMAIN q.made = {q.copy[i] : i \in S}
          /\ \A i, j \in S : q.copy[i] = q.copy[j] => i = j
          /\ \A i \in S : LET n == q.made[q.copy[i]]
                          IN n.kind = rows[i].kind /\ n.val = rows[i].val /\ n.scen = q.dst
          /\ q.drawn = {[product |-> q.copy[c.product], item |-> q.copy[c.item],
                          scen |-> q.dst] : c \in {d \in cells : d.scen = q.scen}}

\* What a scenario is made of changes only as it is born or deleted, or by the
\* last statement of a request that found that scenario a draft: nothing that is
\* done to one scenario shows in another, its clones and its source included.
\* The exception are cells a migration let in with an item of another scenario.
OwnWrites ==
    [][\A s \in Scenarios :
          tables' # tables /\ Content(s)' # Content(s) =>
             \/ status[s] = "unborn" \/ status'[s] = "gone"
             \/ \E r \in Requests :
                   /\ req[r].do \in {"create", "save", "delete", "put", "drop"}
                   /\ req[r].scen = s /\ req'[r] = Idle
             \/ /\ Content(s).rows' = Content(s).rows
                /\ {c \in cells' : c.scen = s} \subseteq cells
                /\ \A c \in cells \ cells' : c.scen = s => rows[c.item].scen # s]_vars
=============================================================================
