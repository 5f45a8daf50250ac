----------------------------- MODULE LingoModel -----------------------------
(***************************************************************************)
(* One run of the solver: BuildModel and ParseOutput (internal/solver/     *)
(* lingo.go) and the rows that processJob makes of the answer (internal/   *)
(* worker/worker.go, 125-171), while late writes may still change the      *)
(* scenario (see ScenarioLifecycle).                                       *)
(*                                                                         *)
(* BuildModel numbers the rows of each table 1, 2, ... and from there on   *)
(* everything goes by position; ParseOutput goes back from positions to    *)
(* ids.  The text of the model is left out: the model is its data, and     *)
(* Feasible and Profit are what its constraints and its objective say.     *)
(* Quantities are whole numbers (use_integer_vars = true, @GIN).           *)
(***************************************************************************)
EXTENDS Integers, FiniteSets, Sequences, Functions

CONSTANTS
    Ids,            \* ids of rows, used in every table
    Catalogs,       \* contents of the scenario that are explored
    Orders,         \* parameters of the run: [max, variety, binary]
    Quantities,     \* bound: values a late write may give a recipe cell
    MaxLots         \* bound: lots of a product

VARIABLES
    db,         \* the tables of the scenario
    order,      \* the parameters stored with the run
    todo,       \* the queries that BuildModel still has to make
    seen,       \* the tables as each query found them
    phase,      \* build, built, solved, stored, infeasible or failed
    model,      \* the text of the model, as the data in it
    answer,     \* what LINGO printed
    plan        \* the stored rows and total_profit

vars == <<db, order, todo, seen, phase, model, answer, plan>>

\* Entities with a recipe matrix: Q, T and CM.
Kinds == {"ingredient", "machine", "resource"}

\* What the columns can hold: the CHECK constraints keep every value from being
\* negative.
Scenarios ==
    [products : SUBSET Ids,
     sale : [Ids -> Nat], demand : [Ids -> Nat], lo : [Ids -> Nat], hi : [Ids -> Nat],
     have : [Kinds -> SUBSET Ids],
     cost : [Kinds -> [Ids -> Nat]], limit : [Kinds -> [Ids -> Nat]],
     cell : [Kinds -> [Ids \X Ids -> Nat]]]

\* The tables of a scenario: the cost and the cells of a row that is not there
\* read as zeros.
Tables ==
    {d \in Scenarios : \A k \in Kinds : \A e \in Ids \ d.have[k] :
        d.cost[k][e] = 0 /\ \A p \in Ids : d.cell[k][<<p, e>>] = 0}

ASSUME IdsAssumption == Ids \subseteq Nat \ {0} /\ IsFiniteSet(Ids)
ASSUME CatalogsAssumption == Catalogs \subseteq Tables
ASSUME OrdersAssumption == Orders \subseteq [max : Int, variety : Int, binary : BOOLEAN]
ASSUME BoundAssumption == Quantities \subseteq Nat /\ MaxLots \in Nat

\* The queries in their order: the products with their preloads (by name), then
\* the three tables.
Selects == << <<"rows", "product">>,
              <<"cells", "ingredient">>, <<"preload", "ingredient">>,
              <<"cells", "machine">>,
              <<"cells", "resource">>, <<"preload", "resource">>,
              <<"rows", "ingredient">>, <<"rows", "machine">>,
              <<"rows", "resource">> >>

-----------------------------------------------------------------------------
(* The model: what was read, by position.                                     *)

\* ORDER BY id.
Sorted(S) == CHOOSE s \in [1 .. Cardinality(S) -> S] :
                \A i, j \in DOMAIN s : i < j => s[i] < s[j]

Products == Sorted(seen[<<"rows", "product">>].products)
Rows(k)  == Sorted(seen[<<"rows", k>>].have[k])
Cell(k, p, e) == seen[<<"cells", k>>].cell[k][<<p, e>>]

\* Mutant of At: the stride is the number of products.
AtByProduct(i, j, width) == (i - 1) * Len(Products) + j

\* Where the code puts the cell of product i and column j.
At(i, j, width) == (i - 1) * width + j

\* Q, T or CM as BuildModel fills it: a cell whose entity is not in the list is
\* skipped, a missing cell is zero.
Matrix(k) ==
    LET n == Len(Products)
        m == Len(Rows(k))
    IN [q \in 1 .. n * m |->
           LET here == {c \in (1 .. n) \X (1 .. m) : At(c[1], c[2], m) = q}
           IN IF here = {} THEN 0
              ELSE LET c == CHOOSE c \in here : TRUE
                   IN Cell(k, Products[c[1]], Rows(k)[c[2]])]

ProductColumn(col) ==
    [i \in DOMAIN Products |-> seen[<<"rows", "product">>][col][Products[i]]]

\* Mutant of EntityColumn: the value of the first row, everywhere.
EntityColumnFirst(k, col) ==
    [j \in DOMAIN Rows(k) |-> seen[<<"rows", k>>][col][k][Rows(k)[1]]]

EntityColumn(k, col) ==
    [j \in DOMAIN Rows(k) |-> seen[<<"rows", k>>][col][k][Rows(k)[j]]]

\* Without resources the code writes one of availability and cost 0 and leaves
\* its constraint and its cost out: the sums over no resource say the same.
BuildModel ==
    [P  |-> ProductColumn("sale"), D  |-> ProductColumn("demand"),
     LI |-> ProductColumn("lo"),   LS |-> ProductColumn("hi"),
     coef  |-> [k \in Kinds |-> Matrix(k)],
     cost  |-> [k \in Kinds |-> EntityColumn(k, "cost")],
     limit |-> [k \in Kinds |-> EntityColumn(k, "limit")],
     max |-> order.max, variety |-> order.variety, binary |-> order.binary]

-----------------------------------------------------------------------------
(* LINGO: the constraints and the objective of the model text.                *)

\* LINGO reads the data of a derived set row by row.
Coef(m, k, i, j) == m.coef[k][(i - 1) * Len(m.limit[k]) + j]

\* What column j of kind k takes when the products count as in amount.
Load(m, k, j, amount) == SumFunction([i \in DOMAIN m.P |-> amount[i] * Coef(m, k, i, j)])

Points(m) ==
    [X : [DOMAIN m.P -> 0 .. m.max],
     Y : [DOMAIN m.P -> 0 .. MaxLots],
     W : [DOMAIN m.P -> IF m.binary THEN {0, 1} ELSE {1}]]

Feasible(m, v) ==
    /\ \A j \in DOMAIN m.limit["ingredient"] :
          Load(m, "ingredient", j, v.X) <= m.limit["ingredient"][j]
    /\ SumFunction(v.X) <= m.max
    /\ m.binary => /\ SumFunction(v.W) >= m.variety
                   /\ \A i \in DOMAIN m.P : v.W[i] <= v.X[i]
    /\ \A i \in DOMAIN m.P :
          /\ v.X[i] <= m.D[i] * v.W[i]
          /\ v.X[i] >= m.LI[i] * v.Y[i]
          /\ v.X[i] <= m.LS[i] * v.Y[i]
    /\ \A k \in {"resource", "machine"} : \A j \in DOMAIN m.limit[k] :
          Load(m, k, j, v.Y) <= m.limit[k][j]

Cost(m, k, amount) ==
    SumFunction([j \in DOMAIN m.cost[k] |-> m.cost[k][j] * Load(m, k, j, amount)])

Profit(m, v) == SumFunction([i \in DOMAIN m.P |-> m.P[i] * v.X[i]])
                - Cost(m, "ingredient", v.X) - Cost(m, "resource", v.Y)

-----------------------------------------------------------------------------
(* ParseOutput and the rows of the plan.                                      *)

\* The product of a position.
Home(i) == Products[i]

\* Mutant of ExpectedProfit: resources are paid by unit.
ExpectedProfitByUnit(p, x, y) ==
    LET spent(k) == SumFunction([e \in Ids |->
                       Cell(k, p, e) * seen[<<"preload", k>>].cost[k][e]])
    IN seen[<<"rows", "product">>].sale[p] * x - x * spent("ingredient") - x * spent("resource")

\* From the preloaded cells and their entities, not from the lists of the model.
\* An entity that is gone by then is a zero struct.
ExpectedProfit(p, x, y) ==
    LET spent(k) == SumFunction([e \in Ids |->
                       Cell(k, p, e) * seen[<<"preload", k>>].cost[k][e]])
    IN seen[<<"rows", "product">>].sale[p] * x - x * spent("ingredient") - y * spent("resource")

\* Mutant of Produced: rows of products that are not produced.
ProducedOrNot(x) == x >= 0

\* x > 0.0001
Produced(x) == x > 0

\* Every line of the answer goes to the product of its position.  A missing X or
\* Y reads as 0 and a missing W as 1.
ParseOutput ==
    [p \in Range(Products) |->
        LET line(var, none) ==
                LET hits == {i \in DOMAIN answer.lines[var] : Home(i) = p}
                IN IF hits = {} THEN none
                   ELSE answer.lines[var][CHOOSE i \in hits : TRUE]
        IN [x |-> line("X", 0), y |-> line("Y", 0), w |-> line("W", 1)]]

ResultRows ==
    {[product |-> p, x |-> ParseOutput[p].x, y |-> ParseOutput[p].y, w |-> ParseOutput[p].w,
      profit |-> ExpectedProfit(p, ParseOutput[p].x, ParseOutput[p].y)] :
         p \in {q \in Range(Products) : Produced(ParseOutput[q].x)}}

NoPlan == [total |-> 0, rows |-> {}]
NoAnswer == [text |-> "none"]
NoModel == <<>>

-----------------------------------------------------------------------------
(* The steps.                                                                 *)

Init ==
    /\ db \in Catalogs /\ order \in Orders
    /\ todo = Selects
    /\ seen = <<>>
    /\ phase = "build" /\ model = NoModel /\ answer = NoAnswer /\ plan = NoPlan

\* A query of BuildModel; no products, or an error, fail the try.
Select ==
    /\ phase = "build" /\ todo # <<>>
    /\ seen' = [q \in DOMAIN seen \cup {Head(todo)} |-> IF q = Head(todo) THEN db ELSE seen[q]]
    /\ todo' = Tail(todo)
    /\ phase' \in {IF Head(todo) = <<"rows", "product">> /\ db.products = {}
                   THEN "failed" ELSE "build", "failed"}
    /\ UNCHANGED <<db, order, model, answer, plan>>

Build ==
    /\ phase = "build" /\ todo = <<>>
    /\ model' = BuildModel
    /\ phase' = "built"
    /\ UNCHANGED <<db, order, todo, seen, answer, plan>>

\* RunLINGO: the process fails or prints no variables, or solves the model to an
\* optimum.  Of a W that is data it may print nothing.
RunLINGO ==
    LET good == {v \in Points(model) : Feasible(model, v)}
    IN /\ phase = "built"
       /\ \/ answer' = [text |-> "garbled"]
          \/ good = {} /\ answer' = [text |-> "infeasible"]
          \/ \E v \in good :
                /\ \A u \in good : Profit(model, u) <= Profit(model, v)
                /\ \E w \in {v.W} \cup IF model.binary THEN {} ELSE {<<>>} :
                      answer' = [text |-> "solved", objective |-> Profit(model, v),
                                 lines |-> [X |-> v.X, Y |-> v.Y, W |-> w]]
       /\ phase' = "solved"
       /\ UNCHANGED <<db, order, todo, seen, model, plan>>

\* finalizeTerminal, or handleJobError.
NoSolution ==
    /\ phase = "solved" /\ answer.text # "solved"
    /\ phase' = IF answer.text = "infeasible" THEN "infeasible" ELSE "failed"
    /\ UNCHANGED <<db, order, todo, seen, model, answer, plan>>

\* One transaction; a row needs its product (foreign key), and any error undoes
\* them all.
StorePlan ==
    /\ phase = "solved" /\ answer.text = "solved"
    /\ \/ /\ {r.product : r \in ResultRows} \subseteq db.products
          /\ plan' = [total |-> answer.objective, rows |-> ResultRows]
          /\ phase' = "stored"
       \/ phase' = "failed" /\ UNCHANGED plan
    /\ UNCHANGED <<db, order, todo, seen, model, answer>>

\* handleJobError: another try, from the start.
Retry ==
    /\ phase = "failed"
    /\ phase' = "build" /\ todo' = Selects
    /\ model' = NoModel /\ answer' = NoAnswer
    /\ seen' = <<>>
    /\ UNCHANGED <<db, order, plan>>

-----------------------------------------------------------------------------
(* A write that was under way when the scenario was frozen.                   *)

\* The recipe cells of a deleted row go with it (CASCADE).
DropProduct(p) ==
    [db EXCEPT !.products = @ \ {p},
               !.cell = [k \in Kinds |-> [c \in Ids \X Ids |->
                            IF c[1] = p THEN 0 ELSE db.cell[k][c]]]]

DropEntity(k, e) ==
    [db EXCEPT !.have[k] = @ \ {e},
               !.cost[k][e] = 0, !.limit[k][e] = 0,
               !.cell[k] = [c \in Ids \X Ids |-> IF c[2] = e THEN 0 ELSE db.cell[k][c]]]

\* Bound: one late write, for what it leaves is no longer one of Catalogs.
LateWrite ==
    /\ phase \in {"build", "built", "solved"} /\ todo # Selects
    /\ db \in Catalogs
    /\ \/ \E p \in db.products : db' = DropProduct(p)
       \/ \E k \in Kinds : \E e \in db.have[k] :
             \/ db' = DropEntity(k, e)
             \/ \E p \in db.products, q \in Quantities : db' = [db EXCEPT !.cell[k][<<p, e>>] = q]
             \/ k # "machine" /\ db' = [db EXCEPT !.cost[k][e] = @ + 1]
    /\ UNCHANGED <<order, todo, seen, phase, model, answer, plan>>

Next == Select \/ Build \/ RunLINGO \/ NoSolution \/ StorePlan \/ Retry \/ LateWrite

Spec == Init /\ [][Next]_vars

-----------------------------------------------------------------------------
(* The reference: a plan gives each product, by its id, units and lots.       *)

\* The scenario as the queries found it, each table at its own time.
AsRead ==
    LET products == seen[<<"rows", "product">>]
    IN [products |-> products.products, sale |-> products.sale, demand |-> products.demand,
        lo |-> products.lo, hi |-> products.hi,
        have  |-> [k \in Kinds |-> seen[<<"rows", k>>].have[k]],
        cost  |-> [k \in Kinds |-> seen[<<"rows", k>>].cost[k]],
        limit |-> [k \in Kinds |-> seen[<<"rows", k>>].limit[k]],
        cell  |-> [k \in Kinds |-> seen[<<"cells", k>>].cell[k]]]

Takes(d, k, e, amount) ==
    SumFunction([p \in d.products |-> amount[p] * d.cell[k][<<p, e>>]])

\* Stock is taken by unit, machine time and resources by lot.
Respects(d, x, y) ==
    /\ SumFunction(x) <= order.max
    /\ \A p \in d.products : x[p] <= d.demand[p] /\ d.lo[p] * y[p] <= x[p] /\ x[p] <= d.hi[p] * y[p]
    /\ \A e \in d.have["ingredient"] : Takes(d, "ingredient", e, x) <= d.limit["ingredient"][e]
    /\ \A k \in {"machine", "resource"} : \A e \in d.have[k] : Takes(d, k, e, y) <= d.limit[k][e]
    /\ order.binary => Cardinality({p \in d.products : x[p] > 0}) >= order.variety

Worth(d, x, y) ==
    LET paid(k, amount) == SumFunction([e \in d.have[k] |-> d.cost[k][e] * Takes(d, k, e, amount)])
    IN SumFunction([p \in d.products |-> d.sale[p] * x[p]]) - paid("ingredient", x) - paid("resource", y)

\* The stored rows as a plan: a product without a row is not produced.
Stored(field) ==
    [p \in AsRead.products |->
        IF \E r \in plan.rows : r.product = p
        THEN (CHOOSE r \in plan.rows : r.product = p)[field] ELSE 0]

-----------------------------------------------------------------------------
\* The result rows are positive and one per product.
TypeOK ==
    /\ phase \in {"build", "built", "solved", "stored", "infeasible", "failed"}
    /\ \A r \in plan.rows : r.product \in Ids /\ r.x \in 1 .. order.max /\ r.y \in 0 .. MaxLots
    /\ \A r, q \in plan.rows : r.product = q.product => r = q

\* What is stored, product by product, keeps within the demand, the lots, the
\* stock, the machines, the resources and the variety of the scenario that the
\* worker read, whatever else was written meanwhile: no value or coefficient has
\* gone to the wrong row on the way to LINGO and back (lingo.go, 82-155, 321-337).
PlanRespectsScenario ==
    phase = "stored" => Respects(AsRead, Stored("x"), Stored("y"))

\* ... it is worth what total_profit says, no other plan that keeps within it is
\* worth more, and there is none at all when the run is called infeasible
\* (lingo.go, 198-244 and 306-312; worker.go, 178-204).
PlanIsBest ==
    /\ phase = "stored" => plan.total = Worth(AsRead, Stored("x"), Stored("y"))
    /\ phase \in {"stored", "infeasible"} =>
          \A x \in [AsRead.products -> 0 .. order.max], y \in [AsRead.products -> 0 .. MaxLots] :
             Respects(AsRead, x, y) => phase = "stored" /\ Worth(AsRead, x, y) <= plan.total

\* The expected profits that the worker computes for the rows, from data that it
\* read in other queries and in another formula, add up to the objective that
\* LINGO reports (worker.go, 138-148 and 180), if nothing was written meanwhile.
ProfitAddsUp ==
    phase = "stored" /\ (\A q \in DOMAIN seen : seen[q] = db) =>
        plan.total = SumFunction([r \in plan.rows |-> r.profit])
=============================================================================
