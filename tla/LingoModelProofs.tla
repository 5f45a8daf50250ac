-------------------------- MODULE LingoModelProofs --------------------------
(***************************************************************************)
(* Theorems about LingoModel: what goes to LINGO by position and comes     *)
(* back to ids is a best plan for the scenario that was read, whatever the *)
(* scenario, the parameters and the late writes.                           *)
(*                                                                         *)
(* Positions and rows are one to one (ORDER BY id), so each constraint and *)
(* the objective of the model, sums over positions, are the same sums over *)
(* ids; a plan of either kind has its match of the other.  What is stored  *)
(* drops the lots of products without units, which only cost: at an        *)
(* optimum they cost nothing.                                              *)
(***************************************************************************)
EXTENDS LingoModel, Sums, SequenceTheorems

-----------------------------------------------------------------------------
(* ORDER BY id: positions and rows are one to one.                            *)

\* How many ids come before an id is its rank.
LEMMA Ranks ==
    ASSUME NEW S \in SUBSET Nat, IsFiniteSet(S)
    PROVE  \A i \in S : LET r == Cardinality({j \in S : j < i})
                        IN  /\ r \in 0 .. Cardinality(S) - 1
                            /\ \A k \in S : i < k => r < Cardinality({j \in S : j < k})
<1> DEFINE below == [i \in S |-> {j \in S : j < i}]
<1>1. \A i \in S : below[i] = {j \in S : j < i}
  OBVIOUS
<1>2. ASSUME NEW i \in S
      PROVE  /\ IsFiniteSet(below[i]) /\ below[i] \in SUBSET S /\ i \notin below[i]
             /\ Cardinality(below[i]) \in 0 .. Cardinality(S) - 1
  <2>1. below[i] \in SUBSET S /\ i \notin below[i] /\ below[i] # S
    OBVIOUS
  <2> HIDE DEF below
  <2>2. /\ IsFiniteSet(below[i]) /\ Cardinality(below[i]) <= Cardinality(S)
        /\ Cardinality(below[i]) # Cardinality(S)
    BY <2>1, FS_Subset
  <2>3. Cardinality(below[i]) \in Nat /\ Cardinality(S) \in Nat
    BY <2>2, FS_CardinalityType
  <2> QED BY <2>1, <2>2, <2>3
<1>3. ASSUME NEW i \in S, NEW k \in S, i < k
      PROVE  Cardinality(below[i]) < Cardinality(below[k])
  <2>1. below[i] \in SUBSET below[k] /\ i \in below[k] \ below[i]
    <3>1. \A j \in S : j < i => j < k
      BY <1>3
    <3>2. i \in {j \in S : j < k} /\ i \notin {j \in S : j < i}
      BY <1>3
    <3>3. {j \in S : j < i} \in SUBSET {j \in S : j < k}
      BY <3>1
    <3> HIDE DEF below
    <3> QED BY <1>1, <3>2, <3>3
  <2> HIDE DEF below
  <2>2. /\ Cardinality(below[i]) <= Cardinality(below[k])
        /\ Cardinality(below[i]) # Cardinality(below[k])
    BY <1>2, <2>1, FS_Subset
  <2>3. Cardinality(below[i]) \in Nat /\ Cardinality(below[k]) \in Nat
    BY <1>2, FS_CardinalityType
  <2> QED BY <2>2, <2>3
<1> HIDE DEF below
<1> QED BY <1>1, <1>2, <1>3

\* Sorted lists every id of a finite set once, in order.
LEMMA SortedIs ==
    ASSUME NEW S \in SUBSET Nat, IsFiniteSet(S)
    PROVE  /\ Cardinality(S) \in Nat
           /\ Sorted(S) \in [1 .. Cardinality(S) -> S]
           /\ \A i, j \in 1 .. Cardinality(S) : i < j => Sorted(S)[i] < Sorted(S)[j]
           /\ \A i, j \in 1 .. Cardinality(S) : Sorted(S)[i] = Sorted(S)[j] => i = j
           /\ \A e \in S : \E i \in 1 .. Cardinality(S) : Sorted(S)[i] = e
<1> DEFINE n == Cardinality(S)
           less == [i \in S |-> Cardinality({j \in S : j < i})]
           rank == [i \in S |-> less[i] + 1]
           s == [k \in 1 .. n |-> CHOOSE i \in S : rank[i] = k]
<1>1. n \in Nat /\ IsFiniteSet(1 .. n) /\ Cardinality(1 .. n) = n
  BY FS_CardinalityType, FS_Interval
<1>2. ASSUME NEW i \in S
      PROVE  rank[i] \in 1 .. n /\ \A k \in S : i < k => rank[i] < rank[k]
  <2>1. \A e \in S : /\ less[e] \in 0 .. n - 1
                     /\ \A k \in S : e < k => less[e] < less[k]
    BY Ranks
  <2> HIDE DEF less, n
  <2>2. \A e \in S : rank[e] = less[e] + 1
    OBVIOUS
  <2> HIDE DEF rank
  <2>3. less[i] \in Int /\ \A k \in S : less[k] \in Int
    BY <1>1, <2>1
  <2> QED BY <1>1, <2>1, <2>2, <2>3
<1>3. \A i, k \in S : rank[i] = rank[k] => i = k
  <2> SUFFICES ASSUME NEW i \in S, NEW k \in S, i # k PROVE rank[i] # rank[k]
    OBVIOUS
  <2>1. i < k \/ k < i
    OBVIOUS
  <2> HIDE DEF rank
  <2> QED BY <1>1, <1>2, <2>1
<1>4. rank \in Injection(S, 1 .. n)
  <2>1. rank \in [S -> 1 .. n]
    BY <1>2
  <2> HIDE DEF rank
  <2> QED BY <1>3, <2>1 DEF Injection, IsInjective
<1>5. \A k \in 1 .. n : \E i \in S : rank[i] = k
  <2> HIDE DEF rank
  <2>1. rank \in Surjection(S, 1 .. n)
    BY <1>1, <1>4, FS_Injection
  <2> QED BY <2>1 DEF Surjection
<1>6. \A k \in 1 .. n : s[k] \in S /\ rank[s[k]] = k
  <2> HIDE DEF rank
  <2> QED BY <1>5
<1> HIDE DEF rank, less
<1>7. s \in [1 .. n -> S] /\ \A i, j \in DOMAIN s : i < j => s[i] < s[j]
  <2>1. s \in [1 .. n -> S]
    BY <1>6
  <2> SUFFICES ASSUME NEW i \in 1 .. n, NEW j \in 1 .. n, i < j PROVE s[i] < s[j]
    BY <2>1
  <2> HIDE DEF s, rank, n
  <2>2. s[i] \in S /\ s[j] \in S /\ rank[s[i]] = i /\ rank[s[j]] = j
    BY <1>6
  <2>3. s[i] \in Nat /\ s[j] \in Nat /\ n \in Nat
    BY <1>1, <2>2
  <2>4. s[j] < s[i] => j < i
    BY <1>2, <2>2
  <2>5. i \in Int /\ j \in Int
    BY <1>1
  <2>6. s[i] # s[j]
    BY <2>2, <2>5
  <2> QED BY <2>3, <2>4, <2>5, <2>6
<1> DEFINE t == Sorted(S)
<1>8. t \in [1 .. n -> S] /\ \A i, j \in DOMAIN t : i < j => t[i] < t[j]
  <2> HIDE DEF s
  <2> QED BY <1>7 DEF Sorted
<1> HIDE DEF n, t, s, rank
<1>9. \A i, j \in 1 .. n : t[i] = t[j] => i = j
  <2> SUFFICES ASSUME NEW i \in 1 .. n, NEW j \in 1 .. n, i # j PROVE t[i] # t[j]
    OBVIOUS
  <2>1. i < j \/ j < i
    BY <1>1
  <2>2. t[i] \in Nat /\ t[j] \in Nat
    BY <1>8
  <2> QED BY <1>8, <2>1, <2>2
<1>10. \A e \in S : \E i \in 1 .. n : t[i] = e
  <2>1. t \in Injection(1 .. n, S)
    BY <1>8, <1>9 DEF Injection, IsInjective
  <2>2. t \in Surjection(1 .. n, S)
    BY <1>1, <2>1, FS_Injection DEF n
  <2> QED BY <2>2 DEF Surjection
<1> QED BY <1>1, <1>8, <1>9, <1>10 DEF n, t

-----------------------------------------------------------------------------
(* What was read.                                                             *)

Queries == Range(Selects)

\* All queries of a try have been made.
Read == order \in Orders /\ \A q \in Queries : q \in DOMAIN seen /\ seen[q] \in Tables

\* The positions of the products, and of the entities of a kind.
Places == 1 .. Cardinality(AsRead.products)
Columns(k) == 1 .. Cardinality(AsRead.have[k])

LEMMA QueriesAre ==
    /\ <<"rows", "product">> \in Queries
    /\ \A k \in Kinds : <<"rows", k>> \in Queries /\ <<"cells", k>> \in Queries
    /\ \A k \in {"ingredient", "resource"} : <<"preload", k>> \in Queries
<1> DEFINE s == Selects
<1>1. /\ DOMAIN s = 1 .. 9
      /\ s[1] = <<"rows", "product">>
      /\ s[2] = <<"cells", "ingredient">> /\ s[3] = <<"preload", "ingredient">>
      /\ s[4] = <<"cells", "machine">>
      /\ s[5] = <<"cells", "resource">> /\ s[6] = <<"preload", "resource">>
      /\ s[7] = <<"rows", "ingredient">> /\ s[8] = <<"rows", "machine">>
      /\ s[9] = <<"rows", "resource">>
  BY DEF Selects
<1> HIDE DEF s
<1>2. \A i \in 1 .. 9 : s[i] \in Queries
  BY <1>1 DEF Queries, Range, s
<1> QED BY <1>1, <1>2 DEF Kinds

LEMMA ScenarioIs ==
    ASSUME NEW d \in Scenarios
    PROVE  /\ d.products \in SUBSET Ids /\ d.sale \in [Ids -> Nat] /\ d.demand \in [Ids -> Nat]
           /\ d.lo \in [Ids -> Nat] /\ d.hi \in [Ids -> Nat]
           /\ \A k \in Kinds : /\ d.have[k] \in SUBSET Ids
                              /\ d.cost[k] \in [Ids -> Nat] /\ d.limit[k] \in [Ids -> Nat]
                              /\ d.cell[k] \in [Ids \X Ids -> Nat]
<1>1. /\ d.have \in [Kinds -> SUBSET Ids]
      /\ d.cost \in [Kinds -> [Ids -> Nat]] /\ d.limit \in [Kinds -> [Ids -> Nat]]
      /\ d.cell \in [Kinds -> [Ids \X Ids -> Nat]]
  BY DEF Scenarios
<1>2. \A k \in Kinds : /\ d.have[k] \in SUBSET Ids
                       /\ d.cost[k] \in [Ids -> Nat] /\ d.limit[k] \in [Ids -> Nat]
                       /\ d.cell[k] \in [Ids \X Ids -> Nat]
  BY <1>1
<1> QED BY <1>2 DEF Scenarios

LEMMA AsReadIs ==
    ASSUME Read
    PROVE  /\ AsRead \in Scenarios
           /\ IsFiniteSet(AsRead.products) /\ AsRead.products \in SUBSET Nat
           /\ \A k \in Kinds : IsFiniteSet(AsRead.have[k]) /\ AsRead.have[k] \in SUBSET Nat
<1>1. Tables \subseteq Scenarios
  BY DEF Tables
<1>2. /\ seen[<<"rows", "product">>] \in Scenarios
      /\ \A k \in Kinds : seen[<<"rows", k>>] \in Scenarios /\ seen[<<"cells", k>>] \in Scenarios
  BY <1>1, QueriesAre DEF Read
<1> DEFINE t == seen[<<"rows", "product">>]
           r == [k \in Kinds |-> seen[<<"rows", k>>]]
           c == [k \in Kinds |-> seen[<<"cells", k>>]]
<1>3. AsRead \in Scenarios
  <2>1. /\ t.products \in SUBSET Ids /\ t.sale \in [Ids -> Nat] /\ t.demand \in [Ids -> Nat]
        /\ t.lo \in [Ids -> Nat] /\ t.hi \in [Ids -> Nat]
    BY <1>2 DEF Scenarios
  <2>2. \A k \in Kinds : /\ r[k].have[k] \in SUBSET Ids
                         /\ r[k].cost[k] \in [Ids -> Nat] /\ r[k].limit[k] \in [Ids -> Nat]
                         /\ c[k].cell[k] \in [Ids \X Ids -> Nat]
    BY <1>2, ScenarioIs
  <2>3. AsRead = [products |-> t.products, sale |-> t.sale, demand |-> t.demand,
                  lo |-> t.lo, hi |-> t.hi,
                  have  |-> [k \in Kinds |-> r[k].have[k]],
                  cost  |-> [k \in Kinds |-> r[k].cost[k]],
                  limit |-> [k \in Kinds |-> r[k].limit[k]],
                  cell  |-> [k \in Kinds |-> c[k].cell[k]]]
    BY DEF AsRead
  <2> HIDE DEF t, r, c
  <2> QED BY <2>1, <2>2, <2>3 DEF Scenarios
<1>4. AsRead.products \in SUBSET Ids /\ \A k \in Kinds : AsRead.have[k] \in SUBSET Ids
  BY <1>3, ScenarioIs
<1> QED BY <1>3, <1>4, FS_Subset, IdsAssumption

LEMMA PlacesAre ==
    ASSUME Read
    PROVE  /\ Cardinality(AsRead.products) \in Nat /\ IsFiniteSet(Places)
           /\ Products \in [Places -> AsRead.products]
           /\ \A i, j \in Places : Products[i] = Products[j] => i = j
           /\ \A p \in AsRead.products : \E i \in Places : Products[i] = p
           /\ Len(Products) = Cardinality(AsRead.products)
<1> DEFINE S == AsRead.products
<1>1. Products = Sorted(S)
  BY DEF Products, AsRead
<1>2. S \in SUBSET Nat /\ IsFiniteSet(S)
  BY AsReadIs
<1> HIDE DEF S
<1>3. /\ Cardinality(S) \in Nat
      /\ Sorted(S) \in [1 .. Cardinality(S) -> S]
      /\ \A i, j \in 1 .. Cardinality(S) : Sorted(S)[i] = Sorted(S)[j] => i = j
      /\ \A e \in S : \E i \in 1 .. Cardinality(S) : Sorted(S)[i] = e
  BY <1>2, SortedIs
<1>4. IsFiniteSet(1 .. Cardinality(S))
  BY <1>3, FS_Interval
<1>5. Len(Products) = Cardinality(S)
  BY <1>1, <1>3
<1> QED BY <1>1, <1>3, <1>4, <1>5 DEF Places, S

LEMMA ColumnsAre ==
    ASSUME Read, NEW k \in Kinds
    PROVE  /\ Cardinality(AsRead.have[k]) \in Nat /\ IsFiniteSet(Columns(k))
           /\ Rows(k) \in [Columns(k) -> AsRead.have[k]]
           /\ \A i, j \in Columns(k) : Rows(k)[i] = Rows(k)[j] => i = j
           /\ \A e \in AsRead.have[k] : \E j \in Columns(k) : Rows(k)[j] = e
           /\ Len(Rows(k)) = Cardinality(AsRead.have[k])
<1> DEFINE S == AsRead.have[k]
<1>1. Rows(k) = Sorted(S)
  BY DEF Rows, AsRead
<1>2. S \in SUBSET Nat /\ IsFiniteSet(S)
  BY AsReadIs
<1> HIDE DEF S
<1>3. /\ Cardinality(S) \in Nat
      /\ Sorted(S) \in [1 .. Cardinality(S) -> S]
      /\ \A i, j \in 1 .. Cardinality(S) : Sorted(S)[i] = Sorted(S)[j] => i = j
      /\ \A e \in S : \E i \in 1 .. Cardinality(S) : Sorted(S)[i] = e
  BY <1>2, SortedIs
<1>4. IsFiniteSet(1 .. Cardinality(S))
  BY <1>3, FS_Interval
<1>5. Len(Rows(k)) = Cardinality(S)
  BY <1>1, <1>3
<1> QED BY <1>1, <1>3, <1>4, <1>5 DEF Columns, S

\* Rows and columns do not meet: the cell of a row and a column has a place of
\* its own.
LEMMA Strides ==
    ASSUME NEW m \in Nat, NEW a \in Nat, NEW b \in Nat, NEW i \in 1 .. m, NEW j \in 1 .. m,
           a * m + i = b * m + j
    PROVE  a = b /\ i = j
<1>1. \A c, d \in Nat : c < d => c * m + m <= d * m
  <2> SUFFICES ASSUME NEW c \in Nat, NEW d \in Nat, c < d PROVE c * m + m <= d * m
    OBVIOUS
  <2>1. PICK e \in Nat : d = c + 1 + e
    <3>1. d - c - 1 \in Nat /\ d = c + 1 + (d - c - 1)
      OBVIOUS
    <3> QED BY <3>1
  <2>2. d * m = c * m + m + e * m
    BY <2>1
  <2>3. e * m \in Nat /\ c * m \in Nat
    OBVIOUS
  <2> QED BY <2>2, <2>3
<1>2. a * m \in Nat /\ b * m \in Nat
  OBVIOUS
<1>3. ~(a < b) /\ ~(b < a)
  BY <1>1, <1>2
<1> QED BY <1>2, <1>3

-----------------------------------------------------------------------------
(* The model is the scenario, position by position.                           *)

LEMMA BuildModelIs ==
    ASSUME Read
    PROVE  /\ DOMAIN BuildModel.P = Places
           /\ \A i \in Places : /\ BuildModel.P[i] = AsRead.sale[Products[i]]
                                /\ BuildModel.D[i] = AsRead.demand[Products[i]]
                                /\ BuildModel.LI[i] = AsRead.lo[Products[i]]
                                /\ BuildModel.LS[i] = AsRead.hi[Products[i]]
           /\ \A k \in Kinds :
                 /\ DOMAIN BuildModel.limit[k] = Columns(k) /\ DOMAIN BuildModel.cost[k] = Columns(k)
                 /\ Len(BuildModel.limit[k]) = Cardinality(AsRead.have[k])
                 /\ \A j \in Columns(k) :
                       /\ BuildModel.limit[k][j] = AsRead.limit[k][Rows(k)[j]]
                       /\ BuildModel.cost[k][j] = AsRead.cost[k][Rows(k)[j]]
           /\ BuildModel.max = order.max /\ BuildModel.variety = order.variety
           /\ BuildModel.binary = order.binary
<1>1. /\ BuildModel.P = ProductColumn("sale") /\ BuildModel.D = ProductColumn("demand")
      /\ BuildModel.LI = ProductColumn("lo") /\ BuildModel.LS = ProductColumn("hi")
      /\ \A k \in Kinds : /\ BuildModel.cost[k] = EntityColumn(k, "cost")
                          /\ BuildModel.limit[k] = EntityColumn(k, "limit")
      /\ BuildModel.max = order.max /\ BuildModel.variety = order.variety
      /\ BuildModel.binary = order.binary
  BY DEF BuildModel
<1>2. DOMAIN Products = Places
  BY PlacesAre
<1>3. /\ DOMAIN ProductColumn("sale") = Places
      /\ \A i \in Places : /\ ProductColumn("sale")[i] = AsRead.sale[Products[i]]
                           /\ ProductColumn("demand")[i] = AsRead.demand[Products[i]]
                           /\ ProductColumn("lo")[i] = AsRead.lo[Products[i]]
                           /\ ProductColumn("hi")[i] = AsRead.hi[Products[i]]
  BY <1>2 DEF ProductColumn, AsRead
<1>4. ASSUME NEW k \in Kinds
      PROVE  /\ DOMAIN EntityColumn(k, "limit") = Columns(k)
             /\ DOMAIN EntityColumn(k, "cost") = Columns(k)
             /\ Len(EntityColumn(k, "limit")) = Cardinality(AsRead.have[k])
             /\ \A j \in Columns(k) :
                   /\ EntityColumn(k, "limit")[j] = AsRead.limit[k][Rows(k)[j]]
                   /\ EntityColumn(k, "cost")[j] = AsRead.cost[k][Rows(k)[j]]
  <2>1. DOMAIN Rows(k) = Columns(k) /\ Cardinality(AsRead.have[k]) \in Nat
    BY ColumnsAre
  <2>2. /\ AsRead.limit[k] = seen[<<"rows", k>>].limit[k]
        /\ AsRead.cost[k] = seen[<<"rows", k>>].cost[k]
    BY DEF AsRead
  <2>3. /\ DOMAIN EntityColumn(k, "limit") = Columns(k)
        /\ DOMAIN EntityColumn(k, "cost") = Columns(k)
        /\ \A j \in Columns(k) :
              /\ EntityColumn(k, "limit")[j] = AsRead.limit[k][Rows(k)[j]]
              /\ EntityColumn(k, "cost")[j] = AsRead.cost[k][Rows(k)[j]]
    BY <2>1, <2>2 DEF EntityColumn
  <2>4. Len(EntityColumn(k, "limit")) = Cardinality(AsRead.have[k])
    <3> DEFINE n == Cardinality(AsRead.have[k])
               f == EntityColumn(k, "limit")
    <3>1. n \in Nat /\ f = [j \in 1 .. n |-> seen[<<"rows", k>>]["limit"][k][Rows(k)[j]]]
      BY <2>1 DEF EntityColumn, Columns
    <3> HIDE DEF n, f
    <3>2. Len(f) = n
      BY <3>1
    <3> QED BY <3>2 DEF n, f
  <2> QED BY <2>3, <2>4
<1> QED BY <1>1, <1>3, <1>4

\* LINGO finds at row i and column j the cell of their ids.
LEMMA CoefIs ==
    ASSUME Read, NEW k \in Kinds, NEW i \in Places, NEW j \in Columns(k)
    PROVE  Coef(BuildModel, k, i, j) = AsRead.cell[k][<<Products[i], Rows(k)[j]>>]
<1> DEFINE n == Cardinality(AsRead.products)
           m == Cardinality(AsRead.have[k])
           q == (i - 1) * m + j
           here == {c \in (1 .. n) \X (1 .. m) : At(c[1], c[2], m) = q}
           c0 == CHOOSE c \in here : TRUE
<1>1. n \in Nat /\ m \in Nat /\ i \in 1 .. n /\ j \in 1 .. m
  BY PlacesAre, ColumnsAre DEF Places, Columns
<1>2. Coef(BuildModel, k, i, j) = Matrix(k)[q]
  BY BuildModelIs DEF Coef, BuildModel
<1>3. q \in 1 .. n * m
  <2> HIDE DEF n, m
  <2>1. (i - 1) * m \in Nat /\ n * m \in Nat
    BY <1>1
  <2>2. n * m = (i - 1) * m + m + (n - i) * m
    BY <1>1
  <2>3. (n - i) * m \in Nat
    <3>1. n - i \in Nat
      BY <1>1
    <3> QED BY <1>1, <3>1
  <2> QED BY <1>1, <2>1, <2>2, <2>3
<1>4. Len(Products) = n /\ Len(Rows(k)) = m
  BY PlacesAre, ColumnsAre
<1>5. Matrix(k)[q] = IF here = {} THEN 0 ELSE Cell(k, Products[c0[1]], Rows(k)[c0[2]])
  <2> HIDE DEF n, m
  <2> QED BY <1>3, <1>4 DEF Matrix
<1>6. <<i, j>> \in here
  BY <1>1 DEF At
<1>7. c0 = <<i, j>>
  <2>1. c0 \in here
    BY <1>6
  <2> HIDE DEF c0
  <2>2. PICK a \in 1 .. n, b \in 1 .. m : c0 = <<a, b>> /\ (a - 1) * m + b = (i - 1) * m + j
    BY <2>1 DEF At
  <2> HIDE DEF n, m
  <2>3. a - 1 \in Nat /\ i - 1 \in Nat
    BY <1>1
  <2>4. a - 1 = i - 1 /\ b = j
    BY <1>1, <2>2, <2>3, Strides
  <2>5. a = i
    BY <1>1, <2>4
  <2> QED BY <2>2, <2>4, <2>5
<1> HIDE DEF here, c0, q
<1>8. Coef(BuildModel, k, i, j) = Cell(k, Products[i], Rows(k)[j])
  BY <1>2, <1>5, <1>6, <1>7
<1> QED BY <1>8 DEF Cell, AsRead

\* What an entity is used by a plan is a number, and more is used by more lots.
LEMMA TakesIs ==
    ASSUME NEW d \in Scenarios, IsFiniteSet(d.products), NEW k \in Kinds, NEW e \in d.have[k],
           NEW x \in [d.products -> Int]
    PROVE  /\ Takes(d, k, e, x) \in Int
           /\ Takes(d, k, e, x) = Sum([p \in d.products |-> x[p] * d.cell[k][<<p, e>>]], d.products)
           /\ \A y \in [d.products -> Int] :
                 (\A p \in d.products : y[p] <= x[p]) => Takes(d, k, e, y) <= Takes(d, k, e, x)
<1> DEFINE P == d.products
           c == [p \in P |-> d.cell[k][<<p, e>>]]
           f == [a \in [P -> Int] |-> [p \in P |-> a[p] * c[p]]]
<1>1. \A p \in P : c[p] \in Nat
  <2>1. d.cell[k] \in [Ids \X Ids -> Nat] /\ P \in SUBSET Ids /\ d.have[k] \in SUBSET Ids
    BY ScenarioIs
  <2> QED BY <2>1
<1>2. \A a \in [P -> Int], p \in P : f[a][p] = a[p] * c[p] /\ DOMAIN f[a] = P
  OBVIOUS
<1>3. \A a \in [P -> Int] : Takes(d, k, e, a) = Sum(f[a], P)
  BY SumFun DEF Takes
<1>4. f[x] = [p \in d.products |-> x[p] * d.cell[k][<<p, e>>]]
  OBVIOUS
<1> HIDE DEF P, c, f
<1>5. \A a \in [P -> Int], p \in P : f[a][p] \in Int
  BY <1>1, <1>2
<1>6. ASSUME NEW y \in [P -> Int], \A p \in P : y[p] <= x[p]
      PROVE  Sum(f[y], P) <= Sum(f[x], P)
  <2>1. \A a, b \in Int, n \in Nat : a <= b => a * n <= b * n
    <3> SUFFICES ASSUME NEW a \in Int, NEW b \in Int, NEW n \in Nat, a <= b PROVE a * n <= b * n
      OBVIOUS
    <3>1. (b - a) * n \in Nat
      <4>1. b - a \in Nat
        OBVIOUS
      <4> QED BY <4>1
    <3>2. b * n = a * n + (b - a) * n
      OBVIOUS
    <3> QED BY <3>1, <3>2
  <2>2. x \in [P -> Int] /\ IsFiniteSet(P)
    BY DEF P
  <2>3. \A p \in P : f[y][p] <= f[x][p]
    BY <1>1, <1>2, <1>6, <2>1, <2>2
  <2>4. \A p \in P : f[y][p] \in Int /\ f[x][p] \in Int /\ f[y][p] <= f[x][p]
    BY <1>5, <2>2, <2>3
  <2> QED BY <2>2, <2>4, SumMonotonic
<1>7. Sum(f[x], P) \in Int
  BY <1>5, SumInt DEF P
<1> QED BY <1>3, <1>4, <1>6, <1>7 DEF P

\* What a column takes is what its entity takes.
LEMMA LoadIs ==
    ASSUME Read, NEW k \in Kinds, NEW j \in Columns(k), NEW a \in [Places -> Int],
           NEW x \in [AsRead.products -> Int], \A i \in Places : a[i] = x[Products[i]]
    PROVE  Load(BuildModel, k, j, a) = Takes(AsRead, k, Rows(k)[j], x)
<1> DEFINE f == [i \in Places |-> a[i] * Coef(BuildModel, k, i, j)]
           e == Rows(k)[j]
           P == AsRead.products
           g == [p \in P |-> x[p] * AsRead.cell[k][<<p, e>>]]
<1>1. Load(BuildModel, k, j, a) = Sum(f, Places)
  BY SumFun, BuildModelIs DEF Load
<1>2. e \in AsRead.have[k]
  BY ColumnsAre
<1>3. Takes(AsRead, k, e, x) = Sum(g, P)
  BY <1>2, AsReadIs, TakesIs
<1>4. ASSUME NEW i \in Places PROVE f[i] \in Int /\ f[i] = g[Products[i]]
  <2>1. Products[i] \in P /\ P \in SUBSET Ids /\ AsRead.have[k] \in SUBSET Ids
    BY PlacesAre, AsReadIs, ScenarioIs
  <2>2. AsRead.cell[k] \in [Ids \X Ids -> Nat]
    BY AsReadIs, ScenarioIs
  <2>3. AsRead.cell[k][<<Products[i], e>>] \in Nat
    BY <1>2, <2>1, <2>2
  <2>4. Coef(BuildModel, k, i, j) = AsRead.cell[k][<<Products[i], e>>]
    BY CoefIs
  <2>5. f[i] = a[i] * AsRead.cell[k][<<Products[i], e>>]
    BY <2>4
  <2>6. g[Products[i]] = x[Products[i]] * AsRead.cell[k][<<Products[i], e>>]
    BY <2>1
  <2> QED BY <2>1, <2>3, <2>5, <2>6
<1>5. /\ IsFiniteSet(Places) /\ Products \in [Places -> P]
      /\ \A i, l \in Places : Products[i] = Products[l] => i = l
      /\ \A p \in P : \E i \in Places : Products[i] = p
  BY PlacesAre
<1> HIDE DEF f, g, e, P
<1>6. Sum(f, Places) = Sum(g, P)
  BY <1>4, <1>5, SumRename
<1> QED BY <1>1, <1>3, <1>6 DEF e

\* The parts of Worth.
Earned(d, x) == SumFunction([p \in d.products |-> d.sale[p] * x[p]])
Paid(d, k, x) == SumFunction([e \in d.have[k] |-> d.cost[k][e] * Takes(d, k, e, x)])

LEMMA WorthIs ==
    ASSUME NEW d, NEW x, NEW y
    PROVE  Worth(d, x, y) = Earned(d, x) - Paid(d, "ingredient", x) - Paid(d, "resource", y)
  BY DEF Worth, Earned, Paid

LEMMA EarnedInt ==
    ASSUME NEW d \in Scenarios, IsFiniteSet(d.products), NEW x \in [d.products -> Int]
    PROVE  Earned(d, x) \in Int
<1> DEFINE P == d.products
           f == [p \in P |-> d.sale[p] * x[p]]
<1>1. Earned(d, x) = Sum(f, P)
  BY SumFun DEF Earned
<1>2. \A p \in P : f[p] \in Int
  BY ScenarioIs
<1> HIDE DEF f
<1> QED BY <1>1, <1>2, SumInt

LEMMA PaidIs ==
    ASSUME NEW d \in Scenarios, IsFiniteSet(d.products), NEW k \in Kinds, IsFiniteSet(d.have[k]),
           NEW x \in [d.products -> Int]
    PROVE  /\ Paid(d, k, x) \in Int
           /\ Paid(d, k, x) = Sum([e \in d.have[k] |-> d.cost[k][e] * Takes(d, k, e, x)], d.have[k])
           /\ \A e \in d.have[k] : d.cost[k][e] \in Nat /\ d.cost[k][e] * Takes(d, k, e, x) \in Int
           /\ \A y \in [d.products -> Int] :
                 (\A p \in d.products : y[p] <= x[p]) => Paid(d, k, y) <= Paid(d, k, x)
<1> DEFINE E == d.have[k]
           A == [d.products -> Int]
           c == [e \in E |-> d.cost[k][e]]
           t == [a \in A |-> [e \in E |-> Takes(d, k, e, a)]]
           f == [a \in A |-> [e \in E |-> d.cost[k][e] * Takes(d, k, e, a)]]
<1>1. \A e \in E : c[e] \in Nat /\ c[e] = d.cost[k][e]
  <2>1. d.cost[k] \in [Ids -> Nat] /\ d.have[k] \in SUBSET Ids
    BY ScenarioIs
  <2> QED BY <2>1
<1>2. \A a \in A, e \in E : t[a][e] \in Int /\ t[a][e] = Takes(d, k, e, a)
  BY TakesIs
<1>3. \A a \in A, e \in E : f[a][e] = c[e] * t[a][e]
  OBVIOUS
<1>4. \A a \in A : Paid(d, k, a) = Sum(f[a], E)
  BY SumFun DEF Paid
<1>5. f[x] = [e \in d.have[k] |-> d.cost[k][e] * Takes(d, k, e, x)] /\ x \in A
  OBVIOUS
<1>6. ASSUME NEW y \in A, \A p \in d.products : y[p] <= x[p], NEW e \in E
      PROVE  t[y][e] <= t[x][e]
  BY <1>2, <1>5, <1>6, TakesIs
<1> HIDE DEF c, t, f
<1>7. \A a \in A, e \in E : f[a][e] \in Int
  BY <1>1, <1>2, <1>3
<1>8. Sum(f[x], E) \in Int
  BY <1>5, <1>7, SumInt
<1>9. ASSUME NEW y \in A, \A p \in d.products : y[p] <= x[p]
      PROVE  Sum(f[y], E) <= Sum(f[x], E)
  <2>1. \A a, b \in Int, n \in Nat : a <= b => n * a <= n * b
    <3> SUFFICES ASSUME NEW a \in Int, NEW b \in Int, NEW n \in Nat, a <= b PROVE n * a <= n * b
      OBVIOUS
    <3>1. n * (b - a) \in Nat
      <4>1. b - a \in Nat
        OBVIOUS
      <4> QED BY <4>1
    <3>2. n * b = n * a + n * (b - a)
      OBVIOUS
    <3> QED BY <3>1, <3>2
  <2> HIDE DEF A, E
  <2>2. \A e \in E : f[y][e] <= f[x][e]
    <3> SUFFICES ASSUME NEW e \in E PROVE f[y][e] <= f[x][e]
      OBVIOUS
    <3>1. f[y][e] = c[e] * t[y][e] /\ f[x][e] = c[e] * t[x][e]
      BY <1>3, <1>5
    <3>2. t[y][e] \in Int /\ t[x][e] \in Int /\ c[e] \in Nat /\ t[y][e] <= t[x][e]
      BY <1>1, <1>2, <1>5, <1>6, <1>9
    <3> HIDE DEF A, E
    <3> QED BY <2>1, <3>1, <3>2
  <2>3. \A e \in E : f[y][e] \in Int /\ f[x][e] \in Int /\ f[y][e] <= f[x][e]
    BY <1>5, <1>7, <2>2
  <2>4. IsFiniteSet(E)
    BY DEF E
  <2> QED BY <2>3, <2>4, SumMonotonic
<1>10. \A e \in E : d.cost[k][e] \in Nat /\ d.cost[k][e] * Takes(d, k, e, x) \in Int
  BY <1>1, <1>2, <1>5
<1> QED BY <1>4, <1>5, <1>8, <1>9, <1>10

\* What the model charges for a kind is what the scenario pays for it.
LEMMA CostIs ==
    ASSUME Read, NEW k \in Kinds, NEW a \in [Places -> Int],
           NEW x \in [AsRead.products -> Int], \A i \in Places : a[i] = x[Products[i]]
    PROVE  Cost(BuildModel, k, a) = Paid(AsRead, k, x)
<1> DEFINE f == [j \in Columns(k) |-> BuildModel.cost[k][j] * Load(BuildModel, k, j, a)]
           E == AsRead.have[k]
           g == [e \in E |-> AsRead.cost[k][e] * Takes(AsRead, k, e, x)]
<1>1. Cost(BuildModel, k, a) = Sum(f, Columns(k))
  BY SumFun, BuildModelIs DEF Cost
<1>2. Paid(AsRead, k, x) = Sum(g, E) /\ \A e \in E : g[e] \in Int
  BY AsReadIs, PaidIs
<1>3. ASSUME NEW j \in Columns(k) PROVE f[j] \in Int /\ f[j] = g[Rows(k)[j]]
  <2>1. Rows(k)[j] \in E
    BY ColumnsAre
  <2>2. BuildModel.cost[k][j] = AsRead.cost[k][Rows(k)[j]]
    BY BuildModelIs
  <2>3. Load(BuildModel, k, j, a) = Takes(AsRead, k, Rows(k)[j], x)
    BY LoadIs
  <2>4. f[j] = g[Rows(k)[j]]
    BY <2>1, <2>2, <2>3
  <2> QED BY <1>2, <2>1, <2>4
<1>4. /\ IsFiniteSet(Columns(k)) /\ Rows(k) \in [Columns(k) -> E]
      /\ \A i, l \in Columns(k) : Rows(k)[i] = Rows(k)[l] => i = l
      /\ \A e \in E : \E i \in Columns(k) : Rows(k)[i] = e
  BY ColumnsAre
<1> HIDE DEF f, g, E
<1>5. Sum(f, Columns(k)) = Sum(g, E)
  BY <1>3, <1>4, SumRename
<1> QED BY <1>1, <1>2, <1>5

\* A plan by position and the same plan by product.
Matches(v, x, y) ==
    /\ v \in Points(BuildModel)
    /\ x \in [AsRead.products -> 0 .. order.max] /\ y \in [AsRead.products -> 0 .. MaxLots]
    /\ \A i \in Places : v.X[i] = x[Products[i]] /\ v.Y[i] = y[Products[i]]

LEMMA MatchesAre ==
    ASSUME Read, NEW v, NEW x, NEW y, Matches(v, x, y)
    PROVE  /\ v.X \in [Places -> 0 .. order.max] /\ v.Y \in [Places -> 0 .. MaxLots]
           /\ v.W \in [Places -> IF order.binary THEN {0, 1} ELSE {1}]
           /\ order.max \in Int /\ order.variety \in Int /\ order.binary \in BOOLEAN
           /\ v.X \in [Places -> Int] /\ v.Y \in [Places -> Int]
           /\ x \in [AsRead.products -> Int] /\ y \in [AsRead.products -> Int]
<1>1. /\ v.X \in [Places -> 0 .. order.max] /\ v.Y \in [Places -> 0 .. MaxLots]
      /\ v.W \in [Places -> IF order.binary THEN {0, 1} ELSE {1}]
  BY BuildModelIs DEF Matches, Points
<1>2. order.max \in Int /\ order.variety \in Int /\ order.binary \in BOOLEAN
  BY OrdersAssumption DEF Read
<1>3. MaxLots \in Nat
  BY BoundAssumption
<1> QED BY <1>1, <1>2, <1>3 DEF Matches

\* The objective of LINGO is the worth of the plan.
LEMMA ProfitIs ==
    ASSUME Read, NEW v, NEW x, NEW y, Matches(v, x, y)
    PROVE  Profit(BuildModel, v) = Worth(AsRead, x, y) /\ Worth(AsRead, x, y) \in Int
<1> DEFINE f == [i \in Places |-> BuildModel.P[i] * v.X[i]]
           P == AsRead.products
           g == [p \in P |-> AsRead.sale[p] * x[p]]
<1>1. /\ v.X \in [Places -> Int] /\ v.Y \in [Places -> Int]
      /\ x \in [P -> Int] /\ y \in [P -> Int]
      /\ \A i \in Places : v.X[i] = x[Products[i]] /\ v.Y[i] = y[Products[i]]
  BY MatchesAre DEF Matches
<1>2. /\ Cost(BuildModel, "ingredient", v.X) = Paid(AsRead, "ingredient", x)
      /\ Cost(BuildModel, "resource", v.Y) = Paid(AsRead, "resource", y)
  BY <1>1, CostIs DEF Kinds
<1>3. Earned(AsRead, x) = Sum(g, P) /\ SumFunction(f) = Sum(f, Places)
  BY SumFun DEF Earned
<1>4. ASSUME NEW i \in Places PROVE f[i] \in Int /\ f[i] = g[Products[i]]
  <2>1. Products[i] \in P /\ P \in SUBSET Ids /\ AsRead.sale \in [Ids -> Nat]
    BY PlacesAre, AsReadIs, ScenarioIs
  <2>2. f[i] = AsRead.sale[Products[i]] * x[Products[i]]
    BY <1>1, BuildModelIs
  <2> QED BY <1>1, <2>1, <2>2
<1>5. /\ IsFiniteSet(Places) /\ Products \in [Places -> P]
      /\ \A i, l \in Places : Products[i] = Products[l] => i = l
      /\ \A p \in P : \E i \in Places : Products[i] = p
  BY PlacesAre
<1>6. Profit(BuildModel, v) = SumFunction(f) - Cost(BuildModel, "ingredient", v.X)
                                             - Cost(BuildModel, "resource", v.Y)
  BY BuildModelIs DEF Profit
<1> HIDE DEF f, g, P
<1>7. Sum(f, Places) = Sum(g, P)
  BY <1>4, <1>5, SumRename
<1>8. Earned(AsRead, x) \in Int /\ Paid(AsRead, "ingredient", x) \in Int
      /\ Paid(AsRead, "resource", y) \in Int
  BY <1>1, AsReadIs, EarnedInt, PaidIs DEF Kinds, P
<1> QED BY <1>2, <1>3, <1>6, <1>7, <1>8, WorthIs

-----------------------------------------------------------------------------
(* The constraints of the model are the limits of the scenario.               *)

LEMMA SumByPlace ==
    ASSUME Read, NEW a \in [Places -> Int],
           NEW x \in [AsRead.products -> Int], \A i \in Places : a[i] = x[Products[i]]
    PROVE  SumFunction(a) = Sum(x, AsRead.products) /\ SumFunction(x) = Sum(x, AsRead.products)
<1> DEFINE P == AsRead.products
<1>1. SumFunction(a) = Sum(a, Places) /\ SumFunction(x) = Sum(x, P)
  BY SumFun
<1>2. /\ IsFiniteSet(Places) /\ Products \in [Places -> P]
      /\ \A i, l \in Places : Products[i] = Products[l] => i = l
      /\ \A p \in P : \E i \in Places : Products[i] = p
  BY PlacesAre
<1>3. \A i \in Places : a[i] \in Int /\ a[i] = x[Products[i]]
  OBVIOUS
<1> HIDE DEF P
<1>4. Sum(a, Places) = Sum(x, P)
  BY <1>2, <1>3, SumRename
<1> QED BY <1>1, <1>4 DEF P

\* What LINGO may answer keeps within the scenario ...
LEMMA FeasibleIs ==
    ASSUME Read, NEW v, NEW x, NEW y, Matches(v, x, y), Feasible(BuildModel, v)
    PROVE  Respects(AsRead, x, y)
<1> DEFINE P == AsRead.products
           b == BuildModel
<1>1. /\ v.X \in [Places -> 0 .. order.max] /\ v.Y \in [Places -> 0 .. MaxLots]
      /\ v.W \in [Places -> IF order.binary THEN {0, 1} ELSE {1}]
      /\ order.max \in Int /\ order.variety \in Int /\ order.binary \in BOOLEAN
      /\ v.X \in [Places -> Int] /\ v.Y \in [Places -> Int]
      /\ x \in [P -> Int] /\ y \in [P -> Int]
      /\ \A i \in Places : v.X[i] = x[Products[i]] /\ v.Y[i] = y[Products[i]]
  BY MatchesAre DEF Matches
<1>2. SumFunction(x) <= order.max
  <2>1. SumFunction(v.X) <= order.max
    BY BuildModelIs DEF Feasible
  <2> QED BY <1>1, <2>1, SumByPlace
<1>3. ASSUME NEW p \in P
      PROVE  /\ x[p] <= AsRead.demand[p]
             /\ AsRead.lo[p] * y[p] <= x[p] /\ x[p] <= AsRead.hi[p] * y[p]
  <2>1. PICK i \in Places : Products[i] = p
    BY PlacesAre
  <2>2. /\ v.X[i] <= b.D[i] * v.W[i] /\ v.X[i] >= b.LI[i] * v.Y[i] /\ v.X[i] <= b.LS[i] * v.Y[i]
    BY BuildModelIs DEF Feasible
  <2>3. /\ v.X[i] = x[p] /\ v.Y[i] = y[p]
        /\ b.D[i] = AsRead.demand[p] /\ b.LI[i] = AsRead.lo[p] /\ b.LS[i] = AsRead.hi[p]
    BY <1>1, <2>1, BuildModelIs
  <2>4. AsRead.demand[p] \in Nat /\ AsRead.lo[p] \in Nat
    BY AsReadIs, ScenarioIs
  <2>5. v.W[i] \in {0, 1} /\ x[p] \in Int /\ y[p] \in Int
    BY <1>1
  <2> HIDE DEF b
  <2>6. x[p] <= AsRead.demand[p]
    <3>1. CASE v.W[i] = 0
      <4>1. AsRead.demand[p] * 0 = 0
        BY <2>4
      <4> QED BY <2>2, <2>3, <2>4, <2>5, <3>1, <4>1
    <3>2. CASE v.W[i] = 1
      <4>1. AsRead.demand[p] * 1 = AsRead.demand[p]
        BY <2>4
      <4> QED BY <2>2, <2>3, <2>4, <2>5, <3>2, <4>1
    <3> QED BY <2>5, <3>1, <3>2
  <2>7. AsRead.lo[p] * y[p] \in Int
    BY <2>4, <2>5
  <2> QED BY <2>2, <2>3, <2>5, <2>6, <2>7
<1>4. ASSUME NEW k \in Kinds, NEW e \in AsRead.have[k], NEW a \in [Places -> Int],
             NEW z \in [P -> Int], \A i \in Places : a[i] = z[Products[i]],
             \A j \in DOMAIN b.limit[k] : Load(b, k, j, a) <= b.limit[k][j]
      PROVE  Takes(AsRead, k, e, z) <= AsRead.limit[k][e]
  <2>1. PICK j \in Columns(k) : Rows(k)[j] = e
    BY ColumnsAre
  <2>2. Load(b, k, j, a) <= b.limit[k][j] /\ b.limit[k][j] = AsRead.limit[k][e]
    BY <1>4, <2>1, BuildModelIs
  <2>3. Load(b, k, j, a) = Takes(AsRead, k, e, z)
    BY <1>4, <2>1, LoadIs
  <2> QED BY <2>2, <2>3
<1>5. \A e \in AsRead.have["ingredient"] :
         Takes(AsRead, "ingredient", e, x) <= AsRead.limit["ingredient"][e]
  <2>1. /\ "ingredient" \in Kinds
        /\ \A j \in DOMAIN b.limit["ingredient"] :
              Load(b, "ingredient", j, v.X) <= b.limit["ingredient"][j]
    BY DEF Feasible, Kinds
  <2> HIDE DEF b, P
  <2> QED BY <1>1, <1>4, <2>1
<1>6. \A k \in {"machine", "resource"} : \A e \in AsRead.have[k] :
         Takes(AsRead, k, e, y) <= AsRead.limit[k][e]
  <2>1. \A k \in {"machine", "resource"} :
           k \in Kinds /\ \A j \in DOMAIN b.limit[k] : Load(b, k, j, v.Y) <= b.limit[k][j]
    BY DEF Feasible, Kinds
  <2> HIDE DEF b, P
  <2> QED BY <1>1, <1>4, <2>1
<1>7. ASSUME order.binary PROVE Cardinality({p \in P : x[p] > 0}) >= order.variety
  <2> DEFINE home == [p \in P |-> CHOOSE i \in Places : Products[i] = p]
             w == [p \in P |-> v.W[home[p]]]
             I == {p \in P : w[p] = 1}
             J == {p \in P : x[p] > 0}
  <2>1. /\ b.binary = order.binary /\ b.variety = order.variety /\ DOMAIN b.P = Places
    BY BuildModelIs
  <2>2. SumFunction(v.W) >= order.variety /\ \A i \in Places : v.W[i] <= v.X[i]
    BY <1>7, <2>1 DEF Feasible
  <2>3. \A p \in P : home[p] \in Places /\ Products[home[p]] = p
    BY PlacesAre
  <2>4. \A i \in Places : Products[i] \in P /\ home[Products[i]] = i
    <3>1. \A i \in Places : Products[i] \in P
      BY PlacesAre
    <3> HIDE DEF home
    <3> QED BY <2>3, <3>1, PlacesAre
  <2> HIDE DEF home
  <2>5. v.W \in [Places -> {0, 1}]
    BY <1>1, <1>7
  <2>6. \A p \in P : w[p] \in {0, 1}
    BY <2>3, <2>5
  <2>7. w \in [P -> Int] /\ v.W \in [Places -> Int] /\ \A i \in Places : v.W[i] = w[Products[i]]
    <3>1. \A i \in Places : v.W[i] = w[Products[i]]
      BY <2>4
    <3>2. v.W \in [Places -> Int]
      BY <2>5
    <3>3. w = [p \in P |-> w[p]]
      OBVIOUS
    <3> HIDE DEF w, P
    <3> QED BY <2>6, <3>1, <3>2, <3>3
  <2>8. SumFunction(v.W) = Sum(w, P)
    BY <2>7, SumByPlace
  <2>9. IsFiniteSet(P)
    BY AsReadIs
  <2>10. Sum(w, P) = Cardinality(I)
    <3> HIDE DEF w, P
    <3> QED BY <2>6, <2>9, SumOnes
  <2>11. I \in SUBSET J
    <3> SUFFICES ASSUME NEW p \in P, w[p] = 1 PROVE x[p] > 0
      OBVIOUS
    <3>1. v.W[home[p]] <= v.X[home[p]] /\ v.X[home[p]] = x[p] /\ v.W[home[p]] = 1
      BY <1>1, <2>2, <2>3
    <3>2. x[p] \in Int
      BY <1>1
    <3> QED BY <3>1, <3>2
  <2>12. IsFiniteSet(J) /\ J \in SUBSET P
    BY <2>9, FS_Subset
  <2> HIDE DEF I, J
  <2>13. Cardinality(I) <= Cardinality(J) /\ Cardinality(I) \in Nat /\ Cardinality(J) \in Nat
    BY <2>11, <2>12, FS_Subset, FS_CardinalityType
  <2>14. Cardinality(J) >= order.variety
    BY <1>1, <2>2, <2>8, <2>10, <2>13
  <2> QED BY <2>14 DEF J
<1> HIDE DEF b
<1> QED BY <1>2, <1>3, <1>5, <1>6, <1>7 DEF Respects

\* ... and what keeps within the scenario LINGO may answer: W is 1 where
\* something is made.
LEMMA RespectsIs ==
    ASSUME Read, NEW x \in [AsRead.products -> 0 .. order.max],
           NEW y \in [AsRead.products -> 0 .. MaxLots], Respects(AsRead, x, y)
    PROVE  \E v : Matches(v, x, y) /\ Feasible(BuildModel, v)
<1> DEFINE P == AsRead.products
           b == BuildModel
           u == [p \in P |-> IF order.binary THEN IF x[p] > 0 THEN 1 ELSE 0 ELSE 1]
           v == [X |-> [i \in Places |-> x[Products[i]]],
                 Y |-> [i \in Places |-> y[Products[i]]],
                 W |-> [i \in Places |-> u[Products[i]]]]
<1>1. \A i \in Places : Products[i] \in P
  BY PlacesAre
<1>2. order.max \in Int /\ order.variety \in Int /\ order.binary \in BOOLEAN /\ MaxLots \in Nat
  BY OrdersAssumption, BoundAssumption DEF Read
<1>3. /\ b.max = order.max /\ b.variety = order.variety /\ b.binary = order.binary
      /\ DOMAIN b.P = Places
  BY BuildModelIs
<1>4. /\ v.X \in [Places -> 0 .. order.max] /\ v.Y \in [Places -> 0 .. MaxLots]
      /\ v.W \in [Places -> IF order.binary THEN {0, 1} ELSE {1}]
      /\ \A i \in Places : /\ v.X[i] = x[Products[i]] /\ v.Y[i] = y[Products[i]]
                           /\ v.W[i] = u[Products[i]]
  BY <1>1
<1>5. Matches(v, x, y)
  <2>1. v = [X |-> v.X, Y |-> v.Y, W |-> v.W]
    OBVIOUS
  <2> HIDE DEF v, b
  <2>2. v \in Points(b)
    BY <1>3, <1>4, <2>1 DEF Points
  <2> QED BY <1>4, <2>2 DEF Matches, b
<1> HIDE DEF v
<1>6. /\ v.X \in [Places -> Int] /\ v.Y \in [Places -> Int]
      /\ x \in [P -> Int] /\ y \in [P -> Int]
  BY <1>5, MatchesAre
<1>7. SumFunction(v.X) <= order.max
  <2>1. SumFunction(x) <= order.max
    BY DEF Respects
  <2>2. \A i \in Places : v.X[i] = x[Products[i]]
    BY <1>4
  <2> DEFINE a == v.X
  <2>3. a \in [Places -> Int] /\ x \in [AsRead.products -> Int]
    BY <1>6
  <2> HIDE DEF a
  <2>4. \A i \in Places : a[i] = x[Products[i]]
    BY <2>2 DEF a
  <2>5. SumFunction(a) = SumFunction(x)
    BY <2>3, <2>4, SumByPlace
  <2> QED BY <2>1, <2>5 DEF a
<1>8. ASSUME NEW i \in Places
      PROVE  /\ v.X[i] <= b.D[i] * v.W[i]
             /\ v.X[i] >= b.LI[i] * v.Y[i] /\ v.X[i] <= b.LS[i] * v.Y[i]
             /\ order.binary => v.W[i] <= v.X[i]
  <2> DEFINE p == Products[i]
  <2>1. p \in P /\ v.X[i] = x[p] /\ v.Y[i] = y[p] /\ v.W[i] = u[p]
    BY <1>1, <1>4
  <2>2. b.D[i] = AsRead.demand[p] /\ b.LI[i] = AsRead.lo[p] /\ b.LS[i] = AsRead.hi[p]
    BY BuildModelIs
  <2>3. /\ AsRead.demand[p] \in Nat /\ AsRead.lo[p] \in Nat
        /\ x[p] \in 0 .. order.max /\ x[p] \in Int /\ y[p] \in Int
    BY <1>2, <2>1, AsReadIs, ScenarioIs
  <2>4. /\ x[p] <= AsRead.demand[p]
        /\ AsRead.lo[p] * y[p] <= x[p] /\ x[p] <= AsRead.hi[p] * y[p]
    BY <2>1 DEF Respects
  <2>5. u[p] = IF order.binary THEN IF x[p] > 0 THEN 1 ELSE 0 ELSE 1
    BY <2>1
  <2> HIDE DEF p, b, u
  <2>6. AsRead.demand[p] * 0 = 0 /\ AsRead.demand[p] * 1 = AsRead.demand[p]
    BY <2>3
  <2>7. x[p] <= AsRead.demand[p] * u[p]
    <3>1. CASE u[p] = 1
      BY <2>4, <2>6, <3>1
    <3>2. CASE u[p] # 1
      <4>1. u[p] = 0 /\ x[p] = 0
        BY <2>3, <2>5, <3>2, <1>2
      <4> QED BY <2>6, <4>1
    <3> QED BY <3>1, <3>2
  <2>8. order.binary => u[p] <= x[p]
    BY <1>2, <2>3, <2>5
  <2>9. AsRead.lo[p] * y[p] \in Int
    BY <2>3
  <2>10. v.X[i] <= b.D[i] * v.W[i] /\ (order.binary => v.W[i] <= v.X[i])
    BY <2>1, <2>2, <2>7, <2>8
  <2>11. v.X[i] >= b.LI[i] * v.Y[i] /\ v.X[i] <= b.LS[i] * v.Y[i]
    BY <2>1, <2>2, <2>3, <2>4, <2>9
  <2> QED BY <2>10, <2>11
<1>9. ASSUME NEW k \in Kinds, NEW j \in Columns(k), NEW a \in [Places -> Int],
             NEW z \in [P -> Int], \A i \in Places : a[i] = z[Products[i]],
             \A e \in AsRead.have[k] : Takes(AsRead, k, e, z) <= AsRead.limit[k][e]
      PROVE  Load(b, k, j, a) <= b.limit[k][j]
  <2>1. Rows(k)[j] \in AsRead.have[k]
    BY ColumnsAre
  <2>2. b.limit[k][j] = AsRead.limit[k][Rows(k)[j]]
    BY BuildModelIs
  <2>3. Load(b, k, j, a) = Takes(AsRead, k, Rows(k)[j], z)
    BY <1>9, LoadIs
  <2> QED BY <1>9, <2>1, <2>2, <2>3
<1>10. \A j \in DOMAIN b.limit["ingredient"] :
          Load(b, "ingredient", j, v.X) <= b.limit["ingredient"][j]
  <2>1. /\ "ingredient" \in Kinds /\ DOMAIN b.limit["ingredient"] = Columns("ingredient")
        /\ \A e \in AsRead.have["ingredient"] :
              Takes(AsRead, "ingredient", e, x) <= AsRead.limit["ingredient"][e]
    BY BuildModelIs DEF Respects, Kinds
  <2>2. v.X \in [Places -> Int] /\ x \in [P -> Int] /\ \A i \in Places : v.X[i] = x[Products[i]]
    BY <1>4, <1>6
  <2> DEFINE a == v.X
  <2> HIDE DEF a, b, P, u
  <2>3. a \in [Places -> Int] /\ x \in [P -> Int] /\ \A i \in Places : a[i] = x[Products[i]]
    BY <2>2 DEF a
  <2>4. \A j \in Columns("ingredient") : Load(b, "ingredient", j, a) <= b.limit["ingredient"][j]
    BY <1>9, <2>1, <2>3
  <2> QED BY <2>1, <2>4 DEF a
<1>11. \A k \in {"resource", "machine"} : \A j \in DOMAIN b.limit[k] :
          Load(b, k, j, v.Y) <= b.limit[k][j]
  <2>1. \A k \in {"resource", "machine"} :
           /\ k \in Kinds /\ DOMAIN b.limit[k] = Columns(k)
           /\ \A e \in AsRead.have[k] : Takes(AsRead, k, e, y) <= AsRead.limit[k][e]
    BY BuildModelIs DEF Respects, Kinds
  <2> SUFFICES ASSUME NEW k \in {"resource", "machine"}, NEW j \in DOMAIN b.limit[k]
               PROVE  Load(b, k, j, v.Y) <= b.limit[k][j]
    OBVIOUS
  <2>2. /\ k \in Kinds /\ j \in Columns(k)
        /\ \A e \in AsRead.have[k] : Takes(AsRead, k, e, y) <= AsRead.limit[k][e]
    BY <2>1
  <2>3. v.Y \in [Places -> Int] /\ y \in [P -> Int] /\ \A i \in Places : v.Y[i] = y[Products[i]]
    BY <1>4, <1>6
  <2> DEFINE a == v.Y
  <2> HIDE DEF a, b, P, u
  <2>4. a \in [Places -> Int] /\ y \in [P -> Int] /\ \A i \in Places : a[i] = y[Products[i]]
    BY <2>3 DEF a
  <2>5. Load(b, k, j, a) <= b.limit[k][j]
    BY <1>9, <2>2, <2>4
  <2> QED BY <2>5 DEF a
<1>12. ASSUME order.binary PROVE SumFunction(v.W) >= order.variety
  <2>1. \A p \in P : u[p] \in {0, 1} /\ (u[p] = 1 <=> x[p] > 0)
    BY <1>12
  <2>2. u = [p \in P |-> u[p]] /\ v.W \in [Places -> Int]
    BY <1>4, <1>12
  <2> HIDE DEF u
  <2>3. u \in [P -> Int]
    BY <2>1, <2>2
  <2>4. SumFunction(v.W) = Sum(u, P)
    BY <1>4, <2>2, <2>3, SumByPlace
  <2>5. IsFiniteSet(P)
    BY AsReadIs
  <2>6. {p \in P : u[p] = 1} = {p \in P : x[p] > 0}
    BY <2>1
  <2>7. Cardinality({p \in P : x[p] > 0}) >= order.variety
    BY <1>12 DEF Respects
  <2> HIDE DEF P
  <2>8. Sum(u, P) = Cardinality({p \in P : u[p] = 1})
    BY <2>1, <2>5, SumOnes
  <2> QED BY <2>4, <2>6, <2>7, <2>8
<1> HIDE DEF b, P, u
<1>13. Feasible(b, v)
  BY <1>3, <1>7, <1>8, <1>10, <1>11, <1>12 DEF Feasible
<1> QED BY <1>5, <1>13 DEF b

\* Fewer lots, if the units still fit in them, break no limit and cost no more.
LEMMA FewerLots ==
    ASSUME NEW d \in Scenarios, IsFiniteSet(d.products),
           \A k \in Kinds : IsFiniteSet(d.have[k]),
           NEW x \in [d.products -> Nat], NEW y \in [d.products -> Nat], Respects(d, x, y),
           NEW z \in [d.products -> Nat],
           \A p \in d.products : /\ z[p] <= y[p]
                                 /\ d.lo[p] * z[p] <= x[p] /\ x[p] <= d.hi[p] * z[p]
    PROVE  Respects(d, x, z) /\ Worth(d, x, y) <= Worth(d, x, z)
<1> DEFINE P == d.products
<1>1. x \in [P -> Int] /\ y \in [P -> Int] /\ z \in [P -> Int]
  OBVIOUS
<1>2. ASSUME NEW k \in {"machine", "resource"}, NEW e \in d.have[k]
      PROVE  Takes(d, k, e, z) <= d.limit[k][e]
  <2>1. k \in Kinds
    BY DEF Kinds
  <2>2. Takes(d, k, e, z) <= Takes(d, k, e, y)
    BY <1>1, <2>1, TakesIs
  <2>3. Takes(d, k, e, y) <= d.limit[k][e]
    BY DEF Respects
  <2>4. d.limit[k][e] \in Int
    BY <2>1, ScenarioIs
  <2>5. Takes(d, k, e, z) \in Int /\ Takes(d, k, e, y) \in Int
    BY <1>1, <2>1, TakesIs
  <2> QED BY <2>2, <2>3, <2>4, <2>5
<1>3. Respects(d, x, z)
  BY <1>2 DEF Respects
<1>4. Worth(d, x, y) <= Worth(d, x, z)
  <2>1. "ingredient" \in Kinds /\ "resource" \in Kinds
    BY DEF Kinds
  <2>2. /\ Earned(d, x) \in Int /\ Paid(d, "ingredient", x) \in Int
        /\ Paid(d, "resource", y) \in Int /\ Paid(d, "resource", z) \in Int
    BY <1>1, <2>1, EarnedInt, PaidIs
  <2>3. Paid(d, "resource", z) <= Paid(d, "resource", y)
    BY <1>1, <2>1, PaidIs
  <2> QED BY <2>2, <2>3, WorthIs
<1> QED BY <1>3, <1>4

\* No lots of products without units.
Trimmed(d, x, y) == [p \in d.products |-> IF x[p] > 0 THEN y[p] ELSE 0]

LEMMA TrimmedIs ==
    ASSUME NEW d \in Scenarios, IsFiniteSet(d.products),
           \A k \in Kinds : IsFiniteSet(d.have[k]),
           NEW x \in [d.products -> Nat], NEW y \in [d.products -> Nat], Respects(d, x, y)
    PROVE  /\ Trimmed(d, x, y) \in [d.products -> Nat]
           /\ Respects(d, x, Trimmed(d, x, y))
           /\ Worth(d, x, y) <= Worth(d, x, Trimmed(d, x, y))
<1> DEFINE P == d.products
           z == Trimmed(d, x, y)
<1>1. /\ z \in [P -> Nat]
      /\ \A p \in P : z[p] <= y[p] /\ z[p] = IF x[p] > 0 THEN y[p] ELSE 0
  BY DEF Trimmed
<1> HIDE DEF z
<1>2. ASSUME NEW p \in P PROVE d.lo[p] * z[p] <= x[p] /\ x[p] <= d.hi[p] * z[p]
  <2>1. d.lo[p] * y[p] <= x[p] /\ x[p] <= d.hi[p] * y[p]
    BY DEF Respects
  <2>2. d.lo[p] \in Nat /\ d.hi[p] \in Nat /\ x[p] \in Nat
    BY ScenarioIs
  <2>3. CASE x[p] > 0
    BY <1>1, <2>1, <2>3
  <2>4. CASE ~(x[p] > 0)
    <3>1. x[p] = 0 /\ z[p] = 0
      BY <1>1, <2>2, <2>4
    <3>2. d.lo[p] * 0 = 0 /\ d.hi[p] * 0 = 0
      BY <2>2
    <3> QED BY <3>1, <3>2
  <2> QED BY <2>3, <2>4
<1>3. Respects(d, x, z) /\ Worth(d, x, y) <= Worth(d, x, z)
  BY <1>1, <1>2, FewerLots
<1> QED BY <1>1, <1>3 DEF z

\* No more lots of a product than units.
Capped(d, x, y) == [p \in d.products |-> IF y[p] <= x[p] THEN y[p] ELSE x[p]]

LEMMA CappedIs ==
    ASSUME NEW d \in Scenarios, IsFiniteSet(d.products),
           \A k \in Kinds : IsFiniteSet(d.have[k]),
           NEW x \in [d.products -> Nat], NEW y \in [d.products -> Nat], Respects(d, x, y)
    PROVE  /\ Capped(d, x, y) \in [d.products -> Nat]
           /\ \A p \in d.products : Capped(d, x, y)[p] <= x[p]
           /\ Respects(d, x, Capped(d, x, y))
           /\ Worth(d, x, y) <= Worth(d, x, Capped(d, x, y))
<1> DEFINE P == d.products
           z == Capped(d, x, y)
<1>1. /\ z \in [P -> Nat]
      /\ \A p \in P : /\ z[p] <= y[p] /\ z[p] <= x[p]
                      /\ z[p] = IF y[p] <= x[p] THEN y[p] ELSE x[p]
  BY DEF Capped
<1> HIDE DEF z
<1>2. ASSUME NEW p \in P PROVE d.lo[p] * z[p] <= x[p] /\ x[p] <= d.hi[p] * z[p]
  <2> DEFINE lo == d.lo[p]
             hi == d.hi[p]
             a == x[p]
             b == y[p]
  <2>1. lo * b <= a /\ a <= hi * b
    BY DEF Respects
  <2>2. lo \in Nat /\ hi \in Nat /\ a \in Nat /\ b \in Nat
    BY ScenarioIs
  <2>3. z[p] = IF b <= a THEN b ELSE a
    BY <1>1
  <2> HIDE DEF lo, hi, a, b
  <2>4. CASE b <= a
    <3>1. z[p] = b
      BY <2>3, <2>4
    <3> QED BY <2>1, <3>1 DEF lo, hi, a
  <2>5. CASE ~(b <= a)
    <3>1. z[p] = a /\ b - a \in Nat
      BY <2>2, <2>3, <2>5
    <3>2. lo * a <= a
      <4>1. lo * (b - a) \in Nat /\ lo * b = lo * a + lo * (b - a)
        BY <2>2, <3>1
      <4>2. lo * a \in Nat /\ lo * b \in Nat
        BY <2>2
      <4> QED BY <2>1, <2>2, <4>1, <4>2
    <3>3. a <= hi * a
      <4>1. CASE hi = 0
        <5>1. hi * b = 0 /\ hi * a = 0
          BY <2>2, <4>1
        <5> QED BY <2>1, <2>2, <5>1
      <4>2. CASE hi # 0
        <5>1. hi - 1 \in Nat
          BY <2>2, <4>2
        <5>2. (hi - 1) * a \in Nat /\ hi * a = a + (hi - 1) * a
          BY <2>2, <5>1
        <5> QED BY <2>2, <5>2
      <4> QED BY <4>1, <4>2
    <3> QED BY <3>1, <3>2, <3>3 DEF lo, hi, a
  <2> QED BY <2>4, <2>5
<1>3. Respects(d, x, z) /\ Worth(d, x, y) <= Worth(d, x, z)
  BY <1>1, <1>2, FewerLots
<1> QED BY <1>1, <1>3 DEF z

-----------------------------------------------------------------------------
(* The expected profits.                                                      *)

\* What an entity kind costs, paid entity by entity or product by product.
Spent(d, k, p) == SumFunction([e \in Ids |-> d.cell[k][<<p, e>>] * d.cost[k][e]])

\* What a kind costs is the same product by product and entity by entity: the
\* order of two sums, and the zeros of the entities that are not there.
LEMMA SpentIs ==
    ASSUME NEW d \in Scenarios, NEW k \in Kinds, NEW x \in [d.products -> Int],
           \A e \in Ids \ d.have[k] : d.cost[k][e] = 0
    PROVE  /\ \A p \in d.products : Spent(d, k, p) \in Int
           /\ Paid(d, k, x) = Sum([p \in d.products |-> x[p] * Spent(d, k, p)], d.products)
<1> DEFINE P == d.products
           E == d.have[k]
           c == d.cost[k]
           t == [p \in P |-> [e \in Ids |-> d.cell[k][<<p, e>>] * d.cost[k][e]]]
           F == [q \in P \X E |-> x[q[1]] * (d.cell[k][q] * d.cost[k][q[2]])]
           row == [p \in P |-> [e \in E |-> F[<<p, e>>]]]
           col == [e \in E |-> [p \in P |-> F[<<p, e>>]]]
           use == [e \in E |-> [p \in P |-> x[p] * d.cell[k][<<p, e>>]]]
           rows == [p \in P |-> Sum([e \in E |-> F[<<p, e>>]], E)]
           cols == [e \in E |-> Sum([p \in P |-> F[<<p, e>>]], P)]
           g == [p \in P |-> x[p] * Spent(d, k, p)]
           h == [e \in E |-> d.cost[k][e] * Takes(d, k, e, x)]
<1>1. /\ P \in SUBSET Ids /\ E \in SUBSET Ids /\ c \in [Ids -> Nat]
      /\ d.cell[k] \in [Ids \X Ids -> Nat] /\ IsFiniteSet(Ids) /\ x \in [P -> Int]
  BY ScenarioIs, IdsAssumption
<1>2. IsFiniteSet(P) /\ IsFiniteSet(E)
  BY <1>1, FS_Subset
<1>3. ASSUME NEW p \in P
      PROVE  /\ Spent(d, k, p) = Sum(t[p], Ids)
             /\ \A e \in Ids : t[p][e] = d.cell[k][<<p, e>>] * c[e]
  BY SumFun DEF Spent
<1>4. \A p \in Ids, e \in Ids : d.cell[k][<<p, e>>] \in Nat /\ c[e] \in Nat
  BY <1>1
<1>5. \A p \in P, e \in E : /\ F[<<p, e>>] = x[p] * (d.cell[k][<<p, e>>] * c[e])
                            /\ row[p][e] = F[<<p, e>>] /\ col[e][p] = F[<<p, e>>]
                            /\ use[e][p] = x[p] * d.cell[k][<<p, e>>]
  OBVIOUS
<1>6. /\ \A p \in P : rows[p] = Sum(row[p], E) /\ g[p] = x[p] * Spent(d, k, p)
      /\ \A e \in E : cols[e] = Sum(col[e], P) /\ h[e] = c[e] * Takes(d, k, e, x)
  OBVIOUS
<1>7. Paid(d, k, x) = Sum(h, E)
  BY <1>2, PaidIs
<1>8. \A e \in E : Takes(d, k, e, x) = Sum(use[e], P)
  BY <1>2, TakesIs
<1>9. E \in SUBSET Ids /\ P \in SUBSET Ids
  BY <1>1
<1>10. \A e \in Ids \ E : c[e] = 0
  OBVIOUS
<1>11. g = [p \in d.products |-> x[p] * Spent(d, k, p)]
  OBVIOUS
<1> HIDE DEF P, E, c, t, F, row, col, use, rows, cols, g, h
<1>12. ASSUME NEW p \in P
       PROVE  Spent(d, k, p) = Sum(t[p], E) /\ \A e \in Ids : t[p][e] \in Int
  <2> DEFINE q == [e \in Ids |-> d.cell[k][<<p, e>>]]
  <2>0. \A e \in Ids : q[e] \in Nat /\ c[e] \in Nat /\ t[p][e] = q[e] * c[e]
    BY <1>1, <1>3, <1>4
  <2> HIDE DEF q
  <2>1. \A e \in Ids : t[p][e] \in Int
    BY <2>0
  <2>2. \A e \in Ids \ E : t[p][e] = 0
    <3>1. \A n \in Nat : n * 0 = 0
      OBVIOUS
    <3> QED BY <1>10, <2>0, <3>1
  <2>3. Sum(t[p], Ids) = Sum(t[p], E)
    BY <1>1, <2>1, <2>2, SumSubset
  <2> QED BY <1>3, <2>1, <2>3
<1>13. ASSUME NEW p \in P PROVE Spent(d, k, p) \in Int
  BY <1>1, <1>2, <1>12, SumInt
<1>14. \A p \in P, e \in E : F[<<p, e>>] \in Int /\ F[<<p, e>>] = x[p] * t[p][e]
  <2> SUFFICES ASSUME NEW p \in P, NEW e \in E
               PROVE  F[<<p, e>>] \in Int /\ F[<<p, e>>] = x[p] * t[p][e]
    OBVIOUS
  <2>1. F[<<p, e>>] = x[p] * t[p][e]
    BY <1>1, <1>3, <1>5
  <2>2. x[p] \in Int /\ t[p][e] \in Int
    BY <1>1, <1>12
  <2> QED BY <2>1, <2>2
<1>15. ASSUME NEW p \in P PROVE g[p] \in Int /\ g[p] = rows[p]
  <2>1. \A e \in E : t[p][e] \in Int /\ row[p][e] = x[p] * t[p][e]
    BY <1>1, <1>5, <1>12, <1>14
  <2>2. x[p] \in Int
    BY <1>1
  <2>3. Sum(row[p], E) = x[p] * Sum(t[p], E)
    BY <1>2, <2>1, <2>2, SumTimes
  <2>4. Spent(d, k, p) = Sum(t[p], E) /\ Spent(d, k, p) \in Int
    BY <1>12, <1>13
  <2> QED BY <1>6, <2>2, <2>3, <2>4
<1>16. ASSUME NEW e \in E PROVE cols[e] = h[e] /\ cols[e] \in Int
  <2>1. c[e] \in Int /\ e \in Ids
    BY <1>1, <1>4
  <2>2. \A p \in P : use[e][p] \in Int /\ col[e][p] = c[e] * use[e][p]
    <3> SUFFICES ASSUME NEW p \in P PROVE use[e][p] \in Int /\ col[e][p] = c[e] * use[e][p]
      OBVIOUS
    <3>1. x[p] \in Int /\ d.cell[k][<<p, e>>] \in Int
      BY <1>1, <1>4
    <3>2. use[e][p] = x[p] * d.cell[k][<<p, e>>]
      BY <1>5
    <3>3. col[e][p] = x[p] * (d.cell[k][<<p, e>>] * c[e])
      BY <1>5
    <3>4. \A i, j, l \in Int : i * (j * l) = l * (i * j)
      OBVIOUS
    <3> QED BY <2>1, <3>1, <3>2, <3>3, <3>4
  <2>3. Sum(col[e], P) = c[e] * Sum(use[e], P)
    BY <1>2, <2>1, <2>2, SumTimes
  <2>4. Sum(use[e], P) \in Int
    BY <1>2, <2>2, SumInt
  <2> QED BY <1>6, <1>8, <2>1, <2>3, <2>4
<1>17. Sum(g, P) = Sum(rows, P)
  BY <1>2, <1>15, SumSame
<1>18. Sum(cols, E) = Sum(h, E)
  BY <1>2, <1>16, SumSame
<1>19. Sum(rows, P) = Sum(cols, E)
  <2>1. ASSUME NEW p \in P, NEW e \in E PROVE row[p][e] \in Int /\ row[p][e] = col[e][p]
    <3>1. row[p][e] = F[<<p, e>>] /\ col[e][p] = F[<<p, e>>]
      BY <1>5
    <3>2. F[<<p, e>>] \in Int
      BY <1>14
    <3> QED BY <3>1, <3>2
  <2>2. \A p \in P : rows[p] = Sum(row[p], E)
    BY <1>6
  <2>3. \A e \in E : cols[e] = Sum(col[e], P)
    BY <1>6
  <2>4. Table(row, col, rows, cols, P, E)
    BY <2>1, <2>2, <2>3 DEF Table
  <2> QED BY <1>2, <2>4, SumSwap
<1>20. Paid(d, k, x) = Sum(g, P)
  BY <1>7, <1>17, <1>18, <1>19
<1> QED BY <1>11, <1>13, <1>20 DEF P

-----------------------------------------------------------------------------
(* From the answer to the rows.                                               *)

\* A point of the model has its plan by product.
LEMMA MatchExists ==
    ASSUME Read, NEW v \in Points(BuildModel)
    PROVE  \E x, y : Matches(v, x, y)
<1> DEFINE P == AsRead.products
           home == [p \in P |-> CHOOSE i \in Places : Products[i] = p]
           x == [p \in P |-> v.X[home[p]]]
           y == [p \in P |-> v.Y[home[p]]]
<1>1. \A p \in P : home[p] \in Places /\ Products[home[p]] = p
  BY PlacesAre
<1>2. \A i \in Places : Products[i] \in P
  BY PlacesAre
<1> HIDE DEF home
<1>3. \A i \in Places : home[Products[i]] = i
  BY <1>1, <1>2, PlacesAre
<1>4. v.X \in [Places -> 0 .. order.max] /\ v.Y \in [Places -> 0 .. MaxLots]
  BY BuildModelIs DEF Points
<1>5. x \in [P -> 0 .. order.max] /\ y \in [P -> 0 .. MaxLots]
  BY <1>1, <1>4
<1>6. \A i \in Places : v.X[i] = x[Products[i]] /\ v.Y[i] = y[Products[i]]
  BY <1>2, <1>3
<1> HIDE DEF x, y
<1>7. Matches(v, x, y)
  BY <1>5, <1>6 DEF Matches
<1> QED BY <1>7

\* ParseOutput gives the value of a position to the product of that position.
LEMMA ParsedIs ==
    ASSUME Read, NEW v, NEW x, NEW y, Matches(v, x, y),
           answer.lines["X"] = v.X, answer.lines["Y"] = v.Y
    PROVE  /\ Range(Products) = AsRead.products
           /\ \A p \in AsRead.products : ParseOutput[p].x = x[p] /\ ParseOutput[p].y = y[p]
<1> DEFINE P == AsRead.products
           hits == [p \in P |-> {i \in Places : Home(i) = p}]
           spot == [p \in P |-> CHOOSE i \in hits[p] : TRUE]
<1>1. Range(Products) = P
  BY PlacesAre DEF Range
<1>2. DOMAIN v.X = Places /\ DOMAIN v.Y = Places
  BY MatchesAre
<1>3. ASSUME NEW p \in P
      PROVE  hits[p] # {} /\ v.X[spot[p]] = x[p] /\ v.Y[spot[p]] = y[p]
  <2>1. PICK i \in Places : Products[i] = p
    BY PlacesAre
  <2>2. hits[p] = {i}
    BY <2>1, PlacesAre DEF Home
  <2>3. spot[p] = i
    BY <2>2
  <2> QED BY <2>1, <2>2, <2>3 DEF Matches
<1>4. ASSUME NEW p \in P
      PROVE  /\ ParseOutput[p].x = IF hits[p] = {} THEN 0 ELSE v.X[spot[p]]
             /\ ParseOutput[p].y = IF hits[p] = {} THEN 0 ELSE v.Y[spot[p]]
  <2> DEFINE a == answer.lines["X"]
             b == answer.lines["Y"]
             hx == {i \in DOMAIN a : Home(i) = p}
             hy == {i \in DOMAIN b : Home(i) = p}
             sx == CHOOSE i \in hx : TRUE
             sy == CHOOSE i \in hy : TRUE
  <2>1. p \in Range(Products)
    BY <1>1
  <2>2. ParseOutput[p].x = IF hx = {} THEN 0 ELSE a[sx]
    BY <2>1, Zenon DEF ParseOutput
  <2>3. ParseOutput[p].y = IF hy = {} THEN 0 ELSE b[sy]
    BY <2>1, Zenon DEF ParseOutput
  <2>4. hx = hits[p] /\ hy = hits[p] /\ a = v.X /\ b = v.Y
    BY <1>2
  <2>5. sx = spot[p] /\ sy = spot[p]
    <3>1. spot[p] = CHOOSE i \in hits[p] : TRUE
      OBVIOUS
    <3> HIDE DEF hx, hy, hits, spot
    <3> QED BY <2>4, <3>1
  <2> HIDE DEF hx, hy, sx, sy, hits, spot, a, b
  <2> QED BY <2>2, <2>3, <2>4, <2>5
<1> HIDE DEF P, hits, spot
<1>5. \A p \in P : ParseOutput[p].x = x[p] /\ ParseOutput[p].y = y[p]
  BY <1>3, <1>4
<1> QED BY <1>1, <1>5 DEF P

\* The rows are the products with units, each with its own values.
LEMMA RowsAre ==
    ASSUME Read, NEW v, NEW x, NEW y, Matches(v, x, y),
           answer.lines["X"] = v.X, answer.lines["Y"] = v.Y
    PROVE  /\ \A r \in ResultRows :
                 /\ r.product \in AsRead.products
                 /\ r.x = x[r.product] /\ r.x > 0 /\ r.y = y[r.product]
                 /\ r.profit = ExpectedProfit(r.product, x[r.product], y[r.product])
           /\ \A p \in AsRead.products : x[p] > 0 => \E r \in ResultRows : r.product = p
           /\ \A r, q \in ResultRows : r.product = q.product => r = q
<1> DEFINE P == AsRead.products
           made == {q \in Range(Products) : Produced(ParseOutput[q].x)}
           row == [p \in P |->
                     [product |-> p, x |-> ParseOutput[p].x, y |-> ParseOutput[p].y,
                      w |-> ParseOutput[p].w,
                      profit |-> ExpectedProfit(p, ParseOutput[p].x, ParseOutput[p].y)]]
<1>1. Range(Products) = P
  BY ParsedIs
<1>2. \A p \in P : ParseOutput[p].x = x[p] /\ ParseOutput[p].y = y[p]
  BY ParsedIs
<1>3. made = {p \in P : x[p] > 0}
  BY <1>1, <1>2 DEF Produced
<1>4. ResultRows = {row[p] : p \in made}
  BY <1>3 DEF ResultRows
<1>5. \A p \in P : /\ row[p].product = p /\ row[p].x = x[p] /\ row[p].y = y[p]
                   /\ row[p].profit = ExpectedProfit(p, x[p], y[p])
  BY <1>2
<1> HIDE DEF made, row, P
<1> QED BY <1>3, <1>4, <1>5 DEF P

-----------------------------------------------------------------------------
(* The inductive invariant.                                                   *)

\* The values of phase.
Phases == {"build", "built", "solved", "stored", "infeasible", "failed"}

\* What LINGO may answer, and the optimum it does.
Solutions == {v \in Points(model) : Feasible(model, v)}

IsAnswer(v) ==
    /\ v \in Solutions /\ \A u \in Solutions : Profit(model, u) <= Profit(model, v)
    /\ answer.objective = Profit(model, v)
    /\ answer.lines["X"] = v.X /\ answer.lines["Y"] = v.Y

\* Each query is made or to be made; what it found was a scenario.
ReadInv ==
    /\ db \in Tables /\ order \in Orders /\ phase \in Phases
    /\ todo \in Seq(Queries)
    /\ \A q \in DOMAIN seen : seen[q] \in Tables
    /\ \A q \in Queries : q \in DOMAIN seen \/ q \in Range(todo)

\* The model is that of what was read, until the try ends.
ModelInv ==
    phase \in {"built", "solved", "stored", "infeasible"} => todo = <<>> /\ model = BuildModel

\* The answer is an optimum of the model, or says truly that there is none.
AnswerInv ==
    /\ phase \in {"solved", "stored", "infeasible"} =>
          /\ answer.text = "infeasible" => Solutions = {}
          /\ answer.text = "solved" => \E v \in Solutions : IsAnswer(v)
    /\ phase = "infeasible" => answer.text = "infeasible"

\* The plan is the rows of the answer.
PlanInv ==
    /\ phase = "stored" => /\ answer.text = "solved"
                           /\ plan = [total |-> answer.objective, rows |-> ResultRows]
    /\ phase # "stored" => plan = NoPlan

IInv == ReadInv /\ ModelInv /\ AnswerInv /\ PlanInv

\* Once the model is built, all queries have been made.
LEMMA InvRead ==
    ASSUME IInv, phase \in {"built", "solved", "stored", "infeasible"}
    PROVE  Read /\ model = BuildModel
<1>1. todo = <<>> /\ model = BuildModel
  BY DEF IInv, ModelInv
<1>2. Range(todo) = {}
  BY <1>1 DEF Range
<1> QED BY <1>1, <1>2 DEF IInv, ReadInv, Read

LEMMA InvStored ==
    ASSUME IInv, phase = "stored"
    PROVE  \E v, x, y : /\ Matches(v, x, y) /\ IsAnswer(v)
                        /\ plan.total = Worth(AsRead, x, y) /\ plan.rows = ResultRows
<1>1. Read /\ model = BuildModel
  BY InvRead
<1>2. answer.text = "solved" /\ plan.total = answer.objective /\ plan.rows = ResultRows
  BY DEF IInv, PlanInv
<1>3. PICK v \in Solutions : IsAnswer(v)
  BY <1>2 DEF IInv, AnswerInv
<1>4. PICK x, y : Matches(v, x, y)
  BY <1>1, <1>3, MatchExists DEF Solutions
<1>5. plan.total = Worth(AsRead, x, y)
  BY <1>1, <1>2, <1>3, <1>4, ProfitIs DEF IsAnswer
<1> QED BY <1>2, <1>3, <1>4, <1>5

LEMMA InvTypeOK == IInv => TypeOK
<1> SUFFICES ASSUME IInv PROVE TypeOK
  OBVIOUS
<1>1. phase \in Phases
  BY DEF IInv, ReadInv
<1>2. CASE phase = "stored"
  <2>1. PICK v, x, y : Matches(v, x, y) /\ IsAnswer(v) /\ plan.rows = ResultRows
    BY <1>2, InvStored
  <2>2. Read
    BY <1>2, InvRead
  <2>3. /\ \A r \in ResultRows : /\ r.product \in AsRead.products
                                 /\ r.x = x[r.product] /\ r.x > 0 /\ r.y = y[r.product]
        /\ \A r, q \in ResultRows : r.product = q.product => r = q
    BY <2>1, <2>2, RowsAre DEF IsAnswer
  <2>4. /\ x \in [AsRead.products -> 0 .. order.max] /\ y \in [AsRead.products -> 0 .. MaxLots]
        /\ order.max \in Int /\ AsRead.products \in SUBSET Ids
    BY <2>1, <2>2, MatchesAre, AsReadIs, ScenarioIs DEF Matches
  <2>5. \A r \in ResultRows : r.product \in Ids /\ r.x \in 1 .. order.max /\ r.y \in 0 .. MaxLots
    <3> SUFFICES ASSUME NEW r \in ResultRows
                 PROVE  r.product \in Ids /\ r.x \in 1 .. order.max /\ r.y \in 0 .. MaxLots
      OBVIOUS
    <3>1. x[r.product] \in 0 .. order.max /\ y[r.product] \in 0 .. MaxLots
      BY <2>3, <2>4
    <3> QED BY <2>3, <2>4, <3>1
  <2> QED BY <1>1, <2>1, <2>3, <2>5 DEF TypeOK, Phases
<1>3. CASE phase # "stored"
  <2>1. plan.rows = {}
    BY <1>3 DEF IInv, PlanInv, NoPlan
  <2> QED BY <1>1, <2>1 DEF TypeOK, Phases
<1> QED BY <1>2, <1>3

\* The stored plan is an optimum of LINGO, by product and without idle lots.
LEMMA StoredIs ==
    ASSUME IInv, phase = "stored"
    PROVE  \E v, x, y :
              /\ Matches(v, x, y) /\ IsAnswer(v) /\ plan.rows = ResultRows
              /\ plan.total = Worth(AsRead, x, y)
              /\ Respects(AsRead, x, y)
              /\ Stored("x") = x /\ Stored("y") = Trimmed(AsRead, x, y)
<1>1. Read /\ model = BuildModel
  BY InvRead
<1>2. PICK v, x, y : /\ Matches(v, x, y) /\ IsAnswer(v)
                     /\ plan.total = Worth(AsRead, x, y) /\ plan.rows = ResultRows
  BY InvStored
<1>3. Respects(AsRead, x, y)
  BY <1>1, <1>2, FeasibleIs DEF IsAnswer, Solutions
<1> DEFINE P == AsRead.products
           R == plan.rows
           row == [p \in P |-> CHOOSE r \in R : r.product = p]
<1>4. /\ \A r \in R : /\ r.product \in P
                      /\ r.x = x[r.product] /\ r.x > 0 /\ r.y = y[r.product]
      /\ \A p \in P : x[p] > 0 => \E r \in R : r.product = p
  BY <1>1, <1>2, RowsAre DEF IsAnswer
<1>5. x \in [P -> 0 .. order.max] /\ order.max \in Int
  BY <1>1, <1>2, MatchesAre DEF Matches
<1>6. ASSUME NEW p \in P
      PROVE  /\ (\E r \in R : r.product = p) <=> x[p] > 0
             /\ x[p] > 0 => row[p].x = x[p] /\ row[p].y = y[p]
             /\ ~(x[p] > 0) => x[p] = 0
  <2> HIDE DEF R, P
  <2>1. (\E r \in R : r.product = p) <=> x[p] > 0
    BY <1>4
  <2>2. x[p] > 0 => row[p] \in R /\ row[p].product = p
    BY <2>1
  <2> HIDE DEF row
  <2>3. x[p] > 0 => row[p].x = x[p] /\ row[p].y = y[p]
    BY <1>4, <2>2
  <2>4. ~(x[p] > 0) => x[p] = 0
    BY <1>5
  <2> QED BY <2>1, <2>3, <2>4
<1>7. Stored("x") = [p \in P |-> IF \E r \in R : r.product = p THEN row[p].x ELSE 0]
  BY DEF Stored
<1>8. Stored("y") = [p \in P |-> IF \E r \in R : r.product = p THEN row[p].y ELSE 0]
  BY DEF Stored
<1>9. Stored("x") = x
  <2> HIDE DEF P, R, row
  <2> QED BY <1>5, <1>6, <1>7
<1>10. Stored("y") = [p \in P |-> IF x[p] > 0 THEN y[p] ELSE 0]
  <2> HIDE DEF P, R, row
  <2> QED BY <1>6, <1>8
<1>11. Stored("y") = Trimmed(AsRead, x, y)
  BY <1>10 DEF Trimmed
<1> QED BY <1>2, <1>3, <1>9, <1>11

LEMMA TrimmedAsRead ==
    ASSUME Read, NEW v, NEW x, NEW y, Matches(v, x, y), Respects(AsRead, x, y)
    PROVE  /\ Trimmed(AsRead, x, y) \in [AsRead.products -> 0 .. MaxLots]
           /\ Trimmed(AsRead, x, y) \in [AsRead.products -> Int]
           /\ Respects(AsRead, x, Trimmed(AsRead, x, y))
           /\ Worth(AsRead, x, y) <= Worth(AsRead, x, Trimmed(AsRead, x, y))
<1>1. /\ x \in [AsRead.products -> 0 .. order.max] /\ y \in [AsRead.products -> 0 .. MaxLots]
      /\ order.max \in Int /\ MaxLots \in Nat
  BY MatchesAre, BoundAssumption DEF Matches
<1>2. x \in [AsRead.products -> Nat] /\ y \in [AsRead.products -> Nat]
  BY <1>1
<1>3. /\ AsRead \in Scenarios /\ IsFiniteSet(AsRead.products)
      /\ \A k \in Kinds : IsFiniteSet(AsRead.have[k])
  BY AsReadIs
<1>4. /\ Trimmed(AsRead, x, y) \in [AsRead.products -> Nat]
      /\ Respects(AsRead, x, Trimmed(AsRead, x, y))
      /\ Worth(AsRead, x, y) <= Worth(AsRead, x, Trimmed(AsRead, x, y))
  BY <1>2, <1>3, TrimmedIs
<1>5. Trimmed(AsRead, x, y) \in [AsRead.products -> 0 .. MaxLots]
  BY <1>1 DEF Trimmed
<1> QED BY <1>4, <1>5

LEMMA InvPlanRespects == IInv => PlanRespectsScenario
<1> SUFFICES ASSUME IInv, phase = "stored"
             PROVE  Respects(AsRead, Stored("x"), Stored("y"))
  BY DEF PlanRespectsScenario
<1>1. PICK v, x, y : /\ Matches(v, x, y) /\ Respects(AsRead, x, y)
                     /\ Stored("x") = x /\ Stored("y") = Trimmed(AsRead, x, y)
  BY StoredIs
<1>2. Read
  BY InvRead
<1> QED BY <1>1, <1>2, TrimmedAsRead

\* No plan is worth more than the answer: it is a point of the model.
LEMMA NoBetterPlan ==
    ASSUME Read, model = BuildModel, NEW v, NEW a, NEW b, Matches(v, a, b), IsAnswer(v),
           NEW x \in [AsRead.products -> 0 .. order.max],
           NEW y \in [AsRead.products -> 0 .. MaxLots], Respects(AsRead, x, y)
    PROVE  /\ Worth(AsRead, x, y) <= Worth(AsRead, a, b)
           /\ Worth(AsRead, x, y) \in Int /\ Worth(AsRead, a, b) \in Int
<1>1. PICK u : Matches(u, x, y) /\ Feasible(BuildModel, u)
  BY RespectsIs
<1>2. u \in Solutions
  BY <1>1 DEF Solutions, Matches
<1>3. Profit(model, u) <= Profit(model, v)
  BY <1>2 DEF IsAnswer
<1>4. Profit(model, u) = Worth(AsRead, x, y) /\ Worth(AsRead, x, y) \in Int
  BY <1>1, ProfitIs
<1>5. Profit(model, v) = Worth(AsRead, a, b) /\ Worth(AsRead, a, b) \in Int
  BY ProfitIs
<1> QED BY <1>3, <1>4, <1>5

LEMMA StoredWorth ==
    ASSUME IInv, phase = "stored"
    PROVE  plan.total = Worth(AsRead, Stored("x"), Stored("y"))
<1>1. PICK v, x, y : /\ Matches(v, x, y) /\ IsAnswer(v) /\ Respects(AsRead, x, y)
                     /\ plan.total = Worth(AsRead, x, y)
                     /\ Stored("x") = x /\ Stored("y") = Trimmed(AsRead, x, y)
  BY StoredIs
<1>2. Read /\ model = BuildModel
  BY InvRead
<1> DEFINE z == Trimmed(AsRead, x, y)
<1>3. /\ z \in [AsRead.products -> 0 .. MaxLots] /\ Respects(AsRead, x, z)
      /\ Worth(AsRead, x, y) <= Worth(AsRead, x, z)
  BY <1>1, <1>2, TrimmedAsRead
<1>4. x \in [AsRead.products -> 0 .. order.max]
  BY <1>1 DEF Matches
<1> HIDE DEF z
<1>5. /\ Worth(AsRead, x, z) <= Worth(AsRead, x, y)
      /\ Worth(AsRead, x, z) \in Int /\ Worth(AsRead, x, y) \in Int
  BY <1>1, <1>2, <1>3, <1>4, NoBetterPlan
<1>6. Worth(AsRead, x, y) = Worth(AsRead, x, z)
  BY <1>3, <1>5
<1> QED BY <1>1, <1>6 DEF z

LEMMA InvPlanIsBest == IInv => PlanIsBest
<1> SUFFICES ASSUME IInv PROVE PlanIsBest
  OBVIOUS
<1>1. phase = "stored" => plan.total = Worth(AsRead, Stored("x"), Stored("y"))
  BY StoredWorth
<1>2. ASSUME phase \in {"stored", "infeasible"},
             NEW x \in [AsRead.products -> 0 .. order.max],
             NEW y \in [AsRead.products -> 0 .. MaxLots], Respects(AsRead, x, y)
      PROVE  phase = "stored" /\ Worth(AsRead, x, y) <= plan.total
  <2>1. Read /\ model = BuildModel
    BY <1>2, InvRead
  <2>2. CASE phase = "stored"
    <3>1. PICK v, a, b : Matches(v, a, b) /\ IsAnswer(v) /\ plan.total = Worth(AsRead, a, b)
      BY <2>2, StoredIs
    <3>2. Worth(AsRead, x, y) <= Worth(AsRead, a, b)
      BY <1>2, <2>1, <3>1, NoBetterPlan
    <3> QED BY <2>2, <3>1, <3>2
  <2>3. CASE phase = "infeasible"
    <3>1. Solutions = {}
      BY <2>3 DEF IInv, AnswerInv
    <3>2. PICK u : Matches(u, x, y) /\ Feasible(BuildModel, u)
      BY <1>2, <2>1, RespectsIs
    <3>3. u \in Solutions
      BY <2>1, <3>2 DEF Solutions, Matches
    <3> QED BY <3>1, <3>3
  <2> QED BY <1>2, <2>2, <2>3
<1> QED BY <1>1, <1>2 DEF PlanIsBest

\* The stored plan is worth at least as much as any plan in natural numbers that keeps
\* within the scenario, and an infeasible run has no such plan (lingo.go, 198-238, where
\* no Y is bounded): the sum keeps x within max, and no plan needs more lots than units.
PlanIsBestOfAll ==
    phase \in {"stored", "infeasible"} /\ order.max <= MaxLots =>
        \A x, y \in [AsRead.products -> Nat] :
           Respects(AsRead, x, y) => phase = "stored" /\ Worth(AsRead, x, y) <= plan.total

LEMMA InvPlanIsBestOfAll == IInv => PlanIsBestOfAll
<1> SUFFICES ASSUME IInv, phase \in {"stored", "infeasible"}, order.max <= MaxLots,
                    NEW x \in [AsRead.products -> Nat], NEW y \in [AsRead.products -> Nat],
                    Respects(AsRead, x, y)
             PROVE  phase = "stored" /\ Worth(AsRead, x, y) <= plan.total
  BY DEF PlanIsBestOfAll
<1> DEFINE d == AsRead
           P == d.products
           z == Capped(d, x, y)
<1>1. Read
  BY InvRead
<1>2. d \in Scenarios /\ IsFiniteSet(P) /\ \A k \in Kinds : IsFiniteSet(d.have[k])
  BY <1>1, AsReadIs
<1>3. order.max \in Int /\ MaxLots \in Nat
  BY <1>1, OrdersAssumption, BoundAssumption DEF Read
<1>4. /\ z \in [P -> Nat] /\ \A p \in P : z[p] <= x[p]
      /\ Respects(d, x, z) /\ Worth(d, x, y) <= Worth(d, x, z)
  BY <1>2, CappedIs
<1>5. x \in [P -> 0 .. order.max]
  <2>1. Sum(x, P) <= order.max
    BY SumFun DEF Respects
  <2>2. ASSUME NEW p \in P PROVE x[p] <= order.max
    <3> DEFINE Q == P \ {p}
               none == [q \in Q |-> 0]
    <3>1. IsFiniteSet(Q)
      BY <1>2, FS_Subset
    <3>2. \A q \in Q : none[q] \in Int /\ x[q] \in Int /\ none[q] <= x[q] /\ none[q] = 0
      OBVIOUS
    <3>3. \A q \in P : x[q] \in Int
      OBVIOUS
    <3> HIDE DEF none, P
    <3>4. Sum(x, P) = x[p] + Sum(x, Q)
      BY <1>2, <3>3, SumRemove
    <3> HIDE DEF Q
    <3>5. Sum(none, Q) = 0 /\ Sum(none, Q) <= Sum(x, Q) /\ Sum(x, Q) \in Int
      BY <3>1, <3>2, SumZero, SumMonotonic, SumInt
    <3> QED BY <1>3, <2>1, <3>3, <3>4, <3>5
  <2> QED BY <1>3, <2>2
<1>6. z \in [P -> 0 .. MaxLots]
  <2>1. ASSUME NEW p \in P PROVE z[p] \in 0 .. MaxLots
    <3>1. z[p] \in Nat /\ x[p] \in 0 .. order.max /\ z[p] <= x[p]
      BY <1>4, <1>5
    <3> QED BY <1>3, <3>1
  <2> QED BY <1>4, <2>1
<1> HIDE DEF z
<1>7. phase = "stored" /\ Worth(d, x, z) <= plan.total
  BY <1>4, <1>5, <1>6, InvPlanIsBest DEF PlanIsBest
<1>8. Worth(d, x, y) \in Int /\ Worth(d, x, z) \in Int
  <2>1. x \in [P -> Int] /\ y \in [P -> Int] /\ z \in [P -> Int]
    BY <1>4
  <2>2. "ingredient" \in Kinds /\ "resource" \in Kinds
    BY DEF Kinds
  <2> HIDE DEF d, z
  <2>3. Earned(d, x) \in Int
    BY <1>2, <2>1, EarnedInt
  <2>4. \A u \in {x, y, z} : \A k \in {"ingredient", "resource"} : Paid(d, k, u) \in Int
    BY <1>2, <2>1, <2>2, PaidIs
  <2> QED BY <2>3, <2>4, WorthIs
<1>9. plan.total \in Int
  <2>1. PICK v, a, b : Matches(v, a, b) /\ plan.total = Worth(d, a, b)
    BY <1>7, StoredIs
  <2> QED BY <1>1, <2>1, ProfitIs
<1> QED BY <1>4, <1>7, <1>8, <1>9

LEMMA InvProfitAddsUp == IInv => ProfitAddsUp
<1> SUFFICES ASSUME IInv, phase = "stored", \A q \in DOMAIN seen : seen[q] = db
             PROVE  plan.total = SumFunction([r \in plan.rows |-> r.profit])
  BY DEF ProfitAddsUp
<1>1. PICK v, x, y : /\ Matches(v, x, y) /\ IsAnswer(v) /\ plan.rows = ResultRows
                     /\ Respects(AsRead, x, y)
                     /\ Stored("x") = x /\ Stored("y") = Trimmed(AsRead, x, y)
  BY StoredIs
<1>2. Read
  BY InvRead
<1> DEFINE d == AsRead
           P == d.products
           z == Trimmed(d, x, y)
           R == plan.rows
<1>3. plan.total = Earned(d, x) - Paid(d, "ingredient", x) - Paid(d, "resource", z)
  BY <1>1, StoredWorth, WorthIs
<1>4. /\ d \in Scenarios /\ IsFiniteSet(P) /\ x \in [P -> Int] /\ z \in [P -> Int]
      /\ x \in [P -> 0 .. order.max] /\ order.max \in Int
  BY <1>1, <1>2, AsReadIs, MatchesAre, TrimmedAsRead DEF Matches
<1>5. /\ d.sale = db.sale /\ d.cost["ingredient"] = db.cost["ingredient"]
      /\ d.cost["resource"] = db.cost["resource"]
      /\ \A k \in {"ingredient", "resource"} : seen[<<"preload", k>>] = db /\ seen[<<"cells", k>>] = db
      /\ seen[<<"rows", "product">>] = db
      /\ \A k \in {"ingredient", "resource"} : \A e \in Ids \ d.have[k] : d.cost[k][e] = 0
  <2>1. /\ seen[<<"rows", "product">>] = db /\ db \in Tables
        /\ \A k \in Kinds : seen[<<"rows", k>>] = db /\ seen[<<"cells", k>>] = db
        /\ \A k \in {"ingredient", "resource"} : seen[<<"preload", k>>] = db
    BY <1>2, QueriesAre DEF Read
  <2>2. \A k \in Kinds : \A e \in Ids \ db.have[k] : db.cost[k][e] = 0
    BY <2>1 DEF Tables
  <2>3. \A k \in Kinds : d.have[k] = db.have[k] /\ d.cost[k] = db.cost[k]
    BY <2>1 DEF AsRead
  <2>4. d.sale = db.sale
    BY <2>1 DEF AsRead
  <2> HIDE DEF d
  <2> QED BY <2>1, <2>2, <2>3, <2>4 DEF Kinds
<1> DEFINE gain == [p \in P |-> d.sale[p] * x[p]]
           stock == [p \in P |-> x[p] * Spent(d, "ingredient", p)]
           rent == [p \in P |-> z[p] * Spent(d, "resource", p)]
           net == [p \in P |-> gain[p] - stock[p] - rent[p]]
           profit == [r \in R |-> r.profit]
           home == [r \in R |-> r.product]
           made == {p \in P : x[p] > 0}
<1>6. /\ Earned(d, x) = Sum(gain, P)
      /\ Paid(d, "ingredient", x) = Sum(stock, P) /\ Paid(d, "resource", z) = Sum(rent, P)
  BY <1>4, <1>5, SumFun, SpentIs DEF Earned, Kinds
<1>7. \A p \in P : /\ gain[p] \in Int /\ stock[p] \in Int /\ rent[p] \in Int
  BY <1>4, <1>5, SpentIs, ScenarioIs DEF Kinds
<1>8. Sum(net, P) = plan.total
  <2> DEFINE paid == [p \in P |-> stock[p] + rent[p]]
  <2> HIDE DEF gain, stock, rent, P
  <2>0. \A p \in P : /\ net[p] = gain[p] - stock[p] - rent[p]
                     /\ paid[p] = stock[p] + rent[p]
    OBVIOUS
  <2> HIDE DEF net, paid
  <2>1. \A p \in P : net[p] \in Int
    BY <1>7, <2>0
  <2>2. \A p \in P : paid[p] \in Int /\ paid[p] = stock[p] + rent[p] /\ gain[p] = net[p] + paid[p]
    BY <1>7, <2>0
  <2>3. Sum(paid, P) = Sum(stock, P) + Sum(rent, P)
    BY <1>4, <1>7, <2>2, SumPlus
  <2>4. Sum(gain, P) = Sum(net, P) + Sum(paid, P)
    BY <1>4, <2>1, <2>2, SumPlus
  <2>5. Sum(net, P) \in Int /\ Sum(stock, P) \in Int /\ Sum(rent, P) \in Int
    BY <1>4, <1>7, <2>1, SumInt
  <2> QED BY <1>3, <1>6, <2>3, <2>4, <2>5
<1>9. ASSUME NEW p \in P
      PROVE  /\ net[p] \in Int
             /\ ~(x[p] > 0) => net[p] = 0
             /\ x[p] > 0 => net[p] = ExpectedProfit(p, x[p], y[p])
  <2> DEFINE a == Spent(d, "ingredient", p)
             b == Spent(d, "resource", p)
  <2>1. /\ d.sale[p] \in Nat /\ x[p] \in Int /\ z[p] \in Int /\ a \in Int /\ b \in Int
        /\ x[p] \in 0 .. order.max /\ order.max \in Int
    BY <1>4, <1>5, SpentIs, ScenarioIs DEF Kinds
  <2>2. z[p] = IF x[p] > 0 THEN y[p] ELSE 0
    BY DEF Trimmed
  <2>3. net[p] = d.sale[p] * x[p] - x[p] * a - z[p] * b
    OBVIOUS
  <2>4. ExpectedProfit(p, x[p], y[p]) = d.sale[p] * x[p] - x[p] * a - y[p] * b
    <3>1. ASSUME NEW k \in {"ingredient", "resource"}
          PROVE  Spent(d, k, p)
                   = SumFunction([e \in Ids |-> Cell(k, p, e) * seen[<<"preload", k>>].cost[k][e]])
      <4>1. \A e \in Ids : Cell(k, p, e) = d.cell[k][<<p, e>>]
        BY DEF Cell, AsRead, Kinds
      <4>2. \A e \in Ids : seen[<<"preload", k>>].cost[k][e] = d.cost[k][e]
        BY <1>5
      <4> HIDE DEF d
      <4> QED BY <4>1, <4>2 DEF Spent
    <3>2. seen[<<"rows", "product">>].sale[p] = d.sale[p]
      BY <1>5
    <3> HIDE DEF d, P
    <3> QED BY <3>1, <3>2 DEF ExpectedProfit
  <2> HIDE DEF a, b, z, net, P, d
  <2>5. \A n \in Int : 0 * n = 0 /\ n * 0 = 0
    OBVIOUS
  <2>6. ~(x[p] > 0) => x[p] = 0 /\ z[p] = 0
    BY <2>1, <2>2
  <2>7. d.sale[p] * x[p] \in Int /\ x[p] * a \in Int /\ z[p] * b \in Int
    BY <2>1
  <2>8. ASSUME ~(x[p] > 0) PROVE net[p] = 0
    <3>1. x[p] = 0 /\ z[p] = 0
      BY <2>6, <2>8
    <3>2. d.sale[p] * 0 = 0 /\ 0 * a = 0 /\ 0 * b = 0
      BY <2>1, <2>5
    <3>3. net[p] = d.sale[p] * 0 - 0 * a - 0 * b
      BY <2>3, <3>1
    <3> QED BY <3>2, <3>3
  <2> QED BY <2>2, <2>3, <2>4, <2>7, <2>8
<1>10. /\ \A r \in R : /\ r.product \in P /\ x[r.product] > 0
                       /\ r.profit = ExpectedProfit(r.product, x[r.product], y[r.product])
       /\ \A p \in P : x[p] > 0 => \E r \in R : r.product = p
       /\ \A r, q \in R : r.product = q.product => r = q
  BY <1>1, <1>2, RowsAre DEF IsAnswer
<1> DEFINE row == [p \in made |-> CHOOSE r \in R : r.product = p]
<1>11. IsFiniteSet(made) /\ made \in SUBSET P /\ \A p \in P : p \in made <=> x[p] > 0
  BY <1>4, FS_Subset
<1> HIDE DEF net, gain, stock, rent, made
<1>12. \A p \in made : row[p] \in R /\ row[p].product = p
  BY <1>10, <1>11
<1>13. \A r \in R : profit[r] = r.profit
  OBVIOUS
<1>14. row \in [made -> R]
  BY <1>12
<1> HIDE DEF row, R, profit, P
<1>15. \A p, q \in made : row[p] = row[q] => p = q
  BY <1>12
<1>16. \A r \in R : \E p \in made : row[p] = r
  BY <1>10, <1>11, <1>12
<1>17. \A p \in made : net[p] \in Int /\ net[p] = profit[row[p]]
  BY <1>9, <1>10, <1>11, <1>12, <1>13
<1>18. Sum(net, made) = Sum(profit, R)
  BY <1>11, <1>14, <1>15, <1>16, <1>17, SumRename
<1>19. \A p \in P : net[p] \in Int
  BY <1>9
<1>20. \A p \in P \ made : net[p] = 0
  BY <1>9, <1>11
<1>21. Sum(net, P) = Sum(net, made)
  BY <1>4, <1>11, <1>19, <1>20, SumSubset
<1>22. SumFunction(profit) = Sum(profit, R)
  BY SumFun DEF profit
<1>23. plan.total = SumFunction(profit)
  BY <1>8, <1>18, <1>21, <1>22
<1> QED BY <1>23 DEF profit, R

-----------------------------------------------------------------------------
(* The steps keep the invariant.                                              *)

LEMMA SelectsAre == Selects \in Seq(Queries) /\ Range(Selects) = Queries
  BY DEF Selects, Queries, Range

\* A late write leaves a scenario.
LEMMA TableIs ==
    ASSUME NEW d
    PROVE  d \in Tables <=>
             /\ d \in Scenarios
             /\ \A k \in Kinds : \A e \in Ids \ d.have[k] :
                   d.cost[k][e] = 0 /\ \A p \in Ids : d.cell[k][<<p, e>>] = 0
  BY DEF Tables

LEMMA WritesTables ==
    ASSUME db \in Tables, LateWrite
    PROVE  db' \in Tables
<1>1. /\ db \in Scenarios
      /\ \A k \in Kinds : \A e \in Ids \ db.have[k] :
            db.cost[k][e] = 0 /\ \A p \in Ids : db.cell[k][<<p, e>>] = 0
  BY TableIs
<1>2. /\ db.products \in SUBSET Ids /\ db.sale \in [Ids -> Nat] /\ db.demand \in [Ids -> Nat]
      /\ db.lo \in [Ids -> Nat] /\ db.hi \in [Ids -> Nat]
      /\ db.have \in [Kinds -> SUBSET Ids]
      /\ db.cost \in [Kinds -> [Ids -> Nat]] /\ db.limit \in [Kinds -> [Ids -> Nat]]
      /\ db.cell \in [Kinds -> [Ids \X Ids -> Nat]]
  BY <1>1 DEF Scenarios
<1>3. ASSUME NEW p \in db.products, db' = DropProduct(p) PROVE db' \in Tables
  <2> DEFINE cell == [k \in Kinds |-> [c \in Ids \X Ids |-> IF c[1] = p THEN 0 ELSE db.cell[k][c]]]
  <2>1. db' = [db EXCEPT !.products = @ \ {p}, !.cell = cell]
    BY <1>3 DEF DropProduct
  <2>2. cell \in [Kinds -> [Ids \X Ids -> Nat]]
    BY <1>2
  <2>3. \A k \in Kinds : \A e \in Ids \ db.have[k] : \A i \in Ids : cell[k][<<i, e>>] = 0
    BY <1>1
  <2> HIDE DEF cell
  <2>4. db' \in Scenarios
    BY <1>1, <1>2, <2>1, <2>2 DEF Scenarios
  <2>5. db'.have = db.have /\ db'.cost = db.cost /\ db'.cell = cell
    BY <1>1, <2>1 DEF Scenarios
  <2> QED BY <1>1, <2>3, <2>4, <2>5, TableIs
<1>4. ASSUME NEW k \in Kinds, NEW e \in db.have[k], db' = DropEntity(k, e) PROVE db' \in Tables
  <2> DEFINE have == [db.have EXCEPT ![k] = @ \ {e}]
             cost == [db.cost EXCEPT ![k][e] = 0]
             limit == [db.limit EXCEPT ![k][e] = 0]
             cell == [db.cell EXCEPT ![k] =
                        [c \in Ids \X Ids |-> IF c[2] = e THEN 0 ELSE db.cell[k][c]]]
  <2>1. db' = [db EXCEPT !.have = have, !.cost = cost, !.limit = limit, !.cell = cell]
    BY <1>1, <1>4 DEF DropEntity, Scenarios
  <2>2. /\ have \in [Kinds -> SUBSET Ids] /\ cost \in [Kinds -> [Ids -> Nat]]
        /\ limit \in [Kinds -> [Ids -> Nat]] /\ cell \in [Kinds -> [Ids \X Ids -> Nat]]
    BY <1>2
  <2>3. ASSUME NEW l \in Kinds, NEW i \in Ids \ have[l]
        PROVE  cost[l][i] = 0 /\ \A p \in Ids : cell[l][<<p, i>>] = 0
    BY <1>1, <1>2, <2>3
  <2> HIDE DEF have, cost, limit, cell
  <2>4. db' \in Scenarios
    BY <1>1, <1>2, <2>1, <2>2 DEF Scenarios
  <2>5. db'.have = have /\ db'.cost = cost /\ db'.cell = cell
    BY <1>1, <2>1 DEF Scenarios
  <2> QED BY <2>3, <2>4, <2>5, TableIs
<1>5. ASSUME NEW k \in Kinds, NEW p \in db.products, NEW e \in db.have[k], NEW q \in Quantities,
             db' = [db EXCEPT !.cell[k][<<p, e>>] = q]
      PROVE  db' \in Tables
  <2> DEFINE cell == [db.cell EXCEPT ![k][<<p, e>>] = q]
  <2>1. db' = [db EXCEPT !.cell = cell]
    BY <1>1, <1>5 DEF Scenarios
  <2>2. q \in Nat
    BY BoundAssumption
  <2>3. cell \in [Kinds -> [Ids \X Ids -> Nat]]
    BY <1>2, <2>2
  <2>4. ASSUME NEW l \in Kinds, NEW i \in Ids \ db.have[l], NEW j \in Ids
        PROVE  cell[l][<<j, i>>] = 0
    <3>1. l # k \/ <<j, i>> # <<p, e>>
      OBVIOUS
    <3>2. cell[l][<<j, i>>] = db.cell[l][<<j, i>>]
      BY <1>2, <3>1
    <3> QED BY <1>1, <3>2
  <2> HIDE DEF cell
  <2>5. db' \in Scenarios
    BY <1>1, <1>2, <2>1, <2>3 DEF Scenarios
  <2>6. db'.have = db.have /\ db'.cost = db.cost /\ db'.cell = cell
    BY <1>1, <2>1 DEF Scenarios
  <2> QED BY <1>1, <2>4, <2>5, <2>6, TableIs
<1>6. ASSUME NEW k \in Kinds, NEW e \in db.have[k], e \in Ids,
             db' = [db EXCEPT !.cost[k][e] = @ + 1]
      PROVE  db' \in Tables
  <2> DEFINE cost == [db.cost EXCEPT ![k][e] = @ + 1]
  <2>1. db' = [db EXCEPT !.cost = cost]
    BY <1>1, <1>6 DEF Scenarios
  <2>2. cost \in [Kinds -> [Ids -> Nat]]
    BY <1>2
  <2>3. ASSUME NEW l \in Kinds, NEW i \in Ids \ db.have[l] PROVE cost[l][i] = 0
    <3>1. cost[l][i] = db.cost[l][i]
      BY <1>2
    <3> QED BY <1>1, <3>1
  <2> HIDE DEF cost
  <2>4. db' \in Scenarios
    BY <1>1, <1>2, <2>1, <2>2 DEF Scenarios
  <2>5. db'.have = db.have /\ db'.cost = cost /\ db'.cell = db.cell
    BY <1>1, <2>1 DEF Scenarios
  <2> QED BY <1>1, <2>3, <2>4, <2>5, TableIs
<1>7. \A k \in Kinds : db.have[k] \in SUBSET Ids
  BY <1>2
<1> QED BY <1>3, <1>4, <1>5, <1>6, <1>7 DEF LateWrite

\* What is computed from what was read changes only with it.
LEMMA SameModel ==
    ASSUME seen' = seen, order' = order
    PROVE  BuildModel' = BuildModel
  BY DEF BuildModel, ProductColumn, EntityColumn, Matrix, At, Products, Rows, Cell

LEMMA SameRows ==
    ASSUME seen' = seen, answer' = answer
    PROVE  ResultRows' = ResultRows
  BY DEF ResultRows, ParseOutput, Home, Produced, ExpectedProfit, Products, Cell

LEMMA SameAnswers ==
    ASSUME model' = model, answer' = answer
    PROVE  /\ Solutions' = Solutions
           /\ (\E v \in Solutions : IsAnswer(v)) => (\E v \in Solutions : IsAnswer(v))'
  BY DEF Solutions, IsAnswer

LEMMA InvInit == Init => IInv
<1> SUFFICES ASSUME Init PROVE IInv
  OBVIOUS
<1>1. db \in Tables
  BY CatalogsAssumption DEF Init
<1>2. ReadInv
  <2>1. todo = Selects /\ DOMAIN seen = {} /\ phase = "build" /\ order \in Orders
    BY DEF Init
  <2> QED BY <1>1, <2>1, SelectsAre DEF ReadInv, Phases
<1>3. ModelInv /\ AnswerInv /\ PlanInv
  BY DEF Init, ModelInv, AnswerInv, PlanInv
<1> QED BY <1>2, <1>3 DEF IInv

LEMMA InvNext == IInv /\ [Next]_vars => IInv'
<1> SUFFICES ASSUME IInv, [Next]_vars PROVE IInv'
  OBVIOUS
<1> USE DEF IInv
<1>1. ASSUME Select PROVE IInv'
  <2>1. /\ phase = "build" /\ todo # <<>> /\ todo \in Seq(Queries) /\ todo' = Tail(todo)
        /\ seen' = [q \in DOMAIN seen \cup {Head(todo)} |-> IF q = Head(todo) THEN db ELSE seen[q]]
        /\ phase' \in {"build", "failed"}
        /\ UNCHANGED <<db, order, model, answer, plan>>
    BY <1>1 DEF Select, ReadInv
  <2>2. todo' \in Seq(Queries) /\ Range(todo) = {Head(todo)} \cup Range(todo')
    <3>1. Head(todo) \in Queries /\ Tail(todo) \in Seq(Queries) /\ Len(todo) \in Nat \ {0}
      BY <2>1
    <3>2. \A i \in 1 .. Len(todo) : todo[i] = Head(todo) \/ \E j \in 1 .. Len(Tail(todo)) : Tail(todo)[j] = todo[i]
      <4> SUFFICES ASSUME NEW i \in 1 .. Len(todo), i # 1
                   PROVE  \E j \in 1 .. Len(Tail(todo)) : Tail(todo)[j] = todo[i]
        BY <2>1
      <4>1. i - 1 \in 1 .. Len(Tail(todo)) /\ Tail(todo)[i - 1] = todo[i]
        BY <2>1, <3>1
      <4> QED BY <4>1
    <3>3. \A j \in 1 .. Len(Tail(todo)) : j + 1 \in 1 .. Len(todo) /\ Tail(todo)[j] = todo[j + 1]
      BY <2>1, <3>1
    <3>4. 1 \in 1 .. Len(todo) /\ todo[1] = Head(todo)
      BY <2>1, <3>1
    <3>5. DOMAIN todo = 1 .. Len(todo) /\ DOMAIN Tail(todo) = 1 .. Len(Tail(todo))
      BY <2>1, <3>1
    <3>6. Tail(todo) = todo'
      BY <2>1
    <3> DEFINE t == Tail(todo)
               h == Head(todo)
    <3> HIDE DEF t, h
    <3>7. Range(todo) = {todo[i] : i \in 1 .. Len(todo)} /\ Range(t) = {t[i] : i \in 1 .. Len(t)}
      BY <3>5 DEF Range, t
    <3>8. Range(todo) \subseteq {h} \cup Range(t)
      BY <3>2, <3>7 DEF t, h
    <3>9. {h} \cup Range(t) \subseteq Range(todo)
      BY <3>3, <3>4, <3>7 DEF t, h
    <3> QED BY <3>1, <3>6, <3>8, <3>9 DEF t, h
  <2>3. ReadInv'
    <3>1. \A q \in DOMAIN seen' : seen'[q] \in Tables
      BY <2>1 DEF ReadInv
    <3>2. \A q \in Queries : q \in DOMAIN seen' \/ q \in Range(todo')
      BY <2>1, <2>2 DEF ReadInv
    <3> QED BY <2>1, <2>2, <3>1, <3>2 DEF ReadInv, Phases
  <2>4. ModelInv' /\ AnswerInv' /\ PlanInv'
    BY <2>1 DEF ModelInv, AnswerInv, PlanInv, NoPlan
  <2> QED BY <2>3, <2>4
<1>2. ASSUME Build PROVE IInv'
  <2>1. /\ phase = "build" /\ todo = <<>> /\ model' = BuildModel /\ phase' = "built"
        /\ UNCHANGED <<db, order, todo, seen, answer, plan>>
    BY <1>2 DEF Build
  <2>2. ReadInv'
    BY <2>1 DEF ReadInv, Phases
  <2>3. ModelInv'
    BY <2>1, SameModel DEF ModelInv
  <2>4. AnswerInv' /\ PlanInv'
    BY <2>1 DEF AnswerInv, PlanInv, NoPlan
  <2> QED BY <2>2, <2>3, <2>4
<1>3. ASSUME RunLINGO PROVE IInv'
  <2>1. phase = "built" /\ phase' = "solved" /\ UNCHANGED <<db, order, todo, seen, model, plan>>
    BY <1>3 DEF RunLINGO
  <2>2. ReadInv'
    BY <2>1 DEF ReadInv, Phases
  <2>3. ModelInv'
    BY <2>1, SameModel DEF ModelInv
  <2>4. Solutions' = Solutions
    BY <2>1 DEF Solutions
  <2>5. /\ answer'.text = "infeasible" => Solutions = {}
        /\ answer'.text = "solved" => (\E v \in Solutions : IsAnswer(v))'
    <3>1. CASE answer' = [text |-> "garbled"]
      BY <3>1
    <3>2. CASE Solutions = {} /\ answer' = [text |-> "infeasible"]
      BY <3>2
    <3>3. ASSUME NEW v \in Solutions, \A u \in Solutions : Profit(model, u) <= Profit(model, v),
                 NEW w, answer' = [text |-> "solved", objective |-> Profit(model, v),
                                   lines |-> [X |-> v.X, Y |-> v.Y, W |-> w]]
          PROVE  /\ answer'.text # "infeasible"
                 /\ (\E u \in Solutions : IsAnswer(u))'
      <4>1. /\ answer'.text = "solved" /\ answer'.objective = Profit(model, v)
            /\ answer'.lines["X"] = v.X /\ answer'.lines["Y"] = v.Y
        BY <3>3
      <4> QED BY <2>1, <2>4, <3>3, <4>1 DEF IsAnswer
    <3> QED BY <1>3, <3>1, <3>2, <3>3 DEF RunLINGO, Solutions
  <2>6. AnswerInv'
    BY <2>1, <2>4, <2>5 DEF AnswerInv
  <2>7. PlanInv'
    BY <2>1 DEF PlanInv, NoPlan
  <2> QED BY <2>2, <2>3, <2>6, <2>7
<1>4. ASSUME NoSolution PROVE IInv'
  <2>1. /\ phase = "solved" /\ answer.text # "solved"
        /\ phase' = IF answer.text = "infeasible" THEN "infeasible" ELSE "failed"
        /\ UNCHANGED <<db, order, todo, seen, model, answer, plan>>
    BY <1>4 DEF NoSolution
  <2>2. ReadInv'
    BY <2>1 DEF ReadInv, Phases
  <2>3. ModelInv'
    BY <2>1, SameModel DEF ModelInv
  <2>4. AnswerInv'
    BY <2>1, SameAnswers DEF AnswerInv
  <2>5. PlanInv'
    BY <2>1 DEF PlanInv, NoPlan
  <2> QED BY <2>2, <2>3, <2>4, <2>5
<1>5. ASSUME StorePlan PROVE IInv'
  <2>1. /\ phase = "solved" /\ answer.text = "solved"
        /\ \/ phase' = "stored" /\ plan' = [total |-> answer.objective, rows |-> ResultRows]
           \/ phase' = "failed" /\ plan' = plan
        /\ UNCHANGED <<db, order, todo, seen, model, answer>>
    BY <1>5 DEF StorePlan
  <2>2. ReadInv'
    BY <2>1 DEF ReadInv, Phases
  <2>3. ModelInv'
    BY <2>1, SameModel DEF ModelInv
  <2>4. AnswerInv'
    BY <2>1, SameAnswers DEF AnswerInv
  <2>5. PlanInv'
    BY <2>1, SameRows DEF PlanInv, NoPlan
  <2> QED BY <2>2, <2>3, <2>4, <2>5
<1>6. ASSUME Retry PROVE IInv'
  <2>1. /\ phase = "failed" /\ phase' = "build" /\ todo' = Selects /\ seen' = <<>>
        /\ UNCHANGED <<db, order, plan>>
    BY <1>6 DEF Retry
  <2>2. ReadInv'
    <3>1. DOMAIN seen' = {}
      BY <2>1
    <3> QED BY <2>1, <3>1, SelectsAre DEF ReadInv, Phases
  <2>3. ModelInv' /\ AnswerInv' /\ PlanInv'
    BY <2>1 DEF ModelInv, AnswerInv, PlanInv, NoPlan
  <2> QED BY <2>2, <2>3
<1>7. ASSUME UNCHANGED <<order, todo, seen, phase, model, answer, plan>>, db' \in Tables
      PROVE  IInv'
  <2>1. ReadInv'
    BY <1>7 DEF ReadInv
  <2>2. ModelInv'
    BY <1>7, SameModel DEF ModelInv
  <2>3. AnswerInv'
    BY <1>7, SameAnswers DEF AnswerInv
  <2>4. PlanInv'
    BY <1>7, SameRows DEF PlanInv, NoPlan
  <2> QED BY <2>1, <2>2, <2>3, <2>4
<1>8. ASSUME LateWrite PROVE IInv'
  <2>1. db' \in Tables
    BY <1>8, WritesTables DEF ReadInv
  <2>2. UNCHANGED <<order, todo, seen, phase, model, answer, plan>>
    BY <1>8 DEF LateWrite
  <2> QED BY <1>7, <2>1, <2>2
<1>9. CASE UNCHANGED vars
  BY <1>7, <1>9 DEF vars, ReadInv
<1> QED BY <1>1, <1>2, <1>3, <1>4, <1>5, <1>6, <1>8, <1>9 DEF Next

\* The inductive invariant: from the queries to the plan every phase keeps what
\* the phases before it have read, built and answered (lingo.go, 59-246; worker.go,
\* 125-204), for any number of tries.
THEOREM LingoInv == Spec => []IInv
  BY InvInit, InvNext, PTL DEF Spec

-----------------------------------------------------------------------------
(* The theorems, for any ids, scenarios, parameters and bounds.               *)

\* The result rows are positive, within max and MaxLots, and one per product
\* (worker.go, 125-171).
THEOREM LingoTyped == Spec => []TypeOK
  BY LingoInv, InvTypeOK, PTL

\* The stored plan keeps within the demand, the lots, the stock, the machines, the
\* resources and the variety of the scenario that was read: no value has gone to
\* the wrong row on the way to LINGO and back (lingo.go, 82-155 and 321-337).
THEOREM PlanRespectsHolds == Spec => []PlanRespectsScenario
  BY LingoInv, InvPlanRespects, PTL

\* The stored plan is worth what total_profit says, no plan that keeps within the
\* scenario is worth more, and there is none when the run is called infeasible
\* (lingo.go, 198-244 and 306-312).
THEOREM PlanIsBestHolds == Spec => []PlanIsBest
  BY LingoInv, InvPlanIsBest, PTL

\* The bounds of the model lose nothing: with as many lots as units allowed, no plan
\* at all that keeps within the scenario is worth more than the stored one, though
\* BuildModel bounds no Y (lingo.go, 198-238).
THEOREM PlanIsBestOfAllHolds == Spec => []PlanIsBestOfAll
  BY LingoInv, InvPlanIsBestOfAll, PTL

\* The expected profits of the rows add up to the objective of LINGO, if nothing
\* was written while the scenario was read (worker.go, 138-148 and 180).
THEOREM ProfitAddsUpHolds == Spec => []ProfitAddsUp
  BY LingoInv, InvProfitAddsUp, PTL
=============================================================================
