-------------------------------- MODULE Sums --------------------------------
(***************************************************************************)
(* Lemmas about SumFunction (Functions): finite sums of integers.          *)
(*                                                                         *)
(* SumFunctionOnSet is the value of a recursive function on the subsets of *)
(* a set.  That the function exists, and every fact about it, is proved by *)
(* taking a smallest set for which it fails: the strict subsets of a       *)
(* finite set are well founded.  A fact is given as the set G of the sets  *)
(* for which it holds.                                                     *)
(***************************************************************************)
EXTENDS Functions, FiniteSets, FiniteSetTheorems, WellFoundedInduction, TLAPS

-----------------------------------------------------------------------------
(* Induction on finite sets, and the recursion that defines a sum.            *)

\* The element that the recursion takes out of a set.
First(s) == CHOOSE x \in s : TRUE

\* g adds up f on every subset of A.
Rec(g, f, A) ==
    g = [s \in SUBSET A |-> IF s = {} THEN 0 ELSE f[First(s)] + g[s \ {First(s)}]]

\* A fact that holds of a set when it holds of its strict subsets holds of every
\* subset of S.
LEMMA StrictInduction ==
    ASSUME NEW S, IsFiniteSet(S), NEW G,
           \A A \in SUBSET S : (\A B \in SUBSET A : B # A => B \in G) => A \in G
    PROVE  \A A \in SUBSET S : A \in G
<1> DEFINE Bad == {A \in SUBSET S : A \notin G}
<1> SUFFICES ASSUME Bad # {} PROVE FALSE
  OBVIOUS
<1>1. IsWellFoundedOn(StrictSubsetOrdering(S), FiniteSubsetsOf(S))
  BY FS_StrictSubsetOrderingWellFounded
<1>2. Bad \subseteq FiniteSubsetsOf(S)
  BY FS_FiniteSubsetsOfFinite
<1>3. \E x \in Bad : \A y \in Bad : ~(<<y, x>> \in StrictSubsetOrdering(S))
  <2> HIDE DEF Bad
  <2> QED BY <1>1, <1>2, WFMin
<1>4. PICK x \in Bad : \A y \in Bad : ~(<<y, x>> \in StrictSubsetOrdering(S))
  BY <1>3
<1> QED BY <1>4 DEF StrictSubsetOrdering

\* Induction on a finite set, one element at a time.
LEMMA ByElements ==
    ASSUME NEW S, IsFiniteSet(S), NEW G, {} \in G,
           \A A \in SUBSET S : \A x \in A : A \ {x} \in G => A \in G
    PROVE  S \in G
<1>1. ASSUME NEW A \in SUBSET S, \A B \in SUBSET A : B # A => B \in G
      PROVE  A \in G
  <2>1. CASE A = {}
    BY <2>1
  <2>2. CASE A # {}
    <3>1. PICK x \in A : TRUE
      BY <2>2
    <3>2. A \ {x} \in SUBSET A /\ A \ {x} # A
      OBVIOUS
    <3> QED BY <1>1, <3>1, <3>2
  <2> QED BY <2>1, <2>2
<1>2. \A A \in SUBSET S : A \in G
  BY <1>1, StrictInduction
<1> QED BY <1>2

LEMMA FirstIn == ASSUME NEW s, s # {} PROVE First(s) \in s
  BY DEF First

LEMMA RecValue ==
    ASSUME NEW g, NEW f, NEW A, Rec(g, f, A), NEW s \in SUBSET A
    PROVE  g[s] = IF s = {} THEN 0 ELSE f[First(s)] + g[s \ {First(s)}]
<1> DEFINE val(t) == IF t = {} THEN 0 ELSE f[First(t)] + g[t \ {First(t)}]
<1>1. g = [t \in SUBSET A |-> val(t)]
  BY DEF Rec
<1> HIDE DEF val
<1>2. g[s] = val(s)
  BY <1>1
<1> QED BY <1>2 DEF val

\* The recursion has one solution ...
LEMMA RecUnique ==
    ASSUME NEW f, NEW A, NEW B, NEW g, NEW h, Rec(g, f, A), Rec(h, f, B),
           NEW s, s \subseteq A, s \subseteq B, IsFiniteSet(s)
    PROVE  g[s] = h[s]
<1> DEFINE G == {t \in SUBSET s : g[t] = h[t]}
<1>1. ASSUME NEW t \in SUBSET s, \A u \in SUBSET t : u # t => u \in G
      PROVE  t \in G
  <2>1. /\ g[t] = IF t = {} THEN 0 ELSE f[First(t)] + g[t \ {First(t)}]
        /\ h[t] = IF t = {} THEN 0 ELSE f[First(t)] + h[t \ {First(t)}]
    <3>1. t \in SUBSET A /\ t \in SUBSET B
      OBVIOUS
    <3> HIDE DEF G
    <3> QED BY <3>1, RecValue
  <2>2. CASE t = {}
    BY <2>1, <2>2
  <2>3. CASE t # {}
    <3>1. t \ {First(t)} \in SUBSET t /\ t \ {First(t)} # t
      BY <2>3, FirstIn
    <3>2. g[t \ {First(t)}] = h[t \ {First(t)}]
      BY <1>1, <3>1
    <3> QED BY <2>1, <2>3, <3>2
  <2> QED BY <2>2, <2>3
<1>2. \A t \in SUBSET s : t \in G
  <2> HIDE DEF G
  <2> QED BY <1>1, StrictInduction
<1> QED BY <1>2

\* ... and, on a finite set, it has one.
LEMMA RecExists ==
    ASSUME NEW f, NEW S, IsFiniteSet(S)
    PROVE  \E g : Rec(g, f, S)
<1> DEFINE G == {A \in SUBSET S : \E g : Rec(g, f, A)}
<1>1. ASSUME NEW A \in SUBSET S, \A B \in SUBSET A : B # A => B \in G
      PROVE  \E g : Rec(g, f, A)
  <2> DEFINE fn(B) == CHOOSE g : Rec(g, f, B)
             rest(s) == s \ {First(s)}
             val(s) == IF s = {} THEN 0 ELSE f[First(s)] + fn(rest(s))[rest(s)]
             g == [s \in SUBSET A |-> val(s)]
  <2>1. \A s \in SUBSET A : s # {} => /\ rest(s) \in SUBSET s /\ rest(s) # s /\ rest(s) # A
                                      /\ rest(s) \in SUBSET A
    BY FirstIn
  <2>2. \A B \in SUBSET A : B # A => Rec(fn(B), f, B)
    BY <1>1
  <2>3. ASSUME NEW B \in SUBSET A, B # A PROVE fn(B)[B] = g[B]
    <3> HIDE DEF fn
    <3>1. fn(B)[B] = IF B = {} THEN 0 ELSE f[First(B)] + fn(B)[rest(B)]
      BY <2>2, <2>3, RecValue
    <3>2. CASE B = {}
      BY <3>1, <3>2
    <3>3. CASE B # {}
      <4>1. Rec(fn(B), f, B) /\ Rec(fn(rest(B)), f, rest(B))
        BY <2>1, <2>2, <2>3, <3>3
      <4>2. rest(B) \subseteq B /\ IsFiniteSet(rest(B))
        BY <2>1, <3>3, FS_Subset
      <4>3. fn(B)[rest(B)] = fn(rest(B))[rest(B)]
        BY <4>1, <4>2, RecUnique
      <4> QED BY <3>1, <3>3, <4>3
    <3> QED BY <3>2, <3>3
  <2>4. ASSUME NEW s \in SUBSET A
        PROVE  val(s) = IF s = {} THEN 0 ELSE f[First(s)] + g[s \ {First(s)}]
    <3> HIDE DEF fn, g
    <3>1. s # {} => fn(rest(s))[rest(s)] = g[rest(s)]
      BY <2>1, <2>3
    <3> QED BY <3>1
  <2>5. Rec(g, f, A)
    <3> HIDE DEF val
    <3> QED BY <2>4 DEF Rec
  <2> QED BY <2>5
<1>2. \A A \in SUBSET S : A \in G
  <2>1. \A A \in SUBSET S : (\A B \in SUBSET A : B # A => B \in G) => A \in G
    BY <1>1
  <2> HIDE DEF G
  <2> QED BY <2>1, StrictInduction
<1> QED BY <1>2

-----------------------------------------------------------------------------
(* Sums.                                                                      *)

Sum(f, S) == SumFunctionOnSet(f, S)

LEMMA SumIs ==
    ASSUME NEW f, NEW S
    PROVE  SumFunctionOnSet(f, S) = (CHOOSE g : Rec(g, f, S))[S]
  BY DEF SumFunctionOnSet, FoldFunctionOnSet, MapThenFoldSet, Rec, First

\* A sum is one term and the rest.
LEMMA SumFirst ==
    ASSUME NEW f, NEW S, IsFiniteSet(S)
    PROVE  Sum(f, S) = IF S = {} THEN 0 ELSE f[First(S)] + Sum(f, S \ {First(S)})
<1> DEFINE fn(B) == CHOOSE g : Rec(g, f, B)
           R == S \ {First(S)}
<1>1. R \in SUBSET S /\ IsFiniteSet(R)
  BY FS_Subset
<1>2. Rec(fn(S), f, S) /\ Rec(fn(R), f, R)
  BY <1>1, RecExists
<1>3. Sum(f, S) = fn(S)[S] /\ Sum(f, R) = fn(R)[R]
  BY SumIs DEF Sum
<1> HIDE DEF fn
<1>4. fn(S)[S] = IF S = {} THEN 0 ELSE f[First(S)] + fn(S)[R]
  BY <1>2, RecValue
<1>5. fn(S)[R] = fn(R)[R]
  BY <1>1, <1>2, RecUnique
<1> QED BY <1>3, <1>4, <1>5

LEMMA SumEmpty == ASSUME NEW f PROVE Sum(f, {}) = 0
  BY SumFirst, FS_EmptySet

LEMMA SumFun == ASSUME NEW f PROVE SumFunction(f) = Sum(f, DOMAIN f)
  BY DEF SumFunction, Sum

LEMMA SumInt ==
    ASSUME NEW f, NEW S, IsFiniteSet(S), \A x \in S : f[x] \in Int
    PROVE  Sum(f, S) \in Int
<1> DEFINE G == {A \in SUBSET S : Sum(f, A) \in Int}
<1>1. ASSUME NEW A \in SUBSET S, \A B \in SUBSET A : B # A => B \in G
      PROVE  A \in G
  <2>1. Sum(f, A) = IF A = {} THEN 0 ELSE f[First(A)] + Sum(f, A \ {First(A)})
    BY FS_Subset, SumFirst
  <2>2. CASE A = {}
    BY <2>1, <2>2
  <2>3. CASE A # {}
    <3>1. First(A) \in A
      BY <2>3, FirstIn
    <3>2. Sum(f, A \ {First(A)}) \in Int /\ f[First(A)] \in Int
      BY <1>1, <3>1
    <3> QED BY <2>1, <2>3, <3>2
  <2> QED BY <2>2, <2>3
<1>2. \A A \in SUBSET S : A \in G
  <2> HIDE DEF G
  <2> QED BY <1>1, StrictInduction
<1> QED BY <1>2

\* Any element may be taken out of a sum.
LEMMA SumRemove ==
    ASSUME NEW f, NEW S, IsFiniteSet(S), \A x \in S : f[x] \in Int
    PROVE  \A x \in S : Sum(f, S) = f[x] + Sum(f, S \ {x})
<1> DEFINE G == {A \in SUBSET S : \A x \in A : Sum(f, A) = f[x] + Sum(f, A \ {x})}
<1>1. ASSUME NEW A \in SUBSET S, \A B \in SUBSET A : B # A => B \in G
      PROVE  A \in G
  <2> SUFFICES ASSUME NEW x \in A PROVE Sum(f, A) = f[x] + Sum(f, A \ {x})
    OBVIOUS
  <2> DEFINE y == First(A)
  <2>1. Sum(f, A) = f[y] + Sum(f, A \ {y}) /\ y \in A
    BY FS_Subset, SumFirst, FirstIn
  <2> HIDE DEF y
  <2>2. CASE x # y
    <3>1. Sum(f, A \ {y}) = f[x] + Sum(f, (A \ {y}) \ {x})
      BY <1>1, <2>1, <2>2
    <3>2. Sum(f, A \ {x}) = f[y] + Sum(f, (A \ {x}) \ {y})
      BY <1>1, <2>1, <2>2
    <3>3. (A \ {x}) \ {y} = (A \ {y}) \ {x}
      OBVIOUS
    <3>4. /\ f[x] \in Int /\ f[y] \in Int
          /\ Sum(f, (A \ {y}) \ {x}) \in Int
      <4>1. IsFiniteSet((A \ {y}) \ {x})
        BY FS_Subset
      <4> QED BY <2>1, <4>1, SumInt
    <3> HIDE DEF G
    <3>5. Sum(f, A \ {x}) = f[y] + Sum(f, (A \ {y}) \ {x})
      BY <3>2, <3>3
    <3> QED BY <2>1, <3>1, <3>4, <3>5
  <2> QED BY <2>1, <2>2
<1>2. \A A \in SUBSET S : A \in G
  <2> HIDE DEF G
  <2> QED BY <1>1, StrictInduction
<1> QED BY <1>2

\* Sums term by term.
LEMMA SumMonotonic ==
    ASSUME NEW f, NEW g, NEW S, IsFiniteSet(S),
           \A x \in S : f[x] \in Int /\ g[x] \in Int /\ f[x] <= g[x]
    PROVE  Sum(f, S) <= Sum(g, S)
<1> DEFINE G == {A \in SUBSET S : Sum(f, A) <= Sum(g, A)}
<1>1. {} \in G
  BY SumEmpty
<1>2. ASSUME NEW A \in SUBSET S, NEW x \in A, A \ {x} \in G
      PROVE  A \in G
  <2>1. IsFiniteSet(A) /\ IsFiniteSet(A \ {x})
    BY FS_Subset
  <2>2. Sum(f, A) = f[x] + Sum(f, A \ {x}) /\ Sum(g, A) = g[x] + Sum(g, A \ {x})
    BY <2>1, SumRemove
  <2>3. Sum(f, A \ {x}) \in Int /\ Sum(g, A \ {x}) \in Int
    BY <2>1, SumInt
  <2> QED BY <1>2, <2>2, <2>3
<1> HIDE DEF G
<1>3. S \in G
  BY <1>1, <1>2, ByElements
<1> QED BY <1>3 DEF G

LEMMA SumSame ==
    ASSUME NEW f, NEW g, NEW S, IsFiniteSet(S), \A x \in S : f[x] \in Int /\ f[x] = g[x]
    PROVE  Sum(f, S) = Sum(g, S)
<1>1. Sum(f, S) <= Sum(g, S) /\ Sum(g, S) <= Sum(f, S)
  BY SumMonotonic
<1>2. Sum(f, S) \in Int /\ Sum(g, S) \in Int
  BY SumInt
<1> QED BY <1>1, <1>2

LEMMA SumPlus ==
    ASSUME NEW f, NEW g, NEW h, NEW S, IsFiniteSet(S),
           \A x \in S : f[x] \in Int /\ g[x] \in Int /\ h[x] = f[x] + g[x]
    PROVE  Sum(h, S) = Sum(f, S) + Sum(g, S)
<1> DEFINE G == {A \in SUBSET S : Sum(h, A) = Sum(f, A) + Sum(g, A)}
<1>1. {} \in G
  BY SumEmpty
<1>2. ASSUME NEW A \in SUBSET S, NEW x \in A, A \ {x} \in G
      PROVE  A \in G
  <2>1. IsFiniteSet(A) /\ IsFiniteSet(A \ {x})
    BY FS_Subset
  <2>2. /\ Sum(f, A) = f[x] + Sum(f, A \ {x}) /\ Sum(g, A) = g[x] + Sum(g, A \ {x})
        /\ Sum(h, A) = h[x] + Sum(h, A \ {x})
    BY <2>1, SumRemove
  <2>3. Sum(f, A \ {x}) \in Int /\ Sum(g, A \ {x}) \in Int
    BY <2>1, SumInt
  <2> QED BY <1>2, <2>2, <2>3
<1> HIDE DEF G
<1>3. S \in G
  BY <1>1, <1>2, ByElements
<1> QED BY <1>3 DEF G

\* A factor comes out of a sum.
LEMMA SumTimes ==
    ASSUME NEW f, NEW h, NEW c \in Int, NEW S, IsFiniteSet(S),
           \A x \in S : f[x] \in Int /\ h[x] = c * f[x]
    PROVE  Sum(h, S) = c * Sum(f, S)
<1> DEFINE G == {A \in SUBSET S : Sum(h, A) = c * Sum(f, A)}
<1>1. {} \in G
  BY SumEmpty
<1>2. ASSUME NEW A \in SUBSET S, NEW x \in A, A \ {x} \in G
      PROVE  A \in G
  <2>1. IsFiniteSet(A) /\ IsFiniteSet(A \ {x})
    BY FS_Subset
  <2>2. /\ Sum(f, A) = f[x] + Sum(f, A \ {x})
        /\ Sum(h, A) = h[x] + Sum(h, A \ {x})
    BY <2>1, SumRemove
  <2>3. Sum(f, A \ {x}) \in Int /\ f[x] \in Int
    BY <2>1, SumInt
  <2>4. c * (f[x] + Sum(f, A \ {x})) = c * f[x] + c * Sum(f, A \ {x})
    <3>1. \A a, b \in Int : c * (a + b) = c * a + c * b
      OBVIOUS
    <3> QED BY <2>3, <3>1
  <2> QED BY <1>2, <2>2, <2>4
<1> HIDE DEF G
<1>3. S \in G
  BY <1>1, <1>2, ByElements
<1> QED BY <1>3 DEF G

\* Terms that are zero may be left out.
LEMMA SumSubset ==
    ASSUME NEW f, NEW S, IsFiniteSet(S), NEW T \in SUBSET S,
           \A x \in S : f[x] \in Int, \A x \in S \ T : f[x] = 0
    PROVE  Sum(f, S) = Sum(f, T)
<1> DEFINE G == {A \in SUBSET S : Sum(f, A) = Sum(f, A \cap T)}
<1>1. {} \in G
  <2>1. {} \cap T = {}
    OBVIOUS
  <2> QED BY <2>1
<1>2. ASSUME NEW A \in SUBSET S, NEW x \in A, A \ {x} \in G
      PROVE  A \in G
  <2>1. IsFiniteSet(A) /\ IsFiniteSet(A \ {x}) /\ IsFiniteSet(A \cap T)
    BY FS_Subset
  <2>2. Sum(f, A) = f[x] + Sum(f, A \ {x})
    BY <2>1, SumRemove
  <2>3. Sum(f, A \cap T) \in Int
    BY <2>1, SumInt
  <2>4. CASE x \in T
    <3>1. Sum(f, A \cap T) = f[x] + Sum(f, (A \cap T) \ {x})
      BY <2>1, <2>4, SumRemove
    <3>2. (A \cap T) \ {x} = (A \ {x}) \cap T
      OBVIOUS
    <3> QED BY <1>2, <2>2, <3>1, <3>2
  <2>5. CASE x \notin T
    <3>1. (A \ {x}) \cap T = A \cap T /\ f[x] = 0
      BY <2>5
    <3>2. Sum(f, A \ {x}) = Sum(f, A \cap T)
      BY <1>2, <3>1
    <3>3. Sum(f, A) = Sum(f, A \cap T)
      BY <2>2, <2>3, <3>1, <3>2
    <3> QED BY <3>3
  <2> QED BY <2>4, <2>5
<1> HIDE DEF G
<1>3. S \in G
  BY <1>1, <1>2, ByElements
<1>4. S \cap T = T
  OBVIOUS
<1> QED BY <1>3, <1>4 DEF G

\* A sum does not depend on the names of its terms.
LEMMA SumRename ==
    ASSUME NEW f, NEW g, NEW S, NEW T, IsFiniteSet(S), NEW h \in [S -> T],
           \A x, y \in S : h[x] = h[y] => x = y,
           \A t \in T : \E x \in S : h[x] = t,
           \A x \in S : f[x] \in Int /\ f[x] = g[h[x]]
    PROVE  Sum(f, S) = Sum(g, T)
<1> DEFINE Im(A) == {h[x] : x \in A}
           G == {A \in SUBSET S : IsFiniteSet(Im(A)) /\ Sum(f, A) = Sum(g, Im(A))}
<1>1. {} \in G
  <2>1. Im({}) = {}
    OBVIOUS
  <2> QED BY <2>1, SumEmpty, FS_EmptySet
<1>2. ASSUME NEW A \in SUBSET S, NEW x \in A, A \ {x} \in G
      PROVE  A \in G
  <2>1. IsFiniteSet(A) /\ IsFiniteSet(A \ {x})
    BY FS_Subset
  <2>2. Sum(f, A) = f[x] + Sum(f, A \ {x})
    BY <2>1, SumRemove
  <2> DEFINE I == Im(A)
             J == Im(A \ {x})
  <2>3. I = J \cup {h[x]} /\ I \ {h[x]} = J /\ h[x] \in I
    OBVIOUS
  <2>4. \A t \in I : g[t] \in Int
    OBVIOUS
  <2>5. IsFiniteSet(J) /\ Sum(f, A \ {x}) = Sum(g, J)
    BY <1>2
  <2>6. SUFFICES IsFiniteSet(I) /\ Sum(f, A) = Sum(g, I)
    OBVIOUS
  <2> HIDE DEF I, J, G
  <2>7. IsFiniteSet(I)
    BY <2>3, <2>5, FS_AddElement
  <2>8. Sum(g, I) = g[h[x]] + Sum(g, I \ {h[x]})
    BY <2>3, <2>4, <2>7, SumRemove
  <2> QED BY <2>2, <2>3, <2>5, <2>7, <2>8
<1> HIDE DEF G
<1>3. S \in G
  BY <1>1, <1>2, ByElements
<1>4. Im(S) = T
  OBVIOUS
<1> QED BY <1>3, <1>4 DEF G

LEMMA SumZero ==
    ASSUME NEW f, NEW S, IsFiniteSet(S), \A x \in S : f[x] = 0
    PROVE  Sum(f, S) = 0
<1>1. Sum(f, S) = Sum(f, {})
  BY SumSubset
<1> QED BY <1>1, SumEmpty

\* A table of numbers with the sums of its rows and of its columns.
Table(row, col, rows, total, S, T) ==
    /\ \A x \in S, y \in T : row[x][y] \in Int /\ col[y][x] = row[x][y]
    /\ \A x \in S : rows[x] = Sum(row[x], T)
    /\ \A y \in T : total[y] = Sum(col[y], S)

\* The order of two sums does not matter.
LEMMA SumSwap ==
    ASSUME NEW S, NEW T, IsFiniteSet(S), IsFiniteSet(T), NEW row, NEW col, NEW rows, NEW total,
           Table(row, col, rows, total, S, T)
    PROVE  Sum(rows, S) = Sum(total, T)
<1> DEFINE cols == [A \in SUBSET S |-> [y \in T |-> Sum(col[y], A)]]
           G == {A \in SUBSET S : Sum(rows, A) = Sum(cols[A], T)}
<1>1. \A x \in S, y \in T : row[x][y] = col[y][x] /\ row[x][y] \in Int
  BY DEF Table
<1>2. \A x \in S : rows[x] = Sum(row[x], T)
  BY DEF Table
<1>3. \A A \in SUBSET S, y \in T : cols[A][y] = Sum(col[y], A)
  OBVIOUS
<1> HIDE DEF cols
<1> HIDE DEF G
<1>4. ASSUME NEW x \in S PROVE rows[x] \in Int
  <2>1. \A y \in T : row[x][y] \in Int
    BY <1>1
  <2> QED BY <1>2, <2>1, SumInt
<1>5. ASSUME NEW A \in SUBSET S, NEW y \in T PROVE cols[A][y] \in Int
  <2>1. IsFiniteSet(A) /\ \A x \in A : col[y][x] \in Int
    BY <1>1, FS_Subset
  <2> QED BY <1>3, <2>1, SumInt
<1>6. {} \in G
  <2>1. \A y \in T : cols[{}][y] = 0
    BY <1>3, SumEmpty
  <2>2. Sum(cols[{}], T) = 0
    BY <2>1, SumZero
  <2> QED BY <2>2, SumEmpty DEF G
<1>7. ASSUME NEW A \in SUBSET S, NEW x \in A, A \ {x} \in G
      PROVE  A \in G
  <2> DEFINE B == A \ {x}
  <2>1. IsFiniteSet(A) /\ B \in SUBSET S
    BY FS_Subset
  <2>2. Sum(rows, A) = rows[x] + Sum(rows, B)
    BY <1>4, <2>1, SumRemove
  <2>3. ASSUME NEW y \in T PROVE Sum(col[y], A) = col[y][x] + Sum(col[y], B)
    <3>1. \A z \in A : col[y][z] \in Int
      BY <1>1
    <3> QED BY <2>1, <3>1, SumRemove
  <2> HIDE DEF B
  <2>4. ASSUME NEW y \in T
        PROVE  /\ row[x][y] \in Int /\ cols[B][y] \in Int
               /\ cols[A][y] = row[x][y] + cols[B][y]
    <3>1. cols[A][y] = Sum(col[y], A) /\ cols[B][y] = Sum(col[y], B) /\ cols[B][y] \in Int
      BY <1>3, <1>5, <2>1
    <3>2. row[x][y] = col[y][x] /\ row[x][y] \in Int
      BY <1>1
    <3> QED BY <2>3, <3>1, <3>2
  <2>5. Sum(cols[A], T) = Sum(row[x], T) + Sum(cols[B], T)
    BY <2>4, SumPlus
  <2>6. Sum(rows, B) = Sum(cols[B], T)
    BY <1>7 DEF B, G
  <2>7. Sum(rows, A) = Sum(cols[A], T)
    BY <1>2, <2>2, <2>5, <2>6
  <2> QED BY <2>7 DEF G
<1>8. S \in G
  BY <1>6, <1>7, ByElements
<1>9. Sum(rows, S) = Sum(cols[S], T)
  BY <1>8 DEF G
<1>10. Sum(cols[S], T) = Sum(total, T)
  <2>1. \A y \in T : cols[S][y] \in Int /\ cols[S][y] = total[y]
    BY <1>3, <1>5 DEF Table
  <2> QED BY <2>1, SumSame
<1> QED BY <1>9, <1>10

\* A sum of zeros and ones counts the ones.
LEMMA SumOnes ==
    ASSUME NEW w, NEW S, IsFiniteSet(S), \A x \in S : w[x] \in {0, 1}
    PROVE  Sum(w, S) = Cardinality({x \in S : w[x] = 1})
<1> DEFINE one(A) == {x \in A : w[x] = 1}
           G == {A \in SUBSET S : Sum(w, A) = Cardinality(one(A))}
<1>1. {} \in G
  <2>1. one({}) = {}
    OBVIOUS
  <2> QED BY <2>1, SumEmpty, FS_EmptySet
<1>2. ASSUME NEW A \in SUBSET S, NEW x \in A, A \ {x} \in G
      PROVE  A \in G
  <2> DEFINE B == A \ {x}
             I == one(A)
             J == one(B)
  <2>1. IsFiniteSet(A) /\ IsFiniteSet(J)
    BY FS_Subset
  <2>2. Sum(w, A) = w[x] + Sum(w, B)
    BY <2>1, SumRemove
  <2>3. Sum(w, B) = Cardinality(J)
    BY <1>2
  <2>4. I = IF w[x] = 1 THEN J \cup {x} ELSE J
    OBVIOUS
  <2>5. x \notin J /\ w[x] \in {0, 1}
    OBVIOUS
  <2>6. SUFFICES Sum(w, A) = Cardinality(I)
    OBVIOUS
  <2> HIDE DEF I, J, B, G
  <2>7. Cardinality(J) \in Nat /\ Cardinality(J \cup {x}) = Cardinality(J) + 1
    BY <2>1, <2>5, FS_AddElement, FS_CardinalityType
  <2> QED BY <2>2, <2>3, <2>4, <2>5, <2>7
<1> HIDE DEF G
<1>3. S \in G
  BY <1>1, <1>2, ByElements
<1> QED BY <1>3 DEF G
=============================================================================
