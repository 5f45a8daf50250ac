------------------------- MODULE CatalogCloneProofs --------------------------
(***************************************************************************)
(* canonical_id stays one hop long.  Clones link a copy to the canonical   *)
(* row of what they copy, deletions cut links, and a late save writes back *)
(* the link its request had read: so the invariant is about the links that *)
(* requests hold as well as about those of the table.                      *)
(*                                                                         *)
(* What is done to one scenario shows in no other, and a clone of a source *)
(* that nobody has changed is the source.                                  *)
(***************************************************************************)
EXTENDS CatalogProofs

-----------------------------------------------------------------------------
(* The links, and what is true of them.                                       *)

HeldRoot(r, i, o) ==
    \/ Busy(r, "save") /\ req[r].id = i /\ req[r].row.root = o
    \/ Busy(r, "clone") /\ i \in DOMAIN req[r].made /\ req[r].made[i].root = o

StoredRoot(i, o) == i \in Live /\ rows[i].root = o

Roots(i, o) == StoredRoot(i, o) \/ \E r \in Requests : HeldRoot(r, i, o)

\* A row that is not there, or was put back.
Past(u) == u \in revived \/ u \notin Live

\* A link is to an id that was given before.
RootsGiven == \A i, o : Roots(i, o) /\ o # NoRoot => o \in 1 .. next - 1

\* A link is to a row of the same table.
RootKinds ==
    \A i, o, k, s, l, t :
       Roots(i, o) /\ o # NoRoot /\ Says(i, k, s) /\ Says(o, l, t) => k = l

LiveRoots ==
    /\ \A i \in Live : rows[i].root \in Live \cup {NoRoot}
    /\ \A r \in Clones : \A n \in DOMAIN req[r].made : req[r].made[n].root \in Live

\* No link leads to a row that has one, unless that one is of the past.
NoChain ==
    \A i, o, u : Roots(i, o) /\ o # NoRoot /\ Roots(o, u) /\ u # NoRoot => Past(u)

\* Of two links of a row, each that is not NULL is of the past.
OneRoot ==
    \A i, u, v : Roots(i, u) /\ Roots(i, v) /\ u # v /\ u # NoRoot => Past(u)

\* The rows of an open clone are known to nobody else.
Reserved ==
    \A r \in Clones : \A n \in DOMAIN req[r].made :
       /\ n \notin Live
       /\ \A i : ~Roots(i, n)
       /\ \A p \in Requests : Busy(p, "save") => req[p].id # n
       /\ \A p \in Clones \ {r} : n \notin DOMAIN req[p].made

RootInv == CellsInv /\ RootsGiven /\ RootKinds /\ LiveRoots /\ NoChain /\ OneRoot /\ Reserved

LEMMA RootIds ==
    ASSUME Typed, NEW i, NEW o, Roots(i, o)
    PROVE  i \in 1 .. next - 1 /\ o \in Ids \cup {NoRoot} /\ (\E k, s : Says(i, k, s))
<1>1. CASE StoredRoot(i, o)
  BY <1>1 DEF StoredRoot, Typed, StoreOK, Row, Says, Stored
<1>2. ASSUME NEW r \in Requests, HeldRoot(r, i, o)
      PROVE  i \in 1 .. next - 1 /\ o \in Ids \cup {NoRoot} /\ (\E k, s : Says(i, k, s))
  <2>1. CallOK(r)
    BY DEF Typed
  <2>2. \E k, s : Held(r, i, k, s)
    BY <1>2 DEF HeldRoot, Held
  <2>3. o \in Ids \cup {NoRoot}
    BY <1>2, <2>1, CallKinds DEF HeldRoot, CloneOK, Row
  <2> QED BY <2>2, <2>3, OldIds DEF Says
<1> QED BY <1>1, <1>2 DEF Roots

\* The one-hop property.
LEMMA RootsAreOneHop == RootInv => OneHop
<1> SUFFICES ASSUME RootInv, NEW i \in Live, rows[i].root # NoRoot
             PROVE  LET o == rows[i].root
                    IN /\ o \in Live /\ rows[o].kind = rows[i].kind
                       /\ rows[o].root \in revived \cup {NoRoot}
  BY DEF OneHop
<1> DEFINE o == rows[i].root
<1>1. o \in Live
  BY DEF RootInv, LiveRoots
<1>2. Roots(i, o) /\ Roots(o, rows[o].root)
  BY <1>1 DEF Roots, StoredRoot
<1>3. Says(i, rows[i].kind, rows[i].scen) /\ Says(o, rows[o].kind, rows[o].scen)
  BY <1>1 DEF Says, Stored
<1>4. rows[o].kind = rows[i].kind
  BY <1>2, <1>3 DEF RootInv, RootKinds
<1>5. rows[o].root # NoRoot => rows[o].root \in Live /\ Past(rows[o].root)
  BY <1>1, <1>2 DEF RootInv, LiveRoots, NoChain
<1> QED BY <1>1, <1>4, <1>5 DEF Past

-----------------------------------------------------------------------------
(* Steps that add no link: an insert, an edit, a deletion, a commit, a call.   *)

\* The links that are new are NULL, of a row whose other links are of the past.
NoNewRoot ==
    \A i, o : Roots(i, o)' =>
       \/ Roots(i, o)
       \/ o = NoRoot /\ \A u : Roots(i, u) /\ u # NoRoot => Past(u)'

\* What is of the past stays so, as far as links go.
PastStays == \A i, u : Roots(i, u) /\ u # NoRoot /\ Past(u) => Past(u)'

LEMMA ChainStays ==
    ASSUME NoChain, OneRoot, NoNewRoot, PastStays
    PROVE  NoChain' /\ OneRoot'
<1>1. ASSUME NEW i, NEW o, NEW u, Roots(i, o)', Roots(o, u)', u # NoRoot, o # NoRoot
      PROVE  Past(u)'
  <2>1. Roots(i, o) /\ Roots(o, u)
    BY <1>1 DEF NoNewRoot
  <2> QED BY <1>1, <2>1 DEF NoChain, PastStays
<1>2. ASSUME NEW i, NEW u, NEW v, Roots(i, u)', Roots(i, v)', u # v, u # NoRoot
      PROVE  Past(u)'
  <2>1. Roots(i, u)
    BY <1>2 DEF NoNewRoot
  <2>2. CASE Roots(i, v)
    BY <1>2, <2>1, <2>2 DEF OneRoot, PastStays
  <2>3. CASE ~Roots(i, v)
    BY <1>2, <2>1, <2>3 DEF NoNewRoot
  <2> QED BY <2>2, <2>3
<1>3. NoChain'
  BY <1>1 DEF NoChain
<1>4. OneRoot'
  BY <1>2 DEF OneRoot
<1> QED BY <1>3, <1>4

LEMMA KindsStay ==
    ASSUME Typed, next' >= next, next' \in Nat, RootsGiven, RootKinds, NoNewRoot, NothingNew
    PROVE  RootsGiven' /\ RootKinds'
<1>1. ASSUME NEW i, NEW o, Roots(i, o)', o # NoRoot
      PROVE  Roots(i, o) /\ i \in 1 .. next - 1 /\ o \in 1 .. next - 1
  BY <1>1, RootIds DEF NoNewRoot, RootsGiven
<1>2. 1 .. next - 1 \subseteq 1 .. next' - 1
  BY NextIds
<1>3. RootsGiven'
  BY <1>1, <1>2 DEF RootsGiven
<1>4. ASSUME NEW i, NEW o, NEW k, NEW s, NEW l, NEW t,
             Roots(i, o)', o # NoRoot, Says(i, k, s)', Says(o, l, t)'
      PROVE  k = l
  <2>1. Says(i, k, s) /\ Says(o, l, t)
    BY <1>1, <1>4 DEF NothingNew
  <2> QED BY <1>1, <1>4, <2>1 DEF RootKinds
<1>5. RootKinds'
  BY <1>4 DEF RootKinds
<1> QED BY <1>3, <1>5

\* An open clone makes no row, and a late save holds what it held or what is stored.
Kept ==
    \A r \in Requests :
       /\ Busy(r, "clone")' =>
             \A n \in DOMAIN req'[r].made : /\ Busy(r, "clone") /\ n \in DOMAIN req[r].made
                                            /\ req'[r].made[n] = req[r].made[n]
       /\ Busy(r, "save")' =>
             \/ Busy(r, "save") /\ req'[r] = req[r]
             \/ req'[r].id \in Live /\ req'[r].row = rows[req'[r].id]

StoredFrom ==
    \A i, o : StoredRoot(i, o)' =>
       \/ Roots(i, o)
       \/ o = NoRoot /\ \A u : Roots(i, u) /\ u # NoRoot => Past(u)'

\* A row is new, put back, or committed.
LiveFrom ==
    \A n \in Live' : \/ n \in Live \/ n = next
                     \/ \E p \in Requests : Busy(p, "save") /\ req[p].id = n
                     \/ \E p \in Clones : ~Busy(p, "clone")' /\ n \in DOMAIN req[p].made

LEMMA KeptRoots ==
    ASSUME Kept, StoredFrom
    PROVE  NoNewRoot
<1>1. ASSUME NEW r \in Requests, NEW i, NEW o, HeldRoot(r, i, o)'
      PROVE  Roots(i, o)
  BY <1>1 DEF Kept, HeldRoot, Roots, StoredRoot, Busy
<1> QED BY <1>1 DEF NoNewRoot, StoredFrom, Roots

LEMMA ReservedStays ==
    ASSUME Typed, Reserved, Kept, NoNewRoot, LiveFrom
    PROVE  Reserved'
<1> SUFFICES ASSUME NEW r \in Requests, Busy(r, "clone")', NEW n \in DOMAIN req'[r].made
             PROVE  /\ n \notin Live' /\ \A i : ~Roots(i, n)'
                    /\ \A p \in Requests : Busy(p, "save")' => req'[p].id # n
                    /\ \A p \in Requests \ {r} : Busy(p, "clone")' => n \notin DOMAIN req'[p].made
  BY DEF Reserved, Clones
<1>1. /\ r \in Clones /\ n \in DOMAIN req[r].made
  BY DEF Kept, Clones
<1>2. n \in 1 .. next - 1 /\ n # next /\ n # NoRoot
  <2>1. DOMAIN req[r].made \subseteq 1 .. next - 1
    BY <1>1, CallKinds DEF Typed, CloneOK, Clones
  <2> QED BY <1>1, <2>1, NextIds DEF NoRoot
<1>3. n \notin Live /\ \A p \in Requests : Busy(p, "save") => req[p].id # n
  BY <1>1 DEF Reserved
<1>4. \A p \in Clones \ {r} : n \notin DOMAIN req[p].made
  BY <1>1 DEF Reserved
<1>5. n \notin Live'
  BY <1>2, <1>3, <1>4 DEF LiveFrom
<1>6. \A i : ~Roots(i, n)'
  BY <1>1, <1>2 DEF Reserved, NoNewRoot
<1>7. \A p \in Requests : Busy(p, "save")' => req'[p].id # n
  BY <1>3 DEF Kept
<1>8. \A p \in Requests \ {r} : Busy(p, "clone")' => n \notin DOMAIN req'[p].made
  BY <1>4 DEF Kept, Clones
<1> QED BY <1>5, <1>6, <1>7, <1>8

LEMMA RootStep ==
    ASSUME RootInv, CellsInv', NothingNew, next <= next',
           Kept, StoredFrom, LiveFrom, PastStays, LiveRoots'
    PROVE  RootInv'
<1>1. NoNewRoot
  BY KeptRoots
<1>2. Reserved'
  BY <1>1, ReservedStays DEF RootInv, CellsInv
<1>3. NoChain' /\ OneRoot'
  BY <1>1, ChainStays DEF RootInv
<1>4. next' \in Nat /\ next' >= next
  BY NextIds DEF RootInv, CellsInv, Typed, StoreOK
<1>5. RootsGiven' /\ RootKinds'
  BY <1>1, <1>4, KindsStay DEF RootInv, CellsInv
<1> QED BY <1>2, <1>3, <1>5 DEF RootInv

\* Nothing but requests moves.
LEMMA QuietRoots ==
    ASSUME RootInv, CellsInv', NothingNew, next <= next', UNCHANGED <<rows, revived>>, Kept
    PROVE  RootInv'
<1>1. StoredFrom /\ LiveFrom /\ PastStays
  BY DEF StoredFrom, LiveFrom, PastStays, Past, Roots, StoredRoot, Live
<1>2. LiveRoots'
  BY DEF RootInv, LiveRoots, Kept, Clones, Busy, Live
<1> QED BY <1>1, <1>2, RootStep

-----------------------------------------------------------------------------
(* The steps.                                                                 *)

LEMMA HandleNothingNew ==
    ASSUME Typed, Agreed, NEW r \in Requests, Handle(r)
    PROVE  NothingNew
  BY HandleAgreed, InsertAgreed, CopiesAgreed

\* A request's step keeps what the others hold, and what it ends.
LEMMA EndKeeps ==
    ASSUME Typed, NEW r \in Requests, Handle(r), Ends(r)
    PROVE  Kept
<1>1. \A p \in Requests \ {r} : req'[p] = req[p]
  BY OnlyOne
<1>2. req'[r] = Idle
  BY DEF Ends, Goes, Typed
<1> QED BY <1>1, <1>2 DEF Kept, Busy, Idle

LEMMA CallRoots ==
    ASSUME RootInv, CellsInv', NEW r \in Requests, Handle(r),
           \/ Admission(r) \/ Begins(r) \/ Fetches(r) \/ Looks(r) \/ Puts(r) \/ Drops(r)
           \/ Joins(r) \/ Fail(r)
    PROVE  RootInv'
<1> USE DEF RootInv, CellsInv
<1>1. UNCHANGED <<rows, next, revived>>
  BY DEF Admission, Quiet, Begins, BeginClone, Fetches, Fetch, Looks, Look, Puts, Put, Drops,
         Joins, CopyCells, Fail, tables
<1>2. \A p \in Requests \ {r} : req'[p] = req[p]
  BY OnlyOne
<1>3. ASSUME Puts(r) \/ Drops(r) \/ Fail(r) PROVE Kept
  BY <1>3, EndKeeps DEF Puts, Put, Drops, Fail
<1>4. ASSUME Admission(r) \/ Looks(r) PROVE Kept
  <2>1. ~Busy(r, "clone")' /\ ~Busy(r, "save")'
    BY <1>4 DEF Admission, Fresh, Looks, Look, Goes, Busy, Typed
  <2> QED BY <1>2, <2>1 DEF Kept, Busy
<1>5. ASSUME Begins(r) PROVE Kept
  <2>1. ~Busy(r, "save")' /\ DOMAIN req'[r].made = {}
    BY <1>5 DEF Begins, BeginClone, Goes, Busy, Typed
  <2> QED BY <1>2, <2>1 DEF Kept, Busy
<1>6. ASSUME Fetches(r) PROVE Kept
  <2>1. /\ ~Busy(r, "clone")' /\ req'[r].id \in Live /\ req'[r].row = rows[req'[r].id]
    BY <1>6 DEF Fetches, Fetch, RowsOf, Goes, Busy, Typed
  <2> QED BY <1>2, <2>1 DEF Kept, Busy
<1>7. ASSUME Joins(r) PROVE Kept
  <2>1. req'[r].do = "clone" /\ req'[r].made = req[r].made
    BY <1>7, JoinsState
  <2> QED BY <1>2, <1>7, <2>1 DEF Kept, Busy, Joins
<1>8. Kept
  BY <1>3, <1>4, <1>5, <1>6, <1>7
<1>9. NothingNew /\ next <= next'
  BY <1>1, HandleNothingNew, NextIds
<1> QED BY <1>1, <1>8, <1>9, QuietRoots

\* Open clones keep the rows they link to.
LEMMA MadeRoots ==
    ASSUME LiveRoots, Kept, Live \subseteq Live'
    PROVE  \A r \in Clones' : \A n \in DOMAIN req'[r].made : req'[r].made[n].root \in Live'
  BY DEF LiveRoots, Kept, Clones, Busy

LEMMA InsertRoots ==
    ASSUME RootInv, CellsInv', NEW r \in Requests, Handle(r), Inserts(r)
    PROVE  RootInv'
<1> USE DEF RootInv, CellsInv
<1>1. /\ Live' = Live \cup {next} /\ next \notin Live /\ next <= next'
      /\ \A i \in Live' : i # next => rows'[i] = rows[i]
      /\ \A i \in Live' : i = next => rows'[i].root = NoRoot
      /\ revived' = revived
  BY NextIds DEF Inserts, Insert, Over, Live, Taking
<1>2. NothingNew /\ Kept
  BY HandleNothingNew, EndKeeps DEF Inserts, Insert
<1>3. \A i, o : Roots(i, o) => i # next /\ (o # NoRoot => o # next)
  BY RootIds, NextIds DEF RootsGiven
<1>4. StoredFrom
  BY <1>1, <1>3 DEF StoredFrom, StoredRoot, Roots
<1>5. LiveFrom /\ PastStays
  BY <1>1, <1>3 DEF LiveFrom, PastStays, Past
<1>6. LiveRoots'
  <2>1. \A i \in Live' : rows'[i].root \in Live' \cup {NoRoot}
    BY <1>1 DEF LiveRoots
  <2> QED BY <1>1, <1>2, <2>1, MadeRoots DEF LiveRoots
<1> QED BY <1>1, <1>2, <1>4, <1>5, <1>6, RootStep

LEMMA SaveRoots ==
    ASSUME RootInv, CellsInv', NEW r \in Requests, Handle(r), Saves(r)
    PROVE  RootInv'
<1> USE DEF RootInv, CellsInv
<1> DEFINE j == req[r].id
<1>1. PICK v \in Values : rows' = Over([i \in {j} |-> [req[r].row EXCEPT !.val = v]], rows)
  BY DEF Saves, Save
<1>2. req[r].row \in Row
  BY CallKinds DEF Saves, Typed
<1>3. /\ Live' = Live \cup {j}
      /\ \A i \in Live' : rows'[i] = IF i = j THEN [req[r].row EXCEPT !.val = v] ELSE rows[i]
  BY <1>1 DEF Over, Live
<1>4. \A i \in Live' : rows'[i].root = IF i = j THEN req[r].row.root ELSE rows[i].root
  BY <1>2, <1>3 DEF Row
<1>5. /\ revived' = IF j \in Live THEN revived ELSE revived \cup {j}
      /\ req[r].row.root \in Live \cup {NoRoot} /\ next' = next
  BY DEF Saves, Save
<1>6. NothingNew /\ Kept /\ next <= next'
  BY <1>5, HandleNothingNew, EndKeeps, NextIds DEF Saves, Save
<1>7. StoredFrom
  BY <1>3, <1>4 DEF StoredFrom, StoredRoot, Roots, HeldRoot, Saves
<1>8. LiveFrom /\ PastStays
  BY <1>3, <1>5 DEF LiveFrom, PastStays, Past, Saves
<1>9. LiveRoots'
  <2>1. \A i \in Live' : rows'[i].root \in Live' \cup {NoRoot}
    BY <1>3, <1>4, <1>5 DEF LiveRoots
  <2> QED BY <1>3, <1>6, <2>1, MadeRoots DEF LiveRoots
<1> QED BY <1>6, <1>7, <1>8, <1>9, RootStep

LEMMA CommitRoots ==
    ASSUME RootInv, CellsInv', NEW r \in Requests, Handle(r), Commits(r)
    PROVE  RootInv'
<1> USE DEF RootInv, CellsInv
<1> DEFINE made == req[r].made
<1>1. /\ Live' = Live \cup DOMAIN made
      /\ \A i \in Live' : rows'[i] = IF i \in DOMAIN made THEN made[i] ELSE rows[i]
      /\ revived' = revived /\ next' = next /\ Ends(r)
  BY DEF Commits, Commit, Over, Live
<1>2. NothingNew /\ Kept /\ next <= next'
  BY <1>1, HandleNothingNew, EndKeeps, NextIds
<1>3. StoredFrom
  BY <1>1 DEF StoredFrom, StoredRoot, Roots, HeldRoot, Commits
<1>4. \A i, u : Roots(i, u) => u \notin DOMAIN made
  BY DEF Reserved, Clones, Commits
<1>5. r \in Clones /\ ~Busy(r, "clone")'
  BY <1>1 DEF Commits, Clones, Ends, Goes, Busy, Idle, Typed
<1>6. LiveFrom /\ PastStays
  BY <1>1, <1>4, <1>5 DEF LiveFrom, PastStays, Past
<1>7. LiveRoots'
  <2>1. \A n \in DOMAIN made : made[n].root \in Live
    BY <1>5 DEF LiveRoots
  <2>2. \A i \in Live' : rows'[i].root \in Live' \cup {NoRoot}
    BY <1>1, <2>1 DEF LiveRoots
  <2> QED BY <1>1, <1>2, <2>2, MadeRoots DEF LiveRoots
<1> QED BY <1>2, <1>3, <1>6, <1>7, RootStep

\* A deletion, by a request or with a scenario.
LEMMA EraseRoots ==
    ASSUME RootInv, CellsInv', NothingNew, Kept, UNCHANGED <<next, revived>>,
           NEW D, Erase(D)
    PROVE  RootInv'
<1> USE DEF RootInv, CellsInv
<1>1. /\ Live' = Live \ D
      /\ \A i \in Live' : rows'[i] = Unlinked(rows[i], D)
  BY DEF Erase, Live
<1>2. \A i \in Live' : rows'[i].root = IF rows[i].root \in D THEN NoRoot ELSE rows[i].root
  <2>1. \A i \in Live' : rows[i] \in Row
    BY <1>1 DEF Typed, StoreOK
  <2> QED BY <1>1, <2>1 DEF Unlinked, Row
<1>3. PastStays
  BY <1>1 DEF PastStays, Past
<1>4. StoredFrom
  <2> SUFFICES ASSUME NEW i \in Live', rows[i].root \in D,
                      NEW u, Roots(i, u), u # NoRoot
               PROVE  Past(u)'
    BY <1>1, <1>2 DEF StoredFrom, StoredRoot, Roots
  <2>1. CASE u = rows[i].root
    BY <1>1, <2>1 DEF Past
  <2>2. CASE u # rows[i].root
    <3>1. Roots(i, rows[i].root)
      BY <1>1 DEF Roots, StoredRoot
    <3> QED BY <1>3, <2>2, <3>1 DEF OneRoot, PastStays
  <2> QED BY <2>1, <2>2
<1>5. LiveFrom
  BY <1>1 DEF LiveFrom
<1>6. LiveRoots'
  <2>1. \A i \in Live' : rows'[i].root \in Live' \cup {NoRoot}
    BY <1>1, <1>2 DEF LiveRoots
  <2>2. \A r \in Clones : \A n \in DOMAIN req[r].made : req[r].made[n].root \in Live'
    BY <1>1 DEF LiveRoots, Erase, Pinned
  <2>3. \A r \in Clones' : \A n \in DOMAIN req'[r].made : req'[r].made[n].root \in Live'
    BY <2>2 DEF Kept, Clones, Busy
  <2> QED BY <2>1, <2>3 DEF LiveRoots
<1>7. next <= next'
  BY NextIds
<1> QED BY <1>3, <1>4, <1>5, <1>6, <1>7, RootStep

\* A clone links its copies to rows that are there.
LEMMA CanonicalLives ==
    ASSUME LiveRoots, NEW j \in Live
    PROVE  /\ rootCanonical(j) \in Live
           /\ \/ rows[j].root # NoRoot /\ rootCanonical(j) = rows[j].root
              \/ rows[j].root = NoRoot /\ rootCanonical(j) = j
  BY DEF LiveRoots, rootCanonical

LEMMA CopiesRoots ==
    ASSUME RootInv, CellsInv', NEW r \in Requests, Handle(r), Copies(r)
    PROVE  RootInv'
<1> USE DEF RootInv, CellsInv
<1> DEFINE q == req[r]
           p == req'[r]
           S == RowsOf(q.scen, Tables[q.stage])
<1>1. PICK new : Copied(r, new, S)
  BY CopiesState
<1>2. p.do = "clone" /\ q.do = "clone"
  <2>1. p = Open(q.scen, q.dst, q.stage + 1, p.copy, p.made, q.drawn)
    BY <1>1 DEF Copied
  <2>2. p.do = "clone"
    <3> HIDE DEF p, q
    <3> QED BY <2>1 DEF Open
  <2> QED BY <2>2 DEF Copies, Busy
<1>3. S \subseteq Live
  BY DEF RowsOf
<1> HIDE DEF S
<1>4. UNCHANGED <<rows, revived>> /\ Live' = Live
  BY DEF Copies, CopyRows, tables, Live
<1>5. /\ \A x \in Requests \ {r} : req'[x] = req[x]
      /\ NothingNew
  BY OnlyOne, HandleNothingNew
<1>6. /\ \A j \in S : new[j] \notin 1 .. next - 1
      /\ \A n \in DOMAIN q.made : n \in 1 .. next - 1
      /\ Live \subseteq 1 .. next - 1
      /\ NoRoot \notin 1 .. next - 1
  <2>1. \A n \in next .. next' - 1 : n \notin 1 .. next - 1
    BY NextIds
  <2>2. CloneOK(q)
    BY CallKinds DEF Copies, Typed
  <2> QED BY <1>1, <2>1, <2>2, NextIds DEF Copied, Numbers, CloneOK, NoRoot
<1>7. \A j \in S : p.made[new[j]].root = rootCanonical(j) /\ p.made[new[j]].kind = rows[j].kind
  BY <1>1, <1>2, <1>3, CopyTyped DEF Copied, Busy
<1>8. \A n \in DOMAIN p.made : \/ n \in DOMAIN q.made /\ p.made[n] = q.made[n]
                               \/ \E j \in S : n = new[j]
  BY <1>1 DEF Copied
<1>9. \A j \in S : new[j] \in DOMAIN p.made
  BY <1>1 DEF Copied
<1>10. ASSUME NEW i, NEW o, Roots(i, o)'
       PROVE  \/ Roots(i, o) /\ i \in 1 .. next - 1
              \/ \E j \in S : i = new[j] /\ o = rootCanonical(j)
  <2>1. CASE StoredRoot(i, o)'
    BY <1>4, <1>6, <2>1 DEF StoredRoot, Roots
  <2>2. ASSUME NEW x \in Requests, HeldRoot(x, i, o)', x # r
        PROVE  Roots(i, o) /\ i \in 1 .. next - 1
    <3>1. Roots(i, o)
      BY <1>5, <2>2 DEF HeldRoot, Roots, Busy
    <3> QED BY <3>1, RootIds
  <2>3. CASE HeldRoot(r, i, o)'
    <3>1. i \in DOMAIN p.made /\ p.made[i].root = o
      BY <1>2, <2>3 DEF HeldRoot, Busy
    <3> QED BY <1>2, <1>6, <1>7, <1>8, <3>1 DEF HeldRoot, Roots, Busy
  <2> QED BY <1>10, <2>1, <2>2, <2>3 DEF Roots
<1>11. \A j \in S : /\ rootCanonical(j) \in Live
                    /\ \/ rows[j].root # NoRoot /\ rootCanonical(j) = rows[j].root
                       \/ rows[j].root = NoRoot /\ rootCanonical(j) = j
  BY <1>3, CanonicalLives
<1>12. ASSUME NEW i, NEW o, Roots(i, o)', o # NoRoot
       PROVE  o \in 1 .. next - 1
  <2>1. CASE Roots(i, o)
    BY <1>12, <2>1 DEF RootsGiven
  <2>2. CASE \E j \in S : o = rootCanonical(j)
    BY <1>6, <1>11, <2>2
  <2> QED BY <1>10, <1>12, <2>1, <2>2
<1>13. RootsGiven'
  <2>1. 1 .. next - 1 \subseteq 1 .. next' - 1
    <3>1. next' \in Nat /\ next <= next'
      <4>1. Cardinality(S) \in Nat
        BY RowsFinite, FS_CardinalityType DEF S
      <4>2. next' = next + Cardinality(S)
        BY DEF Copies, CopyRows, Taking, S
      <4> QED BY <4>1, <4>2, NextIds
    <3> QED BY <3>1, NextIds
  <2> QED BY <1>12, <2>1 DEF RootsGiven
<1>14. RootKinds'
  <2> SUFFICES ASSUME NEW i, NEW o, NEW k, NEW s, NEW l, NEW t,
                      Roots(i, o)', o # NoRoot, Says(i, k, s)', Says(o, l, t)'
               PROVE  k = l
    BY DEF RootKinds
  <2>1. Says(o, l, t)
    BY <1>5, <1>12 DEF NothingNew
  <2>2. CASE Roots(i, o) /\ i \in 1 .. next - 1
    BY <1>5, <2>1, <2>2 DEF NothingNew, RootKinds
  <2>3. ASSUME NEW j \in S, i = new[j], o = rootCanonical(j)
        PROVE  k = l
    <3>1. \A a, b : a = p.made[i].kind /\ b = p.made[i].scen => Says(i, a, b)'
      BY <1>2, <1>9, <2>3 DEF Says, Held, Busy
    <3>2. k = rows[j].kind
      BY <1>7, <2>3, <3>1 DEF Agreed
    <3>3. Says(j, rows[j].kind, rows[j].scen) /\ Roots(j, rows[j].root)
      BY <1>3 DEF Says, Stored, Roots, StoredRoot
    <3> QED BY <1>11, <2>1, <2>3, <3>2, <3>3 DEF RootKinds, Agreed
  <2> QED BY <1>10, <2>2, <2>3
<1>15. NoChain'
  <2> SUFFICES ASSUME NEW i, NEW o, NEW u,
                      Roots(i, o)', o # NoRoot, Roots(o, u)', u # NoRoot
               PROVE  Past(u)'
    BY DEF NoChain
  <2>1. Roots(o, u)
    BY <1>6, <1>10, <1>12
  <2>2. CASE Roots(i, o)
    BY <1>4, <2>1, <2>2 DEF NoChain, Past
  <2>3. ASSUME NEW j \in S, o = rootCanonical(j)
        PROVE  Past(u)'
    <3>1. Roots(j, rows[j].root)
      BY <1>3 DEF Roots, StoredRoot
    <3> QED BY <1>4, <1>11, <2>1, <2>3, <3>1 DEF NoChain, OneRoot, Past
  <2> QED BY <1>10, <2>2, <2>3
<1>16. OneRoot'
  <2> SUFFICES ASSUME NEW i, NEW u, NEW v, Roots(i, u)', Roots(i, v)', u # v, u # NoRoot
               PROVE  Past(u)'
    BY DEF OneRoot
  <2>1. CASE i \in 1 .. next - 1
    BY <1>4, <1>6, <1>10, <2>1 DEF OneRoot, Past
  <2>2. CASE i \notin 1 .. next - 1
    <3>1. PICK j \in S : i = new[j] /\ u = rootCanonical(j)
      BY <1>10, <2>2
    <3>2. PICK k \in S : i = new[k] /\ v = rootCanonical(k)
      BY <1>10, <2>2
    <3> QED BY <1>1, <3>1, <3>2 DEF Copied, Numbers
  <2> QED BY <2>1, <2>2
<1>17. LiveRoots'
  <2> SUFFICES ASSUME NEW x \in Requests, Busy(x, "clone")', NEW n \in DOMAIN req'[x].made
               PROVE  req'[x].made[n].root \in Live
    BY <1>4 DEF LiveRoots, Clones
  <2>1. CASE x # r
    BY <1>5, <2>1 DEF LiveRoots, Clones, Busy
  <2>2. CASE x = r
    BY <1>2, <1>7, <1>8, <1>11, <2>2 DEF LiveRoots, Clones, Busy
  <2> QED BY <2>1, <2>2
<1>18. Reserved'
  <2> SUFFICES ASSUME NEW x \in Requests, Busy(x, "clone")', NEW n \in DOMAIN req'[x].made
               PROVE  /\ n \notin Live /\ \A i : ~Roots(i, n)'
                      /\ \A y \in Requests : Busy(y, "save")' => req'[y].id # n
                      /\ \A y \in Requests \ {x} : Busy(y, "clone")' => n \notin DOMAIN req'[y].made
    BY <1>4 DEF Reserved, Clones
  <2>1. ~Busy(r, "save")' /\ \A y \in Requests : Busy(y, "save")' => Busy(y, "save") /\ req'[y] = req[y]
    BY <1>2, <1>5 DEF Busy
  <2>2. CASE x \in Clones /\ n \in DOMAIN req[x].made
    <3>1. n \in 1 .. next - 1
      BY <2>2, CallKinds DEF Typed, CloneOK, Clones
    <3>2. n \notin Live /\ \A i : ~Roots(i, n)
      BY <2>2 DEF Reserved
    <3>3. \A i : ~Roots(i, n)'
      BY <1>10, <1>11, <3>2
    <3>4. \A y \in Requests : Busy(y, "save")' => req'[y].id # n
      BY <2>1, <2>2 DEF Reserved
    <3>5. \A y \in Requests \ {x} : Busy(y, "clone")' => n \notin DOMAIN req'[y].made
      BY <1>2, <1>5, <1>6, <1>8, <2>2, <3>1 DEF Reserved, Clones, Busy
    <3> QED BY <3>2, <3>3, <3>4, <3>5
  <2>3. ASSUME x = r, NEW j \in S, n = new[j]
        PROVE  /\ n \notin Live /\ \A i : ~Roots(i, n)'
               /\ \A y \in Requests : Busy(y, "save")' => req'[y].id # n
               /\ \A y \in Requests \ {x} : Busy(y, "clone")' => n \notin DOMAIN req'[y].made
    <3>1. n \notin 1 .. next - 1 /\ n # NoRoot
      <4>1. n \in next .. next' - 1
        BY <1>1, <2>3 DEF Copied, Numbers
      <4> QED BY <1>6, <2>3, <4>1, NextIds DEF NoRoot
    <3>2. \A i : ~Roots(i, n)'
      BY <1>12, <3>1
    <3>3. \A y \in Requests : Busy(y, "save") => req[y].id \in 1 .. next - 1
      BY DEF Typed, CallOK, Busy
    <3>4. \A y \in Requests : Busy(y, "clone") => DOMAIN req[y].made \subseteq 1 .. next - 1
      BY CallKinds DEF Typed, CloneOK
    <3> QED BY <1>5, <1>6, <2>1, <2>3, <3>1, <3>2, <3>3, <3>4 DEF Busy
  <2>4. CASE x # r
    BY <1>5, <2>2, <2>4 DEF Clones, Busy
  <2>5. CASE x = r
    BY <1>2, <1>8, <2>2, <2>3, <2>5 DEF Clones, Busy
  <2> QED BY <2>4, <2>5
<1> QED BY <1>13, <1>14, <1>15, <1>16, <1>17, <1>18

LEMMA SeedRoots ==
    ASSUME RootInv, CellsInv', Seed
    PROVE  RootInv'
<1>1. \A r \in Requests : ~Busy(r, "clone")' /\ ~Busy(r, "save")'
  BY DEF Seed, RootInv, CellsInv, Typed, Busy, Idle
<1>2. \A i \in Live' : rows'[i].root = NoRoot
  BY DEF Seed, Live
<1>3. \A i, o : Roots(i, o)' => o = NoRoot
  BY <1>1, <1>2 DEF Roots, StoredRoot, HeldRoot
<1> QED BY <1>1, <1>2, <1>3
        DEF RootInv, RootsGiven, RootKinds, LiveRoots, NoChain, OneRoot, Reserved, Clones

LEMMA AsideRoots ==
    ASSUME RootInv, CellsInv', Aside
    PROVE  RootInv'
<1>1. UNCHANGED <<req, next, revived>>
  BY DEF Aside, Connect, ensureRecipeCompositeFK, CreateScenario, DeleteScenario, Restatus
<1>2. NothingNew /\ Kept /\ next <= next'
  BY <1>1, AsideAgreed, NextIds DEF RootInv, CellsInv, Kept, Busy
<1>3. UNCHANGED rows \/ \E D : Erase(D)
  BY DEF Aside, Connect, ensureRecipeCompositeFK, CreateScenario, DeleteScenario, Restatus,
         tables
<1> QED BY <1>1, <1>2, <1>3, QuietRoots, EraseRoots

LEMMA InitRoots == Init => RootInv
<1> SUFFICES ASSUME Init PROVE RootInv
  OBVIOUS
<1>1. /\ \A r \in Requests : ~Busy(r, "clone") /\ ~Busy(r, "save")
      /\ Live = {}
  BY DEF Init, Busy, Idle, Live
<1> QED BY <1>1, InitCells
        DEF RootInv, RootsGiven, RootKinds, LiveRoots, NoChain, OneRoot, Reserved, Clones,
            Roots, StoredRoot, HeldRoot

LEMMA NextRoots == RootInv /\ [Next]_vars => RootInv'
<1> SUFFICES ASSUME RootInv, [Next]_vars PROVE RootInv'
  OBVIOUS
<1>1. CellsInv'
  BY NextCells DEF RootInv
<1>2. CASE UNCHANGED vars
  <2>1. UNCHANGED <<rows, req, next, revived>>
    BY <1>2 DEF vars, tables
  <2>2. \A r \in Requests, do \in {"clone", "save"} : Busy(r, do)' = Busy(r, do)
    BY <2>1 DEF Busy
  <2>3. Kept
    BY <2>1, <2>2 DEF Kept
  <2>4. \A i, k, s : Says(i, k, s)' => Says(i, k, s)
    <3>1. ASSUME NEW r \in Requests, NEW i, NEW k, NEW s, Held(r, i, k, s)'
          PROVE  Held(r, i, k, s)
      BY <2>1, <3>1 DEF Held, Busy
    <3>2. \A i, k, s : Stored(i, k, s)' => Stored(i, k, s)
      BY <2>1 DEF Stored, Live
    <3> QED BY <3>1, <3>2 DEF Says
  <2>5. NothingNew /\ next <= next'
    BY <2>1, <2>4, NextIds DEF NothingNew, RootInv, CellsInv
  <2> QED BY <1>1, <2>1, <2>3, <2>5, QuietRoots
<1>3. ASSUME NEW r \in Requests, Handle(r) PROVE RootInv'
  <2>1. CASE Erases(r)
    <3>1. NothingNew /\ Kept
      BY <1>3, <2>1, HandleNothingNew, EndKeeps DEF Erases, RootInv, CellsInv
    <3> QED BY <1>1, <2>1, <3>1, EraseRoots DEF Erases
  <2> QED BY <1>1, <1>3, <2>1, HandleSteps, CallRoots, InsertRoots, SaveRoots, CommitRoots,
             CopiesRoots, TypedTypes DEF RootInv, CellsInv
<1> QED BY <1>1, <1>2, <1>3, SeedRoots, AsideRoots, NextParts

\* canonical_id is one hop long, for any clones of clones, deletions of canonical
\* rows and late edits that overlap.
THEOREM OneHopHolds == Spec => []OneHop
<1>1. Init => RootInv
  BY InitRoots
<1>2. RootInv /\ [Next]_vars => RootInv'
  BY NextRoots
<1>3. RootInv => OneHop
  BY RootsAreOneHop
<1> QED BY <1>1, <1>2, <1>3, PTL DEF Spec


-----------------------------------------------------------------------------
(* Whose rows a request writes.                                               *)

\* An open clone writes a scenario nobody else has.
Targets ==
    \A r \in Clones : /\ status[req[r].dst] = "unborn"
                      /\ \A p \in Clones \ {r} : req[p].dst # req[r].dst

\* A held row is of the scenario the request names.
OwnRow == \A r \in Requests : Busy(r, "save") => req[r].row.scen = req[r].scen

OwnInv == RootInv /\ Targets /\ OwnRow

LEMMA AsideOwn ==
    ASSUME Typed, Targets, OwnRow, Aside
    PROVE  Targets' /\ OwnRow'
<1>1. UNCHANGED req
  BY DEF Aside, Connect, ensureRecipeCompositeFK, CreateScenario, DeleteScenario, Restatus
<1>2. CASE UNCHANGED status
  BY <1>1, <1>2 DEF Targets, OwnRow, Clones, Busy
<1>3. ASSUME NEW d \in Scenarios, CreateScenario(d)
      PROVE  Targets'
  <2>1. /\ \A r \in Clones : req[r].dst # d
        /\ \A s \in Scenarios \ {d} : status'[s] = status[s]
    BY <1>3 DEF CreateScenario, NextScenario, Taken, Typed, StoreOK
  <2>2. \A r \in Clones : req[r].dst \in Scenarios
    BY CallKinds DEF Typed, Clones, CloneOK
  <2> QED BY <1>1, <2>1, <2>2 DEF Targets, Clones, Busy
<1>4. ASSUME NEW d \in Scenarios, DeleteScenario(d) \/ Restatus(d)
      PROVE  Targets'
  <2>1. status[d] # "unborn" /\ \A s \in Scenarios \ {d} : status'[s] = status[s]
    BY <1>4 DEF DeleteScenario, Restatus, Exists, Typed, StoreOK
  <2>2. \A r \in Clones : req[r].dst \in Scenarios
    BY CallKinds DEF Typed, Clones, CloneOK
  <2> QED BY <1>1, <2>1, <2>2 DEF Targets, Clones, Busy
<1>5. OwnRow'
  BY <1>1 DEF OwnRow, Busy
<1> QED BY <1>1, <1>2, <1>3, <1>4, <1>5
        DEF Aside, Connect, ensureRecipeCompositeFK, tables

LEMMA CopiesTarget ==
    ASSUME Typed, NEW r \in Requests, Copies(r)
    PROVE  /\ req'[r].do = "clone" /\ req'[r].scen = req[r].scen /\ req'[r].dst = req[r].dst
           /\ req'[r].stage = req[r].stage + 1 /\ req'[r].drawn = req[r].drawn
<1> DEFINE q == req[r]
           p == req'[r]
<1>1. PICK new : Copied(r, new, RowsOf(q.scen, Tables[q.stage]))
  BY CopiesState
<1>2. p = Open(q.scen, q.dst, q.stage + 1, p.copy, p.made, q.drawn)
  BY <1>1 DEF Copied
<1> HIDE DEF p, q
<1>3. /\ p.do = "clone" /\ p.scen = q.scen /\ p.dst = q.dst /\ p.stage = q.stage + 1
      /\ p.drawn = q.drawn
  BY <1>2 DEF Open
<1> QED BY <1>3 DEF p, q

LEMMA HandleOwn ==
    ASSUME Typed, Targets, OwnRow, NEW r \in Requests, Handle(r)
    PROVE  Targets' /\ OwnRow'
<1>1. \A p \in Requests \ {r} : req'[p] = req[p]
  BY OnlyOne
<1>2. ASSUME UNCHANGED status, ~Busy(r, "clone")' PROVE Targets'
  BY <1>1, <1>2 DEF Targets, Clones, Busy
<1>3. ASSUME UNCHANGED status, Busy(r, "clone"), req'[r].dst = req[r].dst PROVE Targets'
  BY <1>1, <1>3 DEF Targets, Clones, Busy
<1>4. ASSUME ~Busy(r, "save")' PROVE OwnRow'
  BY <1>1, <1>4 DEF OwnRow, Busy
<1>5. ASSUME Ends(r) PROVE ~Busy(r, "clone")' /\ ~Busy(r, "save")'
  BY <1>5 DEF Ends, Goes, Busy, Idle, Typed
<1>6. CASE Inserts(r) \/ Saves(r) \/ Erases(r) \/ Puts(r) \/ Drops(r) \/ Fail(r)
  BY <1>2, <1>4, <1>5, <1>6
  DEF Inserts, Insert, Saves, Save, Erases, Puts, Put, Drops, Fail, tables
<1>7. CASE Admission(r) \/ Looks(r)
  <2>1. UNCHANGED status /\ ~Busy(r, "clone")' /\ ~Busy(r, "save")'
    BY <1>7 DEF Admission, Quiet, Fresh, Looks, Look, Goes, Busy, Typed, tables
  <2> QED BY <1>2, <1>4, <2>1
<1>8. CASE Fetches(r)
  <2>1. /\ UNCHANGED status /\ ~Busy(r, "clone")'
        /\ req'[r].row.scen = req'[r].scen
    BY <1>8 DEF Fetches, Fetch, RowsOf, Goes, Busy, Typed, tables
  <2> QED BY <1>1, <1>2, <2>1 DEF OwnRow, Busy
<1>9. CASE Begins(r)
  <2>1. /\ UNCHANGED status /\ ~Busy(r, "save")' /\ Busy(r, "idle")
        /\ \E d \in Scenarios : req'[r].dst = d /\ NextScenario(d)
    BY <1>9 DEF Begins, BeginClone, Comes, Goes, Busy, Typed, tables
  <2>2. /\ status[req'[r].dst] = "unborn"
        /\ \A p \in Clones : req[p].dst # req'[r].dst
    BY <2>1 DEF NextScenario, Taken
  <2>3. Targets'
    BY <1>1, <2>1, <2>2 DEF Targets, Clones, Busy
  <2> QED BY <1>4, <2>1, <2>3
<1>10. CASE Copies(r) \/ Joins(r)
  <2>1. UNCHANGED status /\ ~Busy(r, "save")' /\ Busy(r, "clone") /\ req'[r].dst = req[r].dst
    BY <1>10, CopiesTarget, JoinsState DEF Copies, CopyRows, Joins, CopyCells, Busy, tables
  <2> QED BY <1>3, <1>4, <2>1
<1>11. CASE Commits(r)
  <2>1. /\ ~Busy(r, "clone")' /\ ~Busy(r, "save")' /\ r \in Clones
        /\ \A s \in Scenarios \ {req[r].dst} : status'[s] = status[s]
    BY <1>5, <1>11 DEF Commits, Commit, Clones, Typed, StoreOK
  <2>2. \A p \in Clones : req[p].dst \in Scenarios
    BY CallKinds DEF Typed, Clones, CloneOK
  <2>3. Targets'
    BY <1>1, <2>1, <2>2 DEF Targets, Clones, Busy
  <2> QED BY <1>4, <2>1, <2>3
<1> QED BY <1>6, <1>7, <1>8, <1>9, <1>10, <1>11, HandleSteps, TypedTypes

LEMMA InitOwn == Init => OwnInv
  BY InitRoots DEF Init, OwnInv, Targets, OwnRow, Clones, Busy, Idle

LEMMA NextOwn == OwnInv /\ [Next]_vars => OwnInv'
<1> SUFFICES ASSUME OwnInv, [Next]_vars PROVE OwnInv'
  OBVIOUS
<1> USE DEF OwnInv, RootInv, CellsInv
<1>1. RootInv'
  BY NextRoots
<1>2. CASE UNCHANGED vars
  BY <1>1, <1>2 DEF vars, tables, Targets, OwnRow, Clones, Busy
<1>3. CASE Seed
  BY <1>1, <1>3 DEF Seed, Targets, OwnRow, Clones, Busy, Idle, Typed
<1> QED BY <1>1, <1>2, <1>3, AsideOwn, HandleOwn, NextParts

-----------------------------------------------------------------------------
(* What a step changes.                                                       *)

SameRows(s) ==
    \A i : /\ i \in Live /\ rows[i].scen = s <=> i \in Live' /\ rows'[i].scen = s
           /\ i \in Live /\ rows[i].scen = s =>
                 rows'[i].kind = rows[i].kind /\ rows'[i].val = rows[i].val

SameCells(s) == \A c : c \in cells /\ c.scen = s <=> c \in cells' /\ c.scen = s

LEMMA RowsSame ==
    ASSUME NEW s, SameRows(s)
    PROVE  Content(s).rows' = Content(s).rows
<1>1. \A i : i \in {j \in Live : rows[j].scen = s} <=> i \in {j \in Live' : rows'[j].scen = s}
  BY DEF SameRows
<1>2. {j \in Live : rows[j].scen = s} = {j \in Live' : rows'[j].scen = s}
  BY <1>1
<1>3. \A i \in {j \in Live : rows[j].scen = s} :
         <<i, rows'[i].kind, rows'[i].val>> = <<i, rows[i].kind, rows[i].val>>
  BY DEF SameRows
<1>4. {<<i, rows'[i].kind, rows'[i].val>> : i \in {j \in Live' : rows'[j].scen = s}}
      = {<<i, rows[i].kind, rows[i].val>> : i \in {j \in Live : rows[j].scen = s}}
  BY <1>2, <1>3
<1> QED BY <1>4 DEF Content

LEMMA ContentSame ==
    ASSUME NEW s, SameRows(s), SameCells(s)
    PROVE  Content(s)' = Content(s)
<1>1. Content(s).rows' = Content(s).rows
  BY RowsSame
<1>2. {d \in cells' : d.scen = s} = {d \in cells : d.scen = s}
  BY DEF SameCells
<1>3. {<<c.product, c.item>> : c \in {d \in cells' : d.scen = s}}
      = {<<c.product, c.item>> : c \in {d \in cells : d.scen = s}}
  BY <1>2
<1> QED BY <1>1, <1>3 DEF Content, CellKey

\* What OwnWrites says of a step and a scenario.
Own(s) ==
    tables' # tables /\ Content(s)' # Content(s) =>
       \/ status[s] = "unborn" \/ status'[s] = "gone"
       \/ \E r \in Requests :
             /\ req[r].do \in {"create", "save", "delete", "put", "drop"}
             /\ req[r].scen = s /\ req'[r] = Idle
       \/ /\ Content(s).rows' = Content(s).rows
          /\ {c \in cells' : c.scen = s} \subseteq cells
          /\ \A c \in cells \ cells' : c.scen = s => rows[c.item].scen # s

\* A deletion in another scenario.
LEMMA EraseOwn ==
    ASSUME Typed, CellsAgree, NEW D, Erase(D), NEW d, \A i \in D : i \in Live => rows[i].scen = d,
           NEW s, s # d
    PROVE  Own(s)
<1>1. /\ \A i : i \in Live' <=> i \in Live /\ i \notin D
      /\ \A i \in Live' : rows'[i] = Unlinked(rows[i], D)
  BY DEF Erase, Live
<1>2. \A i \in Live' : /\ rows'[i].scen = rows[i].scen /\ rows'[i].kind = rows[i].kind
                       /\ rows'[i].val = rows[i].val
  <2>1. \A i \in Live' : rows[i] \in Row
    BY <1>1 DEF Typed, StoreOK
  <2> QED BY <1>1, <2>1 DEF Unlinked, Row
<1>3. SameRows(s)
  BY <1>1, <1>2 DEF SameRows
<1>4. /\ {c \in cells' : c.scen = s} \subseteq cells
      /\ \A c \in cells \ cells' : c.scen = s => rows[c.item].scen # s
  BY DEF Erase, CellsAgree
<1> QED BY <1>3, <1>4, RowsSame DEF Own

LEMMA AsideOwnWrites ==
    ASSUME Typed, CellsAgree, Aside, NEW s \in Scenarios
    PROVE  Own(s)
<1>1. CASE UNCHANGED <<rows, cells>>
  <2>1. SameRows(s) /\ SameCells(s)
    BY <1>1 DEF SameRows, SameCells, Live
  <2> QED BY <2>1, ContentSame DEF Own
<1>2. ASSUME NEW d \in Scenarios, DeleteScenario(d)
      PROVE  Own(s)
  <2>1. CASE s = d
    BY <1>2, <2>1 DEF DeleteScenario, Own, Typed, StoreOK
  <2>2. CASE s # d
    BY <1>2, <2>2, EraseOwn DEF DeleteScenario
  <2> QED BY <2>1, <2>2
<1> QED BY <1>1, <1>2
        DEF Aside, Connect, ensureRecipeCompositeFK, CreateScenario, Restatus, tables

LEMMA HandleOwnWrites ==
    ASSUME OwnInv, NEW r \in Requests, Handle(r), NEW s \in Scenarios
    PROVE  Own(s)
<1> USE DEF OwnInv, RootInv, CellsInv, CellsSound
<1>1. CASE \/ Admission(r) \/ Begins(r) \/ Fetches(r) \/ Looks(r)
           \/ Copies(r) \/ Joins(r) \/ Fail(r)
  BY <1>1 DEF Own, Admission, Quiet, Begins, BeginClone, Fetches, Fetch, Looks, Look, Copies,
              CopyRows, Joins, CopyCells, Fail
<1>2. ASSUME \/ Inserts(r) \/ Saves(r) \/ Erases(r) \/ Puts(r) \/ Drops(r), req[r].scen = s
      PROVE  Own(s)
  <2>1. req'[r] = Idle
    BY <1>2 DEF Inserts, Insert, Saves, Save, Erases, Puts, Put, Drops, Ends, Goes, Typed
  <2> QED BY <1>2, <2>1 DEF Own, Inserts, Saves, Erases, Puts, Drops, Busy
<1>3. ASSUME Inserts(r), req[r].scen # s PROVE Own(s)
  <2>1. /\ \A i : i \in Live' <=> i \in Live \/ i = next
        /\ \A i \in Live : rows'[i] = rows[i]
        /\ rows'[next].scen # s /\ next \notin Live
        /\ UNCHANGED cells
    BY <1>3, NextIds DEF Inserts, Insert, Over, Live
  <2>2. SameRows(s) /\ SameCells(s)
    BY <2>1 DEF SameRows, SameCells
  <2> QED BY <2>2, ContentSame DEF Own
<1>4. ASSUME Saves(r), req[r].scen # s PROVE Own(s)
  <2> DEFINE j == req[r].id
  <2>1. PICK v \in Values : rows' = Over([i \in {j} |-> [req[r].row EXCEPT !.val = v]], rows)
    BY <1>4 DEF Saves, Save
  <2>2. req[r].row \in Row /\ req[r].row.scen # s
    BY <1>4, CallKinds DEF Saves, Typed, OwnRow
  <2>3. [req[r].row EXCEPT !.val = v].scen # s
    BY <2>2 DEF Row
  <2>4. /\ \A i : i \in Live' <=> i \in Live \/ i = j
        /\ \A i \in Live : i # j => rows'[i] = rows[i]
        /\ rows'[j].scen # s
        /\ UNCHANGED cells
    BY <1>4, <2>1, <2>3 DEF Saves, Save, Over, Live
  <2>5. j \in Live => rows[j].scen # s
    <3> SUFFICES ASSUME j \in Live PROVE rows[j].scen # s
      OBVIOUS
    <3>1. Says(j, req[r].row.kind, req[r].row.scen)
      BY <1>4 DEF Says, Held, Saves
    <3>2. Says(j, rows[j].kind, rows[j].scen)
      BY DEF Says, Stored
    <3> QED BY <2>2, <3>1, <3>2 DEF Agreed
  <2>6. SameRows(s) /\ SameCells(s)
    BY <2>4, <2>5 DEF SameRows, SameCells
  <2> QED BY <2>6, ContentSame DEF Own
<1>5. ASSUME Erases(r), req[r].scen # s PROVE Own(s)
  <2>1. \A i \in Doomed(r) : rows[i].scen = req[r].scen
    BY DEF Doomed, RowsOf
  <2> QED BY <1>5, <2>1, EraseOwn DEF Erases
<1>6. ASSUME Puts(r), req[r].scen # s PROVE Own(s)
  <2>1. UNCHANGED rows /\ (UNCHANGED cells \/ cells' = cells \cup {Cited(r)})
    BY <1>6 DEF Puts, Put
  <2>2. Cited(r).scen # s
    BY <1>6 DEF Cited
  <2>3. SameRows(s) /\ SameCells(s)
    BY <2>1, <2>2 DEF SameRows, SameCells, Live
  <2> QED BY <2>3, ContentSame DEF Own
<1>7. ASSUME Drops(r), req[r].scen # s PROVE Own(s)
  <2>1. \A c \in cells : c.scen = s => c.product # req[r].product
    <3> SUFFICES ASSUME NEW c \in cells, c.scen = s, c.product = req[r].product PROVE FALSE
      OBVIOUS
    <3>1. Says(c.product, "product", req[r].scen)
      BY <1>7 DEF Says, Held, Drops
    <3>2. Says(c.product, "product", s)
      BY DEF Says, Stored, CellsAgree
    <3> QED BY <1>7, <3>1, <3>2 DEF Agreed
  <2>2. /\ UNCHANGED rows /\ cells' \subseteq cells
        /\ \A c \in cells : c.product # req[r].product => c \in cells'
    BY <1>7 DEF Drops, CellKey, Cited
  <2>3. SameRows(s) /\ SameCells(s)
    BY <2>1, <2>2 DEF SameRows, SameCells, Live
  <2> QED BY <2>3, ContentSame DEF Own
<1>8. CASE Commits(r)
  <2> DEFINE q == req[r]
  <2>0. r \in Clones
    BY <1>8 DEF Commits, Clones
  <2>1. CASE s = q.dst
    BY <2>0, <2>1 DEF Own, Targets
  <2>2. CASE s # q.dst
    <3>1. /\ \A i : i \in Live' <=> i \in Live \/ i \in DOMAIN q.made
          /\ \A i \in Live' : rows'[i] = IF i \in DOMAIN q.made THEN q.made[i] ELSE rows[i]
          /\ cells' = cells \cup q.drawn
      BY <1>8 DEF Commits, Commit, Over, Live
    <3>2. \A i \in DOMAIN q.made : i \notin Live /\ q.made[i].scen = q.dst
      BY <2>0, <1>8 DEF Reserved, Drawn, Commits
    <3>3. \A c \in q.drawn : c.scen = q.dst
      BY <1>8 DEF Drawn, Commits
    <3>4. SameRows(s) /\ SameCells(s)
      BY <2>2, <3>1, <3>2, <3>3 DEF SameRows, SameCells
    <3> QED BY <3>4, ContentSame DEF Own
  <2> QED BY <2>1, <2>2
<1> QED BY <1>1, <1>2, <1>3, <1>4, <1>5, <1>6, <1>7, <1>8, HandleSteps, TypedTypes

LEMMA NextOwnWrites ==
    OwnInv /\ [Next]_vars =>
       [\A s \in Scenarios :
          tables' # tables /\ Content(s)' # Content(s) =>
             \/ status[s] = "unborn" \/ status'[s] = "gone"
             \/ \E r \in Requests :
                   /\ req[r].do \in {"create", "save", "delete", "put", "drop"}
                   /\ req[r].scen = s /\ req'[r] = Idle
             \/ /\ Content(s).rows' = Content(s).rows
                /\ {c \in cells' : c.scen = s} \subseteq cells
                /\ \A c \in cells \ cells' : c.scen = s => rows[c.item].scen # s]_vars
<1> SUFFICES ASSUME OwnInv, Next, NEW s \in Scenarios
             PROVE  Own(s)
  BY DEF Own
<1>1. CASE Seed
  BY <1>1 DEF Seed, Own
<1> QED BY <1>1, AsideOwnWrites, HandleOwnWrites, NextParts
        DEF OwnInv, RootInv, CellsInv, CellsSound

\* What is done to one scenario shows in no other, for any requests, clones and
\* deletions that overlap.
THEOREM OwnWritesHolds == Spec => OwnWrites
<1>1. Init => OwnInv
  BY InitOwn
<1>2. OwnInv /\ [Next]_vars => OwnInv'
  BY NextOwn
<1> QED BY <1>1, <1>2, NextOwnWrites, PTL DEF Spec, OwnWrites

-----------------------------------------------------------------------------
(* Clones of a source that stays as it was.                                   *)

\* The tables and the matrices a clone has copied by a stage.
TablesBefore(stage)   == {Tables[n] : n \in {m \in 1 .. 4 : m < stage}}
MatricesBefore(stage) == {Matrices[n] : n \in {m \in 1 .. 3 : m + 4 < stage}}

SourceRows(s, stage)  == {i \in Live : rows[i].scen = s /\ rows[i].kind \in TablesBefore(stage)}
SourceCells(s, stage) == {c \in cells : c.scen = s /\ rows[c.item].kind \in MatricesBefore(stage)}

\* What the clone holds is that much of its source under other ids.
Mirror(q) ==
    /\ DOMAIN q.copy = SourceRows(q.scen, q.stage)
    /\ DOMAIN q.made = {q.copy[i] : i \in DOMAIN q.copy}
    /\ \A i, j \in DOMAIN q.copy : q.copy[i] = q.copy[j] => i = j
    /\ \A i \in DOMAIN q.copy : LET n == q.made[q.copy[i]]
                                IN n.kind = rows[i].kind /\ n.val = rows[i].val /\ n.scen = q.dst
    /\ q.drawn = {Remap(q.copy, c, q.dst) : c \in SourceCells(q.scen, q.stage)}

MirrorInv == OwnInv /\ \A r \in Clones \cap steady : Mirror(req[r])

LEMMA AllCopied ==
    /\ TablesBefore(8) = Kinds
    /\ MatricesBefore(8) = Items
<1>1. 1 .. 4 = {1, 2, 3, 4} /\ 1 .. 3 = {1, 2, 3}
  OBVIOUS
<1>2. \A m \in 1 .. 4 : m < 8
  OBVIOUS
<1>3. \A m \in 1 .. 3 : m + 4 < 8
  OBVIOUS
<1>4. TablesBefore(8) = {Tables[n] : n \in {1, 2, 3, 4}}
  BY <1>1, <1>2 DEF TablesBefore
<1>5. MatricesBefore(8) = {Matrices[n] : n \in {1, 2, 3}}
  BY <1>1, <1>3 DEF MatricesBefore
<1>6. {Tables[n] : n \in {1, 2, 3, 4}} = Kinds
  BY DEF Tables, Kinds
<1>7. {Matrices[n] : n \in {1, 2, 3}} = Items
  BY DEF Matrices, Items
<1> QED BY <1>4, <1>5, <1>6, <1>7

LEMMA MirrorsAreCopies == MirrorInv => ClonesAreCopies
<1> SUFFICES ASSUME MirrorInv, NEW r \in Clones \cap steady, req[r].stage = 8
             PROVE  LET q == req[r]
                        S == {i \in Live : rows[i].scen = q.scen}
                    IN /\ DOMAIN q.copy = S /\ DOMAIN q.made = {q.copy[i] : i \in S}
                       /\ \A i, j \in S : q.copy[i] = q.copy[j] => i = j
                       /\ \A i \in S : LET n == q.made[q.copy[i]]
                                       IN n.kind = rows[i].kind /\ n.val = rows[i].val /\ n.scen = q.dst
                       /\ q.drawn = {[product |-> q.copy[c.product], item |-> q.copy[c.item],
                                       scen |-> q.dst] : c \in {d \in cells : d.scen = q.scen}}
  BY DEF ClonesAreCopies
<1> DEFINE q == req[r]
           S == {i \in Live : rows[i].scen = q.scen}
           C == {d \in cells : d.scen = q.scen}
<1> USE DEF MirrorInv, OwnInv, RootInv, CellsInv
<1>1. Mirror(q)
  OBVIOUS
<1>2. \A i \in Live : rows[i].kind \in Kinds
  BY DEF Typed, StoreOK, Row
<1>3. SourceRows(q.scen, q.stage) = S
  BY <1>2, AllCopied DEF SourceRows
<1>4. SourceCells(q.scen, q.stage) = C
  BY AllCopied DEF SourceCells, CellsSound
<1>5. DOMAIN q.copy = S
  BY <1>1, <1>3 DEF Mirror
<1>6. {Remap(q.copy, c, q.dst) : c \in SourceCells(q.scen, q.stage)}
      = {[product |-> q.copy[c.product], item |-> q.copy[c.item], scen |-> q.dst] : c \in C}
  BY <1>4 DEF Remap
<1>7. q.drawn = {[product |-> q.copy[c.product], item |-> q.copy[c.item], scen |-> q.dst] : c \in C}
  BY <1>1, <1>6 DEF Mirror
<1> QED BY <1>1, <1>5, <1>7 DEF Mirror

\* The tracked content of a scenario tells its rows and its cells.
LEMMA ContentTells ==
    ASSUME Typed, Typed', NEW s, Content(s)' = Content(s)
    PROVE  SameRows(s) /\ SameCells(s)
<1> DEFINE R  == {<<i, rows[i].kind, rows[i].val>> : i \in {j \in Live : rows[j].scen = s}}
           RR == {<<i, rows'[i].kind, rows'[i].val>> : i \in {j \in Live' : rows'[j].scen = s}}
           K  == {<<c.product, c.item>> : c \in {d \in cells : d.scen = s}}
           KK == {<<c.product, c.item>> : c \in {d \in cells' : d.scen = s}}
<1>1. R = RR /\ K = KK
  <2>1. Content(s) = [rows |-> R, cells |-> K] /\ Content(s)' = [rows |-> RR, cells |-> KK]
    BY DEF Content, CellKey
  <2> HIDE DEF R, RR, K, KK
  <2> QED BY <2>1
<1>2. ASSUME NEW i \in Live, rows[i].scen = s
      PROVE  i \in Live' /\ rows'[i].scen = s /\ rows'[i].kind = rows[i].kind
             /\ rows'[i].val = rows[i].val
  <2>1. <<i, rows[i].kind, rows[i].val>> \in RR
    BY <1>1, <1>2
  <2>2. PICK j \in Live' : rows'[j].scen = s
                           /\ <<i, rows[i].kind, rows[i].val>> = <<j, rows'[j].kind, rows'[j].val>>
    BY <2>1
  <2> QED BY <2>2
<1>3. ASSUME NEW i \in Live', rows'[i].scen = s
      PROVE  i \in Live /\ rows[i].scen = s
  <2>1. <<i, rows'[i].kind, rows'[i].val>> \in R
    BY <1>1, <1>3
  <2>2. PICK j \in Live : rows[j].scen = s
                          /\ <<i, rows'[i].kind, rows'[i].val>> = <<j, rows[j].kind, rows[j].val>>
    BY <2>1
  <2> QED BY <2>2
<1>4. cells \subseteq Cell /\ cells' \subseteq Cell
  BY DEF Typed, StoreOK
<1>5. ASSUME NEW c \in Cell, NEW d \in Cell, <<c.product, c.item>> = <<d.product, d.item>>,
             c.scen = d.scen
      PROVE  c = d
  BY <1>5 DEF Cell
<1>6. ASSUME NEW c \in cells, c.scen = s
      PROVE  c \in cells'
  <2>1. <<c.product, c.item>> \in KK
    BY <1>1, <1>6
  <2>2. PICK d \in cells' : d.scen = s /\ <<c.product, c.item>> = <<d.product, d.item>>
    BY <2>1
  <2> QED BY <1>4, <1>5, <1>6, <2>2
<1>7. ASSUME NEW c \in cells', c.scen = s
      PROVE  c \in cells
  <2>1. <<c.product, c.item>> \in K
    BY <1>1, <1>7
  <2>2. PICK d \in cells : d.scen = s /\ <<c.product, c.item>> = <<d.product, d.item>>
    BY <2>1
  <2> QED BY <1>4, <1>5, <1>7, <2>2
<1>8. SameRows(s)
  BY <1>2, <1>3 DEF SameRows
<1>9. SameCells(s)
  BY <1>6, <1>7 DEF SameCells
<1> QED BY <1>8, <1>9

\* A clone at rest, whatever others do.
LEMMA MirrorStays ==
    ASSUME Typed, Typed', Agreed, CellsAgree, CellsAgree', NothingNew,
           NEW r \in Requests, Busy(r, "clone"), req'[r] = req[r],
           Content(req[r].scen)' = Content(req[r].scen), Mirror(req[r])
    PROVE  Mirror(req[r])'
<1> DEFINE q == req[r]
           s == q.scen
<1>1. SameRows(s) /\ SameCells(s)
  <2>1. \A t : t = s => Content(t)' = Content(t)
    OBVIOUS
  <2> QED BY <2>1, ContentTells
<1>2. /\ \A i : i \in {j \in Live' : rows'[j].scen = s} <=> i \in {j \in Live : rows[j].scen = s}
      /\ \A i \in {j \in Live : rows[j].scen = s} : rows'[i].kind = rows[i].kind
                                                    /\ rows'[i].val = rows[i].val
  BY <1>1 DEF SameRows
<1>3. SourceRows(s, q.stage)' = SourceRows(s, q.stage)
  BY <1>2 DEF SourceRows
<1>4. ASSUME NEW c \in cells, c \in cells'
      PROVE  rows'[c.item].kind = rows[c.item].kind
  <2>1. c.item \in Live /\ c.item \in Live'
    BY <1>4 DEF CellsAgree
  <2>2. c.item \in 1 .. next - 1
    BY <2>1, NextIds
  <2>3. Says(c.item, rows[c.item].kind, rows[c.item].scen)
    BY <2>1 DEF Says, Stored
  <2>4. \A k, t : k = rows'[c.item].kind /\ t = rows'[c.item].scen => Says(c.item, k, t)'
    BY <2>1 DEF Says, Stored
  <2>5. Says(c.item, rows'[c.item].kind, rows'[c.item].scen)
    BY <2>2, <2>4 DEF NothingNew
  <2> QED BY <2>3, <2>5 DEF Agreed
<1>5. SourceCells(s, q.stage)' = SourceCells(s, q.stage)
  BY <1>1, <1>4 DEF SourceCells, SameCells
<1>6. \A i \in SourceRows(s, q.stage) : rows'[i].kind = rows[i].kind /\ rows'[i].val = rows[i].val
  BY <1>2 DEF SourceRows
<1> QED BY <1>3, <1>5, <1>6 DEF Mirror

\* One table, or one matrix, more.
LEMMA StagesGrow ==
    ASSUME NEW st \in 1 .. 7
    PROVE  /\ st \in 1 .. 4 => /\ TablesBefore(st + 1) = TablesBefore(st) \cup {Tables[st]}
                               /\ Tables[st] \notin TablesBefore(st)
                               /\ MatricesBefore(st) = {} /\ MatricesBefore(st + 1) = {}
           /\ st \in 5 .. 7 => /\ TablesBefore(st + 1) = TablesBefore(st)
                               /\ MatricesBefore(st + 1) = MatricesBefore(st) \cup {Matrices[st - 4]}
<1>1. CASE st \in 1 .. 4
  <2>1. /\ {m \in 1 .. 4 : m < st + 1} = {m \in 1 .. 4 : m < st} \cup {st}
        /\ {m \in 1 .. 3 : m + 4 < st} = {} /\ {m \in 1 .. 3 : m + 4 < st + 1} = {}
    BY <1>1
  <2>2. \A m, n \in 1 .. 4 : m < n => Tables[m] # Tables[n]
    BY DEF Tables
  <2>3. Tables[st] \notin TablesBefore(st)
    BY <1>1, <2>2 DEF TablesBefore
  <2> QED BY <1>1, <2>1, <2>3 DEF TablesBefore, MatricesBefore
<1>2. CASE st \in 5 .. 7
  <2>1. /\ {m \in 1 .. 4 : m < st + 1} = {m \in 1 .. 4 : m < st}
        /\ {m \in 1 .. 3 : m + 4 < st + 1} = {m \in 1 .. 3 : m + 4 < st} \cup {st - 4}
    BY <1>2
  <2> QED BY <1>2, <2>1 DEF TablesBefore, MatricesBefore
<1> QED BY <1>1, <1>2

LEMMA BeginMirrors ==
    ASSUME Typed, NEW r \in Requests, Begins(r)
    PROVE  Mirror(req[r])'
<1>1. /\ req'[r].stage = 1 /\ DOMAIN req'[r].copy = {} /\ DOMAIN req'[r].made = {}
      /\ req'[r].drawn = {}
  BY DEF Begins, BeginClone, Goes, Typed
<1>2. TablesBefore(1) = {} /\ MatricesBefore(1) = {}
  BY DEF TablesBefore, MatricesBefore
<1>3. SourceRows(req[r].scen, req[r].stage)' = {} /\ SourceCells(req[r].scen, req[r].stage)' = {}
  BY <1>1, <1>2 DEF SourceRows, SourceCells
<1> QED BY <1>1, <1>3 DEF Mirror

LEMMA CopiesMirror ==
    ASSUME Typed, NEW r \in Requests, Copies(r), Mirror(req[r])
    PROVE  Mirror(req[r])'
<1> DEFINE q == req[r]
           p == req'[r]
           S == RowsOf(q.scen, Tables[q.stage])
<1>1. PICK new : Copied(r, new, S)
  BY CopiesState
<1>2. p.scen = q.scen /\ p.dst = q.dst /\ p.stage = q.stage + 1 /\ p.drawn = q.drawn
  BY CopiesTarget
<1>3. q.stage \in 1 .. 4 /\ UNCHANGED <<rows, cells>> /\ Live' = Live
  BY DEF Copies, CopyRows, tables, Live
<1>4. /\ TablesBefore(q.stage + 1) = TablesBefore(q.stage) \cup {Tables[q.stage]}
      /\ Tables[q.stage] \notin TablesBefore(q.stage)
      /\ MatricesBefore(q.stage) = {} /\ MatricesBefore(q.stage + 1) = {}
  BY <1>3, StagesGrow
<1>5. /\ SourceRows(p.scen, p.stage) = SourceRows(q.scen, q.stage) \cup S
      /\ \A i \in S : i \notin SourceRows(q.scen, q.stage)
  BY <1>2, <1>4 DEF SourceRows, RowsOf
<1>6. SourceCells(q.scen, q.stage) = {} /\ SourceCells(p.scen, p.stage) = {}
  BY <1>2, <1>4 DEF SourceCells
<1>7. \A i \in S : i \in Live
  BY DEF RowsOf
<1>8. /\ DOMAIN q.copy = SourceRows(q.scen, q.stage)
      /\ DOMAIN q.made = {q.copy[i] : i \in DOMAIN q.copy}
      /\ \A i, j \in DOMAIN q.copy : q.copy[i] = q.copy[j] => i = j
      /\ \A i \in DOMAIN q.copy : /\ q.made[q.copy[i]].kind = rows[i].kind
                                  /\ q.made[q.copy[i]].val = rows[i].val
                                  /\ q.made[q.copy[i]].scen = q.dst
      /\ q.drawn = {}
  BY <1>6 DEF Mirror
<1>9. \A i \in DOMAIN q.copy : q.copy[i] \in 1 .. next - 1
  <2>1. CloneOK(q)
    BY CallKinds DEF Copies, Typed
  <2> QED BY <2>1 DEF CloneOK
<1>10. \A i \in S : new[i] \notin 1 .. next - 1
  <2>1. \A n \in next .. next' - 1 : n \notin 1 .. next - 1
    BY NextIds
  <2> QED BY <1>1, <2>1 DEF Copied, Numbers
<1>11. \A i \in S : CopyOf(i, r).kind = rows[i].kind /\ CopyOf(i, r).val = rows[i].val
                    /\ CopyOf(i, r).scen = q.dst
  BY <1>7, CopyTyped DEF Copies
<1> HIDE DEF q, p, S
<1>12. /\ DOMAIN p.copy = S \cup DOMAIN q.copy
       /\ \A i \in S : p.copy[i] = new[i]
       /\ \A i \in DOMAIN q.copy : p.copy[i] = q.copy[i]
  BY <1>1, <1>5, <1>8 DEF Copied, q, p
<1>13. /\ DOMAIN p.made = {new[i] : i \in S} \cup DOMAIN q.made
       /\ \A i \in S : p.made[new[i]] = CopyOf(i, r)
  BY <1>1 DEF Copied, q, p
<1>14. \A n \in DOMAIN q.made : p.made[n] = q.made[n]
  BY <1>1, <1>8, <1>9, <1>10 DEF Copied, q, p
<1>15. DOMAIN p.copy = SourceRows(p.scen, p.stage)
  BY <1>5, <1>8, <1>12
<1>16. DOMAIN p.made = {p.copy[i] : i \in DOMAIN p.copy}
  BY <1>8, <1>12, <1>13
<1>17. \A i, j \in DOMAIN p.copy : p.copy[i] = p.copy[j] => i = j
  <2>1. \A i, j \in S : new[i] = new[j] => i = j
    BY <1>1 DEF Copied, Numbers
  <2> QED BY <1>8, <1>9, <1>10, <1>12, <2>1
<1>18. \A i \in DOMAIN p.copy : /\ p.made[p.copy[i]].kind = rows[i].kind
                                /\ p.made[p.copy[i]].val = rows[i].val
                                /\ p.made[p.copy[i]].scen = p.dst
  BY <1>2, <1>8, <1>11, <1>12, <1>13, <1>14
<1>19. SourceRows(q.scen, q.stage)' = SourceRows(p.scen, p.stage)
       /\ SourceCells(q.scen, q.stage)' = SourceCells(p.scen, p.stage)
  BY <1>3 DEF SourceRows, SourceCells, q, p
<1>20. p.drawn = {}
  BY <1>2, <1>8
<1> QED BY <1>3, <1>6, <1>15, <1>16, <1>17, <1>18, <1>19, <1>20 DEF Mirror, q, p

LEMMA JoinsMirror ==
    ASSUME Typed, NEW r \in Requests, Joins(r), Mirror(req[r])
    PROVE  Mirror(req[r])'
<1> DEFINE q == req[r]
           p == req'[r]
           C == CellsOf(q.scen, Matrices[q.stage - 4])
<1>1. /\ p.scen = q.scen /\ p.dst = q.dst /\ p.stage = q.stage + 1
      /\ p.copy = q.copy /\ p.made = q.made
      /\ p.drawn = q.drawn \cup {Remap(q.copy, c, q.dst) : c \in C}
  BY JoinsState
<1>2. q.stage \in 5 .. 7 /\ UNCHANGED <<rows, cells>> /\ Live' = Live
  BY DEF Joins, CopyCells, tables, Live
<1>3. /\ TablesBefore(q.stage + 1) = TablesBefore(q.stage)
      /\ MatricesBefore(q.stage + 1) = MatricesBefore(q.stage) \cup {Matrices[q.stage - 4]}
  BY <1>2, StagesGrow
<1>4. /\ SourceRows(p.scen, p.stage) = SourceRows(q.scen, q.stage)
      /\ SourceCells(p.scen, p.stage) = SourceCells(q.scen, q.stage) \cup C
  BY <1>1, <1>3 DEF SourceRows, SourceCells, CellsOf
<1>5. SourceRows(q.scen, q.stage)' = SourceRows(p.scen, p.stage)
      /\ SourceCells(q.scen, q.stage)' = SourceCells(p.scen, p.stage)
  BY <1>2 DEF SourceRows, SourceCells
<1>6. q.drawn = {Remap(q.copy, c, q.dst) : c \in SourceCells(q.scen, q.stage)}
  BY DEF Mirror
<1> HIDE DEF C
<1>7. p.drawn = {Remap(q.copy, c, q.dst) : c \in SourceCells(p.scen, p.stage)}
  BY <1>1, <1>4, <1>6
<1>8. /\ SourceRows(q.scen, q.stage)' = SourceRows(q.scen, q.stage)
      /\ p.drawn = {Remap(p.copy, c, p.dst) : c \in SourceCells(q.scen, q.stage)'}
  BY <1>1, <1>4, <1>5, <1>7
<1>9. \A i \in DOMAIN p.copy : LET n == p.made[p.copy[i]]
                              IN n.kind = rows'[i].kind /\ n.val = rows'[i].val /\ n.scen = p.dst
  BY <1>1, <1>2 DEF Mirror
<1>10. /\ DOMAIN p.copy = SourceRows(q.scen, q.stage)'
       /\ DOMAIN p.made = {p.copy[i] : i \in DOMAIN p.copy}
       /\ \A i, j \in DOMAIN p.copy : p.copy[i] = p.copy[j] => i = j
  BY <1>1, <1>8 DEF Mirror
<1> QED BY <1>8, <1>9, <1>10 DEF Mirror

LEMMA NextMirror == MirrorInv /\ [Next]_vars => MirrorInv'
<1> SUFFICES ASSUME MirrorInv, [Next]_vars PROVE MirrorInv'
  OBVIOUS
<1> USE DEF MirrorInv, OwnInv, RootInv, CellsInv
<1>1. OwnInv'
  BY NextOwn
<1> SUFFICES ASSUME NEW r \in Requests, Busy(r, "clone")', r \in steady'
             PROVE  Mirror(req[r])'
  BY <1>1 DEF Clones
<1>2. CASE UNCHANGED vars
  <2>1. UNCHANGED <<rows, cells, req, steady>>
    BY <1>2 DEF vars, tables
  <2>2. Mirror(req[r])
    BY <2>1 DEF Clones, Busy
  <2>3. Live' = Live
    BY <2>1 DEF Live
  <2>4. /\ SourceRows(req[r].scen, req[r].stage)' = SourceRows(req[r].scen, req[r].stage)
        /\ SourceCells(req[r].scen, req[r].stage)' = SourceCells(req[r].scen, req[r].stage)
    BY <2>1, <2>3 DEF SourceRows, SourceCells
  <2> QED BY <2>1, <2>2, <2>4 DEF Mirror
<1>3. CASE Next
  <2>1. Busy(r, "clone") => r \in steady /\ Content(req[r].scen)' = Content(req[r].scen)
    BY <1>3 DEF Next, Track, Busy
  <2>2. Busy(r, "clone") => Mirror(req[r])
    BY <2>1 DEF Clones
  <2>3. ASSUME NothingNew, req'[r] = req[r]
        PROVE  Mirror(req[r])'
    <3>1. Busy(r, "clone")
      BY <2>3 DEF Busy
    <3>2. Typed' /\ CellsAgree' /\ CellsAgree
      BY <1>1 DEF CellsSound
    <3> QED BY <2>1, <2>2, <2>3, <3>1, <3>2, MirrorStays
  <2>4. CASE Seed
    BY <2>4 DEF Seed, Typed, Busy, Idle
  <2>5. CASE Aside
    <3>1. UNCHANGED req /\ NothingNew
      BY <2>5, AsideAgreed DEF Aside, Connect, ensureRecipeCompositeFK, CreateScenario,
                               DeleteScenario, Restatus
    <3> QED BY <2>3, <3>1
  <2>6. ASSUME NEW p \in Requests, Handle(p), p # r
        PROVE  Mirror(req[r])'
    BY <2>3, <2>6, OnlyOne, HandleNothingNew
  <2>7. CASE Handle(r)
    <3>1. ASSUME Ends(r) PROVE FALSE
      BY <3>1 DEF Ends, Goes, Busy, Idle, Typed
    <3>2. CASE \/ Inserts(r) \/ Saves(r) \/ Erases(r) \/ Puts(r) \/ Drops(r) \/ Commits(r)
               \/ Fail(r)
      BY <3>1, <3>2 DEF Inserts, Insert, Saves, Save, Erases, Puts, Put, Drops, Commits, Commit,
                        Fail
    <3>3. CASE Admission(r) \/ Fetches(r) \/ Looks(r)
      BY <3>3 DEF Admission, Fresh, Fetches, Fetch, Looks, Look, Goes, Busy, Typed
    <3>4. CASE Begins(r)
      BY <3>4, BeginMirrors
    <3>5. CASE Copies(r)
      BY <2>2, <3>5, CopiesMirror DEF Copies
    <3>6. CASE Joins(r)
      BY <2>2, <3>6, JoinsMirror DEF Joins
    <3> QED BY <2>7, <3>2, <3>3, <3>4, <3>5, <3>6, HandleSteps, TypedTypes
  <2> QED BY <1>3, <2>4, <2>5, <2>6, <2>7, NextParts
<1> QED BY <1>2, <1>3

\* A clone about to be committed is its source, if the source has not changed since
\* the clone began, whatever is done to other scenarios in between.
THEOREM ClonesAreCopiesHolds == Spec => []ClonesAreCopies
<1>1. Init => MirrorInv
  BY InitOwn DEF Init, MirrorInv
<1>2. MirrorInv /\ [Next]_vars => MirrorInv'
  BY NextMirror
<1>3. MirrorInv => ClonesAreCopies
  BY MirrorsAreCopies
<1> QED BY <1>1, <1>2, <1>3, PTL DEF Spec
=============================================================================
