------------------------ MODULE FilterRefresh_proofs ------------------------
(***************************************************************************)
(* What the runs of FilterRefresh check on small trees, for every tree.    *)
(*                                                                         *)
(* What each filter would put out if the whole tree were refreshed is a    *)
(* recursive function along the parents of the tree; an edit is followed   *)
(* through it by what is Kept: the filters whose ancestors, and their      *)
(* settings, are the same afterwards.                                      *)
(***************************************************************************)
EXTENDS FilterRefresh

-----------------------------------------------------------------------------
(* The inductive invariant.                                                *)

\* A range filter is above p.
UnderRange(t, p) == \E q \in DOMAIN t : t[q].kind = "range" /\ IsChild(t, q, p)

\* What the filter at p would be given if the whole tree were refreshed.
InputIn(t, p) == IF t[p].depth = 0 THEN {} ELSE Recomputed(t)[Parent(t, p)]

\* CachesRight, of any tree.
GoodCaches(t, updates) ==
    \A p \in DOMAIN t :
        t[p].ok => \/ t[p].note # "plain"
                   \/ updates /\ UnderRange(t, p)
                   \/ t[p].own = Own(t[p], InputIn(t, p))

\* The filters that the walk has still to refresh, and those it has refreshed.
Left == {todo[i] : i \in DOMAIN todo}
Refreshed == Walk(tree, starts) \ Left

\* They are refreshed in the order of the tree.
Ordered ==
    /\ \A i, j \in DOMAIN todo : i < j => todo[i] < todo[j]
    /\ Left \subseteq Walk(tree, starts)
    /\ \A p \in Refreshed, q \in Left : p < q

\* Every leaf is below a start, and a start that is not a root still has the
\* cache for which it was chosen: it takes all that its parent could give it.
StartsHold ==
    /\ \A s, r \in starts : ~IsChild(tree, s, r)
    /\ phase # "idle" => \A p \in DOMAIN tree : Leaf(tree, p) => \E s \in starts : On(p, s)
    /\ \A s \in starts \cap Left : tree[s].depth > 0 =>
          tree[s].ok /\ Emitted(tree)[Parent(tree, s)] \subseteq Block(tree[s].kind)

\* What was put out so far is what a refresh of the whole tree would put out,
\* but for the deviations, and but for the range streams below two range filters.
PutRight ==
    \A p \in Refreshed :
        \/ Noteworthy(p) \/ RegionPending(p)
        \/ /\ Ions(put[p]) = Ions(Recomputed(tree)[p])
           /\ RangeBelowRange(p) \/ put[p] = Recomputed(tree)[p]

\* As long as the file does not change during the refresh, a data source that
\* has not read its present version is still to be refreshed, and nothing below
\* it is cached.
UnreadAhead ==
    phase = "walking" /\ ~moved =>
        \A p \in DOMAIN tree : NeedsRefresh(tree[p]) =>
            p \in Left /\ \A q \in Branch(tree, p) : ~tree[q].ok

IInv ==
    /\ TypeOK
    /\ GoodCaches(tree, plotUpdates)
    /\ Ordered /\ StartsHold /\ PutRight /\ UnreadAhead

-----------------------------------------------------------------------------
(* Filters and trees of them.                                               *)

LEMMA NodeIs ==
    ASSUME NEW n \in Nodes
    PROVE  /\ n.depth \in Nat /\ n.kind \in Kinds /\ n.setting \in Settings /\ n.ok \in BOOLEAN
           /\ n.own \in SUBSET Streams /\ n.loaded \in Versions
           /\ n.note \in {"plain", "aborted", "raced", "inherited"}
BY DEF Nodes

LEMMA NodesHang == Hangs(Nodes)
<1>1. ASSUME NEW n \in Nodes, NEW k \in Nat
      PROVE  [n EXCEPT !.depth = k] \in Nodes /\ [n EXCEPT !.depth = k].depth = k
  BY DEF Nodes
<1> QED BY <1>1, NodeIs DEF Hangs

LEMMA TreeIs ==
    ASSUME NEW t \in Seq(Nodes)
    PROVE  /\ Len(t) \in Nat /\ DOMAIN t = 1..Len(t)
           /\ \A p \in DOMAIN t : t[p] \in Nodes /\ t[p].depth \in Nat
BY NodeIs, TreeNodes

-----------------------------------------------------------------------------
(* Where a refresh starts.                                                  *)

\* What getFilterRefreshStarts looks for: a leaf, or output that gets past the
\* children.
Stops(t, p) ==
    Leaf(t, p) \/ ~(Emitted(t)[p] \subseteq BlockedByAll(t, Children(t, p)))

\* The first such filters on the way from a root are the starts.
LEMMA StartsAre ==
    ASSUME NEW t \in Seq(Nodes), NEW p \in DOMAIN t
    PROVE  p \in RefreshStarts(t) <=>
              /\ Stops(t, p)
              /\ \A q \in 1..(p-1) : IsChild(t, q, p) => q \notin RefreshStarts(t)
<1> DEFINE own(k) == Stops(t, k)
           E(f, k) == /\ \A q \in 1..(k-1) : IsChild(t, q, k) => ~f[q]
                      /\ \/ Leaf(t, k)
                         \/ ~(Emitted(t)[k] \subseteq BlockedByAll(t, Children(t, k)))
           f0 == [k \in DOMAIN t |-> /\ own(k)
                                     /\ \A q \in 1..(k-1) : IsChild(t, q, k) => ~own(q)]
           start == CHOOSE f : f = [k \in DOMAIN t |-> E(f, k)]
<1>1. Len(t) \in Nat /\ DOMAIN t = 1..Len(t) BY TreeIs
<1>2. RefreshStarts(t) = {k \in DOMAIN t : start[k]} BY DEF RefreshStarts
<1>3. ASSUME NEW k \in DOMAIN t PROVE f0[k] <=> E(f0, k)
  <2>1. \A q \in 1..(k-1) : q \in DOMAIN t BY <1>1
  <2>2. ASSUME f0[k] PROVE E(f0, k)
    BY <2>1, <2>2 DEF Stops
  <2>3. ASSUME E(f0, k) PROVE f0[k]
    <3>1. own(k) BY <2>3 DEF Stops
    <3>2. ASSUME NEW q \in 1..(k-1), IsChild(t, q, k), own(q) PROVE FALSE
      <4> DEFINE A == {r \in 1..(k-1) : IsChild(t, r, k) /\ own(r)}
      <4>1. A # {} /\ A \in SUBSET Nat BY <3>2
      <4> HIDE DEF A, own
      <4>2. PICK r \in A : \A m \in A : r <= m BY <4>1, LeastNumber
      <4>3. r \in 1..(k-1) /\ IsChild(t, r, k) /\ own(r) /\ r \in DOMAIN t BY <4>2, <2>1 DEF A
      <4>4. ASSUME NEW m \in 1..(r-1), IsChild(t, m, r) PROVE ~own(m)
        <5>1. m \in 1..(k-1) /\ m < r /\ m \in DOMAIN t BY <4>3, <1>1
        <5>2. r \in Branch(t, m) /\ k \in Branch(t, r) BY <4>3, <4>4 DEF IsChild
        <5>3. k \in Branch(t, m) BY <5>1, <5>2, <4>3, NodeIs, AboveTwice
        <5>4. IsChild(t, m, k) BY <5>1, <5>3, <1>1 DEF IsChild
        <5>5. m \notin A BY <5>1, <4>2, <4>3
        <5> QED BY <5>1, <5>4, <5>5 DEF A
      <4>5. f0[r] BY <4>3, <4>4
      <4> QED BY <4>3, <4>5, <2>3
    <3> QED BY <3>1, <3>2
  <2> QED BY <2>2, <2>3
<1>4. f0 = [k \in DOMAIN t |-> E(f0, k)]
  <2> DEFINE own0(k) == own(k) /\ \A q \in 1..(k-1) : IsChild(t, q, k) => ~own(q)
  <2>1. \A k \in DOMAIN t : f0[k] <=> own0(k) OBVIOUS
  <2>2. \A k \in DOMAIN t : own0(k) = E(f0, k)
    <3> SUFFICES ASSUME NEW k \in DOMAIN t PROVE own0(k) = E(f0, k)
      OBVIOUS
    <3>1. own0(k) <=> E(f0, k) BY <1>3, <2>1
    <3>2. own0(k) \in BOOLEAN /\ E(f0, k) \in BOOLEAN OBVIOUS
    <3> HIDE DEF own0, E
    <3> QED BY <3>1, <3>2
  <2>3. f0 = [k \in DOMAIN t |-> own0(k)] OBVIOUS
  <2> HIDE DEF own0, E, f0
  <2> QED BY <2>2, <2>3
<1> HIDE DEF f0
<1>5. start = [k \in DOMAIN t |-> E(start, k)] BY <1>4
<1> HIDE DEF start
<1>6. start[p] <=> E(start, p) BY <1>5
<1>7. \A q \in 1..(p-1) : q \in DOMAIN t BY <1>1
<1> QED BY <1>2, <1>6, <1>7 DEF Stops

-----------------------------------------------------------------------------
(* Functions along the parents of a tree.                                   *)

\* A value for each filter, from that of its parent.
FromParents(t, base, step, f) ==
    \A p \in DOMAIN t :
        f[p] = IF t[p].depth = 0 THEN base[p] ELSE step[p][f[Parent(t, p)]]

LEMMA ParentRecursion ==
    ASSUME NEW t \in Seq(Nodes), IsForest(t), NEW V, NEW base \in [DOMAIN t -> V],
           NEW step \in [DOMAIN t -> [V -> V]]
    PROVE  \E f \in [DOMAIN t -> V] : FromParents(t, base, step, f)
<1> DEFINE N == Len(t)
           Up(f, n) == \A p \in 1..n :
                          f[p] = IF t[p].depth = 0 THEN base[p] ELSE step[p][f[Parent(t, p)]]
           Has(n) == \E f \in [1..n -> V] : Up(f, n)
           Bad == {n \in 0..N : ~Has(n)}
<1>1. N \in Nat /\ DOMAIN t = 1..N /\ \A p \in 1..N : t[p].depth \in Nat BY TreeIs
<1>2. \A p \in 1..N : t[p].depth # 0 => Parent(t, p) \in 1..(p-1)
  <2> SUFFICES ASSUME NEW p \in 1..N, t[p].depth # 0 PROVE Parent(t, p) \in 1..(p-1)
    OBVIOUS
  <2>1. p \in DOMAIN t /\ t[p].depth > 0 BY <1>1
  <2>2. Parent(t, p) \in DOMAIN t /\ Parent(t, p) < p BY <2>1, NodeIs, ParentIs
  <2> QED BY <2>2, <1>1
<1> HIDE DEF N
<1>3. Bad = {}
  <2> SUFFICES ASSUME Bad # {} PROVE FALSE OBVIOUS
  <2>1. Bad \in SUBSET Nat BY <1>1
  <2> HIDE DEF Bad
  <2>2. PICK n \in Bad : \A m \in Bad : n <= m BY <2>1, LeastNumber
  <2>3. n \in 0..N /\ ~Has(n) BY <2>2 DEF Bad
  <2>4. n # 0
    <3> SUFFICES ASSUME n = 0 PROVE FALSE OBVIOUS
    <3>1. [k \in 1..0 |-> 0] \in [1..0 -> V] /\ Up([k \in 1..0 |-> 0], 0) OBVIOUS
    <3> QED BY <3>1, <2>3
  <2>5. n - 1 \in 0..N /\ n - 1 \notin Bad BY <2>2, <2>3, <2>4, <1>1
  <2>6. PICK f \in [1..(n-1) -> V] : Up(f, n - 1) BY <2>5 DEF Bad
  <2> DEFINE v == IF t[n].depth = 0 THEN base[n] ELSE step[n][f[Parent(t, n)]]
             g == [k \in 1..n |-> IF k = n THEN v ELSE f[k]]
  <2>7. n \in 1..N /\ n \in DOMAIN t BY <2>3, <2>4, <1>1
  <2>8. v \in V
    <3>1. CASE t[n].depth = 0 BY <3>1, <2>7
    <3>2. CASE t[n].depth # 0
      <4>1. f[Parent(t, n)] \in V BY <3>2, <2>7, <1>2
      <4>2. step[n] \in [V -> V] BY <2>7
      <4> QED BY <3>2, <4>1, <4>2
    <3> QED BY <3>1, <3>2
  <2> HIDE DEF v
  <2>9. g \in [1..n -> V] /\ g[n] = v /\ \A k \in 1..(n-1) : g[k] = f[k]
    <3>1. \A k \in 1..n : k # n => k \in 1..(n-1) BY <2>7, <1>1
    <3> QED BY <3>1, <2>7, <2>8, <1>1
  <2> HIDE DEF g
  <2>10. Up(g, n)
    <3> SUFFICES ASSUME NEW p \in 1..n
                 PROVE  g[p] = IF t[p].depth = 0 THEN base[p] ELSE step[p][g[Parent(t, p)]]
      OBVIOUS
    <3>1. p \in 1..N BY <2>7, <1>1
    <3>2. t[p].depth # 0 => g[Parent(t, p)] = f[Parent(t, p)]
      <4>1. t[p].depth # 0 => Parent(t, p) \in 1..(n-1) BY <3>1, <2>7, <1>1, <1>2
      <4> QED BY <4>1, <2>9
    <3>3. CASE p = n BY <3>2, <3>3, <2>9 DEF v
    <3>4. CASE p # n
      <4>1. p \in 1..(n-1) BY <3>4, <2>7, <1>1
      <4> QED BY <4>1, <3>2, <2>6, <2>9
    <3> QED BY <3>3, <3>4
  <2> QED BY <2>3, <2>9, <2>10
<1>4. Has(N)
  <2> HIDE DEF Has
  <2>1. N \in 0..N /\ N \notin Bad BY <1>1, <1>3
  <2> QED BY <2>1
<1> QED BY <1>1, <1>4 DEF N, FromParents

\* What can come out of a filter, from what can come out of its parent.
LEMMA EmittedIs ==
    ASSUME NEW t \in Seq(Nodes), IsForest(t), NEW p \in DOMAIN t
    PROVE  Emitted(t)[p] = (IF t[p].depth = 0 THEN {}
                            ELSE Emitted(t)[Parent(t, p)] \ Block(t[p].kind))
                           \cup Emit(t[p].kind)
<1> DEFINE V == SUBSET AllTypes
           E(f, k) == (IF t[k].depth = 0 THEN {} ELSE f[Parent(t, k)] \ Block(t[k].kind))
                      \cup Emit(t[k].kind)
           base == [k \in DOMAIN t |-> Emit(t[k].kind)]
           step == [k \in DOMAIN t |-> [x \in V |-> (x \ Block(t[k].kind)) \cup Emit(t[k].kind)]]
           e == CHOOSE f : f = [k \in DOMAIN t |-> E(f, k)]
<1>1. DOMAIN t = 1..Len(t) /\ \A k \in DOMAIN t : t[k].depth \in Nat /\ t[k] \in Nodes
  BY TreeIs
<1>2. \A k \in DOMAIN t : Emit(t[k].kind) \in V
  <2> SUFFICES ASSUME NEW k \in DOMAIN t PROVE Emit(t[k].kind) \in V
    OBVIOUS
  <2>1. t[k].kind \in Kinds BY <1>1, NodeIs
  <2> QED BY <2>1 DEF Emit, Kinds, AllTypes
<1>3. base \in [DOMAIN t -> V] BY <1>2
<1>4. step \in [DOMAIN t -> [V -> V]]
  <2>1. \A k \in DOMAIN t : \A x \in V : (x \ Block(t[k].kind)) \cup Emit(t[k].kind) \in V
    BY <1>2
  <2> HIDE DEF V
  <2> QED BY <2>1
<1> HIDE DEF V
<1>5. PICK f \in [DOMAIN t -> V] : FromParents(t, base, step, f)
  <2> HIDE DEF base, step
  <2> QED BY <1>3, <1>4, ParentRecursion
<1>6. \A k \in DOMAIN t : f[k] = E(f, k)
  <2> SUFFICES ASSUME NEW k \in DOMAIN t PROVE f[k] = E(f, k)
    OBVIOUS
  <2>1. CASE t[k].depth = 0
    <3>1. f[k] = base[k] BY <2>1, <1>5 DEF FromParents
    <3> QED BY <2>1, <3>1
  <2>2. CASE t[k].depth # 0
    <3>1. t[k].depth > 0 BY <2>2, <1>1
    <3>2. Parent(t, k) \in DOMAIN t BY <3>1, NodeIs, ParentIs
    <3>3. f[Parent(t, k)] \in V BY <3>2
    <3>4. f[k] = step[k][f[Parent(t, k)]] BY <2>2, <1>5 DEF FromParents
    <3>5. step[k][f[Parent(t, k)]] = (f[Parent(t, k)] \ Block(t[k].kind)) \cup Emit(t[k].kind)
      BY <3>3
    <3> QED BY <2>2, <3>4, <3>5
  <2> QED BY <2>1, <2>2
<1> HIDE DEF base, step
<1>7. f = [k \in DOMAIN t |-> E(f, k)]
  <2> HIDE DEF E
  <2>1. f = [k \in DOMAIN t |-> f[k]] OBVIOUS
  <2> QED BY <1>6, <2>1
<1>8. e = [k \in DOMAIN t |-> E(e, k)] BY <1>7
<1>9. Emitted(t) = e BY DEF Emitted
<1> HIDE DEF e
<1>10. e[p] = E(e, p) BY <1>8
<1> QED BY <1>9, <1>10

-----------------------------------------------------------------------------
(* What filters put out.                                                    *)

LEMMA StreamIs ==
    ASSUME NEW type \in AllTypes, NEW setting \in Settings, NEW part \in {1, 2},
           NEW ions \in SUBSET Streams
    PROVE  Stream(type, setting, part, ions) \in Streams
           /\ Stream(type, setting, part, ions).type = type
<1> DEFINE trails == {Append(t, <<setting, part>>) : t \in UNION {i.trails : i \in ions}}
<1>1. <<setting, part>> \in Marks BY DEF Marks
<1>2. \A i \in ions : i.trails \in SUBSET Trails BY DEF Streams
<1>3. \A t \in UNION {i.trails : i \in ions} : t \in Trails BY <1>2
<1>4. \A t \in Trails : Append(t, <<setting, part>>) \in Trails
  <2> DEFINE m == <<setting, part>>
  <2> HIDE DEF m
  <2>1. \A t \in Seq(Marks) : m \in Marks => Append(t, m) \in Seq(Marks) OBVIOUS
  <2> QED BY <2>1, <1>1 DEF m, Trails
<1>5. trails \in SUBSET Trails BY <1>3, <1>4
<1>6. Stream(type, setting, part, ions) = [type |-> type, trails |-> trails] BY DEF Stream
<1> HIDE DEF trails
<1> QED BY <1>5, <1>6 DEF Streams

LEMMA OwnIs ==
    ASSUME NEW n \in Nodes, NEW input \in SUBSET Streams
    PROVE  /\ Own(n, input) \in SUBSET Streams
           /\ \A s \in Own(n, input) : s.type \in Emit(n.kind)
<1>1. /\ n.kind \in Kinds /\ n.setting \in Settings /\ n.loaded \in Versions BY NodeIs
<1>2. Ions(input) \in SUBSET Streams BY DEF Ions
<1>3. CASE n.kind = "data"
  <2> DEFINE s == [type |-> "ion", trails |-> {<<<<n.loaded.time, n.setting>>>>}]
  <2>1. <<n.loaded.time, n.setting>> \in Marks BY <1>1 DEF Marks
  <2>2. <<<<n.loaded.time, n.setting>>>> \in Trails BY <2>1 DEF Trails
  <2>3. s \in Streams /\ s.type = "ion" BY <2>2 DEF Streams, AllTypes
  <2>4. Own(n, input) = {s} BY <1>3 DEF Own
  <2> HIDE DEF s
  <2> QED BY <2>3, <2>4, <1>3 DEF Emit
<1>4. CASE n.kind = "clip"
  <2>1. Own(n, input) = {Stream("ion", n.setting, 1, {i}) : i \in Ions(input)} BY <1>4 DEF Own
  <2>2. \A i \in Ions(input) : /\ Stream("ion", n.setting, 1, {i}) \in Streams
                               /\ Stream("ion", n.setting, 1, {i}).type = "ion"
    <3> SUFFICES ASSUME NEW i \in Ions(input)
                 PROVE  /\ Stream("ion", n.setting, 1, {i}) \in Streams
                        /\ Stream("ion", n.setting, 1, {i}).type = "ion"
      OBVIOUS
    <3>1. {i} \in SUBSET Streams BY <1>2
    <3> QED BY <3>1, <1>1, StreamIs DEF AllTypes
  <2> QED BY <2>1, <2>2, <1>4 DEF Emit
<1>5. CASE n.kind = "range"
  <2> DEFINE s == [type |-> "range", trails |-> {<<<<n.setting, 1>>>>}]
             r(k) == Stream("ion", n.setting, k, Ions(input))
  <2>1. <<n.setting, 1>> \in Marks BY <1>1 DEF Marks
  <2>2. <<<<n.setting, 1>>>> \in Trails BY <2>1 DEF Trails
  <2>3. s \in Streams /\ s.type = "range" BY <2>2 DEF Streams, AllTypes
  <2>4. \A k \in {1, 2} : r(k) \in Streams /\ r(k).type = "ion"
    BY <1>1, <1>2, StreamIs DEF AllTypes
  <2>5. Own(n, input) = {s} \cup (IF Ions(input) = {} THEN {} ELSE {r(k) : k \in {1, 2}})
    BY <1>5 DEF Own
  <2> HIDE DEF s, r
  <2> QED BY <2>3, <2>4, <2>5, <1>5 DEF Emit
<1>6. CASE n.kind = "plot"
  <2> DEFINE s == Stream("plot", n.setting, 1, Ions(input))
  <2>1. s \in Streams /\ s.type = "plot" BY <1>1, <1>2, StreamIs DEF AllTypes
  <2>2. Own(n, input) = {s} BY <1>6 DEF Own
  <2> HIDE DEF s
  <2> QED BY <2>1, <2>2, <1>6 DEF Emit
<1>7. CASE n.kind = "box"
  <2> DEFINE s == Stream("draw", n.setting, 1, Ions(input))
  <2>1. s \in Streams /\ s.type = "draw" BY <1>1, <1>2, StreamIs DEF AllTypes
  <2>2. Own(n, input) = {s} BY <1>7 DEF Own
  <2> HIDE DEF s
  <2> QED BY <2>1, <2>2, <1>7 DEF Emit
<1> QED BY <1>1, <1>3, <1>4, <1>5, <1>6, <1>7 DEF Kinds

\* A filter makes of what it is given what it makes of the ions in it, and of a
\* data source nothing that is read of its tree but file and setting.
LEMMA OwnOfIons ==
    ASSUME NEW n, NEW m, NEW x, NEW y, Ions(x) = Ions(y), n.kind \in Kinds,
           n.kind = m.kind, n.setting = m.setting, n.loaded = m.loaded
    PROVE  Own(n, x) = Own(m, y)
<1>1. CASE n.kind = "data" BY <1>1 DEF Own
<1>2. CASE n.kind = "clip" BY <1>2 DEF Own
<1>3. CASE n.kind = "range" BY <1>3 DEF Own
<1>4. CASE n.kind = "plot" BY <1>4 DEF Own
<1>5. CASE n.kind = "box" BY <1>5 DEF Own
<1> QED BY <1>1, <1>2, <1>3, <1>4, <1>5 DEF Kinds

\* What is passed on is of types that are not blocked, and of the ions the same
\* with a cache as without.
LEMMA PassedIs ==
    ASSUME NEW kind, NEW x \in SUBSET Streams
    PROVE  /\ Passed(kind, x) \in SUBSET Streams /\ PassedFromCache(kind, x) \in SUBSET Streams
           /\ \A s \in Passed(kind, x) : s \in x /\ s.type \notin Block(kind)
           /\ \A s \in PassedFromCache(kind, x) : s \in x /\ s.type \notin Block(kind)
           /\ (\A s \in x : s.type \in Block(kind)) =>
                 Passed(kind, x) = {} /\ PassedFromCache(kind, x) = {}
           /\ kind # "range" \/ (\A s \in x : s.type # "range") =>
                 Passed(kind, x) = PassedFromCache(kind, x)
BY DEF Passed, PassedFromCache

IonsOut(own, kind, x) == Ions(own \cup Passed(kind, x))
IonsFromCache(own, kind, x) == Ions(own \cup PassedFromCache(kind, x))

LEMMA SameIons ==
    ASSUME NEW kind, NEW own, NEW x, NEW y, Ions(x) = Ions(y)
    PROVE  /\ IonsOut(own, kind, x) = IonsOut(own, kind, y)
           /\ IonsFromCache(own, kind, x) = IonsOut(own, kind, y)
<1>1. \A s : s \in x /\ s.type = "ion" <=> s \in y /\ s.type = "ion"
  BY DEF Ions
<1>2. \A s : s \in Ions(own \cup Passed(kind, x)) <=>
                s.type = "ion" /\ (s \in own \/ (s \in x /\ s.type \notin Block(kind)))
  BY DEF Ions, Passed
<1>3. \A s : s \in Ions(own \cup Passed(kind, y)) <=>
                s.type = "ion" /\ (s \in own \/ (s \in y /\ s.type \notin Block(kind)))
  BY DEF Ions, Passed
<1>4. \A s : s \in Ions(own \cup PassedFromCache(kind, x)) <=>
                s.type = "ion" /\ (s \in own \/ (s \in x /\ s.type \notin Block(kind)))
  BY DEF Ions, PassedFromCache
<1>5. \A s : s \in Ions(own \cup Passed(kind, x)) <=> s \in Ions(own \cup Passed(kind, y))
  BY <1>1, <1>2, <1>3
<1>6. \A s : s \in Ions(own \cup PassedFromCache(kind, x)) <=> s \in Ions(own \cup Passed(kind, y))
  BY <1>1, <1>3, <1>4
<1> QED BY <1>5, <1>6 DEF IonsOut, IonsFromCache

-----------------------------------------------------------------------------
(* What a refresh of the whole tree puts out.                               *)

\* What a filter puts out, of what it is given.
Out(n, input) == Own(n, input) \cup Passed(n.kind, input)

LEMMA RecomputedIs ==
    ASSUME NEW t \in Seq(Nodes), IsForest(t)
    PROVE  \A p \in DOMAIN t :
              /\ InputIn(t, p) \in SUBSET Streams
              /\ Recomputed(t)[p] = Out(t[p], InputIn(t, p))
              /\ Recomputed(t)[p] \in SUBSET Streams
<1> DEFINE V == SUBSET Streams
           E(f, k) == LET input == IF t[k].depth = 0 THEN {} ELSE f[Parent(t, k)]
                      IN  Own(t[k], input) \cup Passed(t[k].kind, input)
           base == [k \in DOMAIN t |-> Out(t[k], {})]
           step == [k \in DOMAIN t |-> [x \in V |-> Out(t[k], x)]]
           out == CHOOSE f : f = [k \in DOMAIN t |-> E(f, k)]
<1>1. DOMAIN t = 1..Len(t) /\ \A k \in DOMAIN t : t[k].depth \in Nat /\ t[k] \in Nodes
  BY TreeIs
<1>2. \A k \in DOMAIN t, x \in V : Out(t[k], x) \in V
  BY <1>1, OwnIs, PassedIs DEF Out
<1>3. {} \in V /\ base \in [DOMAIN t -> V] /\ step \in [DOMAIN t -> [V -> V]]
  <2>1. {} \in V OBVIOUS
  <2> HIDE DEF V
  <2> QED BY <2>1, <1>2
<1> HIDE DEF V
<1>4. PICK f \in [DOMAIN t -> V] : FromParents(t, base, step, f)
  <2> HIDE DEF base, step
  <2> QED BY <1>3, ParentRecursion
<1>5. \A k \in DOMAIN t : t[k].depth # 0 => Parent(t, k) \in DOMAIN t /\ Parent(t, k) < k
  <2> SUFFICES ASSUME NEW k \in DOMAIN t, t[k].depth # 0
               PROVE  Parent(t, k) \in DOMAIN t /\ Parent(t, k) < k
    OBVIOUS
  <2>1. t[k].depth > 0 BY <1>1
  <2> QED BY <2>1, NodeIs, ParentIs
<1>6. \A k \in DOMAIN t : f[k] = E(f, k)
  <2> SUFFICES ASSUME NEW k \in DOMAIN t PROVE f[k] = E(f, k)
    OBVIOUS
  <2>1. CASE t[k].depth = 0
    <3>1. f[k] = base[k] BY <2>1, <1>4 DEF FromParents
    <3> QED BY <2>1, <3>1 DEF Out
  <2>2. CASE t[k].depth # 0
    <3>1. f[Parent(t, k)] \in V BY <2>2, <1>5
    <3>2. f[k] = step[k][f[Parent(t, k)]] BY <2>2, <1>4 DEF FromParents
    <3>3. step[k][f[Parent(t, k)]] = Out(t[k], f[Parent(t, k)]) BY <3>1
    <3> QED BY <2>2, <3>2, <3>3 DEF Out
  <2> QED BY <2>1, <2>2
<1> HIDE DEF base, step
<1>7. f = [k \in DOMAIN t |-> E(f, k)]
  <2> HIDE DEF E
  <2>1. f = [k \in DOMAIN t |-> f[k]] OBVIOUS
  <2> QED BY <1>6, <2>1
<1>8. out = [k \in DOMAIN t |-> E(out, k)] BY <1>7
<1>9. Recomputed(t) = out BY DEF Recomputed
<1> HIDE DEF out
<1>10. \A k \in DOMAIN t : out[k] = E(out, k) BY <1>8
<1>11. \A k \in DOMAIN t : out[k] = Out(t[k], InputIn(t, k))
  BY <1>9, <1>10 DEF Out, InputIn
<1> HIDE DEF E
\* By the first filter that is not given, or does not put out, streams.
<1>12. \A k \in DOMAIN t : out[k] \in V
  <2> DEFINE Bad == {k \in DOMAIN t : out[k] \notin V}
  <2> SUFFICES ASSUME Bad # {} PROVE FALSE OBVIOUS
  <2>1. Bad \in SUBSET Nat BY <1>1
  <2> HIDE DEF Bad
  <2>2. PICK k \in Bad : \A m \in Bad : k <= m BY <2>1, LeastNumber
  <2>3. k \in DOMAIN t /\ out[k] \notin V /\ \A m \in DOMAIN t : m < k => out[m] \in V
    BY <2>2, <1>1 DEF Bad
  <2>4. InputIn(t, k) \in V BY <2>3, <1>3, <1>5, <1>9 DEF InputIn
  <2> QED BY <2>3, <2>4, <1>2, <1>11
<1>13. \A k \in DOMAIN t : InputIn(t, k) \in V
  BY <1>3, <1>5, <1>9, <1>12 DEF InputIn
<1> QED BY <1>9, <1>11, <1>12, <1>13 DEF V

\* It is of the types that are expected of a filter, and range streams only come
\* from range filters.
LEMMA RecomputedTypes ==
    ASSUME NEW t \in Seq(Nodes), IsForest(t), NEW p \in DOMAIN t, NEW s \in Recomputed(t)[p]
    PROVE  /\ s.type \in Emitted(t)[p]
           /\ s.type = "range" => \E q \in DOMAIN t : t[q].kind = "range" /\ p \in Branch(t, q)
<1> DEFINE Good(k) == \A x \in Recomputed(t)[k] :
                /\ x.type \in Emitted(t)[k]
                /\ x.type = "range" => \E q \in DOMAIN t : t[q].kind = "range" /\ k \in Branch(t, q)
           Bad == {k \in DOMAIN t : ~Good(k)}
<1>1. DOMAIN t = 1..Len(t) /\ \A k \in DOMAIN t : t[k].depth \in Nat /\ t[k] \in Nodes
  BY TreeIs
<1> SUFFICES ASSUME Bad # {} PROVE FALSE OBVIOUS
<1>2. Bad \in SUBSET Nat BY <1>1
<1> HIDE DEF Bad
<1>3. PICK k \in Bad : \A m \in Bad : k <= m BY <1>2, LeastNumber
<1>4. k \in DOMAIN t /\ ~Good(k) /\ \A m \in DOMAIN t : m < k => Good(m)
  BY <1>3, <1>1 DEF Bad
<1>5. PICK x \in Recomputed(t)[k] :
         ~(/\ x.type \in Emitted(t)[k]
           /\ x.type = "range" => \E q \in DOMAIN t : t[q].kind = "range" /\ k \in Branch(t, q))
  BY <1>4
<1>6. /\ InputIn(t, k) \in SUBSET Streams
      /\ x \in Own(t[k], InputIn(t, k)) \/ x \in Passed(t[k].kind, InputIn(t, k))
  BY <1>4, RecomputedIs DEF Out
<1>7. Emit(t[k].kind) \subseteq Emitted(t)[k] BY <1>4, EmittedIs
<1>8. CASE x \in Own(t[k], InputIn(t, k))
  <2>1. x.type \in Emit(t[k].kind) BY <1>1, <1>4, <1>6, <1>8, OwnIs
  <2>2. x.type = "range" => t[k].kind = "range"
    <3>1. t[k].kind \in Kinds BY <1>1, <1>4, NodeIs
    <3> QED BY <2>1, <3>1 DEF Emit, Kinds
  <2>3. k \in Branch(t, k) BY <1>4, NodeIs, AboveTwice
  <2> QED BY <2>1, <2>2, <2>3, <1>4, <1>5, <1>7
<1>9. CASE x \in Passed(t[k].kind, InputIn(t, k))
  <2> DEFINE r == Parent(t, k)
  <2>1. x \in InputIn(t, k) /\ x.type \notin Block(t[k].kind) BY <1>6, <1>9, PassedIs
  <2>2. t[k].depth > 0 /\ x \in Recomputed(t)[r] BY <2>1, <1>1, <1>4 DEF InputIn
  <2>3. r \in DOMAIN t /\ r < k /\ IsChild(t, r, k) BY <2>2, <1>4, NodeIs, ParentIs
  <2> HIDE DEF r
  <2>4. Good(r) BY <2>3, <1>4
  <2>5. Emitted(t)[k] = (Emitted(t)[r] \ Block(t[k].kind)) \cup Emit(t[k].kind)
    BY <2>2, <1>4, EmittedIs DEF r
  <2>6. x.type \in Emitted(t)[k] BY <2>1, <2>2, <2>4, <2>5
  <2>7. ASSUME NEW q \in DOMAIN t, r \in Branch(t, q) PROVE k \in Branch(t, q)
    <3>1. k \in Branch(t, r) BY <2>3 DEF IsChild
    <3> QED BY <2>3, <2>7, <3>1, <1>4, NodeIs, AboveTwice
  <2> QED BY <2>2, <2>4, <2>6, <2>7, <1>5
<1> QED BY <1>6, <1>8, <1>9

-----------------------------------------------------------------------------
(* The starts, on any tree.                                                 *)

\* The starts are not above one another, and above each leaf there is one.
LEMMA StartsCover ==
    ASSUME NEW t \in Seq(Nodes)
    PROVE  /\ RefreshStarts(t) \subseteq DOMAIN t
           /\ \A s, r \in RefreshStarts(t) : ~IsChild(t, s, r)
           /\ \A p \in DOMAIN t : Leaf(t, p) =>
                 \E s \in RefreshStarts(t) : p \in Branch(t, s)
<1>1. DOMAIN t = 1..Len(t) /\ Len(t) \in Nat BY TreeIs
<1>2. RefreshStarts(t) \subseteq DOMAIN t BY DEF RefreshStarts
<1>3. ASSUME NEW s \in RefreshStarts(t), NEW r \in RefreshStarts(t), IsChild(t, s, r)
      PROVE  FALSE
  <2>1. s \in DOMAIN t /\ r \in DOMAIN t BY <1>2
  <2>2. s < r BY <1>3, <2>1, NodeIs, NoneAboveBase
  <2>3. s \in 1..(r-1) BY <2>1, <2>2, <1>1
  <2> QED BY <2>1, <2>3, <1>3, StartsAre
<1>4. ASSUME NEW p \in DOMAIN t, Leaf(t, p)
      PROVE  \E s \in RefreshStarts(t) : p \in Branch(t, s)
  <2>1. CASE p \in RefreshStarts(t)
    <3>1. p \in Branch(t, p) BY NodeIs, AboveTwice
    <3> QED BY <2>1, <3>1
  <2>2. CASE p \notin RefreshStarts(t)
    <3>1. Stops(t, p) BY <1>4 DEF Stops
    <3>2. PICK q \in 1..(p-1) : IsChild(t, q, p) /\ q \in RefreshStarts(t)
      BY <2>2, <3>1, StartsAre
    <3> QED BY <3>2 DEF IsChild
  <2> QED BY <2>1, <2>2
<1> QED BY <1>2, <1>3, <1>4

\* A start that is not a root has a cache, and takes all types that can come out
\* of its parent: else its parent would not have been passed over.
LEMMA StartBelow ==
    ASSUME NEW t \in Seq(Nodes), IsForest(t), NEW s \in RefreshStarts(t), t[s].depth > 0
    PROVE  t[s].ok /\ Emitted(t)[Parent(t, s)] \subseteq Block(t[s].kind)
<1> DEFINE q == Parent(t, s)
<1>1. DOMAIN t = 1..Len(t) /\ Len(t) \in Nat /\ s \in DOMAIN t BY TreeIs, StartsCover
<1>2. /\ q \in DOMAIN t /\ q < s /\ IsChild(t, q, s) /\ t[q].depth + 1 = t[s].depth
  BY <1>1, NodeIs, ParentIs
<1>3. \A k \in 1..(s-1) : IsChild(t, k, s) => k \notin RefreshStarts(t) BY <1>1, StartsAre
<1>4. q \in 1..(s-1) BY <1>1, <1>2
<1>5. q \notin RefreshStarts(t) BY <1>2, <1>3, <1>4
<1>6. ASSUME NEW k \in 1..(q-1), IsChild(t, k, q) PROVE k \notin RefreshStarts(t)
  <2>1. k \in 1..(s-1) /\ k \in DOMAIN t /\ k # s BY <1>1, <1>2
  <2>2. q \in Branch(t, k) /\ s \in Branch(t, q) BY <1>2, <1>6 DEF IsChild
  <2>3. s \in Branch(t, k) BY <2>1, <2>2, <1>1, <1>2, NodeIs, AboveTwice
  <2>4. IsChild(t, k, s) BY <2>1, <2>3 DEF IsChild
  <2> QED BY <2>1, <2>4, <1>3
<1> HIDE DEF q
<1>7. ~Stops(t, q) BY <1>2, <1>5, <1>6, StartsAre
<1>8. Emitted(t)[q] \subseteq BlockedByAll(t, Children(t, q)) BY <1>7 DEF Stops
<1>9. s \in Children(t, q) BY <1>2 DEF Children, IsChild
<1>10. \A type \in Emitted(t)[q] : type \in Blocked(t, s)
  BY <1>8, <1>9 DEF BlockedByAll
<1>11. Emit(t[q].kind) \subseteq Emitted(t)[q] BY <1>2, EmittedIs
<1>12. Emit(t[q].kind) # {}
  <2>1. t[q].kind \in Kinds BY <1>2, TreeIs, NodeIs
  <2> QED BY <2>1 DEF Emit, Kinds
<1>13. Blocked(t, s) # {} BY <1>10, <1>11, <1>12
<1>14. t[s].ok BY <1>13 DEF Blocked
<1> QED BY <1>10, <1>14 DEF Blocked, q

-----------------------------------------------------------------------------
(* What an edit keeps.                                                      *)

SameFilter(n, m) ==
    n.kind = m.kind /\ n.setting = m.setting /\ n.loaded = m.loaded /\ n.depth = m.depth

\* The filters of u at the positions x in the domain of g were in t at g[x], with
\* the same filters above them.
Kept(t, u, g) ==
    /\ DOMAIN g \subseteq DOMAIN u
    /\ \A x \in DOMAIN g :
          /\ g[x] \in DOMAIN t /\ SameFilter(u[x], t[g[x]])
          /\ \A a \in DOMAIN u : IsChild(u, a, x) =>
                a \in DOMAIN g /\ IsChild(t, g[a], g[x])
          /\ \A b \in DOMAIN t : IsChild(t, b, g[x]) =>
                \E a \in DOMAIN g : g[a] = b /\ IsChild(u, a, x)

\* They would put out the same.
LEMMA KeptRecomputed ==
    ASSUME NEW t \in Seq(Nodes), IsForest(t), NEW u \in Seq(Nodes), IsForest(u),
           NEW g, Kept(t, u, g), NEW x \in DOMAIN g
    PROVE  /\ InputIn(u, x) = InputIn(t, g[x])
           /\ Recomputed(u)[x] = Recomputed(t)[g[x]]
<1> DEFINE Good(k) == /\ InputIn(u, k) = InputIn(t, g[k])
                      /\ Recomputed(u)[k] = Recomputed(t)[g[k]]
           Bad == {k \in DOMAIN g : ~Good(k)}
<1>1. /\ DOMAIN t = 1..Len(t) /\ \A k \in DOMAIN t : t[k].depth \in Nat /\ t[k] \in Nodes
      /\ DOMAIN u = 1..Len(u) /\ \A k \in DOMAIN u : u[k].depth \in Nat /\ u[k] \in Nodes
      /\ Len(u) \in Nat
  BY TreeIs
<1> SUFFICES ASSUME Bad # {} PROVE FALSE OBVIOUS
<1>2. Bad \in SUBSET Nat BY <1>1 DEF Kept
<1> HIDE DEF Bad
<1>3. PICK k \in Bad : \A m \in Bad : k <= m BY <1>2, LeastNumber
<1>4. k \in DOMAIN g /\ ~Good(k) BY <1>3 DEF Bad
<1>5. /\ k \in DOMAIN u /\ g[k] \in DOMAIN t /\ SameFilter(u[k], t[g[k]])
      /\ \A a \in DOMAIN u : IsChild(u, a, k) => a \in DOMAIN g /\ IsChild(t, g[a], g[k])
  BY <1>4 DEF Kept
<1>6. ASSUME NEW m \in DOMAIN g, m < k PROVE Good(m)
  <2>1. m \in DOMAIN u BY DEF Kept
  <2>2. m \notin Bad BY <2>1, <1>1, <1>3, <1>5, <1>6
  <2> QED BY <2>2 DEF Bad
<1>7. InputIn(u, k) = InputIn(t, g[k])
  <2>1. CASE u[k].depth = 0 BY <2>1, <1>5 DEF SameFilter, InputIn
  <2>2. CASE u[k].depth # 0
    <3> DEFINE a == Parent(u, k)
    <3>1. u[k].depth > 0 /\ t[g[k]].depth > 0 BY <2>2, <1>1, <1>5 DEF SameFilter
    <3>2. a \in DOMAIN u /\ a < k /\ IsChild(u, a, k) /\ u[a].depth + 1 = u[k].depth
      BY <3>1, <1>5, NodeIs, ParentIs
    <3>3. InputIn(u, k) = Recomputed(u)[a] BY <3>1 DEF InputIn
    <3> HIDE DEF a
    <3>4. a \in DOMAIN g /\ IsChild(t, g[a], g[k]) BY <3>2, <1>5
    <3>5. g[a] \in DOMAIN t /\ t[g[a]].depth = u[a].depth BY <3>4 DEF Kept, SameFilter
    <3>6. t[g[a]].depth + 1 = t[g[k]].depth BY <3>2, <3>5, <1>5 DEF SameFilter
    <3>7. g[a] = Parent(t, g[k]) BY <3>1, <3>4, <3>5, <3>6, <1>5, NodeIs, ParentIs
    <3>8. Recomputed(u)[a] = Recomputed(t)[g[a]] BY <3>2, <3>4, <1>6
    <3>9. t[g[k]].depth # 0 BY <3>1
    <3> QED BY <3>3, <3>7, <3>8, <3>9 DEF InputIn
  <2> QED BY <2>1, <2>2
<1>8. Recomputed(u)[k] = Recomputed(t)[g[k]]
  <2> DEFINE n == u[k]
             m == t[g[k]]
             x0 == InputIn(u, k)
  <2>1. n \in Nodes /\ m \in Nodes BY <1>1, <1>5
  <2>2. n.kind = m.kind /\ n.setting = m.setting /\ n.loaded = m.loaded BY <1>5 DEF SameFilter
  <2>3. Recomputed(u)[k] = Out(n, x0) /\ Recomputed(t)[g[k]] = Out(m, x0)
    BY <1>5, <1>7, RecomputedIs
  <2> HIDE DEF n, m, x0
  <2>4. Own(n, x0) = Own(m, x0) BY <2>1, <2>2, NodeIs, OwnOfIons
  <2> QED BY <2>2, <2>3, <2>4 DEF Out
<1> QED BY <1>4, <1>7, <1>8

LEMMA KeptUnder ==
    ASSUME NEW t, NEW u, NEW g, Kept(t, u, g), NEW x \in DOMAIN g
    PROVE  UnderRange(u, x) <=> UnderRange(t, g[x])
<1>1. ASSUME UnderRange(u, x) PROVE UnderRange(t, g[x])
  <2>1. PICK a \in DOMAIN u : u[a].kind = "range" /\ IsChild(u, a, x) BY <1>1 DEF UnderRange
  <2>2. a \in DOMAIN g /\ IsChild(t, g[a], g[x]) BY <2>1 DEF Kept
  <2>3. g[a] \in DOMAIN t /\ t[g[a]].kind = "range" BY <2>1, <2>2 DEF Kept, SameFilter
  <2> QED BY <2>2, <2>3 DEF UnderRange
<1>2. ASSUME UnderRange(t, g[x]) PROVE UnderRange(u, x)
  <2>1. PICK b \in DOMAIN t : t[b].kind = "range" /\ IsChild(t, b, g[x]) BY <1>2 DEF UnderRange
  <2>2. PICK a \in DOMAIN g : g[a] = b /\ IsChild(u, a, x) BY <2>1 DEF Kept
  <2>3. a \in DOMAIN u /\ u[a].kind = "range" BY <2>1, <2>2 DEF Kept, SameFilter
  <2> QED BY <2>2, <2>3 DEF UnderRange
<1> QED BY <1>1, <1>2

\* Caches that are right stay right where they are kept.
LEMMA KeptCaches ==
    ASSUME NEW t \in Seq(Nodes), IsForest(t), NEW u \in Seq(Nodes), IsForest(u),
           NEW g, Kept(t, u, g), NEW updates \in BOOLEAN, NEW after \in BOOLEAN, GoodCaches(t, updates),
           \A x \in DOMAIN u : u[x].ok =>
              \/ u[x].note # "plain"
              \/ after /\ UnderRange(u, x)
              \/ /\ x \in DOMAIN g /\ t[g[x]].ok /\ t[g[x]].note = "plain"
                 /\ u[x].own = t[g[x]].own
                 /\ updates /\ UnderRange(t, g[x]) => after
              \/ u[x].own = Own(u[x], InputIn(u, x))
    PROVE  GoodCaches(u, after)
<1> SUFFICES ASSUME NEW x \in DOMAIN u, u[x].ok, u[x].note = "plain",
                    ~(after /\ UnderRange(u, x)), u[x].own # Own(u[x], InputIn(u, x))
             PROVE  u[x].own = Own(u[x], InputIn(u, x))
  BY DEF GoodCaches
<1>1. /\ x \in DOMAIN g /\ t[g[x]].ok /\ t[g[x]].note = "plain" /\ u[x].own = t[g[x]].own
      /\ updates /\ UnderRange(t, g[x]) => after
  OBVIOUS
<1>2. g[x] \in DOMAIN t /\ SameFilter(u[x], t[g[x]]) BY <1>1 DEF Kept
<1>3. ~(updates /\ UnderRange(t, g[x])) BY <1>1, KeptUnder
<1>4. t[g[x]].own = Own(t[g[x]], InputIn(t, g[x])) BY <1>1, <1>2, <1>3 DEF GoodCaches
<1>5. InputIn(u, x) = InputIn(t, g[x]) BY <1>1, KeptRecomputed
<1>6. u[x] \in Nodes /\ u[x].kind \in Kinds BY TreeIs, NodeIs
<1> DEFINE n == u[x]
           m == t[g[x]]
<1>7. n.kind \in Kinds /\ n.kind = m.kind /\ n.setting = m.setting /\ n.loaded = m.loaded
  BY <1>2, <1>6 DEF SameFilter
<1> HIDE DEF n, m
<1>8. Own(n, InputIn(t, g[x])) = Own(m, InputIn(t, g[x])) BY <1>7, OwnOfIons
<1> QED BY <1>1, <1>4, <1>5, <1>8 DEF n, m

-----------------------------------------------------------------------------
(* Trees whose caches are right.                                            *)

CacheIs(n) == (n.ok <=> n.own # {}) /\ (n.note # "plain" => n.ok)

Sound(t, updates) ==
    /\ t \in Seq(Nodes) /\ IsForest(t)
    /\ \A p \in DOMAIN t : CacheIs(t[p])
    /\ GoodCaches(t, updates)

LEMMA ClearedIs ==
    ASSUME NEW n \in Nodes
    PROVE  /\ Cleared(n) \in Nodes /\ CacheIs(Cleared(n)) /\ SameFilter(Cleared(n), n)
           /\ ~Cleared(n).ok /\ Cleared(n).note = "plain" /\ Cleared(n).depth = n.depth
BY DEF Cleared, Nodes, CacheIs, SameFilter

\* The filters at G are the same in u, and so are those above them.
SameAt(t, u, G) ==
    \A x \in G : /\ SameFilter(u[x], t[x])
                 /\ \A a \in DOMAIN t : IsChild(t, a, x) => a \in G

\* A cache of u that counts is one of these and was right in t, or is right, or
\* is not to be.
CachesStay(t, updates, u, after, G) ==
    \A x \in DOMAIN t : u[x].ok =>
        \/ u[x].note # "plain"
        \/ after /\ UnderRange(u, x)
        \/ /\ x \in G /\ t[x].ok /\ t[x].note = "plain" /\ u[x].own = t[x].own
           /\ updates /\ UnderRange(t, x) => after
        \/ u[x].own = Own(u[x], InputIn(u, x))

\* Filters that are changed where they are: what is the same, up to the root,
\* would put out the same.
LEMMA KeptInPlace ==
    ASSUME NEW t \in Seq(Nodes), IsForest(t), NEW u \in Seq(Nodes), SameShape(t, u),
           NEW G \in SUBSET DOMAIN t, SameAt(t, u, G)
    PROVE  /\ IsForest(u) /\ DOMAIN u = DOMAIN t
           /\ Kept(t, u, [x \in G |-> x])
           /\ \A x \in G : /\ InputIn(u, x) = InputIn(t, x)
                           /\ Recomputed(u)[x] = Recomputed(t)[x]
<1> DEFINE g == [x \in G |-> x]
<1>1. DOMAIN t = 1..Len(t) /\ DOMAIN u = DOMAIN t BY TreeIs DEF SameShape
<1>2. IsForest(u) /\ \A p \in DOMAIN t : \A q : IsChild(u, p, q) <=> IsChild(t, p, q)
  BY <1>1, NodeIs, SameShapes
<1>3. DOMAIN g = G /\ \A x \in G : g[x] = x OBVIOUS
<1> HIDE DEF g
<1>4. Kept(t, u, g)
  <2>1. G \subseteq DOMAIN u BY <1>1
  <2>2. ASSUME NEW x \in G
        PROVE  /\ g[x] \in DOMAIN t /\ SameFilter(u[x], t[g[x]])
               /\ \A a \in DOMAIN u : IsChild(u, a, x) => a \in G /\ IsChild(t, g[a], g[x])
               /\ \A b \in DOMAIN t : IsChild(t, b, g[x]) =>
                     \E a \in G : g[a] = b /\ IsChild(u, a, x)
    BY <2>2, <1>1, <1>2, <1>3 DEF SameAt
  <2> QED BY <2>1, <2>2, <1>3 DEF Kept
<1>5. \A x \in G : InputIn(u, x) = InputIn(t, x) /\ Recomputed(u)[x] = Recomputed(t)[x]
  BY <1>2, <1>3, <1>4, KeptRecomputed
<1> QED BY <1>1, <1>2, <1>4, <1>5 DEF g

LEMMA SoundInPlace ==
    ASSUME NEW t, NEW updates \in BOOLEAN, Sound(t, updates), NEW u \in Seq(Nodes), SameShape(t, u),
           NEW G \in SUBSET DOMAIN t, SameAt(t, u, G), NEW after \in BOOLEAN,
           \A x \in DOMAIN t : CacheIs(u[x]), CachesStay(t, updates, u, after, G)
    PROVE  Sound(u, after)
<1> DEFINE g == [x \in G |-> x]
<1>1. t \in Seq(Nodes) /\ IsForest(t) /\ GoodCaches(t, updates) BY DEF Sound
<1>2. IsForest(u) /\ DOMAIN u = DOMAIN t /\ Kept(t, u, g) BY <1>1, KeptInPlace
<1>3. DOMAIN g = G /\ \A x \in G : g[x] = x OBVIOUS
<1> HIDE DEF g
<1>4. \A x \in DOMAIN u : u[x].ok =>
         \/ u[x].note # "plain"
         \/ after /\ UnderRange(u, x)
         \/ /\ x \in DOMAIN g /\ t[g[x]].ok /\ t[g[x]].note = "plain"
            /\ u[x].own = t[g[x]].own
            /\ updates /\ UnderRange(t, g[x]) => after
         \/ u[x].own = Own(u[x], InputIn(u, x))
  BY <1>2, <1>3 DEF CachesStay
<1>5. GoodCaches(u, after) BY <1>1, <1>2, <1>4, KeptCaches
<1> QED BY <1>2, <1>5 DEF Sound

\* All filters may be kept, or those that are not in some branch.
LEMMA OutsideBranch ==
    ASSUME NEW t \in Seq(Nodes), NEW p \in DOMAIN t,
           NEW x \in DOMAIN t \ Branch(t, p), NEW a \in DOMAIN t, IsChild(t, a, x)
    PROVE  a \in DOMAIN t \ Branch(t, p)
BY NodeIs, AboveTwice DEF IsChild

LEMMA SameUnder ==
    ASSUME NEW t \in Seq(Nodes), IsForest(t), NEW u \in Seq(Nodes), SameShape(t, u),
           \A x \in DOMAIN t : u[x].kind = t[x].kind, NEW p \in DOMAIN t
    PROVE  UnderRange(u, p) <=> UnderRange(t, p)
<1>1. DOMAIN t = 1..Len(t) /\ DOMAIN u = DOMAIN t BY TreeIs DEF SameShape
<1>2. \A q \in DOMAIN t : \A r : IsChild(u, q, r) <=> IsChild(t, q, r)
  BY <1>1, NodeIs, SameShapes
<1> QED BY <1>1, <1>2 DEF UnderRange

-----------------------------------------------------------------------------
(* What edits leave.                                                        *)

ClearedAt(t, C) == [q \in DOMAIN t |-> IF q \in C THEN Cleared(t[q]) ELSE t[q]]

LEMMA ClearSome ==
    ASSUME NEW t, NEW updates \in BOOLEAN, Sound(t, updates), NEW C \in SUBSET DOMAIN t,
           NEW u, u = ClearedAt(t, C)
    PROVE  /\ u \in Seq(Nodes) /\ SameShape(t, u) /\ Sound(u, updates)
           /\ \A q \in DOMAIN t : CacheIs(u[q]) /\ SameFilter(u[q], t[q])
           /\ \A q \in C : ~u[q].ok
           /\ \A q \in DOMAIN t \ C : u[q] = t[q]
<1>1. t \in Seq(Nodes) /\ IsForest(t) /\ \A q \in DOMAIN t : CacheIs(t[q]) BY DEF Sound
<1>2. DOMAIN t = 1..Len(t) /\ \A q \in DOMAIN t : t[q] \in Nodes BY <1>1, TreeIs
<1>3. \A q \in DOMAIN t : u[q] \in Nodes /\ CacheIs(u[q]) /\ SameFilter(u[q], t[q])
  BY <1>1, <1>2, ClearedIs DEF SameFilter, ClearedAt
<1>4. (\A q \in C : ~u[q].ok) /\ \A q \in DOMAIN t \ C : u[q] = t[q]
  BY <1>2, ClearedIs DEF ClearedAt
<1>5. DOMAIN u = DOMAIN t /\ u \in Seq(Nodes) /\ Len(u) = Len(t)
  <2>1. u = [q \in 1..Len(t) |-> u[q]] BY <1>2 DEF ClearedAt
  <2>2. Len(t) \in Nat BY <1>1, TreeIs
  <2> QED BY <2>1, <2>2, <1>2, <1>3
<1>6. SameShape(t, u) BY <1>2, <1>3, <1>5 DEF SameShape, SameFilter
<1>7. \A q \in DOMAIN t : u[q].ok => q \notin C /\ u[q] = t[q] BY <1>4
<1>8. Sound(u, updates)
  <2> DEFINE G == DOMAIN t
  <2>1. G \in SUBSET DOMAIN t /\ SameAt(t, u, G) BY <1>3 DEF SameAt
  <2>2. ASSUME NEW q \in DOMAIN t, u[q].ok
        PROVE  \/ u[q].note # "plain"
               \/ updates /\ UnderRange(u, q)
               \/ /\ q \in G /\ t[q].ok /\ t[q].note = "plain" /\ u[q].own = t[q].own
                  /\ updates /\ UnderRange(t, q) => updates
               \/ u[q].own = Own(u[q], InputIn(u, q))
    BY <2>2, <1>7
  <2>3. CachesStay(t, updates, u, updates, G) BY <2>2 DEF CachesStay
  <2> HIDE DEF G
  <2>4. \A q \in DOMAIN t : CacheIs(u[q]) BY <1>3
  <2>5. updates \in BOOLEAN /\ Sound(t, updates) OBVIOUS
  <2> QED BY ONLY <2>1, <2>3, <2>4, <2>5, <1>5, <1>6, SoundInPlace
<1> QED BY <1>3, <1>4, <1>5, <1>6, <1>8

\* Where n filters that are put in or taken out from p on leave the others.
Down(t, p, n) == [x \in DOMAIN t |-> ShiftedBy(x, p, n)]
Up(t, p, n) ==
    [y \in {ShiftedBy(x, p, n) : x \in DOMAIN t} |-> IF y < p THEN y ELSE y - n]

\* They are kept.
LEMMA KeptAround ==
    ASSUME NEW t \in Seq(Nodes), NEW u \in Seq(Nodes), NEW p, NEW n, WithGap(t, u, p, n)
    PROVE  /\ Kept(u, t, Down(t, p, n)) /\ Kept(t, u, Up(t, p, n))
           /\ DOMAIN Down(t, p, n) = DOMAIN t
           /\ \A x \in DOMAIN t : /\ Down(t, p, n)[x] = ShiftedBy(x, p, n)
                                 /\ ShiftedBy(x, p, n) \in DOMAIN Up(t, p, n)
                                 /\ Up(t, p, n)[ShiftedBy(x, p, n)] = x
<1> DEFINE s(x) == ShiftedBy(x, p, n)
           back(y) == IF y < p THEN y ELSE y - n
           down == Down(t, p, n)
           up == Up(t, p, n)
<1>1. /\ DOMAIN t = 1..Len(t) /\ DOMAIN u = 1..Len(u) /\ Len(t) \in Nat
      /\ p \in 1..(Len(t) + 1) /\ n \in Nat
  BY TreeIs DEF WithGap
<1>2. \A x \in DOMAIN t :
         /\ s(x) \in DOMAIN u
         /\ \A a \in DOMAIN t : IsChild(u, s(a), s(x)) <=> IsChild(t, a, x)
         /\ \A b \in DOMAIN u : IsChild(u, b, s(x)) => \E a \in DOMAIN t : b = s(a)
  <2> SUFFICES ASSUME NEW x \in DOMAIN t
               PROVE  /\ s(x) \in DOMAIN u
                      /\ \A a \in DOMAIN t : IsChild(u, s(a), s(x)) <=> IsChild(t, a, x)
                      /\ \A b \in DOMAIN u : IsChild(u, b, s(x)) => \E a \in DOMAIN t : b = s(a)
    OBVIOUS
  <2>1. x \in 1..Len(t) /\ \A m \in Nodes : m.depth \in Nat BY <1>1, NodeIs
  <2>2. /\ s(x) \in 1..Len(u)
        /\ \A a \in 1..Len(t) : IsChild(u, s(a), s(x)) <=> IsChild(t, a, x)
        /\ \A b \in 1..Len(u) : IsChild(u, b, s(x)) => \E a \in 1..Len(t) : b = s(a)
    BY <2>1, GapFilled
  <2> HIDE DEF s
  <2> QED BY <2>2, <1>1
<1>3. \A x \in DOMAIN t : SameFilter(t[x], u[s(x)]) /\ SameFilter(u[s(x)], t[x])
  BY <1>1 DEF WithGap, SameFilter
<1>4. \A x \in DOMAIN t : back(s(x)) = x
  BY <1>1 DEF ShiftedBy
<1>5. DOMAIN down = DOMAIN t /\ \A x \in DOMAIN t : down[x] = s(x) BY DEF Down
<1>6. DOMAIN up = {s(x) : x \in DOMAIN t} /\ \A x \in DOMAIN t : up[s(x)] = x BY <1>4 DEF Up
<1> HIDE DEF down, up, s, back
<1>7. Kept(u, t, down)
  <2>1. ASSUME NEW x \in DOMAIN t
        PROVE  /\ down[x] \in DOMAIN u /\ SameFilter(t[x], u[down[x]])
               /\ \A a \in DOMAIN t : IsChild(t, a, x) =>
                     a \in DOMAIN t /\ IsChild(u, down[a], down[x])
               /\ \A b \in DOMAIN u : IsChild(u, b, down[x]) =>
                     \E a \in DOMAIN t : down[a] = b /\ IsChild(t, a, x)
    BY <1>2, <1>3, <1>5
  <2> QED BY <2>1, <1>5 DEF Kept
<1>8. Kept(t, u, up)
  <2>1. ASSUME NEW x \in DOMAIN t
        PROVE  /\ up[s(x)] \in DOMAIN t /\ SameFilter(u[s(x)], t[up[s(x)]])
               /\ \A b \in DOMAIN u : IsChild(u, b, s(x)) =>
                     b \in DOMAIN up /\ IsChild(t, up[b], up[s(x)])
               /\ \A b \in DOMAIN t : IsChild(t, b, up[s(x)]) =>
                     \E a \in DOMAIN up : up[a] = b /\ IsChild(u, a, s(x))
    <3>1. up[s(x)] = x BY <1>6
    <3>2. ASSUME NEW b \in DOMAIN u, IsChild(u, b, s(x))
          PROVE  b \in DOMAIN up /\ IsChild(t, up[b], up[s(x)])
      <4>1. PICK a \in DOMAIN t : b = s(a) BY <3>2, <1>2
      <4>2. IsChild(t, a, x) BY <3>2, <4>1, <1>2
      <4> QED BY <3>1, <4>1, <4>2, <1>6
    <3>3. ASSUME NEW b \in DOMAIN t, IsChild(t, b, up[s(x)])
          PROVE  \E a \in DOMAIN up : up[a] = b /\ IsChild(u, a, s(x))
      <4>1. s(b) \in DOMAIN up /\ up[s(b)] = b BY <1>6
      <4>2. IsChild(u, s(b), s(x)) BY <3>1, <3>3, <1>2
      <4> QED BY <4>1, <4>2
    <3> QED BY <3>1, <3>2, <3>3, <1>3
  <2>2. DOMAIN up \subseteq DOMAIN u BY <1>2, <1>6
  <2>3. \A y \in DOMAIN up : \E x \in DOMAIN t : y = s(x) BY <1>6
  <2> QED BY <2>1, <2>2, <2>3 DEF Kept
<1> QED BY <1>5, <1>6, <1>7, <1>8 DEF down, up, s

LEMMA ErasedSound ==
    ASSUME NEW t, NEW updates \in BOOLEAN, Sound(t, updates), NEW p \in DOMAIN t
    PROVE  Sound(EraseBranch(t, p), updates)
<1> DEFINE u == EraseBranch(t, p)
           n == (BranchEnd(t, p) - p) + 1
           g == Down(u, p, n)
<1>1. t \in Seq(Nodes) /\ IsForest(t) /\ GoodCaches(t, updates) /\ \A q \in DOMAIN t : CacheIs(t[q])
  BY DEF Sound
<1>2. p \in 1..Len(t) BY <1>1, TreeIs
<1>3. u \in Seq(Nodes) /\ IsForest(u) BY <1>1, <1>2, NodeIs, Erased
<1>4. WithGap(u, t, p, n) BY <1>1, <1>2, NodeIs, ErasedGap
<1> HIDE DEF u, n
<1>5. Kept(t, u, g) BY <1>1, <1>3, <1>4, KeptAround
<1>6. DOMAIN g = DOMAIN u /\ \A x \in DOMAIN u : u[x] = t[g[x]] /\ g[x] \in DOMAIN t
  <2>1. \A x \in DOMAIN u : u[x] = t[ShiftedBy(x, p, n)] BY <1>3, <1>4, TreeIs DEF WithGap
  <2>2. DOMAIN g = DOMAIN u /\ \A x \in DOMAIN u : g[x] = ShiftedBy(x, p, n)
    BY <1>1, <1>3, <1>4, KeptAround
  <2> HIDE DEF g
  <2> QED BY <2>1, <2>2, <1>5 DEF Kept
<1> HIDE DEF g
<1>7. ASSUME NEW x \in DOMAIN u, u[x].ok
      PROVE  \/ u[x].note # "plain"
             \/ /\ x \in DOMAIN g /\ t[g[x]].ok /\ t[g[x]].note = "plain"
                /\ u[x].own = t[g[x]].own
                /\ updates /\ UnderRange(t, g[x]) => updates
  BY <1>6, <1>7
<1>8. GoodCaches(u, updates) BY <1>1, <1>3, <1>5, <1>7, KeptCaches
<1> QED BY <1>1, <1>3, <1>6, <1>8 DEF Sound, u

\* A branch without caches is added.
LEMMA AppendedSound ==
    ASSUME NEW t, NEW updates \in BOOLEAN, Sound(t, updates), NEW p \in DOMAIN t,
           NEW s \in Seq(Nodes), IsBranch(s),
           \A i \in 1..Len(s) : ~s[i].ok /\ CacheIs(s[i])
    PROVE  /\ Sound(AppendChild(t, p, s), updates)
           /\ Len(AppendChild(t, p, s)) = Len(t) + Len(s)
<1> DEFINE u == AppendChild(t, p, s)
           n == Len(s)
           at == BranchEnd(t, p) + 1
           g == Up(t, at, n)
<1>1. t \in Seq(Nodes) /\ IsForest(t) /\ GoodCaches(t, updates) /\ \A q \in DOMAIN t : CacheIs(t[q])
  BY DEF Sound
<1>2. p \in 1..Len(t) /\ DOMAIN t = 1..Len(t) BY <1>1, TreeIs
<1>3. u \in Seq(Nodes) /\ IsForest(u) /\ Len(u) = Len(t) + n
  BY <1>1, <1>2, NodesHang, Appended
<1>4. WithGap(t, u, at, n) /\ MadeOf(u, t, s, at)
  BY <1>1, <1>2, NodesHang, AppendedGap
<1>5. DOMAIN u = 1..Len(u) BY <1>3, TreeIs
<1> HIDE DEF u, at
<1>6. Kept(t, u, g) BY <1>1, <1>3, <1>4, KeptAround
<1>7. \A x \in DOMAIN t : ShiftedBy(x, at, n) \in DOMAIN g /\ g[ShiftedBy(x, at, n)] = x
  BY <1>1, <1>3, <1>4, KeptAround
<1> HIDE DEF g
<1>8. ASSUME NEW i \in 1..n, NEW d \in Nat
      PROVE  ~[s[i] EXCEPT !.depth = d].ok /\ CacheIs([s[i] EXCEPT !.depth = d])
  <2>1. s[i] \in Nodes /\ ~s[i].ok /\ CacheIs(s[i]) OBVIOUS
  <2> QED BY <2>1 DEF CacheIs, Nodes
<1>9. ASSUME NEW k \in DOMAIN u
      PROVE  /\ CacheIs(u[k])
             /\ u[k].ok => k \in DOMAIN g /\ g[k] \in DOMAIN t /\ u[k] = t[g[k]]
  <2>1. CASE \E i \in 1..Len(t) : k = ShiftedBy(i, at, n) /\ u[k] = t[i]
    BY <2>1, <1>1, <1>2, <1>7
  <2>2. CASE \E i \in 1..n, d \in Nat : u[k] = [s[i] EXCEPT !.depth = d]
    BY <2>2, <1>8
  <2> QED BY <2>1, <2>2, <1>4, <1>5 DEF MadeOf
<1>10. ASSUME NEW x \in DOMAIN u, u[x].ok
       PROVE  \/ u[x].note # "plain"
              \/ /\ x \in DOMAIN g /\ t[g[x]].ok /\ t[g[x]].note = "plain"
                 /\ u[x].own = t[g[x]].own
                 /\ updates /\ UnderRange(t, g[x]) => updates
  BY <1>9, <1>10
<1>11. GoodCaches(u, updates) BY <1>1, <1>3, <1>6, <1>10, KeptCaches
<1> QED BY <1>3, <1>9, <1>11 DEF Sound, u

-----------------------------------------------------------------------------
(* The steps.                                                               *)

LEMMA InvSound ==
    ASSUME IInv
    PROVE  /\ Sound(tree, plotUpdates)
           /\ tree \in Seq(Nodes) /\ IsForest(tree) /\ DOMAIN tree = 1..Len(tree) /\ Len(tree) \in Nat
           /\ plotUpdates \in BOOLEAN /\ file \in Files
<1>1. tree \in Seq(Nodes) /\ Sound(tree, plotUpdates) BY DEF IInv, TypeOK, Sound, CacheIs
<1> QED BY <1>1, TreeIs DEF IInv, TypeOK

\* Nothing is under way.
Resting ==
    /\ Sound(tree, plotUpdates) /\ file \in Files /\ plotUpdates \in BOOLEAN
    /\ phase = "idle" /\ starts = {} /\ todo = <<>> /\ put = <<>> /\ moved = FALSE

LEMMA AtRest == Resting => IInv
<1> SUFFICES ASSUME Resting PROVE IInv
  OBVIOUS
<1>1. /\ Sound(tree, plotUpdates) /\ file \in Files /\ plotUpdates \in BOOLEAN
      /\ phase = "idle" /\ starts = {} /\ todo = <<>> /\ put = <<>> /\ moved = FALSE
  BY DEF Resting
<1>2. TypeOK
  <2>1. tree \in Seq(Nodes) /\ IsForest(tree) BY <1>1 DEF Sound
  <2>2. \A p \in DOMAIN tree : /\ tree[p].ok <=> tree[p].own # {}
                               /\ tree[p].note # "plain" => tree[p].ok
    BY <1>1 DEF Sound, CacheIs
  <2>3. todo \in Seq(DOMAIN tree) BY <1>1
  <2> QED BY <2>1, <2>2, <2>3, <1>1 DEF TypeOK
<1>3. Left = {} /\ Refreshed = {} BY <1>1 DEF Left, Refreshed, Walk
<1>4. Ordered BY <1>1, <1>3 DEF Ordered
<1>5. StartsHold BY <1>1 DEF StartsHold
<1>6. PutRight BY <1>3 DEF PutRight
<1>7. UnreadAhead BY <1>1 DEF UnreadAhead
<1> QED BY <1>1, <1>2, <1>4, <1>5, <1>6, <1>7 DEF IInv, Sound

LEMMA InitHolds == ASSUME Init PROVE IInv
<1>1. /\ tree \in Seq(Nodes) /\ IsForest(tree)
      /\ \A p \in DOMAIN tree : tree[p] = Cleared(tree[p])
  BY TreesAssumption DEF Init
<1>2. \A p \in DOMAIN tree : CacheIs(tree[p]) /\ ~tree[p].ok
  <2> SUFFICES ASSUME NEW p \in DOMAIN tree PROVE CacheIs(tree[p]) /\ ~tree[p].ok
    OBVIOUS
  <2> DEFINE n == tree[p]
  <2>1. n \in Nodes /\ n = Cleared(n) BY <1>1, TreeIs
  <2> HIDE DEF n
  <2>2. CacheIs(n) /\ ~n.ok BY <2>1, ClearedIs
  <2> QED BY <2>2 DEF n
<1>3. Sound(tree, plotUpdates) BY <1>1, <1>2 DEF Sound, GoodCaches
<1> QED BY <1>3, AtRest DEF Init, Resting

LEMMA EditHolds ==
    ASSUME IInv, NEW t, Edit(t), Sound(t, plotUpdates'), plotUpdates' \in BOOLEAN
    PROVE  IInv'
<1>1. Resting' BY InvSound DEF Edit, Resting
<1> QED BY <1>1, AtRest, PTL

LEMMA AddFilterHolds ==
    ASSUME IInv, plotUpdates' = plotUpdates, NEW p \in DOMAIN tree, NEW kind \in NewKinds,
           AddFilter(p, kind)
    PROVE  IInv'
<1> DEFINE n == NewFilter(kind, tree[p].setting, 0)
           s == <<n>>
<1>1. /\ Sound(tree, plotUpdates) /\ plotUpdates \in BOOLEAN
      /\ tree[p] \in Nodes
  BY InvSound, TreeIs
<1>2. n \in Nodes /\ ~n.ok /\ CacheIs(n)
  <2>1. tree[p].setting \in Settings /\ kind \in Kinds BY <1>1, NodeIs, TreesAssumption
  <2> QED BY <2>1 DEF NewFilter, Nodes, Versions, CacheIs
<1> HIDE DEF n
<1>3. /\ s \in Seq(Nodes) /\ IsBranch(s)
      /\ \A i \in 1..Len(s) : ~s[i].ok /\ CacheIs(s[i])
  <2>1. Len(s) = 1 /\ s[1] = n /\ s # <<>> OBVIOUS
  <2>2. \A i \in 1..Len(s) : s[i] = n BY <2>1
  <2> QED BY <1>2, <2>1, <2>2 DEF IsBranch
<1> HIDE DEF s
<1>4. Sound(AppendChild(tree, p, s), plotUpdates) BY <1>1, <1>3, AppendedSound
<1>5. Edit(AppendChild(tree, p, s)) BY DEF AddFilter, s, n
<1> QED BY <1>1, <1>4, <1>5, EditHolds

\* A branch whose settings change at p, and whose caches are cleared.
LEMMA SetPropertyHolds ==
    ASSUME IInv, plotUpdates' = plotUpdates, NEW p \in DOMAIN tree, NEW setting \in Settings,
           SetProperty(p, setting)
    PROVE  IInv'
<1> DEFINE B == Branch(tree, p)
           c == ClearedBelow(tree, p)
           u == [c EXCEPT ![p].setting = setting]
           G == DOMAIN tree \ B
<1>1. /\ Sound(tree, plotUpdates) /\ plotUpdates \in BOOLEAN /\ tree \in Seq(Nodes)
      /\ IsForest(tree) /\ DOMAIN tree = 1..Len(tree)
  BY InvSound
<1>2. B \in SUBSET DOMAIN tree /\ p \in B BY <1>1, NodeIs, AboveTwice DEF Branch
<1>3. /\ c \in Seq(Nodes) /\ SameShape(tree, c)
      /\ \A q \in DOMAIN tree : CacheIs(c[q]) /\ SameFilter(c[q], tree[q])
      /\ \A q \in B : ~c[q].ok
      /\ \A q \in DOMAIN tree \ B : c[q] = tree[q]
  <2>1. c = ClearedAt(tree, B) BY DEF ClearedBelow, ClearedAt
  <2> HIDE DEF c, B
  <2> QED BY <2>1, <1>1, <1>2, ClearSome
<1>4. DOMAIN c = DOMAIN tree BY <1>1, <1>3, TreeIs DEF SameShape
<1>5. c[p] \in Nodes /\ [c[p] EXCEPT !.setting = setting] \in Nodes
  <2>1. c[p] \in Nodes BY <1>3, <1>4
  <2> QED BY <2>1 DEF Nodes
<1>6. [c[p] EXCEPT !.setting = setting].depth = c[p].depth
      /\ ~[c[p] EXCEPT !.setting = setting].ok /\ CacheIs([c[p] EXCEPT !.setting = setting])
  BY <1>2, <1>3, <1>5 DEF Nodes, CacheIs
<1> HIDE DEF c, B
<1>7. /\ u \in Seq(Nodes) /\ Len(u) = Len(c) /\ DOMAIN u = DOMAIN c
      /\ u[p] = [c[p] EXCEPT !.setting = setting] /\ \A q \in DOMAIN c : q # p => u[q] = c[q]
  BY <1>3, <1>4, <1>5
<1> HIDE DEF u
<1>8. SameShape(tree, u) BY <1>1, <1>3, <1>4, <1>6, <1>7 DEF SameShape
<1>9. SameAt(tree, u, G)
  <2>1. \A x \in G : SameFilter(u[x], tree[x]) BY <1>2, <1>3, <1>4, <1>7
  <2>2. \A x \in G : \A a \in DOMAIN tree : IsChild(tree, a, x) => a \in G
    BY <1>1, OutsideBranch DEF B
  <2> QED BY <2>1, <2>2 DEF SameAt
<1>10. \A q \in DOMAIN tree : CacheIs(u[q]) /\ (u[q].ok => q \in G /\ u[q] = tree[q])
  BY <1>2, <1>3, <1>4, <1>6, <1>7
<1>11. CachesStay(tree, plotUpdates, u, plotUpdates, G) BY <1>10 DEF CachesStay
<1>12. G \in SUBSET DOMAIN tree /\ \A q \in DOMAIN tree : CacheIs(u[q]) BY <1>10
<1> HIDE DEF G
<1>13. Sound(u, plotUpdates) BY <1>1, <1>7, <1>8, <1>9, <1>11, <1>12, SoundInPlace
<1>14. Edit(u) BY DEF SetProperty, u, c
<1> QED BY <1>1, <1>13, <1>14, EditHolds

LEMMA RemoveHolds ==
    ASSUME IInv, plotUpdates' = plotUpdates, NEW p \in DOMAIN tree, Remove(p)
    PROVE  IInv'
<1>1. Sound(tree, plotUpdates) /\ plotUpdates \in BOOLEAN BY InvSound
<1>2. Sound(EraseBranch(tree, p), plotUpdates) BY <1>1, ErasedSound
<1> QED BY <1>1, <1>2, EditHolds DEF Remove

\* What is moved has no caches, however far the loop went that cleared it.
LEMMA MoveHolds ==
    ASSUME IInv, plotUpdates' = plotUpdates, NEW p \in DOMAIN tree, NEW to \in DOMAIN tree,
           Move(p, to)
    PROVE  IInv'
<1> DEFINE C == {q \in DOMAIN tree : q = p \/ (q > p /\ tree[q].depth # tree[p].depth)}
           c == ClearedForMove(p)
           branch == SubTree(c, p)
           inserted == AppendChild(c, to, branch)
           at == IF BranchEnd(tree, to) < p THEN p + Len(branch) ELSE p
<1>1. /\ Sound(tree, plotUpdates) /\ plotUpdates \in BOOLEAN /\ tree \in Seq(Nodes)
      /\ DOMAIN tree = 1..Len(tree) /\ Len(tree) \in Nat
  BY InvSound
<1>2. c = ClearedAt(tree, C)
  BY DEF ClearedForMove, ClearedAt
<1>3. /\ c \in Seq(Nodes) /\ SameShape(tree, c) /\ Sound(c, plotUpdates)
      /\ \A q \in DOMAIN tree : CacheIs(c[q])
      /\ \A q \in C : ~c[q].ok
  <2>1. C \in SUBSET DOMAIN tree OBVIOUS
  <2> HIDE DEF C, c
  <2>2. /\ c \in Seq(Nodes) /\ SameShape(tree, c) /\ Sound(c, plotUpdates)
        /\ \A q \in DOMAIN tree : CacheIs(c[q]) /\ SameFilter(c[q], tree[q])
        /\ \A q \in C : ~c[q].ok
        /\ \A q \in DOMAIN tree \ C : c[q] = tree[q]
    BY ONLY <2>1, <1>1, <1>2, ClearSome
  <2> QED BY <2>2
<1>4. DOMAIN c = 1..Len(tree) /\ Len(c) = Len(tree) /\ IsForest(c)
  BY <1>1, <1>3 DEF SameShape, Sound
<1> DEFINE e == BranchEnd(c, p)
<1>5. /\ e \in p..Len(c)
      /\ \A k \in (p+1)..e : c[k].depth > c[p].depth
  BY <1>1, <1>3, <1>4, NodeIs, BranchEndStops
<1>6. p..e \subseteq C
  <2> SUFFICES ASSUME NEW k \in p..e, k # p PROVE k \in C
    BY DEF C
  <2>1. k \in (p+1)..e /\ k \in DOMAIN tree /\ k > p BY <1>1, <1>4, <1>5
  <2>2. c[k].depth > c[p].depth BY <2>1, <1>5
  <2>3. c[k].depth = tree[k].depth /\ c[p].depth = tree[p].depth
    BY <2>1, <1>1, <1>3 DEF SameShape
  <2>4. tree[k].depth \in Nat /\ tree[p].depth \in Nat BY <2>1, <1>1, TreeIs
  <2> QED BY <2>1, <2>2, <2>3, <2>4
<1> HIDE DEF c, C
<1>7. branch = SubSeq(c, p, e) BY DEF SubTree
<1>8. branch \in Seq(Nodes) /\ IsBranch(branch) BY <1>1, <1>3, <1>4, NodeIs, SubTreeBranch
<1> HIDE DEF e
<1>9. \A i \in 1..Len(branch) : \E k \in p..e : branch[i] = c[k]
  <2>1. Len(branch) = e - p + 1 /\ \A i \in 1..Len(branch) : branch[i] = c[p + i - 1]
    BY <1>1, <1>3, <1>4, <1>5, <1>7
  <2>2. \A i \in 1..Len(branch) : p + i - 1 \in p..e BY <2>1, <1>1, <1>4, <1>5
  <2> QED BY <2>1, <2>2
<1> HIDE DEF branch
<1>10. \A i \in 1..Len(branch) : ~branch[i].ok /\ CacheIs(branch[i])
  <2> SUFFICES ASSUME NEW i \in 1..Len(branch) PROVE ~branch[i].ok /\ CacheIs(branch[i])
    OBVIOUS
  <2>1. PICK k \in p..e : branch[i] = c[k] BY <1>9
  <2>2. k \in C /\ k \in DOMAIN tree BY <2>1, <1>6, <1>1, <1>4, <1>5
  <2> QED BY <2>1, <2>2, <1>3
<1>11. Sound(inserted, plotUpdates) /\ Len(inserted) = Len(c) + Len(branch)
  BY <1>1, <1>3, <1>4, <1>8, <1>10, AppendedSound
<1> HIDE DEF inserted
<1>12. at \in DOMAIN inserted
  <2>1. inserted \in Seq(Nodes) /\ Len(branch) \in Nat BY <1>8, <1>11 DEF Sound
  <2> QED BY <2>1, <1>1, <1>4, <1>11, TreeIs
<1> HIDE DEF at
<1>13. Sound(EraseBranch(inserted, at), plotUpdates) BY <1>1, <1>11, <1>12, ErasedSound
<1>14. Edit(EraseBranch(inserted, at)) BY DEF Move, at, inserted, branch, c
<1> QED BY <1>1, <1>13, <1>14, EditHolds

LEMMA SwapInHolds ==
    ASSUME IInv, plotUpdates' = plotUpdates, SwapIn
    PROVE  IInv'
<1> DEFINE u == [p \in DOMAIN tree |-> NewFilter(tree[p].kind, tree[p].setting, tree[p].depth)]
<1>1. /\ plotUpdates \in BOOLEAN /\ tree \in Seq(Nodes) /\ IsForest(tree)
      /\ DOMAIN tree = 1..Len(tree) /\ Len(tree) \in Nat
  BY InvSound
<1>2. ASSUME NEW n \in Nodes
      PROVE  /\ NewFilter(n.kind, n.setting, n.depth) \in Nodes
             /\ NewFilter(n.kind, n.setting, n.depth).depth = n.depth
             /\ ~NewFilter(n.kind, n.setting, n.depth).ok
             /\ CacheIs(NewFilter(n.kind, n.setting, n.depth))
  BY NodeIs DEF NewFilter, Nodes, Versions, CacheIs
<1>3. \A p \in DOMAIN tree : u[p] \in Nodes /\ u[p].depth = tree[p].depth /\ ~u[p].ok /\ CacheIs(u[p])
  BY <1>1, <1>2, TreeIs
<1>4. u = [p \in 1..Len(tree) |-> u[p]] BY <1>1
<1> HIDE DEF u
<1>5. u \in Seq(Nodes) /\ Len(u) = Len(tree) /\ DOMAIN u = DOMAIN tree BY <1>1, <1>3, <1>4
<1>6. SameShape(tree, u) BY <1>1, <1>3, <1>5 DEF SameShape
<1>7. IsForest(u) BY <1>1, <1>5, <1>6, NodeIs, SameShapes
<1>8. Sound(u, plotUpdates) BY <1>3, <1>5, <1>7 DEF Sound, GoodCaches
<1>9. Edit(u) BY DEF SwapIn, u
<1> QED BY <1>1, <1>8, <1>9, EditHolds

\* Below the range that was dragged the caches are not right, until the timer has
\* taken it up.
LEMMA DragRegionHolds ==
    ASSUME IInv, NEW p \in DOMAIN tree, NEW setting \in Settings, DragRegion(p, setting)
    PROVE  IInv'
<1> DEFINE n == [Cleared(tree[p]) EXCEPT !.setting = setting]
           u == [tree EXCEPT ![p] = n]
           G == DOMAIN tree \ Branch(tree, p)
<1>1. /\ Sound(tree, plotUpdates) /\ plotUpdates \in BOOLEAN /\ tree \in Seq(Nodes)
      /\ IsForest(tree) /\ DOMAIN tree = 1..Len(tree) /\ tree[p] \in Nodes
  BY InvSound, TreeIs
<1>2. tree[p].kind = "range" /\ plotUpdates' = TRUE BY DEF DragRegion
<1>3. n \in Nodes /\ n.depth = tree[p].depth /\ ~n.ok /\ CacheIs(n) /\ n.kind = "range"
  <2>1. Cleared(tree[p]) \in Nodes /\ Cleared(tree[p]).depth = tree[p].depth
        /\ ~Cleared(tree[p]).ok /\ CacheIs(Cleared(tree[p])) /\ Cleared(tree[p]).kind = "range"
    BY <1>1, <1>2, ClearedIs DEF SameFilter
  <2> QED BY <2>1 DEF Nodes, CacheIs
<1> HIDE DEF n
<1>4. /\ u \in Seq(Nodes) /\ Len(u) = Len(tree) /\ DOMAIN u = DOMAIN tree /\ u[p] = n
      /\ \A q \in DOMAIN tree : q # p => u[q] = tree[q]
  BY <1>1, <1>3
<1>5. Edit(u) BY DEF DragRegion, u, n
<1> HIDE DEF u
<1>6. SameShape(tree, u) BY <1>1, <1>3, <1>4 DEF SameShape
<1>7. \A q \in DOMAIN tree : CacheIs(u[q]) BY <1>1, <1>3, <1>4 DEF Sound
<1>8. p \in Branch(tree, p) BY <1>1, NodeIs, AboveTwice
<1>9. SameAt(tree, u, G) /\ G \in SUBSET DOMAIN tree
  <2>1. \A x \in G : SameFilter(u[x], tree[x]) BY <1>4, <1>8 DEF SameFilter
  <2>2. \A x \in G : \A a \in DOMAIN tree : IsChild(tree, a, x) => a \in G
    BY <1>1, OutsideBranch
  <2> QED BY <2>1, <2>2 DEF SameAt
<1>10. ASSUME NEW q \in DOMAIN tree, u[q].ok PROVE (q \in G /\ u[q] = tree[q]) \/ UnderRange(u, q)
  <2>1. q # p /\ u[q] = tree[q] BY <1>3, <1>4, <1>10
  <2>2. CASE q \in Branch(tree, p)
    <3>1. IsChild(tree, p, q) BY <2>1, <2>2 DEF IsChild
    <3>2. IsChild(u, p, q) BY <3>1, <1>1, <1>4, <1>6, NodeIs, SameShapes
    <3> QED BY <3>2, <1>3, <1>4 DEF UnderRange
  <2> QED BY <2>1, <2>2
<1>11. CachesStay(tree, plotUpdates, u, TRUE, G) BY <1>10 DEF CachesStay
<1> HIDE DEF G
<1>12. Sound(u, TRUE) BY <1>1, <1>4, <1>6, <1>7, <1>9, <1>11, SoundInPlace
<1> QED BY <1>2, <1>5, <1>12, EditHolds

LEMMA ClearRangesHolds ==
    ASSUME IInv, ClearRanges
    PROVE  IInv'
<1> DEFINE C == {q \in DOMAIN tree : \E p \in DOMAIN tree : tree[p].kind = "range" /\ q \in Branch(tree, p)}
           u == ClearedAt(tree, C)
           G == DOMAIN tree
<1>1. /\ Sound(tree, plotUpdates) /\ plotUpdates \in BOOLEAN /\ tree \in Seq(Nodes)
      /\ IsForest(tree) /\ DOMAIN tree = 1..Len(tree) /\ GoodCaches(tree, plotUpdates)
  BY InvSound DEF Sound
<1>2. plotUpdates' = FALSE BY DEF ClearRanges
<1>3. Edit(u) BY DEF ClearRanges, ClearedAt
<1>4. C \in SUBSET DOMAIN tree OBVIOUS
<1>5. /\ u \in Seq(Nodes) /\ SameShape(tree, u)
      /\ \A q \in DOMAIN tree : CacheIs(u[q]) /\ SameFilter(u[q], tree[q])
      /\ \A q \in C : ~u[q].ok
      /\ \A q \in DOMAIN tree \ C : u[q] = tree[q]
  <2> HIDE DEF C, u
  <2> QED BY <1>1, <1>4, ClearSome DEF u
<1> HIDE DEF u
<1>6. ASSUME NEW q \in DOMAIN tree, u[q].ok PROVE u[q] = tree[q] /\ ~UnderRange(tree, q)
  <2>1. q \notin C BY <1>5, <1>6
  <2> QED BY <2>1, <1>5 DEF UnderRange, IsChild
<1>7. CachesStay(tree, plotUpdates, u, FALSE, G) BY <1>6 DEF CachesStay
<1>8. SameAt(tree, u, G) /\ G \in SUBSET DOMAIN tree BY <1>5 DEF SameAt
<1> HIDE DEF G
<1>9. Sound(u, FALSE) BY <1>1, <1>5, <1>7, <1>8, SoundInPlace
<1> QED BY <1>2, <1>3, <1>9, EditHolds

LEMMA FileChangesHolds ==
    ASSUME IInv, FileChanges
    PROVE  IInv'
<1>1. /\ file' \in Files /\ moved' = (phase = "walking") /\ tree' = tree /\ phase' = phase
      /\ starts' = starts /\ todo' = todo /\ put' = put /\ plotUpdates' = plotUpdates
  BY DEF FileChanges, walk
<1>2. TypeOK' BY <1>1 DEF IInv, TypeOK
<1>3. GoodCaches(tree, plotUpdates)' BY <1>1 DEF IInv
<1>4. Left' = Left /\ Refreshed' = Refreshed BY <1>1 DEF Left, Refreshed
<1>5. Ordered' BY <1>1, <1>4 DEF IInv, Ordered
<1>6. StartsHold' BY <1>1, <1>4 DEF IInv, StartsHold, On
<1>7. PutRight'
  BY <1>1, <1>4 DEF IInv, PutRight, Noteworthy, RegionPending, RangeBelowRange, On
<1>8. UnreadAhead' BY <1>1 DEF UnreadAhead
<1> QED BY <1>2, <1>3, <1>5, <1>6, <1>7, <1>8 DEF IInv

LEMMA AbortAfterFilterHolds ==
    ASSUME IInv, AbortAfterFilter
    PROVE  IInv'
<1>1. Resting' BY InvSound DEF AbortAfterFilter, Resting
<1> QED BY <1>1, AtRest, PTL

-----------------------------------------------------------------------------
(* A refresh starts.                                                        *)

LEMMA StartRefreshHolds ==
    ASSUME IInv, StartRefresh
    PROVE  IInv'
<1> DEFINE C == {q \in DOMAIN tree : \E p \in DOMAIN tree : q \in Branch(tree, p) /\ NeedsRefresh(tree[p])}
           S == RefreshStarts(tree')
           W == Walk(tree, S)
<1>1. /\ Sound(tree, plotUpdates) /\ plotUpdates \in BOOLEAN /\ tree \in Seq(Nodes)
      /\ IsForest(tree) /\ DOMAIN tree = 1..Len(tree) /\ Len(tree) \in Nat /\ file \in Files
  BY InvSound
<1>2. /\ tree # <<>> /\ starts' = S /\ todo' = Only([p \in DOMAIN tree |-> p], Walk(tree, starts'))
      /\ put' = [p \in DOMAIN tree |-> {}] /\ phase' = "walking" /\ moved' = FALSE
      /\ file' = file /\ plotUpdates' = plotUpdates /\ tree' = ClearedAt(tree, C)
  BY DEF StartRefresh, Monitored, ClearedAt
<1>3. C \in SUBSET DOMAIN tree OBVIOUS
<1>4. /\ tree' \in Seq(Nodes) /\ SameShape(tree, tree') /\ Sound(tree', plotUpdates)
      /\ \A q \in DOMAIN tree : CacheIs(tree'[q]) /\ SameFilter(tree'[q], tree[q])
      /\ \A q \in C : ~tree'[q].ok
  <2> HIDE DEF C
  <2> QED BY <1>1, <1>2, <1>3, ClearSome
<1>5. /\ IsForest(tree') /\ DOMAIN tree' = DOMAIN tree /\ Len(tree') = Len(tree)
      /\ \A p \in DOMAIN tree : Branch(tree', p) = Branch(tree, p)
  BY <1>1, <1>4, NodeIs, SameShapes, TreeIs DEF SameShape
<1>6. /\ S \subseteq DOMAIN tree
      /\ \A s, r \in S : ~IsChild(tree', s, r)
      /\ \A p \in DOMAIN tree : Leaf(tree', p) => \E s \in S : p \in Branch(tree', s)
  BY <1>4, <1>5, StartsCover
<1>7. \A s \in S : tree'[s].depth > 0 =>
         tree'[s].ok /\ Emitted(tree')[Parent(tree', s)] \subseteq Block(tree'[s].kind)
  BY <1>4, <1>5, StartBelow
<1>8. W = Walk(tree', S) /\ W \in SUBSET DOMAIN tree
  <2>1. \A s \in S : Branch(tree', s) = Branch(tree, s) BY <1>5, <1>6
  <2> QED BY <2>1, <1>5 DEF Walk
<1> HIDE DEF S
<1>9. W # {}
  <2>1. 1 \in DOMAIN tree' BY <1>1, <1>2, <1>5
  <2>2. PICK q \in DOMAIN tree' : Leaf(tree', q) BY <2>1, <1>4, NodeIs, LeafBelow
  <2>3. PICK s \in S : q \in Branch(tree', s) BY <2>2, <1>5, <1>6
  <2>4. q \in Walk(tree', S) BY <2>2, <2>3 DEF Walk
  <2> QED BY <2>4, <1>8
<1> HIDE DEF W, C
<1>10. /\ todo' \in Seq(W) /\ {todo'[i] : i \in DOMAIN todo'} = W
       /\ \A i, j \in DOMAIN todo' : i < j => todo'[i] < todo'[j]
  <2>1. todo' = Ascending(Len(tree), W) BY <1>1, <1>2 DEF W, Ascending
  <2>2. W \in SUBSET (1..Len(tree)) BY <1>1, <1>8
  <2> QED BY <2>1, <2>2, <1>1, AscendingIs
<1>11. Left' = W /\ Walk(tree, starts)' = W /\ Refreshed' = {}
  <2>1. Left' = W BY <1>10 DEF Left
  <2>2. Walk(tree, starts)' = W BY <1>2, <1>8
  <2> QED BY <2>1, <2>2 DEF Refreshed
<1>12. todo' # <<>> BY <1>9, <1>10
<1>13. TypeOK'
  <2>1. tree' \in Seq(Nodes) /\ IsForest(tree') BY <1>4, <1>5
  <2>2. \A p \in DOMAIN tree' : /\ tree'[p].ok <=> tree'[p].own # {}
                                /\ tree'[p].note # "plain" => tree'[p].ok
    BY <1>4, <1>5 DEF CacheIs
  <2>3. starts' \subseteq DOMAIN tree' BY <1>2, <1>5, <1>6
  <2>4. todo' \in Seq(DOMAIN tree') BY <1>5, <1>8, <1>10
  <2>5. put' \in [DOMAIN tree' -> SUBSET Streams] BY <1>2, <1>5
  <2> QED BY <2>1, <2>2, <2>3, <2>4, <2>5, <1>1, <1>2, <1>12 DEF TypeOK
<1>14. GoodCaches(tree, plotUpdates)' BY <1>2, <1>4 DEF Sound
<1>15. Ordered' BY <1>10, <1>11 DEF Ordered
<1>16. StartsHold'
  <2>1. \A s, r \in starts' : ~IsChild(tree', s, r) BY <1>2, <1>6
  <2>2. \A p \in DOMAIN tree' : Leaf(tree', p) => \E s \in starts' : p \in Branch(tree', s)
    BY <1>2, <1>5, <1>6
  <2>3. \A s \in starts' : tree'[s].depth > 0 =>
           tree'[s].ok /\ Emitted(tree')[Parent(tree', s)] \subseteq Block(tree'[s].kind)
    BY <1>2, <1>7
  <2> QED BY <2>1, <2>2, <2>3 DEF StartsHold, On
<1>17. PutRight' BY <1>11 DEF PutRight
<1>18. UnreadAhead'
  <2> SUFFICES ASSUME NEW p \in DOMAIN tree', NeedsRefresh(tree[p])'
               PROVE  p \in Left' /\ \A q \in Branch(tree', p) : ~tree'[q].ok
    BY DEF UnreadAhead
  <2>1. p \in DOMAIN tree /\ NeedsRefresh(tree[p])
    BY <1>2, <1>4, <1>5 DEF NeedsRefresh, SameFilter
  <2>2. \A q \in Branch(tree', p) : ~tree'[q].ok
    <3>1. Branch(tree', p) \subseteq DOMAIN tree BY <2>1, <1>1, <1>5 DEF Branch
    <3>2. \A q \in Branch(tree', p) : q \in C BY <2>1, <3>1, <1>5 DEF C
    <3> QED BY <3>2, <1>4
  <2>3. PICK q \in Branch(tree', p) : q \in DOMAIN tree' /\ Leaf(tree', q)
    BY <1>4, NodeIs, LeafBelow
  <2>4. PICK s \in S : q \in Branch(tree', s) BY <2>3, <1>5, <1>6
  <2>5. s \in DOMAIN tree' BY <1>5, <1>6
  <2>6. CASE s <= p
    <3>1. p \in Branch(tree', s) BY <2>3, <2>4, <2>5, <2>6, <1>4, NodeIs, AboveTwice
    <3>2. p \in Walk(tree', S) BY <3>1 DEF Walk
    <3> QED BY <3>2, <2>2, <1>8, <1>11
  <2>7. CASE ~(s <= p)
    <3>1. p <= s /\ s # p BY <2>5, <2>7, <1>1, <1>5
    <3>2. s \in Branch(tree', p) BY <3>1, <2>3, <2>4, <2>5, <1>4, NodeIs, AboveTwice
    <3>3. IsChild(tree', p, s) BY <3>1, <3>2 DEF IsChild
    <3>4. tree'[s].depth > 0 BY <3>3, <2>5, <1>4, NodeIs, NoneAboveBase
    <3>5. tree'[s].ok BY <3>4, <1>7
    <3> QED BY <3>2, <3>5, <2>2
  <2> QED BY <2>6, <2>7
<1> QED BY <1>13, <1>14, <1>15, <1>16, <1>17, <1>18 DEF IInv

-----------------------------------------------------------------------------
(* The walk goes on.                                                        *)

LEMMA SameParent ==
    ASSUME NEW t \in Seq(Nodes), IsForest(t), NEW u \in Seq(Nodes), SameShape(t, u),
           NEW p \in DOMAIN t, t[p].depth > 0
    PROVE  Parent(u, p) = Parent(t, p)
<1> DEFINE q == Parent(t, p)
<1>1. /\ IsForest(u) /\ DOMAIN t = 1..Len(t) /\ DOMAIN u = DOMAIN t
      /\ \A a \in DOMAIN t : \A b : IsChild(u, a, b) <=> IsChild(t, a, b)
      /\ \A a \in DOMAIN t : u[a].depth = t[a].depth
  BY NodeIs, SameShapes, TreeIs DEF SameShape
<1>2. q \in DOMAIN t /\ IsChild(t, q, p) /\ t[q].depth + 1 = t[p].depth
  BY NodeIs, ParentIs
<1> HIDE DEF q
<1>3. u[p].depth > 0 /\ q \in DOMAIN u /\ IsChild(u, q, p) /\ u[q].depth + 1 = u[p].depth
  BY <1>1, <1>2
<1>4. q = Parent(u, p) BY <1>1, <1>3, NodeIs, ParentIs
<1> QED BY <1>4 DEF q

LEMMA SameEmitted ==
    ASSUME NEW t \in Seq(Nodes), IsForest(t), NEW u \in Seq(Nodes), SameShape(t, u),
           \A p \in DOMAIN t : u[p].kind = t[p].kind
    PROVE  \A p \in DOMAIN t : Emitted(u)[p] = Emitted(t)[p]
<1> DEFINE Bad == {p \in DOMAIN t : Emitted(u)[p] # Emitted(t)[p]}
<1>1. /\ IsForest(u) /\ DOMAIN t = 1..Len(t) /\ DOMAIN u = DOMAIN t
      /\ \A a \in DOMAIN t : u[a].depth = t[a].depth /\ t[a].depth \in Nat
  BY NodeIs, SameShapes, TreeIs DEF SameShape
<1> SUFFICES ASSUME Bad # {} PROVE FALSE OBVIOUS
<1>2. Bad \in SUBSET Nat BY <1>1
<1> HIDE DEF Bad
<1>3. PICK p \in Bad : \A m \in Bad : p <= m BY <1>2, LeastNumber
<1>4. p \in DOMAIN t /\ Emitted(u)[p] # Emitted(t)[p] BY <1>3 DEF Bad
<1>5. Emitted(t)[p] = (IF t[p].depth = 0 THEN {} ELSE Emitted(t)[Parent(t, p)] \ Block(t[p].kind))
                      \cup Emit(t[p].kind)
  BY <1>4, EmittedIs
<1>6. Emitted(u)[p] = (IF u[p].depth = 0 THEN {} ELSE Emitted(u)[Parent(u, p)] \ Block(u[p].kind))
                      \cup Emit(u[p].kind)
  BY <1>1, <1>4, EmittedIs
<1>7. u[p].kind = t[p].kind /\ u[p].depth = t[p].depth BY <1>1, <1>4
<1>8. CASE t[p].depth = 0 BY <1>4, <1>5, <1>6, <1>7, <1>8
<1>9. CASE t[p].depth # 0
  <2> DEFINE q == Parent(t, p)
  <2>1. t[p].depth > 0 BY <1>9, <1>1, <1>4
  <2>2. q \in DOMAIN t /\ q < p BY <2>1, <1>4, NodeIs, ParentIs
  <2>3. Parent(u, p) = q BY <2>1, <1>4, SameParent
  <2> HIDE DEF q
  <2>4. q \notin Bad BY <2>2, <1>1, <1>3, <1>4
  <2>5. Emitted(u)[q] = Emitted(t)[q] BY <2>2, <2>4 DEF Bad
  <2> QED BY <2>3, <2>5, <1>4, <1>5, <1>6, <1>7, <1>9 DEF q
<1> QED BY <1>8, <1>9

\* The filter at hand is the first of those that are left.
LEMMA AtWork ==
    ASSUME IInv, phase = "walking"
    PROVE  /\ Current \in DOMAIN tree /\ Current \in Left
           /\ Left \subseteq DOMAIN tree /\ Left \subseteq Walk(tree, starts)
           /\ \A q \in Left : Current <= q
           /\ \A q \in Refreshed : q \in DOMAIN tree /\ q < Current
           /\ Tail(todo) \in Seq(DOMAIN tree)
           /\ {Tail(todo)[i] : i \in DOMAIN Tail(todo)} = Left \ {Current}
           /\ \A i, j \in DOMAIN Tail(todo) : i < j => Tail(todo)[i] < Tail(todo)[j]
           /\ Len(todo) = 1 <=> Tail(todo) = <<>>
           /\ put \in [DOMAIN tree -> SUBSET Streams]
<1>1. /\ todo \in Seq(DOMAIN tree) /\ todo # <<>> /\ put \in [DOMAIN tree -> SUBSET Streams]
      /\ \A i, j \in DOMAIN todo : i < j => todo[i] < todo[j]
      /\ Left \subseteq Walk(tree, starts)
      /\ \A q \in Refreshed, r \in Left : q < r
  BY DEF IInv, TypeOK, Ordered
<1>2. DOMAIN tree \in SUBSET Nat BY InvSound
<1> DEFINE D == DOMAIN tree
           s == todo
           t == Tail(s)
<1>3. s \in Seq(D) /\ s # <<>> /\ \A i, j \in DOMAIN s : i < j => s[i] < s[j] BY <1>1
<1>4. Left = {s[i] : i \in DOMAIN s} BY DEF Left
<1> HIDE DEF D, s
<1>5. /\ Len(s) \in Nat \ {0} /\ DOMAIN s = 1..Len(s) /\ \A i \in 1..Len(s) : s[i] \in D
      /\ t \in Seq(D) /\ Len(t) = Len(s) - 1 /\ DOMAIN t = 1..(Len(s) - 1)
      /\ \A i \in 1..(Len(s) - 1) : t[i] = s[i + 1]
  BY <1>3
<1> HIDE DEF t
<1>6. s[1] \in D /\ s[1] \in Left /\ Left \subseteq D BY <1>4, <1>5
<1>7. \A i \in DOMAIN s : i # 1 => s[1] < s[i] BY <1>3, <1>5
<1>8. \A i \in DOMAIN s : s[i] \in Nat BY <1>2, <1>5 DEF D
<1>9. \A q \in Left : s[1] <= q BY <1>4, <1>5, <1>7, <1>8
<1>10. {t[i] : i \in DOMAIN t} = Left \ {s[1]}
  <2>1. ASSUME NEW i \in DOMAIN t PROVE t[i] \in Left \ {s[1]}
    <3>1. i + 1 \in DOMAIN s /\ i + 1 # 1 /\ t[i] = s[i + 1] BY <1>5
    <3> QED BY <3>1, <1>4, <1>5, <1>7, <1>8
  <2>2. ASSUME NEW q \in Left \ {s[1]} PROVE \E i \in DOMAIN t : t[i] = q
    <3>1. PICK i \in DOMAIN s : q = s[i] BY <1>4
    <3>2. i - 1 \in DOMAIN t /\ t[i - 1] = s[i] BY <3>1, <1>5
    <3> QED BY <3>1, <3>2
  <2> QED BY <2>1, <2>2
<1>11. \A i, j \in DOMAIN t : i < j => t[i] < t[j]
  <2> SUFFICES ASSUME NEW i \in DOMAIN t, NEW j \in DOMAIN t, i < j PROVE t[i] < t[j]
    OBVIOUS
  <2>1. i + 1 \in DOMAIN s /\ j + 1 \in DOMAIN s /\ i + 1 < j + 1 BY <1>5
  <2> QED BY <2>1, <1>3, <1>5
<1>12. Len(s) = 1 <=> t = <<>> BY <1>5
<1>13. \A q \in Refreshed : q \in DOMAIN tree BY DEF Refreshed, Walk
<1> QED BY <1>1, <1>5, <1>6, <1>9, <1>10, <1>11, <1>12, <1>13 DEF D, s, t, Current

\* What refreshing the filter at p does to the caches.
Progressed(t, u, p) ==
    /\ u \in Seq(Nodes) /\ SameShape(t, u)
    /\ \A q \in DOMAIN t :
          /\ u[q].kind = t[q].kind
          /\ q # p => /\ SameFilter(u[q], t[q]) /\ u[q].ok = t[q].ok
                      /\ t[q].note # "plain" => u[q].note # "plain"

\* With what it leaves, put is right at p.
RightAt(p) ==
    \/ Noteworthy(p) \/ RegionPending(p)
    \/ /\ Ions(put[p]) = Ions(Recomputed(tree)[p])
       /\ RangeBelowRange(p) \/ put[p] = Recomputed(tree)[p]

\* Filters that were refreshed before stay right.
LEMMA RightStays ==
    ASSUME IInv, NEW p \in DOMAIN tree, Progressed(tree, tree', p), plotUpdates' = plotUpdates,
           NEW r \in DOMAIN tree, r < p, put'[r] = put[r], RightAt(r)
    PROVE  RightAt(r)'
<1> DEFINE G == DOMAIN tree \ Branch(tree, p)
<1>1. /\ tree \in Seq(Nodes) /\ IsForest(tree) /\ DOMAIN tree = 1..Len(tree) /\ Len(tree) \in Nat
      /\ plotUpdates \in BOOLEAN
  BY InvSound
<1>2. /\ tree' \in Seq(Nodes) /\ SameShape(tree, tree')
      /\ \A q \in DOMAIN tree : tree'[q].kind = tree[q].kind
      /\ \A q \in DOMAIN tree : q # p =>
            /\ SameFilter(tree'[q], tree[q])
            /\ tree[q].note # "plain" => tree'[q].note # "plain"
  BY DEF Progressed
<1>3. /\ DOMAIN tree' = DOMAIN tree
      /\ \A q \in DOMAIN tree : Branch(tree', q) = Branch(tree, q)
      /\ \A q \in DOMAIN tree : \A a : IsChild(tree', q, a) <=> IsChild(tree, q, a)
  BY <1>1, <1>2, NodeIs, SameShapes, TreeIs DEF SameShape
<1>4. r \notin Branch(tree, p) BY <1>1 DEF Branch
<1>5. Recomputed(tree')[r] = Recomputed(tree)[r]
  <2>1. r \in G BY <1>4
  <2>2. p \notin G BY <1>1, NodeIs, AboveTwice
  <2>3. G \in SUBSET DOMAIN tree /\ SameAt(tree, tree', G)
    <3>1. \A x \in G : SameFilter(tree'[x], tree[x]) BY <2>2, <1>2
    <3>2. \A x \in G : \A a \in DOMAIN tree : IsChild(tree, a, x) => a \in G
      BY <1>1, OutsideBranch
    <3> QED BY <3>1, <3>2 DEF SameAt
  <2> HIDE DEF G
  <2> QED BY <2>1, <2>3, <1>1, <1>2, KeptInPlace
<1>6. ASSUME Noteworthy(r) PROVE Noteworthy(r)'
  <2>1. PICK q \in DOMAIN tree : r \in Branch(tree, q) /\ tree[q].note # "plain"
    BY <1>6 DEF Noteworthy, On
  <2>2. q # p BY <2>1, <1>4
  <2>3. q \in DOMAIN tree' /\ r \in Branch(tree', q) /\ tree'[q].note # "plain"
    BY <2>1, <2>2, <1>2, <1>3
  <2> QED BY <2>3 DEF Noteworthy, On
<1>7. RegionPending(r)' <=> RegionPending(r)
  BY <1>2, <1>3 DEF RegionPending
<1>8. RangeBelowRange(r) => RangeBelowRange(r)'
  BY <1>2, <1>3 DEF RangeBelowRange, On
<1> QED BY <1>5, <1>6, <1>7, <1>8 DEF RightAt

\* The walk has been at p, and put out what is right: then all holds as before.
LEMMA DoneHolds ==
    ASSUME IInv, phase = "walking", NEW p, p = Current, NEW streams \in SUBSET Streams,
           PutOut(streams), Progressed(tree, tree', p), Sound(tree', plotUpdates),
           ~moved => ~NeedsRefresh(tree'[p]), RightAt(p)'
    PROVE  IInv'
<1> DEFINE t == tree
           u == tree'
<1>1. /\ tree \in Seq(Nodes) /\ IsForest(tree) /\ DOMAIN tree = 1..Len(tree) /\ Len(tree) \in Nat
      /\ plotUpdates \in BOOLEAN /\ file \in Files /\ moved \in BOOLEAN
      /\ starts \subseteq DOMAIN tree
  BY InvSound DEF IInv, TypeOK
<1>2. /\ put' = [put EXCEPT ![p] = streams] /\ todo' = Tail(todo)
      /\ phase' = (IF Len(todo) = 1 THEN "done" ELSE "walking")
      /\ file' = file /\ starts' = starts /\ plotUpdates' = plotUpdates /\ moved' = moved
  BY DEF PutOut
<1>3. /\ p \in DOMAIN tree /\ p \in Left
      /\ Left \subseteq DOMAIN tree /\ Left \subseteq Walk(tree, starts)
      /\ \A q \in Left : p <= q
      /\ \A q \in Refreshed : q \in DOMAIN tree /\ q < p
      /\ todo' \in Seq(DOMAIN tree)
      /\ {todo'[i] : i \in DOMAIN todo'} = Left \ {p}
      /\ \A i, j \in DOMAIN todo' : i < j => todo'[i] < todo'[j]
      /\ Len(todo) = 1 <=> todo' = <<>>
      /\ put \in [DOMAIN tree -> SUBSET Streams]
  BY <1>2, AtWork
<1>4. /\ tree' \in Seq(Nodes) /\ SameShape(tree, tree')
      /\ \A q \in DOMAIN tree : tree'[q].kind = tree[q].kind
      /\ \A q \in DOMAIN tree : q # p =>
            /\ SameFilter(tree'[q], tree[q]) /\ tree'[q].ok = tree[q].ok
  BY DEF Progressed
<1>5. /\ IsForest(tree') /\ DOMAIN tree' = DOMAIN tree
      /\ \A q \in DOMAIN tree : Branch(tree', q) = Branch(tree, q) /\ (Leaf(tree', q) <=> Leaf(tree, q))
      /\ \A q \in DOMAIN tree : \A a : IsChild(tree', q, a) <=> IsChild(tree, q, a)
  BY <1>1, <1>4, NodeIs, SameShapes, TreeIs DEF SameShape
<1>6. Left' = Left \ {p} BY <1>3 DEF Left
<1>7. Walk(tree, starts)' = Walk(tree, starts)
  <2>1. \A s \in starts : Branch(tree', s) = Branch(tree, s) BY <1>1, <1>5
  <2> QED BY <2>1, <1>2, <1>5 DEF Walk
<1>8. Refreshed' = Refreshed \cup {p} BY <1>3, <1>6, <1>7 DEF Refreshed
<1>9. TypeOK'
  <2>1. \A q \in DOMAIN tree' : /\ tree'[q].ok <=> tree'[q].own # {}
                                /\ tree'[q].note # "plain" => tree'[q].ok
    BY DEF Sound, CacheIs
  <2>2. put' \in [DOMAIN tree' -> SUBSET Streams] BY <1>2, <1>3, <1>5
  <2>3. phase' \in {"walking", "done"} /\ (phase' = "walking" <=> todo' # <<>>) BY <1>2, <1>3
  <2>4. starts' \subseteq DOMAIN tree' /\ todo' \in Seq(DOMAIN tree') BY <1>1, <1>2, <1>3, <1>5
  <2> QED BY <2>1, <2>2, <2>3, <2>4, <1>1, <1>2, <1>4, <1>5 DEF TypeOK
<1>10. GoodCaches(tree, plotUpdates)' BY <1>2 DEF Sound
<1>11. Ordered'
  <2>1. \A i, j \in DOMAIN todo' : i < j => todo'[i] < todo'[j] BY <1>3
  <2>2. Left' \subseteq Walk(tree, starts)' BY <1>3, <1>6, <1>7
  <2>3. ASSUME NEW r \in Refreshed', NEW q \in Left' PROVE r < q
    <3>1. q \in Left /\ q # p /\ p <= q BY <1>3, <1>6
    <3>2. q \in Nat /\ p \in Nat /\ p < q BY <3>1, <1>1, <1>3
    <3>3. CASE r = p BY <3>2, <3>3
    <3>4. CASE r \in Refreshed BY <3>1, <3>4 DEF IInv, Ordered
    <3> QED BY <3>3, <3>4, <1>8
  <2> QED BY <2>1, <2>2, <2>3 DEF Ordered
<1>12. StartsHold'
  <2>1. \A s, r \in starts' : ~IsChild(tree', s, r)
    BY <1>1, <1>2, <1>5 DEF IInv, StartsHold
  <2>2. \A q \in DOMAIN tree' : Leaf(tree', q) => \E s \in starts' : q \in Branch(tree', s)
    BY <1>1, <1>2, <1>5 DEF IInv, StartsHold, On
  <2>3. ASSUME NEW s \in starts' \cap Left', tree'[s].depth > 0
        PROVE  tree'[s].ok /\ Emitted(tree')[Parent(tree', s)] \subseteq Block(tree'[s].kind)
    <3>1. s \in starts \cap Left /\ s \in DOMAIN tree /\ s # p BY <1>1, <1>2, <1>6
    <3>2. tree[s].depth > 0 BY <2>3, <3>1, <1>4 DEF SameFilter
    <3>3. tree[s].ok /\ Emitted(tree)[Parent(tree, s)] \subseteq Block(tree[s].kind)
      BY <3>1, <3>2 DEF IInv, StartsHold
    <3>4. Parent(tree', s) = Parent(tree, s) /\ Parent(tree, s) \in DOMAIN tree
      BY <3>1, <3>2, <1>1, <1>4, SameParent, NodeIs, ParentIs
    <3>5. Emitted(tree')[Parent(tree, s)] = Emitted(tree)[Parent(tree, s)]
      BY <3>4, <1>1, <1>4, SameEmitted
    <3> QED BY <3>1, <3>3, <3>4, <3>5, <1>4
  <2> QED BY <2>1, <2>2, <2>3 DEF StartsHold, On
<1>13. PutRight'
  <2>1. ASSUME NEW r \in Refreshed' PROVE RightAt(r)'
    <3>1. CASE r = p BY <3>1
    <3>2. CASE r \in Refreshed
      <4>1. r \in DOMAIN tree /\ r < p /\ RightAt(r) BY <3>2, <1>3 DEF IInv, PutRight, RightAt
      <4>2. put'[r] = put[r] BY <4>1, <1>1, <1>2, <1>3
      <4> QED BY <4>1, <4>2, <1>2, <1>3, RightStays
    <3> QED BY <3>1, <3>2, <1>8
  <2> QED BY <2>1 DEF PutRight, RightAt
<1>14. UnreadAhead'
  <2> SUFFICES ASSUME phase' = "walking", ~moved', NEW q \in DOMAIN tree', NeedsRefresh(tree[q])'
               PROVE  q \in Left' /\ \A r \in Branch(tree', q) : ~tree'[r].ok
    BY DEF UnreadAhead
  <2>1. q # p BY <1>2 DEF NeedsRefresh
  <2>2. q \in DOMAIN tree /\ NeedsRefresh(tree[q]) BY <2>1, <1>2, <1>4, <1>5 DEF NeedsRefresh, SameFilter
  <2>3. q \in Left /\ \A r \in Branch(tree, q) : ~tree[r].ok
    BY <2>2, <1>2 DEF IInv, UnreadAhead
  <2>4. p \notin Branch(tree, q)
    <3>1. p <= q /\ p \in Nat /\ q \in Nat BY <2>2, <2>3, <1>1, <1>3
    <3> QED BY <3>1, <2>1 DEF Branch
  <2>5. \A r \in Branch(tree, q) : r \in DOMAIN tree BY <2>2, <1>1 DEF Branch
  <2> QED BY <2>1, <2>2, <2>3, <2>4, <2>5, <1>4, <1>5, <1>6
<1> QED BY <1>9, <1>10, <1>11, <1>12, <1>13, <1>14 DEF IInv

\* One of the filters above p has a note.
NotedAbove(p) == \E q \in DOMAIN tree : IsChild(tree, q, p) /\ tree[q].note # "plain"

\* The walk gives p what a refresh of the whole tree would.
GivenRight(p) ==
    /\ Ions(Input(p)) = Ions(InputIn(tree, p))
    /\ RangeBelowRange(p) \/ Input(p) = InputIn(tree, p)

\* The walk gives p nothing, for its cache is said to make up for it.
TakesNothing(p) ==
    /\ Input(p) = {} /\ tree[p].depth > 0 /\ tree[p].ok
    /\ Emitted(tree)[Parent(tree, p)] \subseteq Block(tree[p].kind)
    /\ tree[p].kind # "data"

LEMMA InputRight ==
    ASSUME IInv, phase = "walking", NEW p, p = Current
    PROVE  /\ Input(p) \in SUBSET Streams
           /\ NotedAbove(p) \/ RegionPending(p) \/ TakesNothing(p) \/ GivenRight(p)
<1>1. /\ tree \in Seq(Nodes) /\ IsForest(tree) /\ DOMAIN tree = 1..Len(tree) /\ Len(tree) \in Nat
      /\ starts \subseteq DOMAIN tree
  BY InvSound DEF IInv, TypeOK
<1>2. /\ p \in DOMAIN tree /\ p \in Left /\ p \in Walk(tree, starts)
      /\ \A q \in Left : p <= q
      /\ put \in [DOMAIN tree -> SUBSET Streams]
  BY AtWork
<1>3. CASE p \in starts /\ tree[p].depth = 0
  <2>1. Input(p) = {} /\ InputIn(tree, p) = {} BY <1>3 DEF Input, InputIn
  <2> QED BY <2>1 DEF GivenRight
<1>4. CASE p \in starts /\ tree[p].depth # 0
  <2> DEFINE a == Parent(tree, p)
  <2>1. tree[p].depth > 0 BY <1>1, <1>2, <1>4, TreeIs
  <2>2. tree[p].ok /\ Emitted(tree)[a] \subseteq Block(tree[p].kind)
    BY <2>1, <1>2, <1>4 DEF IInv, StartsHold
  <2>3. a \in DOMAIN tree BY <2>1, <1>1, <1>2, NodeIs, ParentIs
  <2> HIDE DEF a
  <2>4. Emit(tree[a].kind) \subseteq Emitted(tree)[a] BY <2>3, <1>1, EmittedIs
  <2>5. Emit(tree[a].kind) # {}
    <3>1. tree[a].kind \in Kinds BY <2>3, <1>1, TreeIs, NodeIs
    <3> QED BY <3>1 DEF Emit, Kinds
  <2>6. tree[p].kind # "data" BY <2>2, <2>4, <2>5 DEF Block
  <2>7. Input(p) = {} BY <1>4 DEF Input
  <2> QED BY <2>1, <2>2, <2>6, <2>7 DEF TakesNothing, a
<1>5. CASE p \notin starts
  <2> DEFINE a == Parent(tree, p)
  <2>1. PICK s \in starts : p \in Branch(tree, s) BY <1>2 DEF Walk
  <2>2. s \in DOMAIN tree /\ IsChild(tree, s, p) BY <2>1, <1>1, <1>5 DEF IsChild
  <2>3. tree[p].depth > 0 BY <2>2, <1>1, <1>2, NodeIs, NoneAboveBase
  <2>4. a \in DOMAIN tree /\ a < p /\ IsChild(tree, a, p) /\ a \in Branch(tree, s)
    BY <2>2, <2>3, <1>1, <1>2, NodeIs, ParentIs
  <2>5. Input(p) = put[a] BY <1>5 DEF Input
  <2>6. InputIn(tree, p) = Recomputed(tree)[a] BY <2>3 DEF InputIn
  <2> HIDE DEF a
  <2>7. a \in Refreshed
    <3>1. a \in Walk(tree, starts) BY <2>4 DEF Walk
    <3>2. a \notin Left BY <2>4, <1>1, <1>2
    <3> QED BY <3>1, <3>2 DEF Refreshed
  <2>8. ASSUME NEW q \in DOMAIN tree, a \in Branch(tree, q)
        PROVE  p \in Branch(tree, q) /\ IsChild(tree, q, p)
    <3>1. p \in Branch(tree, a) BY <2>4 DEF IsChild
    <3>2. p \in Branch(tree, q) BY <2>4, <2>8, <3>1, <1>1, <1>2, NodeIs, AboveTwice
    <3>3. q <= a BY <2>8 DEF Branch
    <3>4. q # p BY <3>3, <2>4, <1>1, <1>2
    <3> QED BY <3>2, <3>4 DEF IsChild
  <2>9. CASE Noteworthy(a) BY <2>8, <2>9, <2>4, <2>5, <1>2 DEF Noteworthy, On, NotedAbove
  <2>10. CASE RegionPending(a)
    <3>1. RegionPending(p) BY <2>8, <2>10 DEF RegionPending, IsChild
    <3> QED BY <3>1, <2>4, <2>5, <1>2
  <2>11. CASE Ions(put[a]) = Ions(Recomputed(tree)[a])
              /\ (RangeBelowRange(a) \/ put[a] = Recomputed(tree)[a])
    <3>1. RangeBelowRange(a) => RangeBelowRange(p) BY <2>8 DEF RangeBelowRange, On
    <3> QED BY <3>1, <2>4, <2>5, <2>6, <2>11, <1>2 DEF GivenRight
  <2> QED BY <2>7, <2>9, <2>10, <2>11 DEF IInv, PutRight
<1> QED BY <1>3, <1>4, <1>5

\* Right input makes right output, of a cache or without.
LEMMA OutputOf ==
    ASSUME NEW n \in Nodes, NEW x \in SUBSET Streams, NEW y \in SUBSET Streams, Ions(x) = Ions(y)
    PROVE  /\ Own(n, x) = Own(n, y)
           /\ Ions(Out(n, x)) = Ions(Out(n, y))
           /\ Ions(Own(n, y) \cup PassedFromCache(n.kind, x)) = Ions(Out(n, y))
           /\ n.kind # "range" \/ (\A s \in x : s.type # "range") =>
                 Own(n, x) \cup PassedFromCache(n.kind, x) = Out(n, x)
<1>1. n.kind \in Kinds BY NodeIs
<1>2. Own(n, x) = Own(n, y) BY <1>1, OwnOfIons
<1> DEFINE own == Own(n, y)
           kind == n.kind
<1> HIDE DEF own, kind
<1>3. /\ Ions(own \cup Passed(kind, x)) = Ions(own \cup Passed(kind, y))
      /\ Ions(own \cup PassedFromCache(kind, x)) = Ions(own \cup Passed(kind, y))
  <2>1. /\ IonsOut(own, kind, x) = IonsOut(own, kind, y)
        /\ IonsFromCache(own, kind, x) = IonsOut(own, kind, y)
    BY SameIons
  <2> QED BY <2>1 DEF IonsOut, IonsFromCache
<1>4. kind # "range" \/ (\A s \in x : s.type # "range") =>
         Passed(kind, x) = PassedFromCache(kind, x)
  BY PassedIs
<1> QED BY <1>2, <1>3, <1>4 DEF Out, own, kind

LEMMA UseCacheHolds ==
    ASSUME IInv, phase = "walking", NEW p, p = Current, UseCache
    PROVE  IInv'
<1> DEFINE n == tree[p]
           x == Input(p)
           y == InputIn(tree, p)
           streams == n.own \cup PassedFromCache(n.kind, x)
<1>1. /\ tree \in Seq(Nodes) /\ IsForest(tree) /\ DOMAIN tree = 1..Len(tree) /\ Len(tree) \in Nat
      /\ Sound(tree, plotUpdates)
  BY InvSound
<1>2. /\ p \in DOMAIN tree /\ n.ok /\ MayUseCache(n) /\ PutOut(streams) /\ tree' = tree
      /\ put \in [DOMAIN tree -> SUBSET Streams]
  BY AtWork DEF UseCache
<1>3. n \in Nodes /\ n.kind \in Kinds /\ n.own \in SUBSET Streams BY <1>1, <1>2, TreeIs, NodeIs
<1>4. x \in SUBSET Streams /\ (NotedAbove(p) \/ RegionPending(p) \/ TakesNothing(p) \/ GivenRight(p))
  BY InputRight
<1>5. y \in SUBSET Streams /\ Recomputed(tree)[p] = Out(n, y) BY <1>1, <1>2, RecomputedIs
<1>6. put' = [put EXCEPT ![p] = streams] /\ plotUpdates' = plotUpdates /\ file' = file
  BY <1>2 DEF PutOut
<1>7. streams \in SUBSET Streams BY <1>3, <1>4, PassedIs
<1>8. \/ Noteworthy(p) \/ RegionPending(p)
      \/ n.own = Own(n, y) /\ (TakesNothing(p) \/ GivenRight(p))
  <2>1. p \in Branch(tree, p) BY <1>1, <1>2, NodeIs, AboveTwice
  <2>2. n.note # "plain" => Noteworthy(p) BY <2>1, <1>2 DEF Noteworthy, On
  <2>3. NotedAbove(p) => Noteworthy(p) BY DEF NotedAbove, Noteworthy, On, IsChild
  <2>4. plotUpdates /\ UnderRange(tree, p) => RegionPending(p) BY DEF UnderRange, RegionPending
  <2>5. GoodCaches(tree, plotUpdates) BY DEF IInv
  <2> QED BY <2>2, <2>3, <2>4, <2>5, <1>2, <1>4 DEF GoodCaches
<1>9. ASSUME n.own = Own(n, y), TakesNothing(p)
      PROVE  streams = Recomputed(tree)[p]
  <2> DEFINE a == Parent(tree, p)
  <2>1. /\ x = {} /\ tree[p].depth > 0 /\ tree[p].depth # 0
        /\ Emitted(tree)[a] \subseteq Block(n.kind)
    BY <1>1, <1>2, <1>9, TreeIs DEF TakesNothing
  <2>2. a \in DOMAIN tree BY <2>1, <1>1, <1>2, NodeIs, ParentIs
  <2>3. y = Recomputed(tree)[a] BY <2>1 DEF InputIn
  <2> HIDE DEF a, y
  <2>4. \A s \in y : s.type \in Block(n.kind) BY <2>1, <2>2, <2>3, <1>1, RecomputedTypes
  <2>5. Passed(n.kind, y) = {} BY <2>4, <1>5, PassedIs
  <2>6. PassedFromCache(n.kind, x) = {} BY <2>1 DEF PassedFromCache
  <2> QED BY <2>5, <2>6, <1>5, <1>9 DEF Out
<1>10. ASSUME n.own = Own(n, y), GivenRight(p)
       PROVE  /\ Ions(streams) = Ions(Recomputed(tree)[p])
              /\ RangeBelowRange(p) \/ streams = Recomputed(tree)[p]
  <2>1. Ions(x) = Ions(y) /\ (RangeBelowRange(p) \/ x = y) BY <1>10 DEF GivenRight
  <2> HIDE DEF x, y, n
  <2>2. Ions(streams) = Ions(Recomputed(tree)[p]) BY <2>1, <1>3, <1>4, <1>5, <1>10, OutputOf
  <2>3. ASSUME x = y, n.kind # "range" \/ \A s \in y : s.type # "range"
        PROVE  streams = Recomputed(tree)[p]
    BY <2>3, <1>3, <1>5, <1>10, OutputOf
  <2>4. ASSUME n.kind = "range", NEW s \in y, s.type = "range" PROVE RangeBelowRange(p)
    <3> DEFINE a == Parent(tree, p)
    <3>1. tree[p].depth # 0 /\ tree[p].depth > 0 /\ y = Recomputed(tree)[a]
      BY <2>4, <1>1, <1>2, TreeIs DEF y, InputIn
    <3>2. a \in DOMAIN tree /\ a < p /\ IsChild(tree, a, p) BY <3>1, <1>1, <1>2, NodeIs, ParentIs
    <3> HIDE DEF a
    <3>3. PICK q \in DOMAIN tree : tree[q].kind = "range" /\ a \in Branch(tree, q)
      BY <2>4, <3>1, <3>2, <1>1, RecomputedTypes
    <3>4. p \in Branch(tree, a) /\ q <= a BY <3>2, <3>3 DEF IsChild, Branch
    <3>5. p \in Branch(tree, q) BY <3>2, <3>3, <3>4, <1>1, <1>2, NodeIs, AboveTwice
    <3>6. IsChild(tree, q, p) BY <3>2, <3>4, <3>5, <1>1, <1>2 DEF IsChild
    <3>7. On(p, p) BY <1>1, <1>2, NodeIs, AboveTwice DEF On
    <3> QED BY <2>4, <3>3, <3>6, <3>7, <1>2 DEF RangeBelowRange, n
  <2> QED BY <2>1, <2>2, <2>3, <2>4
<1> HIDE DEF streams
<1>11. put'[p] = streams BY <1>2, <1>6
<1>12. RightAt(p)'
  <2>1. \/ Noteworthy(p) \/ RegionPending(p)
        \/ /\ Ions(streams) = Ions(Recomputed(tree)[p])
           /\ RangeBelowRange(p) \/ streams = Recomputed(tree)[p]
    BY <1>8, <1>9, <1>10
  <2>2. (Noteworthy(p)' <=> Noteworthy(p)) /\ (RangeBelowRange(p)' <=> RangeBelowRange(p))
    BY <1>2 DEF Noteworthy, RangeBelowRange, On
  <2>3. RegionPending(p)' <=> RegionPending(p) BY <1>2, <1>6 DEF RegionPending
  <2>4. Recomputed(tree)[p]' = Recomputed(tree)[p] BY <1>2
  <2> QED BY <2>1, <2>2, <2>3, <2>4, <1>11 DEF RightAt
<1>13. Progressed(tree, tree', p) BY <1>1, <1>2 DEF Progressed, SameShape, SameFilter
<1>14. ~moved => ~NeedsRefresh(tree'[p])
  <2> SUFFICES ASSUME ~moved, NeedsRefresh(tree[p]) PROVE FALSE BY <1>2
  <2>1. ~tree[p].ok
    <3>1. p \in Branch(tree, p) BY <1>1, <1>2, NodeIs, AboveTwice
    <3> QED BY <3>1, <1>2 DEF IInv, UnreadAhead
  <2> QED BY <2>1, <1>2
<1>15. Sound(tree', plotUpdates) BY <1>1, <1>2
<1> QED BY <1>2, <1>7, <1>12, <1>13, <1>14, <1>15, DoneHolds

-----------------------------------------------------------------------------
(* A filter computes.                                                       *)

\* The tree as it is found: a data source has read its file, and no cache below
\* it is of an older version unless it is noted.
LEMMA ComputingIs ==
    ASSUME IInv, phase = "walking", NEW p, p = Current,
           ~(tree[p].ok /\ MayUseCache(tree[p])), NEW v, v = Computing
    PROVE  /\ Progressed(tree, v, p) /\ Sound(v, plotUpdates)
           /\ v[p].kind = tree[p].kind /\ ~NeedsRefresh(v[p])
           /\ InputIn(v, p) = InputIn(tree, p)
<1>1. /\ tree \in Seq(Nodes) /\ IsForest(tree) /\ DOMAIN tree = 1..Len(tree) /\ Len(tree) \in Nat
      /\ Sound(tree, plotUpdates) /\ plotUpdates \in BOOLEAN /\ file \in Files
      /\ \A q \in DOMAIN tree : CacheIs(tree[q])
  BY InvSound DEF Sound
<1>2. p \in DOMAIN tree /\ p \in Branch(tree, p) BY <1>1, AtWork, NodeIs, AboveTwice
<1>3. tree[p] \in Nodes BY <1>1, <1>2, TreeIs
<1>4. CASE tree[p].kind # "data"
  <2>1. v = tree BY <1>4 DEF Computing
  <2>2. Progressed(tree, v, p) BY <2>1, <1>1 DEF Progressed, SameShape, SameFilter
  <2> QED BY <2>1, <2>2, <1>1, <1>4 DEF NeedsRefresh
<1>5. CASE tree[p].kind = "data"
  <2> DEFINE n == [Cleared(tree[p]) EXCEPT !.loaded = file]
             late == tree[p].loaded # file /\ moved
             G == IF tree[p].loaded = file THEN DOMAIN tree ELSE DOMAIN tree \ Branch(tree, p)
  <2>1. v = [q \in DOMAIN tree |->
                IF q = p THEN n
                ELSE IF q \in Branch(tree, p) /\ tree[q].ok /\ late
                     THEN [tree[q] EXCEPT !.note = "raced"] ELSE tree[q]]
    BY <1>5 DEF Computing, Loading
  <2>2. /\ n \in Nodes /\ CacheIs(n) /\ ~n.ok /\ n.loaded = file /\ n.kind = "data"
        /\ n.depth = tree[p].depth /\ n.setting = tree[p].setting
    <3>1. /\ Cleared(tree[p]) \in Nodes /\ CacheIs(Cleared(tree[p])) /\ ~Cleared(tree[p]).ok
          /\ SameFilter(Cleared(tree[p]), tree[p])
      BY <1>3, ClearedIs
    <3>2. file \in Versions BY <1>1 DEF Versions
    <3> QED BY <3>1, <3>2, <1>5 DEF Nodes, CacheIs, SameFilter
  <2>3. ASSUME NEW m \in Nodes, CacheIs(m), m.ok
        PROVE  LET r == [m EXCEPT !.note = "raced"]
               IN  /\ r \in Nodes /\ CacheIs(r) /\ SameFilter(r, m)
                   /\ r.ok = m.ok /\ r.own = m.own /\ r.note = "raced"
    BY <2>3 DEF Nodes, CacheIs, SameFilter
  <2> HIDE DEF n, late
  <2>4. /\ v[p] = n /\ DOMAIN v = DOMAIN tree
        /\ \A q \in DOMAIN tree : q # p =>
              IF q \in Branch(tree, p) /\ tree[q].ok /\ late
              THEN v[q] = [tree[q] EXCEPT !.note = "raced"] ELSE v[q] = tree[q]
    BY <2>1, <1>2
  <2>5. ASSUME NEW q \in DOMAIN tree, q # p
        PROVE  /\ v[q] \in Nodes /\ CacheIs(v[q]) /\ SameFilter(v[q], tree[q])
               /\ v[q].ok = tree[q].ok /\ v[q].own = tree[q].own
               /\ v[q] = tree[q] \/ v[q].note = "raced"
               /\ q \in Branch(tree, p) /\ tree[q].ok /\ late => v[q].note = "raced"
    <3>1. tree[q] \in Nodes /\ CacheIs(tree[q]) BY <1>1, TreeIs
    <3>2. CASE q \in Branch(tree, p) /\ tree[q].ok /\ late
      <4> DEFINE m == tree[q]
      <4>1. v[q] = [m EXCEPT !.note = "raced"] BY <3>2, <2>4, <2>5
      <4> HIDE DEF m
      <4>2. m \in Nodes /\ CacheIs(m) /\ m.ok BY <3>1, <3>2 DEF m
      <4> QED BY <4>1, <4>2, <2>3 DEF m
    <3>3. CASE ~(q \in Branch(tree, p) /\ tree[q].ok /\ late)
      <4>1. v[q] = tree[q] BY <3>3, <2>4, <2>5
      <4> QED BY <4>1, <3>1, <3>3 DEF SameFilter
    <3> QED BY <3>2, <3>3
  <2>6. v \in Seq(Nodes) /\ Len(v) = Len(tree)
    <3>1. \A q \in 1..Len(tree) : v[q] \in Nodes BY <2>2, <2>4, <2>5, <1>1
    <3>2. v = [q \in 1..Len(tree) |-> v[q]] BY <2>1, <1>1
    <3> QED BY <3>1, <3>2, <1>1
  <2>7. SameShape(tree, v)
    <3>1. \A q \in DOMAIN tree : v[q].depth = tree[q].depth BY <2>2, <2>4, <2>5 DEF SameFilter
    <3> QED BY <3>1, <2>4, <2>6 DEF SameShape
  <2>8. Progressed(tree, v, p)
    <3>1. \A q \in DOMAIN tree : v[q].kind = tree[q].kind
      BY <2>2, <2>4, <2>5, <1>5 DEF SameFilter
    <3> QED BY <3>1, <2>5, <2>6, <2>7 DEF Progressed
  <2>9. \A q \in DOMAIN tree : CacheIs(v[q]) BY <2>2, <2>4, <2>5
  <2>10. G \in SUBSET DOMAIN tree /\ SameAt(tree, v, G)
    <3>1. CASE tree[p].loaded = file
      <4>1. SameFilter(v[p], tree[p]) BY <3>1, <2>2, <2>4, <1>5 DEF SameFilter
      <4> QED BY <4>1, <3>1, <2>5 DEF SameAt
    <3>2. CASE tree[p].loaded # file
      <4>1. \A x \in G : SameFilter(v[x], tree[x]) BY <3>2, <2>5, <1>2
      <4>2. \A x \in G : \A a \in DOMAIN tree : IsChild(tree, a, x) => a \in G
        BY <3>2, <1>1, <1>2, OutsideBranch
      <4> QED BY <4>1, <4>2, <3>2 DEF SameAt
    <3> QED BY <3>1, <3>2
  <2>11. ASSUME NEW x \in DOMAIN tree, v[x].ok, v[x].note = "plain"
         PROVE  x \in G /\ v[x] = tree[x]
    <3>1. x # p /\ v[x] = tree[x] /\ tree[x].ok BY <2>2, <2>4, <2>5, <2>11
    <3>2. CASE x \in Branch(tree, p) /\ tree[p].loaded # file
      <4>1. ~late BY <3>1, <3>2, <2>5, <2>11
      <4>2. ~moved /\ NeedsRefresh(tree[p]) BY <4>1, <3>2, <1>5 DEF late, NeedsRefresh
      <4>3. ~tree[x].ok BY <4>2, <3>2, <1>2 DEF IInv, UnreadAhead
      <4> QED BY <3>1, <4>3
    <3>3. CASE ~(x \in Branch(tree, p) /\ tree[p].loaded # file) BY <3>1, <3>3
    <3> QED BY <3>2, <3>3
  <2> HIDE DEF G
  <2>12. CachesStay(tree, plotUpdates, v, plotUpdates, G)
    <3> SUFFICES ASSUME NEW x \in DOMAIN tree, v[x].ok, v[x].note = "plain",
                        ~(plotUpdates /\ UnderRange(v, x))
                 PROVE  /\ x \in G /\ tree[x].ok /\ tree[x].note = "plain" /\ v[x].own = tree[x].own
                        /\ plotUpdates /\ UnderRange(tree, x) => plotUpdates
      BY DEF CachesStay
    <3> QED BY <2>11
  <2>13. Sound(v, plotUpdates) BY <2>6, <2>7, <2>9, <2>10, <2>12, <1>1, SoundInPlace
  <2>14. InputIn(v, p) = InputIn(tree, p)
    <3>1. CASE tree[p].depth = 0 BY <3>1, <2>2, <2>4 DEF InputIn
    <3>2. CASE tree[p].depth # 0
      <4> DEFINE a == Parent(tree, p)
                 H == DOMAIN tree \ Branch(tree, p)
      <4>1. tree[p].depth > 0 BY <3>2, <1>1, <1>2, TreeIs
      <4>2. a \in DOMAIN tree /\ a < p BY <4>1, <1>1, <1>2, NodeIs, ParentIs
      <4>3. Parent(v, p) = a BY <4>1, <2>6, <2>7, <1>1, <1>2, SameParent
      <4> HIDE DEF a
      <4>4. a \in H BY <4>2, <1>1, <1>2 DEF Branch
      <4>5. SameAt(tree, v, H)
        <5>1. \A x \in H : SameFilter(v[x], tree[x]) BY <2>5, <1>2
        <5>2. \A x \in H : \A b \in DOMAIN tree : IsChild(tree, b, x) => b \in H
          BY <1>1, <1>2, OutsideBranch
        <5> QED BY <5>1, <5>2 DEF SameAt
      <4>6. H \in SUBSET DOMAIN tree OBVIOUS
      <4> HIDE DEF H
      <4>7. Recomputed(v)[a] = Recomputed(tree)[a]
        BY <4>4, <4>5, <4>6, <2>6, <2>7, <1>1, KeptInPlace
      <4>8. v[p].depth # 0 BY <3>2, <2>2, <2>4
      <4> QED BY <3>2, <4>3, <4>7, <4>8 DEF InputIn, a
    <3> QED BY <3>1, <3>2
  <2>15. v[p].kind = tree[p].kind /\ ~NeedsRefresh(v[p]) BY <2>2, <2>4, <1>5 DEF NeedsRefresh
  <2> QED BY <2>8, <2>13, <2>14, <2>15
<1> QED BY <1>4, <1>5

\* A cache is filled: rightly, or with a note, or below a range that was dragged.
WithCache(t, u, p, own, note) == u = [t EXCEPT ![p] = Filled(t[p], own, note)]
MayHold(t, updates, p, own, note) ==
    \/ note # "plain"
    \/ updates /\ UnderRange(t, p)
    \/ own = Own(t[p], InputIn(t, p))

LEMMA FilledSound ==
    ASSUME NEW t, NEW updates \in BOOLEAN, Sound(t, updates), NEW p \in DOMAIN t,
           NEW own \in SUBSET Streams, own # {},
           NEW note \in {"plain", "aborted", "raced", "inherited"},
           MayHold(t, updates, p, own, note), NEW u, WithCache(t, u, p, own, note)
    PROVE  /\ Sound(u, updates) /\ SameShape(t, u)
           /\ \A q \in DOMAIN t : SameFilter(u[q], t[q]) /\ (q # p => u[q] = t[q])
           /\ InputIn(u, p) = InputIn(t, p)
<1> DEFINE n == Filled(t[p], own, note)
           G == DOMAIN t
<1>1. /\ t \in Seq(Nodes) /\ IsForest(t) /\ DOMAIN t = 1..Len(t) /\ Len(t) \in Nat
      /\ \A q \in DOMAIN t : CacheIs(t[q]) /\ t[q] \in Nodes
      /\ Sound(t, updates) /\ updates \in BOOLEAN
  BY TreeIs DEF Sound
<1>2. /\ n \in Nodes /\ CacheIs(n) /\ SameFilter(n, t[p]) /\ n.own = own /\ n.note = note
  <2> DEFINE m == t[p]
  <2>1. m \in Nodes BY <1>1
  <2> HIDE DEF m
  <2>2. /\ Filled(m, own, note) \in Nodes /\ CacheIs(Filled(m, own, note))
        /\ SameFilter(Filled(m, own, note), m)
        /\ Filled(m, own, note).own = own /\ Filled(m, own, note).note = note
    BY <2>1 DEF Filled, Nodes, CacheIs, SameFilter
  <2> QED BY <2>2 DEF m
<1> HIDE DEF n
<1>3. /\ u \in Seq(Nodes) /\ Len(u) = Len(t) /\ DOMAIN u = DOMAIN t /\ u[p] = n
      /\ \A q \in DOMAIN t : q # p => u[q] = t[q]
  BY <1>1, <1>2 DEF n, WithCache
<1>4. SameShape(t, u) BY <1>1, <1>2, <1>3 DEF SameShape, SameFilter
<1>5. \A q \in DOMAIN t : SameFilter(u[q], t[q]) /\ CacheIs(u[q])
  BY <1>1, <1>2, <1>3 DEF SameFilter
<1>6. SameAt(t, u, G) /\ G \in SUBSET DOMAIN t BY <1>5 DEF SameAt
<1>7. \A q \in DOMAIN t : InputIn(u, q) = InputIn(t, q)
  <2> HIDE DEF G
  <2>1. /\ Kept(t, u, [x \in G |-> x])
        /\ \A x \in G : /\ InputIn(u, x) = InputIn(t, x)
                        /\ Recomputed(u)[x] = Recomputed(t)[x]
    BY ONLY <1>1, <1>3, <1>4, <1>6, KeptInPlace
  <2> QED BY <2>1 DEF G
<1>8. Own(u[p], InputIn(u, p)) = Own(t[p], InputIn(t, p))
  <2> DEFINE m == t[p]
             x == InputIn(t, p)
  <2>1. m \in Nodes /\ SameFilter(n, m) /\ InputIn(u, p) = x BY <1>1, <1>2, <1>7
  <2> HIDE DEF m, x
  <2>2. n.kind \in Kinds /\ n.kind = m.kind /\ n.setting = m.setting /\ n.loaded = m.loaded
    BY <2>1, NodeIs DEF SameFilter
  <2>3. Own(n, x) = Own(m, x) BY <2>2, OwnOfIons
  <2> QED BY <2>1, <2>3, <1>3 DEF m, x
<1>9. \A q \in DOMAIN t : UnderRange(u, q) <=> UnderRange(t, q)
  BY <1>1, <1>3, <1>4, <1>5, SameUnder DEF SameFilter
<1>10. CachesStay(t, updates, u, updates, G)
  <2> SUFFICES ASSUME NEW q \in DOMAIN t, u[q].ok, u[q].note = "plain",
                      ~(updates /\ UnderRange(u, q))
               PROVE  \/ q \in G /\ t[q].ok /\ t[q].note = "plain" /\ u[q].own = t[q].own
                      \/ u[q].own = Own(u[q], InputIn(u, q))
    BY DEF CachesStay
  <2>1. CASE q = p BY <2>1, <1>2, <1>3, <1>8, <1>9 DEF MayHold
  <2>2. CASE q # p BY <2>2, <1>3
  <2> QED BY <2>1, <2>2
<1> HIDE DEF G
<1>11. Sound(u, updates)
  <2>1. \A q \in DOMAIN t : CacheIs(u[q]) BY <1>5
  <2> QED BY ONLY <2>1, <1>1, <1>3, <1>4, <1>6, <1>10, SoundInPlace
<1> QED BY <1>3, <1>4, <1>5, <1>7, <1>11

LEMMA ComputeHolds ==
    ASSUME IInv, phase = "walking", NEW p, p = Current, NEW caching \in BOOLEAN, Compute(caching)
    PROVE  IInv'
<1> DEFINE v == Computing
           x == Input(p)
           y == InputIn(tree, p)
           own == Own(v[p], x)
           note == Inherited(p)
           streams == own \cup Passed(tree[p].kind, x)
<1>1. /\ tree \in Seq(Nodes) /\ IsForest(tree) /\ DOMAIN tree = 1..Len(tree)
      /\ plotUpdates \in BOOLEAN
  BY InvSound
<1>2. p \in DOMAIN tree /\ put \in [DOMAIN tree -> SUBSET Streams] BY AtWork
<1>3. /\ ~(tree[p].ok /\ MayUseCache(tree[p]))
      /\ PutOut(streams)
      /\ tree' = IF Keeps(tree[p], caching) /\ own # {}
                 THEN [v EXCEPT ![p] = Filled(v[p], own, note)] ELSE v
  BY DEF Compute
<1>4. put' = [put EXCEPT ![p] = streams] /\ plotUpdates' = plotUpdates /\ file' = file
  BY <1>3 DEF PutOut
<1> HIDE DEF v
<1>5. /\ Progressed(tree, v, p) /\ Sound(v, plotUpdates)
      /\ v[p].kind = tree[p].kind /\ ~NeedsRefresh(v[p])
      /\ InputIn(v, p) = y
  BY <1>3, ComputingIs DEF v
<1>6. /\ v \in Seq(Nodes) /\ IsForest(v) /\ SameShape(tree, v) /\ DOMAIN v = DOMAIN tree
      /\ \A q \in DOMAIN tree : v[q].kind = tree[q].kind
  BY <1>5 DEF Progressed, Sound, SameShape
<1>7. v[p] \in Nodes /\ v[p].kind \in Kinds BY <1>2, <1>6, TreeIs, NodeIs
<1>8. x \in SUBSET Streams /\ (NotedAbove(p) \/ RegionPending(p) \/ GivenRight(p))
  <2>1. ~TakesNothing(p) BY <1>3 DEF TakesNothing, MayUseCache
  <2> QED BY <2>1, InputRight
<1>9. y \in SUBSET Streams BY <1>1, <1>2, RecomputedIs
<1>10. own \in SUBSET Streams
  <2> HIDE DEF x
  <2> QED BY <1>7, <1>8, OwnIs
<1>11. streams \in SUBSET Streams
  <2> HIDE DEF own, x
  <2> QED BY <1>8, <1>10, PassedIs
<1>12. \/ note = "inherited" /\ NotedAbove(p)
       \/ note = "plain" /\ ~NotedAbove(p)
  BY DEF Inherited, NotedAbove
<1>13. RegionPending(p) <=> plotUpdates /\ UnderRange(v, p)
  <2>1. UnderRange(v, p) <=> UnderRange(tree, p) BY <1>1, <1>2, <1>6, SameUnder
  <2> QED BY <2>1 DEF RegionPending, UnderRange
<1> HIDE DEF note, y
<1>14. GivenRight(p) => own = Own(v[p], y)
  <2>1. GivenRight(p) => Ions(x) = Ions(y) BY DEF GivenRight, y
  <2> HIDE DEF x
  <2> QED BY <2>1, <1>7, <1>8, <1>9, OutputOf
<1> HIDE DEF own
<1>15. /\ Sound(tree', plotUpdates) /\ SameShape(v, tree') /\ InputIn(tree', p) = y
       /\ \A q \in DOMAIN v : SameFilter(tree'[q], v[q]) /\ (q # p => tree'[q] = v[q])
  <2>1. CASE ~(Keeps(tree[p], caching) /\ own # {})
    BY <2>1, <1>3, <1>5, <1>6 DEF SameShape, SameFilter
  <2>2. CASE Keeps(tree[p], caching) /\ own # {}
    <3>1. tree' = [v EXCEPT ![p] = Filled(v[p], own, note)] BY <2>2, <1>3
    <3>2. MayHold(v, plotUpdates, p, own, note)
      BY <1>5, <1>8, <1>12, <1>13, <1>14 DEF MayHold
    <3>3. note \in {"plain", "aborted", "raced", "inherited"} BY <1>12
    <3>4. p \in DOMAIN v BY <1>2, <1>6
    <3> DEFINE u == tree'
    <3> HIDE DEF u
    <3>5. WithCache(v, u, p, own, note) BY <3>1 DEF u, WithCache
    <3>6. own # {} BY <2>2
    <3>7. /\ Sound(u, plotUpdates) /\ SameShape(v, u) /\ InputIn(u, p) = InputIn(v, p)
          /\ \A q \in DOMAIN v : SameFilter(u[q], v[q]) /\ (q # p => u[q] = v[q])
      BY ONLY <3>2, <3>3, <3>4, <3>5, <3>6, <1>1, <1>5, <1>10, FilledSound
    <3> QED BY <3>7, <1>5 DEF u
  <2> QED BY <2>1, <2>2
<1>16. tree' \in Seq(Nodes) /\ IsForest(tree') /\ DOMAIN tree' = DOMAIN tree
  BY <1>6, <1>15 DEF Sound, SameShape
<1>17. Progressed(tree, tree', p)
  BY <1>5, <1>6, <1>15, <1>16 DEF Progressed, SameShape, SameFilter
<1>18. ~NeedsRefresh(tree'[p]) BY <1>2, <1>5, <1>6, <1>15 DEF NeedsRefresh, SameFilter
<1>19. put'[p] = streams BY <1>2, <1>4
<1>20. /\ DOMAIN tree' = DOMAIN tree
       /\ \A q \in DOMAIN tree : tree'[q].kind = tree[q].kind
       /\ \A q \in DOMAIN tree : Branch(tree', q) = Branch(tree, q)
       /\ \A q \in DOMAIN tree : \A a : IsChild(tree', q, a) <=> IsChild(tree, q, a)
  <2>1. SameShape(tree, tree') /\ \A q \in DOMAIN tree : tree'[q].kind = tree[q].kind
    BY <1>17 DEF Progressed
  <2> QED BY <2>1, <1>1, <1>16, NodeIs, SameShapes
<1>21. RightAt(p)'
  <2>1. CASE NotedAbove(p)
    <3>1. PICK q \in DOMAIN tree : IsChild(tree, q, p) /\ tree[q].note # "plain"
      BY <2>1 DEF NotedAbove
    <3>2. q # p /\ p \in Branch(tree, q) BY <3>1 DEF IsChild
    <3>3. tree'[q].note # "plain" BY <3>1, <3>2, <1>17 DEF Progressed
    <3> QED BY <3>1, <3>2, <3>3, <1>20 DEF RightAt, Noteworthy, On
  <2>2. CASE RegionPending(p)
    <3>1. RegionPending(p)' BY <2>2, <1>4, <1>20 DEF RegionPending
    <3> QED BY <3>1 DEF RightAt
  <2>3. CASE GivenRight(p)
    <3> DEFINE m == v[p]
               n == tree'[p]
               kind == tree[p].kind
    <3>1. Ions(x) = Ions(y) /\ (RangeBelowRange(p) \/ x = y) BY <2>3 DEF GivenRight, y
    <3>2. n \in Nodes /\ SameFilter(n, m) /\ m.kind = kind BY <1>2, <1>5, <1>6, <1>15, <1>16, TreeIs
    <3>3. Recomputed(tree')[p] = Out(n, y)
      <4>1. \A q \in DOMAIN tree' : Recomputed(tree')[q] = Out(tree'[q], InputIn(tree', q))
        BY <1>16, RecomputedIs
      <4> QED BY <4>1, <1>2, <1>15, <1>16
    <3>4. own = Own(m, y) BY <2>3, <1>14
    <3>5. m \in Nodes BY <1>7
    <3> HIDE DEF m, n, kind, x
    <3>6. Own(n, y) = Own(m, y) BY <3>2, <3>5, NodeIs, OwnOfIons DEF SameFilter
    <3>7. Out(n, y) = Out(m, y) BY <3>2, <3>6 DEF Out, SameFilter
    <3>8. Own(m, x) = Own(m, y) /\ Ions(Out(m, x)) = Ions(Out(m, y))
      BY <3>1, <3>5, <1>8, <1>9, OutputOf
    <3>9. streams = Out(m, x) BY <3>2, <3>4, <3>8 DEF Out, kind
    <3>10. Ions(streams) = Ions(Recomputed(tree')[p]) BY <3>3, <3>7, <3>8, <3>9
    <3>11. x = y => streams = Recomputed(tree')[p] BY <3>3, <3>7, <3>9
    <3>12. RangeBelowRange(p) => RangeBelowRange(p)' BY <1>20 DEF RangeBelowRange, On
    <3> HIDE DEF streams
    <3> QED BY <3>1, <3>10, <3>11, <3>12, <1>19 DEF RightAt
  <2> QED BY <2>1, <2>2, <2>3, <1>8
<1> HIDE DEF streams
<1> QED BY <1>3, <1>11, <1>15, <1>17, <1>18, <1>21, DoneHolds

LEMMA AbortedRefreshHolds ==
    ASSUME IInv, phase = "walking", NEW p, p = Current, NEW caching \in BOOLEAN,
           AbortedRefresh(caching)
    PROVE  IInv'
<1> DEFINE v == Computing
           x == Input(p)
           own == Own(v[p], x)
<1>1. plotUpdates \in BOOLEAN /\ file \in Files BY InvSound
<1>2. p \in DOMAIN tree BY AtWork
<1>3. /\ ~(tree[p].ok /\ MayUseCache(tree[p]))
      /\ \/ tree' = v
         \/ \E some \in (SUBSET own) \ {{}, own} :
               tree' = [v EXCEPT ![p] = Filled(v[p], some, "aborted")]
      /\ phase' = "idle" /\ starts' = {} /\ todo' = <<>> /\ put' = <<>> /\ moved' = FALSE
      /\ file' = file /\ plotUpdates' = plotUpdates
  BY DEF AbortedRefresh
<1> HIDE DEF v
<1>4. Sound(v, plotUpdates) /\ Progressed(tree, v, p) BY <1>3, ComputingIs DEF v
<1>5. v \in Seq(Nodes) /\ p \in DOMAIN v /\ v[p] \in Nodes
  <2>1. v \in Seq(Nodes) /\ p \in DOMAIN v BY <1>2, <1>4 DEF Progressed, SameShape
  <2> QED BY <2>1, TreeIs
<1>6. own \in SUBSET Streams
  <2>1. x \in SUBSET Streams BY InputRight
  <2> HIDE DEF x
  <2> QED BY <2>1, <1>5, OwnIs
<1> HIDE DEF own
<1>7. Sound(tree', plotUpdates)
  <2>1. CASE tree' = v BY <2>1, <1>4
  <2>2. ASSUME NEW some \in (SUBSET own) \ {{}, own},
               tree' = [v EXCEPT ![p] = Filled(v[p], some, "aborted")]
        PROVE  Sound(tree', plotUpdates)
    <3> DEFINE u == tree'
    <3>1. WithCache(v, u, p, some, "aborted") BY <2>2 DEF WithCache
    <3>2. some \in SUBSET Streams /\ some # {} BY <1>6
    <3>3. /\ "aborted" \in {"plain", "aborted", "raced", "inherited"} 
          /\ MayHold(v, plotUpdates, p, some, "aborted")
      BY DEF MayHold
    <3> HIDE DEF u
    <3>4. Sound(u, plotUpdates) BY ONLY <3>1, <3>2, <3>3, <1>1, <1>4, <1>5, FilledSound
    <3> QED BY <3>4 DEF u
  <2> QED BY <2>1, <2>2, <1>3
<1>8. Resting' BY <1>1, <1>3, <1>7 DEF Resting
<1> QED BY <1>8, AtRest, PTL

-----------------------------------------------------------------------------
(* Always.                                                                  *)

LEMMA NextHolds == IInv /\ [Next]_vars => IInv'
<1> SUFFICES ASSUME IInv, [Next]_vars PROVE IInv'
  OBVIOUS
<1>1. CASE EditFilters
  <2>1. plotUpdates' = plotUpdates BY <1>1 DEF EditFilters
  <2>2. ASSUME NEW p \in DOMAIN tree, NEW kind \in NewKinds, AddFilter(p, kind) PROVE IInv'
    BY <2>1, <2>2, AddFilterHolds
  <2>3. ASSUME NEW p \in DOMAIN tree, NEW setting \in Settings, SetProperty(p, setting) PROVE IInv'
    BY <2>1, <2>3, SetPropertyHolds
  <2>4. ASSUME NEW p \in DOMAIN tree, Remove(p) PROVE IInv'
    BY <2>1, <2>4, RemoveHolds
  <2>5. ASSUME NEW p \in DOMAIN tree, NEW to \in DOMAIN tree, Move(p, to) PROVE IInv'
    BY <2>1, <2>5, MoveHolds
  <2>6. CASE SwapIn BY <2>1, <2>6, SwapInHolds
  <2> QED BY <2>2, <2>3, <2>4, <2>5, <2>6, <1>1 DEF EditFilters
<1>2. ASSUME NEW p \in DOMAIN tree, NEW setting \in Settings, DragRegion(p, setting) PROVE IInv'
  BY <1>2, DragRegionHolds
<1>3. CASE ClearRanges BY <1>3, ClearRangesHolds
<1>4. CASE FileChanges BY <1>4, FileChangesHolds
<1>5. CASE StartRefresh BY <1>5, StartRefreshHolds
<1>6. CASE RefreshFilter
  <2>1. PICK p : p = Current OBVIOUS
  <2>2. phase = "walking" BY <1>6 DEF RefreshFilter
  <2>3. CASE UseCache BY <2>1, <2>2, <2>3, UseCacheHolds
  <2>4. ASSUME NEW caching \in BOOLEAN, Compute(caching) PROVE IInv'
    BY <2>1, <2>2, <2>4, ComputeHolds
  <2>5. ASSUME NEW caching \in BOOLEAN, AbortedRefresh(caching) PROVE IInv'
    BY <2>1, <2>2, <2>5, AbortedRefreshHolds
  <2> QED BY <2>3, <2>4, <2>5, <1>6 DEF RefreshFilter
<1>7. CASE AbortAfterFilter BY <1>7, AbortAfterFilterHolds
<1>8. CASE UNCHANGED vars
  <2>1. /\ tree' = tree /\ file' = file /\ phase' = phase /\ starts' = starts /\ todo' = todo
        /\ put' = put /\ plotUpdates' = plotUpdates /\ moved' = moved
    BY <1>8 DEF vars
  <2>2. TypeOK' BY <2>1 DEF IInv, TypeOK
  <2>3. GoodCaches(tree, plotUpdates)' BY <2>1 DEF IInv
  <2>4. Left' = Left /\ Refreshed' = Refreshed BY <2>1 DEF Left, Refreshed
  <2>5. Ordered' BY <2>1, <2>4 DEF IInv, Ordered
  <2>6. StartsHold' BY <2>1, <2>4 DEF IInv, StartsHold, On
  <2>7. PutRight'
    BY <2>1, <2>4 DEF IInv, PutRight, Noteworthy, RegionPending, RangeBelowRange, On
  <2>8. UnreadAhead' BY <2>1, <2>4 DEF IInv, UnreadAhead, NeedsRefresh
  <2> QED BY <2>2, <2>3, <2>5, <2>6, <2>7, <2>8 DEF IInv
<1> QED BY <1>1, <1>2, <1>3, <1>4, <1>5, <1>6, <1>7, <1>8 DEF Next

LEMMA Always == Spec => []IInv
<1>1. Init => IInv BY InitHolds
<1> QED BY <1>1, NextHolds, PTL DEF Spec

\* Of every tree, whatever was edited, dragged, written to the file, refreshed
\* and aborted before: a cache that counts as valid holds what its filter would
\* make of the filters above it as they are now, but for the deviations that are
\* noted (cacheOK and filterOutputs, of all filters).
THEOREM ValidCachesAreRight == Spec => []CachesRight
<1>1. IInv => CachesRight
  <2> SUFFICES ASSUME IInv PROVE CachesRight OBVIOUS
  <2>1. TypeOK /\ GoodCaches(tree, plotUpdates) BY DEF IInv
  <2>2. ASSUME NEW p \in DOMAIN tree
        PROVE  tree[p].note # "plain" \/ RegionPending(p) \/ RightCache(p)
    <3>1. plotUpdates /\ UnderRange(tree, p) => RegionPending(p)
      BY DEF UnderRange, RegionPending
    <3>2. tree[p].own = Own(tree[p], InputIn(tree, p)) => RightCache(p)
      BY DEF InputIn, RightCache
    <3> QED BY <2>1, <3>1, <3>2 DEF GoodCaches, RightCache
  <2> QED BY <2>1, <2>2 DEF CachesRight
<1> QED BY <1>1, Always, PTL

\* Of every tree: a refresh that starts where getFilterRefreshStarts says puts
\* out for every leaf what a refresh of the whole tree would, with the same
\* deviations, and but for range filters that are below one another.
THEOREM RefreshPutsOutRight == Spec => []OutputRight
<1>1. IInv => OutputRight
  <2> SUFFICES ASSUME IInv, phase = "done", NEW p \in DOMAIN tree, Leaf(tree, p)
               PROVE  \/ Noteworthy(p) \/ RangeBelowRange(p) \/ RegionPending(p)
                      \/ put[p] = Recomputed(tree)[p]
    BY DEF OutputRight
  <2>1. todo = <<>> BY DEF IInv, TypeOK
  <2>2. Left = {} BY <2>1 DEF Left
  <2>3. PICK s \in starts : p \in Branch(tree, s) BY DEF IInv, StartsHold, On
  <2>4. p \in Refreshed BY <2>2, <2>3 DEF Refreshed, Walk
  <2> QED BY <2>4 DEF IInv, PutRight
<1> QED BY <1>1, Always, PTL

\* Of every tree, however much of it is cached: a refresh comes to each leaf, and
\* from one start only (getFilterRefreshStarts).
THEOREM EveryLeafOnce == Spec => []StartsCoverLeaves
<1>1. IInv => StartsCoverLeaves
  <2> SUFFICES ASSUME IInv, phase = "walking" PROVE StartsCoverLeaves
    BY DEF StartsCoverLeaves
  <2>1. /\ tree \in Seq(Nodes) /\ DOMAIN tree = 1..Len(tree) /\ Len(tree) \in Nat
        /\ starts \subseteq DOMAIN tree
    BY InvSound DEF IInv, TypeOK
  <2>2. \A s, r \in starts : ~IsChild(tree, s, r) BY DEF IInv, StartsHold
  <2>3. ASSUME NEW p \in DOMAIN tree, Leaf(tree, p)
        PROVE  Cardinality({s \in starts : On(p, s)}) = 1
    <3>1. PICK s \in starts : p \in Branch(tree, s) BY <2>3 DEF IInv, StartsHold, On
    <3>2. ASSUME NEW r \in starts, p \in Branch(tree, r), r # s PROVE FALSE
      <4>1. r \in Nat /\ s \in Nat /\ r \in DOMAIN tree /\ s \in DOMAIN tree BY <2>1
      <4>2. CASE r <= s
        <5>1. s \in Branch(tree, r) BY <4>1, <4>2, <3>1, <3>2, <2>1, <2>3, NodeIs, AboveTwice
        <5> QED BY <5>1, <4>1, <3>2, <2>2 DEF IsChild
      <4>3. CASE s <= r
        <5>1. r \in Branch(tree, s) BY <4>1, <4>3, <3>1, <3>2, <2>1, <2>3, NodeIs, AboveTwice
        <5> QED BY <5>1, <4>1, <3>2, <2>2 DEF IsChild
      <4> QED BY <4>1, <4>2, <4>3
    <3>3. {r \in starts : On(p, r)} = {s} BY <3>1, <3>2 DEF On
    <3> QED BY <3>3, FS_Singleton
  <2> QED BY <2>2, <2>3 DEF StartsCoverLeaves
<1> QED BY <1>1, Always, PTL
=============================================================================
