----------------------------- MODULE Containers -----------------------------
(***************************************************************************)
(* The containers that the program keeps its state in, and what their      *)
(* operations do.                                                          *)
(*                                                                         *)
(* A FilterTree holds its filters in a tree.hh tree with any number of     *)
(* root ("base") filters.  The forest is represented here by its pre-order *)
(* traversal: a sequence of nodes that carry their depth.  Every operation *)
(* of FilterTree walks the tree in that order, recognises the end of a     *)
(* branch by the depth falling back ("Do not traverse siblings"), and      *)
(* upWxTreeCtrl numbers the filters in that order.  The operators are      *)
(* those of tree.hh that FilterTree calls.  A node is a record with a      *)
(* field depth; what else it carries is the caller's.                      *)
(*                                                                         *)
(* Of a vector often only the elements at some positions are kept.         *)
(***************************************************************************)
EXTENDS Integers, Sequences, FiniteSetTheorems, WellFoundedInduction, TLAPS

\* The positions of the branch at p: p, and what follows it down to the first
\* node that is not deeper than p.
Branch(t, p) ==
    {q \in p..Len(t) : \A k \in (p+1)..q : t[k].depth > t[p].depth}

\* The last position of the branch at p (a branch is contiguous).
BranchEnd(t, p) == (p + Cardinality(Branch(t, p))) - 1

SubTree(t, p) == SubSeq(t, p, BranchEnd(t, p))

\* FilterTree::isChild(treeInst, testParent, testChild): climbing from
\* testChild meets testParent.
IsChild(t, parent, child) == child # parent /\ child \in Branch(t, parent)

\* The same branch hung at another depth.
AtDepth(s, d) ==
    [i \in 1..Len(s) |->
        [s[i] EXCEPT !.depth = (s[i].depth + d) - s[1].depth]]

InsertAfter(t, p, s) == SubSeq(t, 1, p) \o s \o SubSeq(t, p+1, Len(t))

\* tree::append_child: the last child of the node at p.
AppendChild(t, p, s) ==
    InsertAfter(t, BranchEnd(t, p), AtDepth(s, t[p].depth + 1))

\* tree::insert into an empty tree, else tree::insert_after(begin): the
\* sibling that follows the first base filter.
InsertBase(t, s) ==
    IF t = <<>> THEN AtDepth(s, 0)
                ELSE InsertAfter(t, BranchEnd(t, 1), AtDepth(s, 0))

\* Mutant of EraseBranch: the node's children are left behind.
EraseBranch_NodeOnly(t, p) == SubSeq(t, 1, p-1) \o SubSeq(t, p + 1, Len(t))

\* tree::erase of a node and all below it.
EraseBranch(t, p) ==
    SubSeq(t, 1, p-1) \o SubSeq(t, BranchEnd(t, p) + 1, Len(t))

\* Depths a tree can have: starts at a base filter, descends by one.
IsForest(t) ==
    \A p \in 1..Len(t) : t[p].depth <= (IF p = 1 THEN 0 ELSE t[p-1].depth + 1)

\* The trees whose nodes carry a value of V.
Forests(V) == {t \in Seq([depth : Nat, val : V]) : IsForest(t)}

\* The parent of a node that is not a base filter.
Parent(t, p) ==
    CHOOSE q \in 1..(p-1) : IsChild(t, q, p) /\ t[q].depth + 1 = t[p].depth

Children(t, p) == {q \in Branch(t, p) : t[q].depth = t[p].depth + 1}

Leaf(t, p) == BranchEnd(t, p) = p

-----------------------------------------------------------------------------
\* The elements of a sequence at some positions, in their order: what
\* vectorMultiErase (common/basics.h) leaves of a vector when the others are to
\* go, and loops like it that copy what is to be kept.
Nth(S, i) == CHOOSE n \in S : Cardinality({m \in S : m <= n}) = i
Only(seq, S) == [i \in 1..Cardinality(S) |-> seq[Nth(S, i)]]

-----------------------------------------------------------------------------
\* A set of numbers has a least one.
LEMMA LeastNumber ==
    ASSUME NEW S \in SUBSET Nat, S # {}
    PROVE  \E m \in S : \A n \in S : m <= n
<1>1. PICK m \in S : \A n \in S : <<n, m>> \notin OpToRel(<, Nat)
  BY WFMin, NatLessThanWellFounded, Zenon
<1>2. \A n \in S : ~(n < m) BY <1>1, Zenon DEF OpToRel
<1> QED BY <1>2

-----------------------------------------------------------------------------
(* What is picked out of a sequence.                                        *)

\* The numbers of a finite set have the places 1, 2, ... in it.
LEMMA Places ==
    ASSUME NEW S \in SUBSET Nat, IsFiniteSet(S)
    PROVE  /\ Cardinality(S) \in Nat
           /\ \A i \in 1..Cardinality(S) :
                 Nth(S, i) \in S /\ Cardinality({m \in S : m <= Nth(S, i)}) = i
           /\ \A n, k \in S : n < k =>
                 Cardinality({m \in S : m <= n}) < Cardinality({m \in S : m <= k})
<1> DEFINE Below(n) == {m \in S : m <= n}
           N == Cardinality(S)
           rank == [n \in S |-> Cardinality(Below(n))]
<1>1. N \in Nat BY FS_CardinalityType
<1>2. ASSUME NEW n \in S PROVE /\ IsFiniteSet(Below(n)) /\ Cardinality(Below(n)) \in 1..N
  <2>1. Below(n) \in SUBSET S OBVIOUS
  <2>2. IsFiniteSet(Below(n)) /\ Cardinality(Below(n)) <= N BY <2>1, FS_Subset
  <2>3. Cardinality(Below(n)) \in Nat BY <2>2, FS_CardinalityType
  <2>4. n \in Below(n) OBVIOUS
  <2>5. Cardinality(Below(n)) # 0 BY <2>2, <2>4, FS_EmptySet
  <2> QED BY <2>2, <2>3, <2>5, <1>1
<1>3. ASSUME NEW n \in S, NEW k \in S, n < k
      PROVE  Cardinality(Below(n)) < Cardinality(Below(k))
  <2>1. Below(n) \in SUBSET Below(k)
    <3>1. n \in Nat /\ k \in Nat /\ \A m \in S : m \in Nat OBVIOUS
    <3>2. \A m \in S : m <= n => m <= k BY <3>1, <1>3
    <3> QED BY <3>2
  <2>2. k \in Below(k) /\ k \notin Below(n) BY <1>3
  <2>3. Below(n) # Below(k) BY <2>2
  <2>4. IsFiniteSet(Below(k)) BY <1>2
  <2> HIDE DEF Below
  <2>5. /\ Cardinality(Below(n)) <= Cardinality(Below(k))
        /\ Cardinality(Below(n)) # Cardinality(Below(k))
    BY <2>1, <2>3, <2>4, FS_Subset
  <2>6. Cardinality(Below(n)) \in Nat /\ Cardinality(Below(k)) \in Nat BY <1>1, <1>2
  <2> QED BY <2>5, <2>6
<1> HIDE DEF Below
<1>4. rank \in Injection(S, 1..N)
  <2>1. rank \in [S -> 1..N] BY <1>2
  <2>2. ASSUME NEW n \in S, NEW k \in S, rank[n] = rank[k] PROVE n = k
    <3>1. Cardinality(Below(n)) = Cardinality(Below(k)) BY <2>2
    <3>2. Cardinality(Below(n)) \in Nat /\ Cardinality(Below(k)) \in Nat BY <1>1, <1>2
    <3>3. ~(n < k) /\ ~(k < n) BY <1>3, <3>1, <3>2
    <3> QED BY <3>3
  <2> QED BY <2>1, <2>2 DEF Injection, IsInjective
<1>5. rank \in Surjection(S, 1..N)
  <2>1. IsFiniteSet(1..N) /\ Cardinality(1..N) = N BY <1>1, FS_Interval
  <2> QED BY <1>4, <2>1, FS_Injection
<1>6. ASSUME NEW i \in 1..N
      PROVE  Nth(S, i) \in S /\ Cardinality(Below(Nth(S, i))) = i
  <2>1. \E n \in S : rank[n] = i BY <1>5 DEF Surjection
  <2>2. \E n \in S : Cardinality(Below(n)) = i BY <2>1
  <2> QED BY <2>2 DEF Nth, Below
<1> QED BY <1>1, <1>3, <1>6 DEF Below

\* The place of a number says which one it is.
LEMMA PlaceIs ==
    ASSUME NEW S \in SUBSET Nat, IsFiniteSet(S), NEW n \in S,
           NEW i \in 1..Cardinality(S), Cardinality({m \in S : m <= n}) = i
    PROVE  Nth(S, i) = n
<1>1. PICK k \in S : k = Nth(S, i) /\ Cardinality({m \in S : m <= k}) = i BY Places
<1>2. n \in Nat /\ k \in Nat /\ i \in Nat BY Places
<1>3. ~(n < k)
  <2> SUFFICES ASSUME n < k PROVE FALSE OBVIOUS
  <2>1. Cardinality({m \in S : m <= n}) < Cardinality({m \in S : m <= k}) BY Places
  <2> QED BY <2>1, <1>1, <1>2
<1>4. ~(k < n)
  <2> SUFFICES ASSUME k < n PROVE FALSE OBVIOUS
  <2>1. Cardinality({m \in S : m <= k}) < Cardinality({m \in S : m <= n}) BY Places
  <2> QED BY <2>1, <1>1, <1>2
<1> QED BY <1>1, <1>2, <1>3, <1>4

LEMMA DifferentPlaces ==
    ASSUME NEW S \in SUBSET Nat, IsFiniteSet(S),
           NEW i \in 1..Cardinality(S), NEW j \in 1..Cardinality(S), Nth(S, i) = Nth(S, j)
    PROVE  i = j
<1>1. Cardinality({m \in S : m <= Nth(S, i)}) = i BY Places
<1>2. Cardinality({m \in S : m <= Nth(S, j)}) = j BY Places
<1> QED BY <1>1, <1>2

\* What is picked out is a sequence of the same kind; each of its elements was at
\* a position of its own, and up to where nothing is left out at the same one.
LEMMA OnlyIs ==
    ASSUME NEW T, NEW seq \in Seq(T), NEW S \in SUBSET (1..Len(seq))
    PROVE  /\ Only(seq, S) \in Seq(T)
           /\ Len(Only(seq, S)) = Cardinality(S) /\ Cardinality(S) \in Nat
           /\ DOMAIN Only(seq, S) = 1..Cardinality(S)
           /\ \A i \in 1..Cardinality(S) :
                 Nth(S, i) \in S /\ Only(seq, S)[i] = seq[Nth(S, i)]
           /\ \A i, j \in 1..Cardinality(S) : Nth(S, i) = Nth(S, j) => i = j
           /\ \A a \in Nat \ {0} : 1..a \subseteq S =>
                 a \in 1..Cardinality(S) /\ Nth(S, a) = a
<1>1. IsFiniteSet(1..Len(seq)) /\ Len(seq) \in Nat
  <2>1. Len(seq) \in Nat OBVIOUS
  <2> QED BY <2>1, FS_Interval
<1>2. S \in SUBSET Nat /\ IsFiniteSet(S)
  <2>1. IsFiniteSet(S) BY <1>1, FS_Subset
  <2> QED BY <2>1, <1>1
<1>3. /\ Cardinality(S) \in Nat
      /\ \A i \in 1..Cardinality(S) : Nth(S, i) \in S
  BY <1>2, Places
<1>4. \A i, j \in 1..Cardinality(S) : Nth(S, i) = Nth(S, j) => i = j
  BY <1>2, DifferentPlaces
<1>5. ASSUME NEW a \in Nat \ {0}, 1..a \subseteq S
      PROVE  a \in 1..Cardinality(S) /\ Nth(S, a) = a
  <2>1. {m \in S : m <= a} = 1..a
    <3>1. \A m \in S : m \in Nat /\ 1 <= m BY <1>1
    <3>2. \A m \in S : m <= a <=> m \in 1..a BY <3>1, <1>5
    <3> QED BY <3>2, <1>5
  <2>2. Cardinality(1..a) = a /\ IsFiniteSet(1..a) BY FS_Interval
  <2>3. Cardinality(1..a) <= Cardinality(S) BY <1>2, <1>5, FS_Subset
  <2>4. a \in 1..Cardinality(S) BY <2>2, <2>3, <1>3
  <2>5. a \in S BY <1>5
  <2> QED BY <2>1, <2>2, <2>4, <2>5, <1>2, PlaceIs
<1>6. \A i \in 1..Cardinality(S) : seq[Nth(S, i)] \in T
  <2>1. \A k \in 1..Len(seq) : seq[k] \in T OBVIOUS
  <2> QED BY <2>1, <1>3
<1>7. Only(seq, S) = [i \in 1..Cardinality(S) |-> seq[Nth(S, i)]] BY DEF Only
<1> HIDE DEF Only
<1> QED BY <1>3, <1>4, <1>5, <1>6, <1>7

\* Nothing left out is nothing changed.
LEMMA OnlyAll ==
    ASSUME NEW T, NEW seq \in Seq(T)
    PROVE  Only(seq, 1..Len(seq)) = seq
<1> DEFINE n == Len(seq)
           all == Only(seq, 1..n)
<1>1. n \in Nat OBVIOUS
<1>2. Cardinality(1..n) = n
  <2> HIDE DEF n
  <2>1. Cardinality(1..n) = IF 1 > n THEN 0 ELSE n - 1 + 1 BY <1>1, FS_Interval
  <2> QED BY <2>1, <1>1
<1>3. all \in Seq(T) /\ Len(all) = n /\ \A i \in 1..n : all[i] = seq[Nth(1..n, i)]
  BY <1>2, OnlyIs
<1>4. \A i \in 1..n : Nth(1..n, i) = i
  <2> DEFINE S == 1..n
  <2>1. S \in SUBSET (1..n) /\ \A i \in 1..n : i \in Nat \ {0} /\ 1..i \subseteq S
    BY <1>1
  <2> HIDE DEF S
  <2>2. \A a \in Nat \ {0} : 1..a \subseteq S => Nth(S, a) = a BY <2>1, OnlyIs
  <2>3. \A i \in 1..n : Nth(S, i) = i BY <2>1, <2>2
  <2> QED BY <2>3 DEF S
<1> HIDE DEF all
<1>5. DOMAIN all = 1..n /\ \A i \in 1..n : all[i] = seq[i] BY <1>3, <1>4
<1>6. all = [i \in 1..n |-> all[i]] /\ seq = [i \in 1..n |-> seq[i]] BY <1>3
<1>7. all = seq BY <1>5, <1>6
<1> QED BY <1>7 DEF all

-----------------------------------------------------------------------------
(* Forests of any size: a branch is contiguous, and appending, inserting    *)
(* and erasing branches leave a forest behind.                              *)

\* What SubTree returns: a node and, below it, its descendants.
IsBranch(s) ==
    /\ s # <<>>
    /\ \A i \in 2..Len(s) :
          s[i].depth > s[1].depth /\ s[i].depth <= s[i-1].depth + 1

\* r is t with s put in behind the first p nodes.
Spliced(r, t, p, s) ==
    /\ Len(r) = Len(t) + Len(s)
    /\ \A i \in 1..p : r[i] = t[i]
    /\ \A i \in 1..Len(s) : r[p + i] = s[i]
    /\ \A i \in (p+1)..Len(t) : r[Len(s) + i] = t[i]

-----------------------------------------------------------------------------
\* A branch is the interval from its root to BranchEnd: BranchEnd is where
\* the walk of the FilterTree methods stops.
LEMMA BranchInterval ==
    ASSUME NEW S, \A n \in S : n.depth \in Nat, NEW t \in Seq(S),
           NEW p \in 1..Len(t)
    PROVE  /\ BranchEnd(t, p) \in p..Len(t)
           /\ Branch(t, p) = p..BranchEnd(t, p)
<1> DEFINE B == Branch(t, p)
<1> DEFINE e == BranchEnd(t, p)
<1>1. B \subseteq p..Len(t) /\ p \in B
  BY DEF Branch
<1>2. /\ IsFiniteSet(p..Len(t))
      /\ Cardinality(p..Len(t)) = (Len(t) - p) + 1
  BY FS_Interval
<1>3. /\ IsFiniteSet(B)
      /\ Cardinality(B) \in Nat
      /\ Cardinality(B) <= (Len(t) - p) + 1
  BY <1>1, <1>2, FS_Subset, FS_CardinalityType
<1>4. \A q \in B : (q - p) + 1 <= Cardinality(B)
  <2> SUFFICES ASSUME NEW q \in B PROVE (q - p) + 1 <= Cardinality(B)
    OBVIOUS
  <2>1. p..q \subseteq B
    BY DEF Branch
  <2>2. Cardinality(p..q) = (q - p) + 1
    BY <1>1, FS_Interval
  <2>3. Cardinality(p..q) <= Cardinality(B)
    BY <2>1, <1>3, FS_Subset
  <2> QED
    BY <2>2, <2>3
<1>5. e \in p..Len(t)
  BY <1>1, <1>3, <1>4 DEF BranchEnd
<1>6. B \subseteq p..e
  BY <1>1, <1>3, <1>4 DEF BranchEnd
<1>7. /\ IsFiniteSet(p..e)
      /\ Cardinality(p..e) = Cardinality(B)
  <2>1. (e - p) + 1 = Cardinality(B)
    BY <1>3 DEF BranchEnd
  <2>2. /\ IsFiniteSet(p..e)
        /\ Cardinality(p..e) = (e - p) + 1
    BY <1>5, FS_Interval
  <2> QED
    BY <2>1, <2>2
<1>8. B = p..e
  BY <1>6, <1>7, FS_Subset
<1> QED
  BY <1>5, <1>8

\* What the walk over a branch knows: every node it visits is below the root,
\* the node it stops at is not.
LEMMA BranchEndStops ==
    ASSUME NEW S, \A n \in S : n.depth \in Nat, NEW t \in Seq(S),
           NEW p \in 1..Len(t)
    PROVE  /\ BranchEnd(t, p) \in p..Len(t)
           /\ \A k \in (p+1)..BranchEnd(t, p) : t[k].depth > t[p].depth
           /\ BranchEnd(t, p) < Len(t) =>
                 t[BranchEnd(t, p) + 1].depth <= t[p].depth
<1> DEFINE e == BranchEnd(t, p)
<1>1. e \in p..Len(t) /\ Branch(t, p) = p..e
  BY BranchInterval
<1>2. \A k \in (p+1)..e : t[k].depth > t[p].depth
  <2>1. e \in Branch(t, p)
    BY <1>1
  <2> QED
    BY <2>1 DEF Branch
<1>3. ASSUME e < Len(t) PROVE t[e+1].depth <= t[p].depth
  <2>1. e + 1 \in p..Len(t) /\ e + 1 \notin Branch(t, p)
    BY <1>1, <1>3
  <2>2. PICK k \in (p+1)..(e+1) : ~(t[k].depth > t[p].depth)
    BY <2>1 DEF Branch
  <2>3. k = e + 1
    <3>1. k \notin (p+1)..e
      BY <2>2, <1>2
    <3> QED
      BY <3>1, <1>1
  <2>4. t[k] \in S /\ t[p] \in S
    BY <2>2, <1>1, <1>3
  <2> QED
    BY <2>2, <2>3, <2>4
<1> QED
  BY <1>1, <1>2, <1>3

LEMMA ConcatElements ==
    ASSUME NEW S, NEW a \in Seq(S), NEW b \in Seq(S)
    PROVE  /\ a \o b \in Seq(S)
           /\ Len(a \o b) = Len(a) + Len(b)
           /\ \A i \in 1..Len(a) : (a \o b)[i] = a[i]
           /\ \A i \in 1..Len(b) : (a \o b)[Len(a) + i] = b[i]
<1>1. a \o b \in Seq(S) /\ Len(a \o b) = Len(a) + Len(b)
  OBVIOUS
<1>2. \A i \in 1..Len(a) : (a \o b)[i] = a[i]
  OBVIOUS
<1>3. ASSUME NEW i \in 1..Len(b) PROVE (a \o b)[Len(a) + i] = b[i]
  OBVIOUS
<1> QED
  BY <1>1, <1>2, <1>3

LEMMA SeqElements ==
    ASSUME NEW S, NEW s \in Seq(S), s # <<>>
    PROVE  Len(s) \in Nat \ {0} /\ \A i \in 1..Len(s) : s[i] \in S
OBVIOUS

LEMMA SubSeqElements ==
    ASSUME NEW S, NEW t \in Seq(S), NEW m \in Nat \ {0}, NEW n \in 0..Len(t),
           m <= n + 1
    PROVE  /\ SubSeq(t, m, n) \in Seq(S)
           /\ Len(SubSeq(t, m, n)) = (n - m) + 1
           /\ \A i \in m..n : SubSeq(t, m, n)[(i - m) + 1] = t[i]
<1>1. SubSeq(t, m, n) \in Seq(S) /\ Len(SubSeq(t, m, n)) = (n - m) + 1
  OBVIOUS
<1>2. ASSUME NEW i \in m..n PROVE SubSeq(t, m, n)[(i - m) + 1] = t[i]
  <2>1. (i - m) + 1 \in 1..((n - m) + 1) /\ m + ((i - m) + 1) - 1 = i
    OBVIOUS
  <2> QED
    BY <2>1
<1> QED
  BY <1>1, <1>2

\* InsertAfter puts s between the nodes of t.
LEMMA InsertAfterElements ==
    ASSUME NEW S, NEW t \in Seq(S), NEW s \in Seq(S), NEW p \in 0..Len(t),
           NEW r, r = InsertAfter(t, p, s)
    PROVE  r \in Seq(S) /\ Spliced(r, t, p, s)
<1> DEFINE a == SubSeq(t, 1, p)
           b == SubSeq(t, p+1, Len(t))
           c == a \o s
<1>1. a \in Seq(S) /\ Len(a) = p /\ \A i \in 1..p : a[i] = t[i]
  OBVIOUS
<1>2. /\ b \in Seq(S) /\ Len(b) = Len(t) - p
      /\ \A i \in (p+1)..Len(t) : b[i - p] = t[i]
  <2>1. b \in Seq(S) /\ Len(b) = Len(t) - p
    OBVIOUS
  <2>2. ASSUME NEW i \in (p+1)..Len(t) PROVE b[i - p] = t[i]
    OBVIOUS
  <2> QED
    BY <2>1, <2>2
<1>3. r = c \o b
  BY DEF InsertAfter
<1> HIDE DEF a, b
<1>4. /\ c \in Seq(S)
      /\ Len(c) = p + Len(s)
      /\ \A i \in 1..p : c[i] = t[i]
      /\ \A i \in 1..Len(s) : c[p + i] = s[i]
  <2>1. c \in Seq(S) /\ Len(c) = p + Len(s)
    BY <1>1, ConcatElements
  <2>2. \A i \in 1..p : c[i] = t[i]
    BY <1>1, ConcatElements
  <2>3. \A i \in 1..Len(s) : c[p + i] = s[i]
    BY <1>1, ConcatElements
  <2> QED
    BY <2>1, <2>2, <2>3
<1> HIDE DEF c
<1>5. r \in Seq(S) /\ Len(r) = Len(c) + Len(b)
  BY <1>2, <1>3, <1>4, ConcatElements
<1>6. \A i \in 1..Len(c) : r[i] = c[i]
  BY <1>2, <1>3, <1>4, ConcatElements
<1>7. \A i \in 1..Len(b) : r[Len(c) + i] = b[i]
  BY <1>2, <1>3, <1>4, ConcatElements
<1>8. \A i \in 1..p : r[i] = t[i]
  BY <1>4, <1>6
<1>9. ASSUME NEW i \in 1..Len(s) PROVE r[p + i] = s[i]
  BY <1>4, <1>6
<1>10. ASSUME NEW i \in (p+1)..Len(t) PROVE r[Len(s) + i] = t[i]
  <2>1. (i - p) \in 1..Len(b) /\ Len(c) + (i - p) = Len(s) + i
    BY <1>2, <1>4
  <2> QED
    BY <2>1, <1>2, <1>7
<1>11. Len(r) = Len(t) + Len(s)
  BY <1>2, <1>4, <1>5
<1> QED
  BY <1>5, <1>8, <1>9, <1>10, <1>11 DEF Spliced

-----------------------------------------------------------------------------
LEMMA DepthArithmetic ==
    ASSUME NEW a \in Nat, NEW b \in Nat, NEW c \in Nat, NEW d \in Nat,
           a <= b + 1
    PROVE  /\ a > c => (a + d) - c > d /\ (a + d) - c <= ((b + d) - c) + 1
           /\ b <= c => a <= c + 1
OBVIOUS

\* Nodes that may hang at any depth.
Hangs(N) ==
    \A n \in N : /\ n.depth \in Nat
                 /\ \A k \in Nat : /\ [n EXCEPT !.depth = k] \in N
                                   /\ [n EXCEPT !.depth = k].depth = k

\* The same branch hung at another depth is a branch.
LEMMA AtDepthBranch ==
    ASSUME NEW N, Hangs(N), NEW s \in Seq(N), IsBranch(s),
           NEW d \in Nat, NEW r, r = AtDepth(s, d)
    PROVE  /\ r \in Seq(N) /\ Len(r) = Len(s) /\ IsBranch(r) /\ r[1].depth = d
           /\ \A i \in 1..Len(s) :
                 /\ (s[i].depth + d) - s[1].depth \in Nat
                 /\ r[i] = [s[i] EXCEPT !.depth = (s[i].depth + d) - s[1].depth]
<1> DEFINE at(i) == (s[i].depth + d) - s[1].depth
           new(i) == [s[i] EXCEPT !.depth = at(i)]
<1>1. Len(s) \in Nat \ {0} /\ \A i \in 1..Len(s) : s[i] \in N
  BY SeqElements DEF IsBranch
<1>2. \A i \in 1..Len(s) : s[i].depth \in Nat /\ s[1].depth \in Nat
  BY <1>1 DEF Hangs
<1>3. ASSUME NEW i \in 1..Len(s) PROVE at(i) \in Nat
  <2>1. s[i].depth >= s[1].depth
    BY <1>1, <1>2 DEF IsBranch
  <2> QED
    BY <2>1, <1>2
<1> HIDE DEF at
<1>4. ASSUME NEW i \in 1..Len(s) PROVE new(i) \in N /\ new(i).depth = at(i)
  BY <1>1, <1>3 DEF Hangs
<1>5. r = [i \in 1..Len(s) |-> new(i)]
  BY DEF AtDepth, at
<1>6. r \in Seq(N) /\ Len(r) = Len(s) /\ \A i \in 1..Len(s) : r[i] = new(i)
  <2> HIDE DEF new
  <2> QED BY <1>1, <1>4, <1>5
<1> HIDE DEF new
<1>7. \A i \in 1..Len(s) : r[i].depth = at(i)
  BY <1>4, <1>6
<1>8. r[1].depth = d
  BY <1>1, <1>2, <1>7 DEF at
<1>9. ASSUME NEW i \in 2..Len(s)
      PROVE  r[i].depth > r[1].depth /\ r[i].depth <= r[i-1].depth + 1
  <2>1. i \in 1..Len(s) /\ i - 1 \in 1..Len(s)
    BY <1>1
  <2>2. s[i].depth > s[1].depth /\ s[i].depth <= s[i-1].depth + 1
    BY DEF IsBranch
  <2>3. r[i].depth = at(i) /\ r[i-1].depth = at(i-1)
    BY <2>1, <1>7
  <2>4. s[i].depth \in Nat /\ s[i-1].depth \in Nat /\ s[1].depth \in Nat
    BY <2>1, <1>2
  <2>5. /\ at(i) = (s[i].depth + d) - s[1].depth
        /\ at(i-1) = (s[i-1].depth + d) - s[1].depth
    BY DEF at
  <2>6. /\ (s[i].depth + d) - s[1].depth > d
        /\ (s[i].depth + d) - s[1].depth <= ((s[i-1].depth + d) - s[1].depth) + 1
    BY <2>2, <2>4, DepthArithmetic
  <2> QED
    BY <2>3, <2>5, <2>6, <1>8
<1>10. r # <<>>
  BY <1>1, <1>6
<1>11. IsBranch(r)
  BY <1>6, <1>9, <1>10 DEF IsBranch
<1> QED
  BY <1>3, <1>6, <1>8, <1>11 DEF at, new

\* The branch below a node of a forest.
LEMMA SubTreeBranch ==
    ASSUME NEW S, \A n \in S : n.depth \in Nat, NEW t \in Seq(S), IsForest(t),
           NEW p \in 1..Len(t), NEW s, s = SubTree(t, p)
    PROVE  s \in Seq(S) /\ IsBranch(s)
<1> DEFINE e == BranchEnd(t, p)
<1>1. /\ e \in p..Len(t)
      /\ \A k \in (p+1)..e : t[k].depth > t[p].depth
  BY BranchEndStops
<1>2. s = SubSeq(t, p, e)
  BY DEF SubTree
<1> HIDE DEF e
<1>3. /\ s \in Seq(S) /\ Len(s) = (e - p) + 1
      /\ \A k \in p..e : s[(k - p) + 1] = t[k]
  <2>1. p \in Nat \ {0} /\ e \in 0..Len(t) /\ p <= e + 1
    BY <1>1
  <2> QED
    BY <2>1, <1>2, SubSeqElements
<1>4. s # <<>>
  BY <1>1, <1>3
<1>5. ASSUME NEW i \in 2..Len(s)
      PROVE  s[i].depth > s[1].depth /\ s[i].depth <= s[i-1].depth + 1
  <2> DEFINE k == (p + i) - 1
  <2>1. /\ k \in (p+1)..e /\ k \in 2..Len(t) /\ k - 1 \in p..e /\ p \in p..e
        /\ (k - p) + 1 = i /\ ((k - 1) - p) + 1 = i - 1 /\ (p - p) + 1 = 1
    BY <1>1, <1>3
  <2> HIDE DEF k
  <2>2. s[i] = t[k] /\ s[i-1] = t[k-1] /\ s[1] = t[p]
    <3>1. k \in p..e
      BY <2>1, <1>1
    <3>2. s[(k - p) + 1] = t[k]
      BY <3>1, <1>3
    <3>3. s[((k - 1) - p) + 1] = t[k-1]
      BY <2>1, <1>3
    <3>4. s[(p - p) + 1] = t[p]
      BY <2>1, <1>3
    <3> QED
      BY <2>1, <3>2, <3>3, <3>4
  <2>3. t[k].depth <= t[k-1].depth + 1
    BY <2>1 DEF IsForest
  <2> QED
    BY <2>1, <2>2, <2>3, <1>1
<1> QED
  BY <1>3, <1>4, <1>5 DEF IsBranch

-----------------------------------------------------------------------------
\* A branch can go behind any node that its root may follow, if what comes
\* next there is not deeper than its root.
LEMMA InsertForest ==
    ASSUME NEW S, \A n \in S : n.depth \in Nat,
           NEW t \in Seq(S), IsForest(t), NEW s \in Seq(S), IsBranch(s),
           NEW q \in 0..Len(t),
           s[1].depth <= (IF q = 0 THEN 0 ELSE t[q].depth + 1),
           q < Len(t) => t[q+1].depth <= s[1].depth + 1,
           NEW r, r = InsertAfter(t, q, s)
    PROVE  /\ r \in Seq(S) /\ IsForest(r)
           /\ Len(r) = Len(t) + Len(s)
<1>1. /\ r \in Seq(S)
      /\ Len(r) = Len(t) + Len(s)
      /\ \A i \in 1..q : r[i] = t[i]
      /\ \A i \in 1..Len(s) : r[q + i] = s[i]
      /\ \A i \in (q+1)..Len(t) : r[Len(s) + i] = t[i]
  <2>1. r \in Seq(S) /\ Spliced(r, t, q, s)
    BY InsertAfterElements
  <2> QED
    BY <2>1 DEF Spliced
<1>2. /\ Len(s) \in Nat \ {0} /\ \A i \in 1..Len(s) : s[i].depth \in Nat
      /\ Len(t) \in Nat /\ \A i \in 1..Len(t) : t[i].depth \in Nat
  BY SeqElements DEF IsBranch
<1>3. ASSUME NEW p \in 1..q
      PROVE  r[p].depth <= (IF p = 1 THEN 0 ELSE r[p-1].depth + 1)
  <2>1. r[p] = t[p] /\ (p # 1 => r[p-1] = t[p-1])
    BY <1>1
  <2> QED
    BY <2>1 DEF IsForest
<1>4. r[q+1].depth <= (IF q + 1 = 1 THEN 0 ELSE r[q].depth + 1)
  <2>1. r[q+1] = s[1] /\ (q # 0 => r[q] = t[q])
    BY <1>1, <1>2
  <2> QED
    BY <2>1
<1>5. ASSUME NEW i \in 2..Len(s)
      PROVE  r[q+i].depth <= r[(q+i)-1].depth + 1
  <2>1. r[q+i] = s[i]
    BY <1>1
  <2>2. i - 1 \in 1..Len(s) /\ q + (i - 1) = (q + i) - 1
    BY <1>2
  <2>3. r[(q+i)-1] = s[i-1]
    BY <2>2, <1>1
  <2> QED
    BY <2>1, <2>3 DEF IsBranch
<1>6. ASSUME NEW i \in (q+1)..Len(t)
      PROVE  r[Len(s)+i].depth <= r[(Len(s)+i)-1].depth + 1
  <2>1. r[Len(s)+i] = t[i]
    BY <1>1
  <2>2. CASE i = q + 1
    <3>1. r[(Len(s)+i)-1] = s[Len(s)]
      <4>1. (Len(s)+i)-1 = q + Len(s) /\ Len(s) \in 1..Len(s)
        BY <2>2, <1>2
      <4> QED
        BY <4>1, <1>1
    <3>2. s[Len(s)].depth >= s[1].depth
      BY <1>2 DEF IsBranch
    <3>3. s[Len(s)].depth \in Nat /\ s[1].depth \in Nat /\ t[i].depth \in Nat
      BY <1>2, <2>2
    <3>4. t[i].depth <= s[1].depth + 1
      BY <2>2
    <3> QED
      BY <2>1, <3>1, <3>2, <3>3, <3>4, DepthArithmetic
  <2>3. CASE i # q + 1
    <3>1. /\ i - 1 \in (q+1)..Len(t) /\ Len(s) + (i - 1) = (Len(s) + i) - 1
          /\ i \in 1..Len(t) /\ i # 1
      BY <2>3, <1>2
    <3>2. r[(Len(s)+i)-1] = t[i-1]
      BY <3>1, <1>1
    <3>3. t[i].depth <= t[i-1].depth + 1
      BY <3>1 DEF IsForest
    <3> QED
      BY <2>1, <3>2, <3>3
  <2> QED
    BY <2>2, <2>3
<1>7. ASSUME NEW p \in 1..Len(r)
      PROVE  r[p].depth <= (IF p = 1 THEN 0 ELSE r[p-1].depth + 1)
  <2>1. CASE p <= q
    <3>1. p \in 1..q
      BY <2>1
    <3> QED
      BY <3>1, <1>3
  <2>2. CASE p = q + 1
    <3>1. p - 1 = q
      BY <2>2
    <3> QED
      BY <2>2, <3>1, <1>4
  <2>3. CASE p > q + 1 /\ p <= q + Len(s)
    <3>1. (p - q) \in 2..Len(s) /\ q + (p - q) = p /\ p # 1
      BY <2>3, <1>2
    <3>2. r[q + (p - q)].depth <= r[(q + (p - q)) - 1].depth + 1
      BY <3>1, <1>5
    <3> QED
      BY <3>1, <3>2
  <2>4. CASE p > q + Len(s)
    <3>1. /\ (p - Len(s)) \in (q+1)..Len(t) /\ Len(s) + (p - Len(s)) = p
          /\ p # 1
      BY <2>4, <1>1, <1>2
    <3>2. r[Len(s) + (p - Len(s))].depth <= r[(Len(s) + (p - Len(s))) - 1].depth + 1
      BY <3>1, <1>6
    <3> QED
      BY <3>1, <3>2
  <2> QED
    BY <2>1, <2>2, <2>3, <2>4, <1>1, <1>2
<1> QED
  BY <1>1, <1>7 DEF IsForest

\* A branch below another node: the last there, behind what is below it.
LEMMA Appended ==
    ASSUME NEW N, Hangs(N), NEW t \in Seq(N), IsForest(t), NEW p \in 1..Len(t),
           NEW s \in Seq(N), IsBranch(s)
    PROVE  /\ AppendChild(t, p, s) \in Seq(N) /\ IsForest(AppendChild(t, p, s))
           /\ Len(AppendChild(t, p, s)) = Len(t) + Len(s)
           /\ Spliced(AppendChild(t, p, s), t, BranchEnd(t, p), AtDepth(s, t[p].depth + 1))
<1> DEFINE q == BranchEnd(t, p)
           d == t[p].depth + 1
           b == AtDepth(s, d)
           r == InsertAfter(t, q, b)
<1>1. /\ \A n \in N : n.depth \in Nat
      /\ t \in Seq(N) /\ IsForest(t) /\ s \in Seq(N) /\ IsBranch(s)
  BY DEF Hangs
<1>2. d \in Nat /\ t[p].depth \in Nat
  <2>1. t[p] \in N
    BY <1>1
  <2> QED
    BY <2>1, <1>1
<1>3. b \in Seq(N) /\ Len(b) = Len(s) /\ IsBranch(b) /\ b[1].depth = d
  <2>1. d \in Nat
    BY <1>2
  <2>2. Hangs(N)
    OBVIOUS
  <2> HIDE DEF d, q
  <2> QED
    BY ONLY <2>1, <2>2, <1>1, AtDepthBranch
<1> HIDE DEF b, d
<1>4. /\ q \in p..Len(t)
      /\ \A k \in (p+1)..q : t[k].depth > t[p].depth
      /\ q < Len(t) => t[q+1].depth <= t[p].depth
  BY <1>1, BranchEndStops
<1>5. q \in 1..Len(t) /\ t[q].depth \in Nat /\ t[q].depth >= t[p].depth
  <2>1. q \in 1..Len(t)
    BY <1>4
  <2>2. t[q] \in N
    BY <2>1, <1>1
  <2>3. CASE q = p
    BY <2>1, <2>2, <2>3, <1>1
  <2>4. CASE q # p
    <3>1. q \in (p+1)..q
      BY <2>4, <1>4
    <3>2. t[q].depth > t[p].depth
      BY <3>1, <1>4
    <3> QED
      BY <2>1, <2>2, <3>2, <1>1, <1>2
  <2> QED
    BY <2>3, <2>4
<1>6. ASSUME q < Len(t) PROVE t[q+1].depth <= b[1].depth + 1
  <2>1. q + 1 \in 1..Len(t)
    BY <1>4, <1>6
  <2>2. t[q+1] \in N
    BY <2>1, <1>1
  <2>3. t[q+1].depth \in Nat
    BY <2>2, <1>1
  <2> QED
    BY <2>3, <1>2, <1>3, <1>4, <1>6 DEF d
<1>7. b[1].depth <= (IF q = 0 THEN 0 ELSE t[q].depth + 1)
  BY <1>2, <1>3, <1>5 DEF d
<1>8. q \in 0..Len(t)
  BY <1>5
<1> HIDE DEF q
<1>9. r \in Seq(N) /\ IsForest(r) /\ Len(r) = Len(t) + Len(b)
  BY ONLY <1>1, <1>3, <1>6, <1>7, <1>8, InsertForest, SMTT(30)
<1>10. AppendChild(t, p, s) = r
  BY DEF AppendChild, b, q, d
<1>11. Spliced(r, t, q, b)
  BY <1>1, <1>3, <1>8, InsertAfterElements
<1> HIDE DEF r
<1> QED
  BY <1>3, <1>9, <1>10, <1>11 DEF b, d, q

\* What is left when a branch is erased: what follows it is not deeper than its
\* root was.
LEMMA Erased ==
    ASSUME NEW N, \A n \in N : n.depth \in Nat, NEW t \in Seq(N), IsForest(t),
           NEW p \in 1..Len(t)
    PROVE  /\ EraseBranch(t, p) \in Seq(N) /\ IsForest(EraseBranch(t, p))
           /\ Len(EraseBranch(t, p)) = (p - 1) + (Len(t) - BranchEnd(t, p))
           /\ \A i \in 1..(p-1) : EraseBranch(t, p)[i] = t[i]
           /\ \A i \in (BranchEnd(t, p) + 1)..Len(t) :
                 EraseBranch(t, p)[(p - 1) + (i - BranchEnd(t, p))] = t[i]
<1> DEFINE e == BranchEnd(t, p)
           a == SubSeq(t, 1, p-1)
           b == SubSeq(t, e+1, Len(t))
           r == a \o b
<1>1. (\A n \in N : n.depth \in Nat) /\ t \in Seq(N) /\ IsForest(t)
  OBVIOUS
<1>2. /\ e \in p..Len(t)
      /\ e < Len(t) => t[e+1].depth <= t[p].depth
  BY <1>1, BranchEndStops
<1>3. EraseBranch(t, p) = r
  BY DEF EraseBranch
<1> HIDE DEF e
<1>4. a \in Seq(N) /\ Len(a) = p - 1 /\ \A i \in 1..(p-1) : a[i] = t[i]
  BY <1>1
<1>5. /\ b \in Seq(N) /\ Len(b) = Len(t) - e
      /\ \A i \in (e+1)..Len(t) : b[i - e] = t[i]
  <2>1. b \in Seq(N) /\ Len(b) = Len(t) - e
    BY <1>1, <1>2
  <2>2. ASSUME NEW i \in (e+1)..Len(t) PROVE b[i - e] = t[i]
    BY <1>1, <1>2
  <2> QED
    BY <2>1, <2>2
<1> HIDE DEF a, b
<1>6. r \in Seq(N) /\ Len(r) = (p - 1) + (Len(t) - e)
  <2>1. r \in Seq(N) /\ Len(r) = Len(a) + Len(b)
    BY <1>4, <1>5, ConcatElements
  <2> QED
    BY <2>1, <1>4, <1>5
<1>7. ASSUME NEW i \in 1..(p-1) PROVE r[i] = t[i]
  BY <1>4, <1>5, ConcatElements
<1>8. ASSUME NEW i \in (e+1)..Len(t) PROVE r[(p - 1) + (i - e)] = t[i]
  <2>1. i - e \in 1..Len(b)
    BY <1>2, <1>5
  <2> DEFINE k == i - e
  <2> HIDE DEF k
  <2>2. k \in 1..Len(b) /\ a \in Seq(N) /\ b \in Seq(N)
    BY <2>1, <1>4, <1>5 DEF k
  <2>3. (a \o b)[Len(a) + k] = b[k]
    BY ONLY <2>2, ConcatElements
  <2> QED
    BY <2>3, <1>4, <1>5 DEF k
<1> HIDE DEF r
<1>9. ASSUME NEW i \in 1..Len(r)
      PROVE  r[i].depth <= (IF i = 1 THEN 0 ELSE r[i-1].depth + 1)
  <2>1. CASE i < p
    <3>1. i \in 1..(p-1) /\ i \in 1..Len(t) /\ (i # 1 => i - 1 \in 1..(p-1))
      BY <2>1
    <3>2. r[i] = t[i] /\ (i # 1 => r[i-1] = t[i-1])
      BY <3>1, <1>7
    <3> QED
      BY <3>1, <3>2, <1>1 DEF IsForest
  <2>2. CASE i = p
    <3>1. /\ e + 1 \in (e+1)..Len(t) /\ (p - 1) + ((e + 1) - e) = i
          /\ e < Len(t) /\ e + 1 \in 1..Len(t)
      BY <2>2, <1>1, <1>2, <1>6
    <3>2. r[i] = t[e+1]
      BY <3>1, <1>8
    <3>3. p # 1 => r[p-1] = t[p-1]
      BY <1>7
    <3>4. t[p].depth <= (IF p = 1 THEN 0 ELSE t[p-1].depth + 1)
      BY <1>1 DEF IsForest
    <3>5. t[e+1] \in N /\ t[p] \in N /\ (p # 1 => t[p-1] \in N)
      BY <3>1, <1>1
    <3>6. /\ t[e+1].depth \in Nat /\ t[p].depth \in Nat
          /\ p # 1 => t[p-1].depth \in Nat
      BY <3>5, <1>1
    <3> QED
      BY <2>2, <3>1, <3>2, <3>3, <3>4, <3>6, <1>2
  <2>3. CASE i > p
    <3> DEFINE k == (i - (p - 1)) + e
    <3>1. /\ k \in (e+1)..Len(t) /\ (p - 1) + (k - e) = i
          /\ k - 1 \in (e+1)..Len(t) /\ (p - 1) + ((k - 1) - e) = i - 1
          /\ k \in 1..Len(t) /\ k # 1 /\ i # 1
      BY <2>3, <1>1, <1>2, <1>6
    <3> HIDE DEF k
    <3>2. r[i] = t[k] /\ r[i-1] = t[k-1]
      <4>1. r[(p - 1) + (k - e)] = t[k]
        BY <3>1, <1>8
      <4>2. r[(p - 1) + ((k - 1) - e)] = t[k-1]
        BY <3>1, <1>8
      <4> QED
        BY <3>1, <4>1, <4>2
    <3>3. t[k].depth <= t[k-1].depth + 1
      BY <3>1, <1>1 DEF IsForest
    <3> QED
      BY <3>1, <3>2, <3>3
  <2> QED
    BY <2>1, <2>2, <2>3, <1>6
<1>10. IsForest(r)
  BY <1>9 DEF IsForest
<1> QED
  BY <1>3, <1>6, <1>7, <1>8, <1>10 DEF e

-----------------------------------------------------------------------------
(* The nodes above a node.                                                  *)

LEMMA TreeNodes ==
    ASSUME NEW S, \A n \in S : n.depth \in Nat, NEW t \in Seq(S)
    PROVE  /\ Len(t) \in Nat /\ DOMAIN t = 1..Len(t)
           /\ \A p \in DOMAIN t : t[p] \in S /\ t[p].depth \in Nat
OBVIOUS

LEMMA AboveIs ==
    ASSUME NEW t, NEW p \in Int, NEW q \in Int
    PROVE  IsChild(t, q, p) <=>
              q < p /\ p <= Len(t) /\ \A k \in (q+1)..p : t[k].depth > t[q].depth
BY DEF IsChild, Branch

\* What is below a node of a branch is in the branch; of two nodes above the
\* same one, one is above the other.
LEMMA AboveTwice ==
    ASSUME NEW S, \A n \in S : n.depth \in Nat, NEW t \in Seq(S),
           NEW p \in DOMAIN t, NEW q \in DOMAIN t, NEW r \in DOMAIN t
    PROVE  /\ q \in Branch(t, r) /\ p \in Branch(t, q) => p \in Branch(t, r)
           /\ p \in Branch(t, q) /\ p \in Branch(t, r) /\ r <= q => q \in Branch(t, r)
           /\ p \in Branch(t, p)
<1>1. /\ Len(t) \in Nat /\ DOMAIN t = 1..Len(t)
      /\ \A k \in DOMAIN t : t[k].depth \in Nat
  BY TreeNodes
<1>2. ASSUME q \in Branch(t, r), p \in Branch(t, q) PROVE p \in Branch(t, r)
  <2>1. /\ r <= q /\ q <= p /\ p <= Len(t)
        /\ \A k \in (r+1)..q : t[k].depth > t[r].depth
        /\ \A k \in (q+1)..p : t[k].depth > t[q].depth
    BY <1>2 DEF Branch
  <2>2. t[q].depth >= t[r].depth
    <3>1. CASE q = r BY <3>1, <1>1
    <3>2. CASE q # r
      <4>1. q \in (r+1)..q BY <3>2, <2>1, <1>1
      <4> QED BY <4>1, <2>1, <1>1
    <3> QED BY <3>1, <3>2
  <2>3. ASSUME NEW k \in (r+1)..p PROVE t[k].depth > t[r].depth
    <3>1. CASE k <= q BY <3>1, <2>1, <1>1
    <3>2. CASE k > q
      <4>1. k \in (q+1)..p /\ k \in DOMAIN t BY <3>2, <2>1, <1>1
      <4>2. t[k].depth > t[q].depth BY <4>1, <2>1
      <4> QED BY <4>1, <4>2, <2>2, <1>1
    <3> QED BY <3>1, <3>2, <1>1
  <2> QED BY <2>1, <2>3, <1>1 DEF Branch
<1>3. ASSUME p \in Branch(t, q), p \in Branch(t, r), r <= q PROVE q \in Branch(t, r)
  BY <1>1, <1>3 DEF Branch
<1>4. p \in Branch(t, p) BY <1>1 DEF Branch
<1> QED BY <1>2, <1>3, <1>4

\* A node that is not a base filter has a parent, below which it is, and all
\* that is above it is the parent or above the parent.
LEMMA ParentIs ==
    ASSUME NEW S, \A n \in S : n.depth \in Nat, NEW t \in Seq(S), IsForest(t),
           NEW p \in DOMAIN t, t[p].depth > 0
    PROVE  /\ Parent(t, p) \in DOMAIN t /\ Parent(t, p) < p
           /\ IsChild(t, Parent(t, p), p) /\ t[Parent(t, p)].depth + 1 = t[p].depth
           /\ \A q \in DOMAIN t : IsChild(t, q, p) => Parent(t, p) \in Branch(t, q)
           /\ \A q \in DOMAIN t :
                 IsChild(t, q, p) /\ t[q].depth + 1 = t[p].depth => q = Parent(t, p)
<1>1. /\ Len(t) \in Nat /\ DOMAIN t = 1..Len(t)
      /\ \A k \in DOMAIN t : t[k].depth \in Nat
  BY TreeNodes
<1> DEFINE d(k) == t[k].depth
           Back == {n \in 1..p : n < p /\ d(p - n) < d(p)}
<1>2. Back # {}
  <2>1. d(1) = 0 BY <1>1 DEF IsForest
  <2>2. p - 1 \in Back BY <2>1, <1>1
  <2> QED BY <2>2
<1>3. PICK n \in Back : \A m \in Back : n <= m
  <2>1. Back \in SUBSET Nat BY <1>1
  <2> HIDE DEF Back
  <2> QED BY <2>1, <1>2, LeastNumber
<1> DEFINE q == p - n
<1>4. q \in 1..(p-1) /\ d(q) < d(p) /\ \A k \in (q+1)..(p-1) : d(k) >= d(p)
  <2>1. q \in 1..(p-1) /\ d(q) < d(p) /\ n \in 1..p BY <1>1, <1>3
  <2>2. ASSUME NEW k \in (q+1)..(p-1) PROVE d(k) >= d(p)
    <3>1. p - k \in 1..p /\ p - k < p /\ p - (p - k) = k /\ p - k < n /\ k \in DOMAIN t
      <4>1. q \in 1..(p-1) /\ n \in 1..p /\ q = p - n /\ p \in 1..Len(t) BY <2>1, <1>1
      <4>2. q \in Int /\ n \in Int /\ p \in Int /\ k \in Int /\ Len(t) \in Int BY <4>1, <1>1
      <4>3. 1 <= q /\ q < p /\ q + 1 <= k /\ k <= p - 1 /\ p <= Len(t) BY <4>1, <4>2
      <4> HIDE DEF q
      <4>4. p - k \in 1..p BY ONLY <4>2, <4>3
      <4>5. p - k < p BY ONLY <4>2, <4>3
      <4>6. p - (p - k) = k BY ONLY <4>2, <4>3
      <4>7. p - k < n BY ONLY <4>1, <4>2, <4>3
      <4>8. k \in DOMAIN t BY ONLY <4>2, <4>3, <1>1
      <4> QED BY ONLY <4>4, <4>5, <4>6, <4>7, <4>8
    <3>2. p - k \notin Back BY <3>1, <1>3
    <3>3. ~(d(p - (p - k)) < d(p)) BY <3>1, <3>2
    <3> QED BY <3>1, <3>3, <1>1
  <2> QED BY <2>1, <2>2
<1> HIDE DEF q, Back
<1>5. q \in DOMAIN t /\ q < p BY <1>1, <1>4
<1>6. d(q) + 1 = d(p)
  <2>1. q + 1 \in 1..Len(t) /\ q + 1 # 1 /\ (q + 1) - 1 = q BY <1>1, <1>4
  <2>2. d(q + 1) <= d(q) + 1 BY <2>1 DEF IsForest
  <2>3. d(q + 1) >= d(p)
    <3>1. CASE q + 1 = p BY <3>1, <1>1
    <3>2. CASE q + 1 # p BY <3>2, <1>4
    <3> QED BY <3>1, <3>2
  <2> QED BY <2>1, <2>2, <2>3, <1>1, <1>4, <1>5
<1>7. IsChild(t, q, p)
  <2>1. \A k \in (q+1)..p : d(k) > d(q)
    <3> SUFFICES ASSUME NEW k \in (q+1)..p PROVE d(k) > d(q)
      OBVIOUS
    <3>1. k = p \/ k \in (q+1)..(p-1) BY <1>1, <1>4
    <3>2. k \in DOMAIN t BY <1>1, <1>4
    <3>3. d(k) >= d(p) BY <3>1, <1>1, <1>4
    <3> QED BY <3>2, <3>3, <1>1, <1>4, <1>5
  <2> QED BY <2>1, <1>1, <1>5, AboveIs
<1>8. ASSUME NEW r \in DOMAIN t, IsChild(t, r, p)
      PROVE  /\ q \in Branch(t, r)
             /\ d(r) + 1 = d(p) => r = q
  <2>1. r < p /\ \A k \in (r+1)..p : d(k) > d(r) BY <1>1, <1>8, AboveIs
  <2>2. r <= q
    <3> SUFFICES ASSUME r > q PROVE FALSE BY <1>1, <1>5
    <3>1. r \in (q+1)..(p-1) /\ p \in (r+1)..p BY <2>1, <1>1, <1>5
    <3>2. d(r) >= d(p) /\ d(p) > d(r) BY <3>1, <2>1, <1>4
    <3> QED BY <3>2, <1>1
  <2>3. p \in Branch(t, q) /\ p \in Branch(t, r) BY <1>7, <1>8 DEF IsChild
  <2>4. q \in Branch(t, r) BY <2>2, <2>3, <1>5, AboveTwice
  <2>5. ASSUME d(r) + 1 = d(p) PROVE r = q
    <3> SUFFICES ASSUME r # q PROVE FALSE OBVIOUS
    <3>1. q \in (r+1)..p BY <2>2, <1>1, <1>5
    <3>2. d(q) > d(r) BY <3>1, <2>1
    <3> QED BY <3>2, <2>5, <1>1, <1>5, <1>6
  <2> QED BY <2>4, <2>5
<1>9. Parent(t, p) = q
  <2>1. q \in 1..(p-1) /\ IsChild(t, q, p) /\ t[q].depth + 1 = t[p].depth
    BY <1>4, <1>6, <1>7
  <2>2. \A r \in 1..(p-1) : IsChild(t, r, p) /\ t[r].depth + 1 = t[p].depth => r = q
    BY <1>1, <1>8
  <2> QED BY <2>1, <2>2 DEF Parent
<1> QED BY <1>5, <1>6, <1>7, <1>8, <1>9

\* Nothing is above a base filter.
LEMMA NoneAboveBase ==
    ASSUME NEW S, \A n \in S : n.depth \in Nat, NEW t \in Seq(S),
           NEW p \in DOMAIN t, NEW q \in DOMAIN t, IsChild(t, q, p)
    PROVE  t[p].depth > 0 /\ q < p
<1>1. /\ Len(t) \in Nat /\ DOMAIN t = 1..Len(t)
      /\ \A k \in DOMAIN t : t[k].depth \in Nat
  BY TreeNodes
<1>2. q < p /\ \A k \in (q+1)..p : t[k].depth > t[q].depth BY <1>1, AboveIs
<1>3. t[p].depth > t[q].depth BY <1>1, <1>2
<1> QED BY <1>1, <1>2, <1>3

\* The end of a branch is a leaf of it.
LEMMA LeafBelow ==
    ASSUME NEW S, \A n \in S : n.depth \in Nat, NEW t \in Seq(S), NEW p \in DOMAIN t
    PROVE  \E q \in Branch(t, p) : q \in DOMAIN t /\ Leaf(t, q)
<1>1. /\ Len(t) \in Nat /\ DOMAIN t = 1..Len(t)
      /\ \A k \in DOMAIN t : t[k].depth \in Nat
  BY TreeNodes
<1> DEFINE e == BranchEnd(t, p)
<1>2. /\ e \in p..Len(t) /\ Branch(t, p) = p..e
      /\ \A k \in (p+1)..e : t[k].depth > t[p].depth
      /\ e < Len(t) => t[e+1].depth <= t[p].depth
  BY <1>1, BranchInterval, BranchEndStops
<1> HIDE DEF e
<1>3. e \in 1..Len(t) /\ t[e].depth >= t[p].depth
  <2>1. e \in 1..Len(t) BY <1>1, <1>2
  <2>2. CASE e = p BY <2>1, <2>2, <1>1
  <2>3. CASE e # p
    <3>1. e \in (p+1)..e BY <2>3, <1>1, <1>2
    <3> QED BY <3>1, <2>1, <1>1, <1>2
  <2> QED BY <2>1, <2>2, <2>3
<1> DEFINE f == BranchEnd(t, e)
<1>4. f \in e..Len(t) /\ \A k \in (e+1)..f : t[k].depth > t[e].depth
  BY <1>3, BranchEndStops
<1> HIDE DEF f
<1>5. f = e
  <2> SUFFICES ASSUME f # e PROVE FALSE OBVIOUS
  <2>1. e + 1 \in (e+1)..f /\ e < Len(t) /\ e + 1 \in DOMAIN t BY <1>1, <1>3, <1>4
  <2>2. t[e+1].depth > t[e].depth /\ t[e+1].depth <= t[p].depth BY <2>1, <1>2, <1>4
  <2> QED BY <2>1, <2>2, <1>1, <1>3
<1> QED BY <1>2, <1>3, <1>5, <1>1 DEF Leaf, f

-----------------------------------------------------------------------------
(* Trees of the same shape, and trees of which one has a gap filled.        *)

SameShape(t, u) == Len(u) = Len(t) /\ \A k \in 1..Len(t) : u[k].depth = t[k].depth

LEMMA SameShapes ==
    ASSUME NEW S, \A n \in S : n.depth \in Nat, NEW t \in Seq(S), NEW u \in Seq(S),
           SameShape(t, u)
    PROVE  /\ IsForest(t) => IsForest(u)
           /\ \A p \in 1..Len(t) :
                 /\ Branch(u, p) = Branch(t, p) /\ BranchEnd(u, p) = BranchEnd(t, p)
                 /\ Leaf(u, p) <=> Leaf(t, p)
                 /\ \A q : IsChild(u, p, q) <=> IsChild(t, p, q)
                 /\ Children(u, p) = Children(t, p)
<1>1. Len(t) \in Nat /\ Len(u) = Len(t) /\ \A k \in 1..Len(t) : u[k].depth = t[k].depth
  BY DEF SameShape
<1>2. ASSUME IsForest(t) PROVE IsForest(u)
  <2> SUFFICES ASSUME NEW p \in 1..Len(t)
               PROVE  u[p].depth <= (IF p = 1 THEN 0 ELSE u[p-1].depth + 1)
    BY <1>1 DEF IsForest
  <2>1. p # 1 => p - 1 \in 1..Len(t) BY <1>1
  <2>2. t[p].depth <= (IF p = 1 THEN 0 ELSE t[p-1].depth + 1) BY <1>2 DEF IsForest
  <2> QED BY <2>1, <2>2, <1>1
<1>3. ASSUME NEW p \in 1..Len(t)
      PROVE  Branch(u, p) = Branch(t, p) /\ Children(u, p) = Children(t, p)
  <2>1. ASSUME NEW q \in p..Len(t), NEW k \in (p+1)..q PROVE k \in 1..Len(t)
    BY <1>1
  <2>2. \A q \in p..Len(t) : q \in 1..Len(t) BY <1>1
  <2>3. Branch(u, p) = Branch(t, p) BY <2>1, <1>1 DEF Branch
  <2>4. \A q \in Branch(t, p) : u[q].depth = t[q].depth BY <2>2, <1>1 DEF Branch
  <2> QED BY <2>3, <2>4, <1>1 DEF Children
<1> QED BY <1>2, <1>3 DEF BranchEnd, Leaf, IsChild

\* Where a position is found when n more nodes are put in from p on.
ShiftedBy(x, p, n) == IF x < p THEN x ELSE x + n

\* u is t with n nodes put in, no less deep than the first one behind them.
WithGap(t, u, p, n) ==
    /\ p \in 1..(Len(t) + 1) /\ n \in Nat /\ Len(u) = Len(t) + n
    /\ \A i \in 1..Len(t) : u[ShiftedBy(i, p, n)] = t[i]
    /\ p <= Len(t) => \A k \in p..(p + n - 1) : u[k].depth >= t[p].depth

\* Every node of u is one of t, where the n nodes put in have left it, or one of
\* s at some depth.
MadeOf(u, t, s, p) ==
    \A k \in 1..Len(u) :
        \/ \E i \in 1..Len(t) : k = ShiftedBy(i, p, Len(s)) /\ u[k] = t[i]
        \/ \E i \in 1..Len(s), d \in Nat : u[k] = [s[i] EXCEPT !.depth = d]

\* No node of the others gets or loses one that is above it.
LEMMA GapFilled ==
    ASSUME NEW S, \A m \in S : m.depth \in Nat, NEW t \in Seq(S), NEW u \in Seq(S),
           NEW p, NEW n, WithGap(t, u, p, n), NEW x \in 1..Len(t)
    PROVE  /\ ShiftedBy(x, p, n) \in 1..Len(u)
           /\ \A a \in 1..Len(t) :
                 IsChild(u, ShiftedBy(a, p, n), ShiftedBy(x, p, n)) <=> IsChild(t, a, x)
           /\ \A b \in 1..Len(u) : IsChild(u, b, ShiftedBy(x, p, n)) =>
                 \E a \in 1..Len(t) : b = ShiftedBy(a, p, n)
<1> DEFINE g(i) == ShiftedBy(i, p, n)
<1>1. /\ Len(t) \in Nat /\ \A k \in 1..Len(t) : t[k].depth \in Nat
      /\ Len(u) \in Nat /\ \A k \in 1..Len(u) : u[k].depth \in Nat
      /\ p \in 1..(Len(t) + 1) /\ n \in Nat /\ Len(u) = Len(t) + n
  BY DEF WithGap
<1>2. /\ \A i \in 1..Len(t) : g(i) \in 1..Len(u) /\ u[g(i)].depth = t[i].depth
      /\ \A i, j \in 1..Len(t) : i < j <=> g(i) < g(j)
  <2>1. \A i \in 1..Len(t) : u[g(i)].depth = t[i].depth BY DEF WithGap
  <2>2. Len(t) \in Nat /\ Len(u) = Len(t) + n /\ p \in 1..(Len(t) + 1) /\ p \in Nat /\ n \in Nat
    BY <1>1
  <2>3. \A i \in 1..Len(t) : g(i) \in 1..Len(u) BY <2>2 DEF ShiftedBy
  <2>4. \A i, j \in 1..Len(t) : i < j <=> g(i) < g(j) BY <2>2 DEF ShiftedBy
  <2> HIDE DEF g
  <2> QED BY <2>1, <2>3, <2>4
<1>3. \A k \in 1..Len(u) : k \in p..(p + n - 1) \/ \E i \in 1..Len(t) : k = g(i)
  <2> SUFFICES ASSUME NEW k \in 1..Len(u), k \notin p..(p + n - 1)
               PROVE  \E i \in 1..Len(t) : k = g(i)
    OBVIOUS
  <2>1. CASE k < p
    <3>1. k \in 1..Len(t) /\ k = g(k) BY <2>1, <1>1 DEF ShiftedBy
    <3> QED BY <3>1
  <2>2. CASE k >= p
    <3>1. k - n \in 1..Len(t) /\ k = g(k - n) BY <2>2, <1>1 DEF ShiftedBy
    <3> QED BY <3>1
  <2> QED BY <2>1, <2>2, <1>1
<1>4. \A i \in 1..Len(t) : g(i) = (IF i < p THEN i ELSE i + n) BY DEF ShiftedBy
<1> HIDE DEF g
<1>5. ASSUME NEW a \in 1..Len(t), IsChild(t, a, x) PROVE IsChild(u, g(a), g(x))
  <2>1. a < x /\ \A k \in (a+1)..x : t[k].depth > t[a].depth 
    <3>1. a \in Int /\ x \in Int BY <1>1
    <3> QED BY <1>5, <3>1, AboveIs
  <2>2. ASSUME NEW k \in (g(a)+1)..g(x) PROVE u[k].depth > u[g(a)].depth
    <3>1. k \in 1..Len(u) /\ g(a) \in 1..Len(u) /\ g(x) \in 1..Len(u) BY <1>1, <1>2
    <3>2. ASSUME NEW i \in 1..Len(t), k = g(i) PROVE u[k].depth > u[g(a)].depth
      <4>1. g(a) < g(i) /\ ~(g(x) < g(i)) BY <3>1, <3>2
      <4>2. a < i /\ ~(x < i) BY <4>1, <1>2
      <4>3. t[i].depth > t[a].depth BY <4>2, <2>1, <1>1
      <4> QED BY <4>3, <3>2, <1>2
    <3>3. ASSUME k \in p..(p + n - 1) PROVE u[k].depth > u[g(a)].depth
      <4>1. a < p /\ p <= x
        <5>1. g(a) < k /\ k <= g(x) /\ p <= k /\ k <= p + n - 1 BY <3>1, <3>3
        <5>2. a \in Int /\ x \in Int /\ p \in Int /\ k \in Int /\ n \in Int BY <1>1
        <5>3. g(a) = (IF a < p THEN a ELSE a + n) /\ g(x) = (IF x < p THEN x ELSE x + n) BY <1>4
        <5>4. a < p BY <5>1, <5>2, <5>3
        <5>5. p <= x BY <5>1, <5>2, <5>3
        <5> QED BY <5>4, <5>5
      <4>2. p <= Len(t) /\ p \in (a+1)..x /\ p \in 1..Len(t) BY <4>1, <1>1
      <4>3. t[p].depth > t[a].depth /\ u[k].depth >= t[p].depth
        BY <4>2, <3>3, <2>1 DEF WithGap
      <4>4. u[g(a)].depth = t[a].depth BY <1>2
      <4>5. u[k].depth \in Nat /\ t[p].depth \in Nat /\ t[a].depth \in Nat BY <4>2, <3>1, <1>1
      <4> QED BY ONLY <4>3, <4>4, <4>5
    <3>4. k \in p..(p + n - 1) \/ \E i \in 1..Len(t) : k = g(i) BY <3>1, <1>3
    <3> QED BY <3>2, <3>3, <3>4
  <2>3. g(a) < g(x) /\ g(x) <= Len(u) BY <2>1, <1>1, <1>2
  <2>4. g(a) \in Int /\ g(x) \in Int BY <1>2
  <2> QED BY <2>2, <2>3, <2>4, AboveIs
<1>6. ASSUME NEW a \in 1..Len(t), IsChild(u, g(a), g(x)) PROVE IsChild(t, a, x)
  <2>1. g(a) \in Int /\ g(x) \in Int BY <1>2
  <2>2. g(a) < g(x) /\ \A k \in (g(a)+1)..g(x) : u[k].depth > u[g(a)].depth
    BY <1>6, <2>1, AboveIs
  <2>3. a < x BY <2>2, <1>2
  <2>4. ASSUME NEW k \in (a+1)..x PROVE t[k].depth > t[a].depth
    <3>1. k \in 1..Len(t) /\ a < k /\ ~(x < k) BY <1>1
    <3>2. g(a) < g(k) /\ ~(g(x) < g(k)) /\ g(k) \in 1..Len(u) BY <3>1, <1>2
    <3>3. g(k) \in (g(a)+1)..g(x) BY <3>2, <2>1
    <3>4. u[g(k)].depth > u[g(a)].depth BY <3>3, <2>2
    <3> QED BY <3>1, <3>4, <1>2
  <2> QED BY <2>3, <2>4, <1>1, AboveIs
<1>7. ASSUME NEW b \in 1..Len(u), IsChild(u, b, g(x))
      PROVE  \E a \in 1..Len(t) : b = g(a)
  <2> SUFFICES ASSUME b \in p..(p + n - 1) PROVE FALSE BY <1>3
  <2>1. b < g(x) /\ \A k \in (b+1)..g(x) : u[k].depth > u[b].depth
    <3>1. b \in Int /\ g(x) \in Int BY <1>1, <1>2
    <3> QED BY <1>7, <3>1, AboveIs
  <2>2. p <= x
    <3>1. b \in Int /\ x \in Int /\ p \in Int /\ p <= b BY <1>1
    <3>2. g(x) = (IF x < p THEN x ELSE x + n) BY <1>4
    <3> QED BY <3>1, <3>2, <2>1
  <2>3. p \in 1..Len(t) /\ g(p) = p + n /\ g(x) = x + n BY <2>2, <1>4, <1>1
  <2>4. g(p) \in (b+1)..g(x) BY <2>2, <2>3, <1>1
  <2>5. u[g(p)].depth > u[b].depth /\ u[g(p)].depth = t[p].depth BY <2>1, <2>3, <2>4, <1>2
  <2>6. u[b].depth >= t[p].depth BY <2>3 DEF WithGap
  <2> QED BY <2>3, <2>5, <2>6, <1>1
<1> QED BY <1>2, <1>5, <1>6, <1>7 DEF g

\* Appending a branch and erasing one.
LEMMA AppendedGap ==
    ASSUME NEW N, Hangs(N), NEW t \in Seq(N), IsForest(t), NEW p \in 1..Len(t),
           NEW s \in Seq(N), IsBranch(s)
    PROVE  /\ WithGap(t, AppendChild(t, p, s), BranchEnd(t, p) + 1, Len(s))
           /\ MadeOf(AppendChild(t, p, s), t, s, BranchEnd(t, p) + 1)
<1> DEFINE e == BranchEnd(t, p)
           d == t[p].depth + 1
           b == AtDepth(s, d)
           r == AppendChild(t, p, s)
<1>1. /\ \A n \in N : n.depth \in Nat
      /\ Len(t) \in Nat /\ \A k \in 1..Len(t) : t[k] \in N /\ t[k].depth \in Nat
      /\ Len(s) \in Nat
  BY DEF Hangs
<1>2. /\ e \in p..Len(t)
      /\ e < Len(t) => t[e + 1].depth <= t[p].depth
  BY <1>1, BranchEndStops
<1>3. Len(r) = Len(t) + Len(s) /\ Spliced(r, t, e, b) BY Appended
<1>4. d \in Nat /\ d = t[p].depth + 1 BY <1>1
<1> HIDE DEF d
<1>5. /\ b \in Seq(N) /\ Len(b) = Len(s) /\ IsBranch(b) /\ b[1].depth = d
      /\ \A i \in 1..Len(s) :
            /\ (s[i].depth + d) - s[1].depth \in Nat
            /\ b[i] = [s[i] EXCEPT !.depth = (s[i].depth + d) - s[1].depth]
  BY <1>4, AtDepthBranch
<1> HIDE DEF b, e, r
<1>6. \A i \in 1..Len(s) : b[i].depth >= d
  <2> SUFFICES ASSUME NEW i \in 1..Len(s) PROVE b[i].depth >= d
    OBVIOUS
  <2>1. CASE i = 1 BY <2>1, <1>4, <1>5
  <2>2. CASE i # 1
    <3>1. i \in 2..Len(b) BY <2>2, <1>1, <1>5
    <3>2. b[i].depth > b[1].depth BY <3>1, <1>5 DEF IsBranch
    <3>3. b[i] \in N BY <1>5
    <3> QED BY <3>2, <3>3, <1>1, <1>4, <1>5
  <2> QED BY <2>1, <2>2
<1>7. /\ \A i \in 1..e : r[i] = t[i]
      /\ \A i \in 1..Len(s) : r[e + i] = b[i]
      /\ \A i \in (e + 1)..Len(t) : r[Len(s) + i] = t[i]
  BY <1>3, <1>5 DEF Spliced
<1>8. \A i \in 1..Len(t) : r[ShiftedBy(i, e + 1, Len(s))] = t[i]
  <2> SUFFICES ASSUME NEW i \in 1..Len(t) PROVE r[ShiftedBy(i, e + 1, Len(s))] = t[i]
    OBVIOUS
  <2>1. CASE i < e + 1
    <3>1. i \in 1..e /\ ShiftedBy(i, e + 1, Len(s)) = i BY <2>1, <1>2 DEF ShiftedBy
    <3> QED BY <3>1, <1>7
  <2>2. CASE ~(i < e + 1)
    <3>1. i \in (e + 1)..Len(t) /\ ShiftedBy(i, e + 1, Len(s)) = Len(s) + i
      BY <2>2, <1>1, <1>2 DEF ShiftedBy
    <3> QED BY <3>1, <1>7
  <2> QED BY <2>1, <2>2
<1>9. ASSUME e + 1 <= Len(t), NEW k \in (e + 1)..(e + 1 + Len(s) - 1)
      PROVE  r[k].depth >= t[e + 1].depth
  <2>1. k - e \in 1..Len(s) /\ e + (k - e) = k /\ e < Len(t) /\ e + 1 \in 1..Len(t)
    BY <1>1, <1>2, <1>9
  <2>2. r[k] = b[k - e] /\ b[k - e] \in N
    <3> DEFINE i == k - e
    <3> HIDE DEF i
    <3>1. i \in 1..Len(s) /\ e + i = k BY <2>1 DEF i
    <3>2. r[k] = b[i] /\ b[i] \in N BY <3>1, <1>5, <1>7
    <3> QED BY <3>2 DEF i
  <2>3. r[k].depth >= d BY <2>1, <2>2, <1>6
  <2>4. r[k].depth \in Nat BY <2>2, <1>1
  <2>5. t[e + 1].depth <= t[p].depth BY <2>1, <1>2
  <2>6. t[e + 1].depth \in Nat /\ t[p].depth \in Nat BY <2>1, <1>1
  <2> QED BY ONLY <2>3, <2>4, <2>5, <2>6, <1>4
<1>10. WithGap(t, r, e + 1, Len(s))
  <2>1. e + 1 \in 1..(Len(t) + 1) BY <1>1, <1>2
  <2> QED BY <2>1, <1>1, <1>3, <1>8, <1>9 DEF WithGap
<1>11. ASSUME NEW k \in 1..Len(r)
       PROVE  \/ \E i \in 1..Len(t) : k = ShiftedBy(i, e + 1, Len(s)) /\ r[k] = t[i]
              \/ \E i \in 1..Len(s), c \in Nat : r[k] = [s[i] EXCEPT !.depth = c]
  <2>1. CASE k < e + 1
    <3>1. k \in 1..Len(t) /\ k = ShiftedBy(k, e + 1, Len(s)) BY <2>1, <1>1, <1>2 DEF ShiftedBy
    <3>2. r[k] = t[k] BY <3>1, <1>8
    <3> QED BY <3>1, <3>2
  <2>2. CASE k >= e + 1 + Len(s)
    <3> DEFINE i == k - Len(s)
    <3>1. i \in 1..Len(t) /\ k = ShiftedBy(i, e + 1, Len(s)) BY <2>2, <1>1, <1>2, <1>3 DEF ShiftedBy
    <3> HIDE DEF i
    <3>2. r[k] = t[i] BY <3>1, <1>8
    <3> QED BY <3>1, <3>2
  <2>3. CASE k >= e + 1 /\ k < e + 1 + Len(s)
    <3> DEFINE i == k - e
               c == (s[i].depth + d) - s[1].depth
    <3>1. i \in 1..Len(s) /\ e + i = k BY <2>3, <1>1, <1>2
    <3> HIDE DEF i
    <3>2. r[k] = b[i] BY <3>1, <1>7
    <3>3. c \in Nat /\ b[i] = [s[i] EXCEPT !.depth = c] BY <3>1, <1>5
    <3> QED BY <3>1, <3>2, <3>3
  <2> QED BY <2>1, <2>2, <2>3, <1>1, <1>2, <1>3
<1> QED BY <1>10, <1>11 DEF e, r, MadeOf

LEMMA ErasedGap ==
    ASSUME NEW N, \A n \in N : n.depth \in Nat, NEW t \in Seq(N), IsForest(t),
           NEW p \in 1..Len(t)
    PROVE  WithGap(EraseBranch(t, p), t, p, (BranchEnd(t, p) - p) + 1)
<1> DEFINE e == BranchEnd(t, p)
           r == EraseBranch(t, p)
           n == (e - p) + 1
<1>1. Len(t) \in Nat /\ \A k \in 1..Len(t) : t[k].depth \in Nat
  OBVIOUS
<1>2. /\ e \in p..Len(t)
      /\ \A k \in (p + 1)..e : t[k].depth > t[p].depth
      /\ e < Len(t) => t[e + 1].depth <= t[p].depth
  BY BranchEndStops
<1>3. /\ Len(r) = (p - 1) + (Len(t) - e)
      /\ \A i \in 1..(p - 1) : r[i] = t[i]
      /\ \A i \in (e + 1)..Len(t) : r[(p - 1) + (i - e)] = t[i]
  BY Erased
<1> HIDE DEF e, r
<1>4. n \in Nat /\ Len(r) \in Nat /\ Len(t) = Len(r) + n /\ p \in 1..(Len(r) + 1)
  BY <1>1, <1>2, <1>3
<1>5. ASSUME NEW i \in 1..Len(r) PROVE t[ShiftedBy(i, p, n)] = r[i]
  <2>1. CASE i < p
    <3>1. i \in 1..(p - 1) /\ ShiftedBy(i, p, n) = i BY <2>1 DEF ShiftedBy
    <3> QED BY <3>1, <1>3
  <2>2. CASE ~(i < p)
    <3> DEFINE k == i + n
    <3>1. k \in (e + 1)..Len(t) /\ (p - 1) + (k - e) = i BY <2>2, <1>1, <1>2, <1>4
    <3>2. ShiftedBy(i, p, n) = k BY <2>2 DEF ShiftedBy
    <3> HIDE DEF k
    <3>3. r[(p - 1) + (k - e)] = t[k] BY <3>1, <1>3
    <3> QED BY <3>1, <3>2, <3>3
  <2> QED BY <2>1, <2>2
<1>6. ASSUME p <= Len(r), NEW k \in p..(p + n - 1) PROVE t[k].depth >= r[p].depth
  <2>1. /\ e + 1 \in (e + 1)..Len(t) /\ (p - 1) + ((e + 1) - e) = p
        /\ e < Len(t) /\ e + 1 \in 1..Len(t) /\ k \in p..e /\ k \in 1..Len(t)
    BY <1>1, <1>2, <1>3, <1>6
  <2>2. r[(p - 1) + ((e + 1) - e)] = t[e + 1] BY <2>1, <1>3
  <2>3. r[p] = t[e + 1] BY <2>1, <2>2
  <2>4. t[k].depth >= t[p].depth
    <3>1. CASE k = p BY <3>1, <1>1
    <3>2. CASE k # p
      <4>1. k \in (p + 1)..e BY <3>2, <2>1, <1>1
      <4> QED BY <4>1, <2>1, <1>1, <1>2
    <3> QED BY <3>1, <3>2
  <2> QED BY <2>1, <2>3, <2>4, <1>1, <1>2
<1> HIDE DEF n
<1>7. WithGap(r, t, p, n) BY <1>4, <1>5, <1>6 DEF WithGap
<1> QED BY <1>7 DEF e, r, n

\* The positions of a set, picked out in their order.
Ascending(n, S) == Only([p \in 1..n |-> p], S)

LEMMA AscendingIs ==
    ASSUME NEW n \in Nat, NEW S \in SUBSET (1..n)
    PROVE  /\ Ascending(n, S) \in Seq(S)
           /\ {Ascending(n, S)[i] : i \in DOMAIN Ascending(n, S)} = S
           /\ \A i, j \in DOMAIN Ascending(n, S) :
                 i < j => Ascending(n, S)[i] < Ascending(n, S)[j]
<1> DEFINE c == Cardinality(S)
           s == Ascending(n, S)
<1>1. S \in SUBSET Nat /\ IsFiniteSet(S)
  <2>1. IsFiniteSet(1..n) BY FS_Interval
  <2>2. IsFiniteSet(S) BY <2>1, FS_Subset
  <2> QED BY <2>2
<1>2. /\ c \in Nat
      /\ \A i \in 1..c : Nth(S, i) \in S /\ Cardinality({m \in S : m <= Nth(S, i)}) = i
      /\ \A m, k \in S : m < k =>
            Cardinality({l \in S : l <= m}) < Cardinality({l \in S : l <= k})
  BY <1>1, Places
<1>3. s = [i \in 1..c |-> Nth(S, i)]
  <2>1. s = [i \in 1..c |-> [p \in 1..n |-> p][Nth(S, i)]] BY DEF Only, Ascending
  <2>2. \A i \in 1..c : [p \in 1..n |-> p][Nth(S, i)] = Nth(S, i) BY <1>2
  <2> QED BY <2>1, <2>2
<1> HIDE DEF c, s
<1>4. ASSUME NEW k \in S PROVE \E i \in 1..c : Nth(S, i) = k
  <2> DEFINE B == {l \in S : l <= k}
  <2>1. B \in SUBSET S /\ k \in B BY <1>1
  <2>2. IsFiniteSet(B) /\ Cardinality(B) <= c BY <2>1, <1>1, FS_Subset DEF c
  <2>3. Cardinality(B) \in Nat /\ Cardinality(B) # 0
    BY <2>1, <2>2, FS_CardinalityType, FS_EmptySet
  <2>4. Cardinality(B) \in 1..c BY <2>2, <2>3, <1>2
  <2>5. Nth(S, Cardinality(B)) = k BY <2>4, <1>1, PlaceIs DEF c
  <2> QED BY <2>4, <2>5
<1>5. ASSUME NEW i \in 1..c, NEW j \in 1..c, i < j PROVE Nth(S, i) < Nth(S, j)
  <2> DEFINE a == Nth(S, i)
             b == Nth(S, j)
  <2>1. a \in S /\ b \in S /\ Cardinality({m \in S : m <= a}) = i
        /\ Cardinality({m \in S : m <= b}) = j
    BY <1>2
  <2> HIDE DEF a, b
  <2>2. a # b BY <2>1, <1>5, <1>2
  <2>3. ~(b < a)
    <3> SUFFICES ASSUME b < a PROVE FALSE OBVIOUS
    <3>1. Cardinality({l \in S : l <= b}) < Cardinality({l \in S : l <= a}) BY <2>1, <1>2
    <3> QED BY <3>1, <2>1, <1>5, <1>2
  <2>4. a \in Nat /\ b \in Nat BY <2>1, <1>1
  <2> QED BY <2>2, <2>3, <2>4 DEF a, b
<1>6. DOMAIN s = 1..c /\ \A i \in 1..c : s[i] = Nth(S, i) BY <1>3
<1>7. s \in Seq(S)
  <2> DEFINE place(i) == Nth(S, i)
  <2>1. \A i \in 1..c : place(i) \in S BY <1>2
  <2>2. s = [i \in 1..c |-> place(i)] BY <1>3
  <2> HIDE DEF place
  <2> QED BY <2>1, <2>2, <1>2
<1>8. {s[i] : i \in DOMAIN s} = S
  <2>1. \A i \in 1..c : s[i] \in S BY <1>2, <1>6
  <2>2. \A k \in S : \E i \in 1..c : s[i] = k BY <1>4, <1>6
  <2> QED BY ONLY <2>1, <2>2, <1>6
<1>9. \A i, j \in 1..c : i < j => s[i] < s[j] BY <1>5, <1>6
<1> QED BY ONLY <1>6, <1>7, <1>8, <1>9 DEF s

\* A set of numbers that has zero and all successors has all numbers.
LEMMA AllNumbers ==
    ASSUME NEW S, 0 \in S, \A n \in S \cap Nat : n + 1 \in S
    PROVE  Nat \subseteq S
<1> DEFINE Bad == Nat \ S
<1>1. SUFFICES ASSUME Bad # {} PROVE FALSE OBVIOUS
<1>2. PICK m \in Bad : \A n \in Bad : m <= n
  <2>1. Bad \in SUBSET Nat OBVIOUS
  <2> HIDE DEF Bad
  <2> QED BY <1>1, <2>1, LeastNumber
<1>3. m # 0 /\ m \in Nat OBVIOUS
<1>4. m - 1 \in Nat /\ m - 1 \notin Bad BY <1>2, <1>3
<1>5. m - 1 \in S \cap Nat BY <1>4
<1>6. (m - 1) + 1 \in S BY <1>5
<1> QED BY <1>6, <1>3
=============================================================================
