----------------------- MODULE Filters_proofs -----------------------
(***************************************************************************)
(* Filters in a tree and by themselves.                                    *)
(*                                                                         *)
(* First, who owns a stream, for trees of any shape.  Every stream that    *)
(* has been made is in one of these places: with the collector, with a     *)
(* filter that keeps it, in the output, deleted, or lost.  The invariants  *)
(* follow from three facts about the walk: a filter is refreshed once      *)
(* (Walked), the places exclude each other and say how often a stream was  *)
(* deleted (Accounted), and the collector's levels and the stack of inputs *)
(* hold the streams of the ancestors of the filter at hand (Layered).      *)
(*                                                                         *)
(* Then the settings of one filter of any kind, with any range data and    *)
(* any number of changes.  What was cached fits the settings as they are   *)
(* (Fresh) because each change that leaves a cache leaves what it was made *)
(* of (the lemmas named Same and Answers, one of each for every kind), and *)
(* because the settings stay such that refresh and initFilter do not       *)
(* change them behind a cache (Settled, the lemmas named Steady).          *)
(***************************************************************************)
EXTENDS RefreshCollector, FilterSettings

-----------------------------------------------------------------------------
(* The invariant.                                                           *)

\* Streams are made, and put out, by filters that the walk has left behind, and a
\* branch is walked from a start that has no input.
Walked ==
    status = "running" =>
        /\ inDataStack # <<>> /\ inDataStack[1] = {}
        /\ filtIt # NoFilter =>
              /\ itPos <= Len(starts)
              /\ filtIt \in Branch(filters, starts[itPos])
              /\ \A s \in made \cup DOMAIN outData : s < filtIt
        /\ filtIt = NoFilter /\ itPos <= Len(starts) =>
              \A s \in made \cup DOMAIN outData : s < starts[itPos]

\* What the collector tracks is not part of the output, and nothing but that
\* and the output of a failed refresh is ever deleted.
Accounted ==
    /\ Tracked \subseteq made /\ InOutput \subseteq made /\ forgotten \subseteq InOutput
    /\ Tracked \cap InOutput = {}
    /\ \A s \in Streams :
          /\ deletions[s] <= 1
          /\ s \in (Streams \ made) \cup Tracked \cup cached => deletions[s] = 0
          /\ s \in InOutput /\ status # "failed" => deletions[s] = 0
          /\ s \in InOutput \ cached /\ status = "failed" => deletions[s] = 1

\* An input is kept, or part of the output, or tracked at a level up to that of
\* the filter it is for; what a level tracks is of the filter above it whose
\* branch is being walked, or has just been walked.
Layered ==
    status = "running" /\ filtIt # NoFilter =>
        /\ \A i \in 1..Level(filtIt) : \A s \in inDataStack[i] :
              /\ s \in made
              /\ s \in cached \cup forgotten \/ \E j \in 1..i : s \in nodes[j]
        /\ \A i \in DOMAIN nodes : \A s \in nodes[i] :
              /\ ~Leaf(filters, s)
              /\ filters[s].depth + 2 = filters[starts[itPos]].depth + i
              /\ filtIt - 1 \in Branch(filters, s)

Owned ==
    TypeOK /\ CollectorSane /\ Walked /\ Accounted /\ Layered /\ LostBeforeSiblingOnly

-----------------------------------------------------------------------------
(* The walk over the tree.                                                 *)

LEMMA TreeShape ==
    ASSUME TypeOK
    PROVE  /\ filters \in Seq([depth : Nat]) /\ IsForest(filters)
           /\ Len(filters) \in Nat \ {0} /\ Streams = 1..Len(filters)
           /\ \A p \in Streams : filters[p].depth \in Nat
           /\ Len(starts) \in Nat /\ DOMAIN starts = 1..Len(starts)
           /\ \A i \in 1..Len(starts) : starts[i] \in Streams
           /\ \A i, j \in 1..Len(starts) :
                 i < j => starts[i] < starts[j] /\ starts[j] \notin Branch(filters, starts[i])
<1> DEFINE t == [shape |-> filters, starts |-> starts]
<1>1. t \in Trees /\ t.shape = filters /\ t.starts = starts
  BY DEF TypeOK
<1> HIDE DEF t
<1>2. /\ filters \in Seq([depth : Nat]) /\ filters # <<>> /\ IsForest(filters)
      /\ starts \in Seq(DOMAIN filters)
  BY <1>1, TreesAssumption DEF TreesAssumption
<1>3. \A i, j \in DOMAIN starts :
         i < j => starts[i] < starts[j] /\ starts[j] \notin Branch(filters, starts[i])
  BY <1>1, StartsAssumption DEF StartsAssumption
<1>4. Len(filters) \in Nat \ {0} /\ Streams = 1..Len(filters)
  BY <1>2 DEF Streams
<1>5. \A p \in Streams : filters[p].depth \in Nat
  <2>1. \A p \in 1..Len(filters) : filters[p] \in [depth : Nat] BY <1>2, SeqElements
  <2>2. \A n \in [depth : Nat] : n.depth \in Nat OBVIOUS
  <2> QED BY <2>1, <2>2, <1>4
<1>6. /\ Len(starts) \in Nat /\ DOMAIN starts = 1..Len(starts)
      /\ \A i \in 1..Len(starts) : starts[i] \in Streams
  BY <1>2 DEF Streams
<1> QED BY <1>2, <1>3, <1>4, <1>5, <1>6

\* A branch, as the positions from its root to its end.
LEMMA BranchSpan ==
    ASSUME TypeOK, NEW s \in Streams
    PROVE  /\ BranchEnd(filters, s) \in s..Len(filters)
           /\ Branch(filters, s) = s..BranchEnd(filters, s)
           /\ \A k \in (s+1)..BranchEnd(filters, s) : filters[k].depth > filters[s].depth
           /\ BranchEnd(filters, s) < Len(filters) =>
                 filters[BranchEnd(filters, s) + 1].depth <= filters[s].depth
<1>1. filters \in Seq([depth : Nat]) /\ s \in 1..Len(filters) BY TreeShape
<1>2. \A n \in [depth : Nat] : n.depth \in Nat OBVIOUS
<1> QED BY <1>1, <1>2, BranchInterval, BranchEndStops

\* Within a branch the walk goes down by one level at most, and from a leaf not
\* at all; a filter that is no leaf is followed by a child.
LEMMA StepDown ==
    ASSUME TypeOK, NEW s \in Streams, NEW p \in Branch(filters, s)
    PROVE  /\ p \in Streams /\ filters[p].depth >= filters[s].depth
           /\ p + 1 \in Branch(filters, s) =>
                 /\ p + 1 \in Streams
                 /\ filters[p + 1].depth > filters[s].depth
                 /\ filters[p + 1].depth <= filters[p].depth + 1
                 /\ Leaf(filters, p) => filters[p + 1].depth <= filters[p].depth
           /\ ~Leaf(filters, p) =>
                 /\ p + 1 \in Branch(filters, s)
                 /\ filters[p + 1].depth = filters[p].depth + 1
<1> DEFINE d(k) == filters[k].depth
           e == BranchEnd(filters, s)
           f == BranchEnd(filters, p)
<1>1. /\ Len(filters) \in Nat \ {0} /\ Streams = 1..Len(filters)
      /\ \A k \in Streams : d(k) \in Nat
      /\ \A k \in 2..Len(filters) : d(k) <= d(k-1) + 1
  BY TreeShape DEF IsForest
<1>2. /\ e \in s..Len(filters) /\ Branch(filters, s) = s..e
      /\ \A k \in (s+1)..e : d(k) > d(s)
      /\ e < Len(filters) => d(e + 1) <= d(s)
  BY SMTT(20), BranchSpan
<1>3. p \in Streams BY <1>1, <1>2
<1>4. /\ f \in p..Len(filters)
      /\ \A k \in (p+1)..f : d(k) > d(p)
      /\ f < Len(filters) => d(f + 1) <= d(p)
  BY <1>3, BranchSpan
<1>5. Leaf(filters, p) <=> f = p BY DEF Leaf
<1> HIDE DEF e, f, d
<1>6. d(p) >= d(s)
  <2>1. CASE p = s BY <2>1, <1>1
  <2>2. CASE p # s
    <3>1. p \in (s+1)..e BY <2>2, <1>1, <1>2
    <3> QED BY <3>1, <1>1, <1>2, <1>3
  <2> QED BY <2>1, <2>2
<1>7. ASSUME p + 1 \in Branch(filters, s)
      PROVE  /\ p + 1 \in Streams /\ d(p + 1) > d(s) /\ d(p + 1) <= d(p) + 1
             /\ Leaf(filters, p) => d(p + 1) <= d(p)
  <2>1. p + 1 \in (s+1)..e /\ p + 1 \in 2..Len(filters) /\ (p + 1) - 1 = p
    BY <1>7, <1>1, <1>2, <1>3
  <2>2. d(p + 1) > d(s) /\ d(p + 1) <= d(p) + 1 BY <2>1, <1>1, <1>2
  <2>3. ASSUME Leaf(filters, p) PROVE d(p + 1) <= d(p)
    BY <2>3, <2>1, <1>1, <1>4, <1>5
  <2> QED BY <2>1, <2>2, <2>3, <1>1
<1>8. ASSUME ~Leaf(filters, p)
      PROVE  p + 1 \in Branch(filters, s) /\ d(p + 1) = d(p) + 1
  <2>1. p + 1 \in (p+1)..f /\ p + 1 \in 2..Len(filters) /\ (p + 1) - 1 = p
    BY <1>8, <1>1, <1>3, <1>4, <1>5
  <2>2. d(p + 1) > d(p) /\ d(p + 1) <= d(p) + 1 BY <2>1, <1>1, <1>4
  <2>3. d(p + 1) = d(p) + 1 BY <2>1, <2>2, <1>1, <1>3
  <2>4. p + 1 <= e
    <3> SUFFICES ASSUME p = e, e < Len(filters) PROVE FALSE
      BY <2>1, <1>1, <1>2
    <3>1. d(p + 1) <= d(s) BY <1>2
    <3> QED BY <3>1, <2>1, <2>3, <1>1, <1>3, <1>6
  <2> QED BY <2>1, <2>3, <2>4, <1>1, <1>2
<1> QED BY <1>3, <1>6, <1>7, <1>8 DEF d

\* The walk leaves a branch at its end: at a filter that is not deeper.
LEMMA BranchGoesOn ==
    ASSUME TypeOK, NEW s \in Streams, NEW p \in Streams, p - 1 \in Branch(filters, s)
    PROVE  /\ filters[p].depth > filters[s].depth => p \in Branch(filters, s)
           /\ filters[p].depth = filters[s].depth => HasLaterSibling(s)
<1> DEFINE e == BranchEnd(filters, s)
<1>1. /\ Len(filters) \in Nat \ {0} /\ Streams = 1..Len(filters)
      /\ \A k \in Streams : filters[k].depth \in Nat
  BY TreeShape
<1>2. /\ e \in s..Len(filters) /\ Branch(filters, s) = s..e
      /\ \A k \in (s+1)..e : filters[k].depth > filters[s].depth
      /\ e < Len(filters) => filters[e + 1].depth <= filters[s].depth
  BY BranchSpan
<1>3. HasLaterSibling(s) <=> e + 1 \in 1..Len(filters) /\ filters[e + 1].depth = filters[s].depth
  BY <1>1 DEF HasLaterSibling, Streams
<1> HIDE DEF e
<1>4. p - 1 \in s..e BY <1>2
<1>5. CASE p - 1 = e
  <2>1. p = e + 1 /\ e < Len(filters) BY <1>5, <1>1, <1>2
  <2> QED BY <2>1, <1>1, <1>2, <1>3
<1>6. CASE p - 1 # e
  <2>1. p \in (s+1)..e BY <1>6, <1>4, <1>1, <1>2
  <2> QED BY <2>1, <1>1, <1>2
<1> QED BY <1>5, <1>6

\* The filter at hand.
LEMMA AtHand ==
    ASSUME TypeOK, CollectorSane, Walked, status = "running", filtIt # NoFilter
    PROVE  /\ filtIt \in Streams /\ itPos \in 1..Len(starts) /\ starts[itPos] \in Streams
           /\ filtIt \in Branch(filters, starts[itPos])
           /\ Level(filtIt) \in Nat \ {0}
           /\ Level(filtIt) + filters[starts[itPos]].depth = filters[filtIt].depth + 1
           /\ Level(filtIt) <= Len(nodes) /\ Level(filtIt) <= Len(inDataStack)
<1>1. itPos \in 1..Len(starts) /\ filtIt \in Branch(filters, starts[itPos])
  BY TreeShape DEF Walked, TypeOK
<1>2. starts[itPos] \in Streams BY <1>1, TreeShape
<1>3. filtIt \in Streams /\ filters[filtIt].depth >= filters[starts[itPos]].depth
  BY <1>1, <1>2, StepDown
<1>4. filters[filtIt].depth \in Nat /\ filters[starts[itPos]].depth \in Nat
  BY <1>2, <1>3, TreeShape
<1>5. /\ Level(filtIt) \in Nat \ {0}
      /\ Level(filtIt) + filters[starts[itPos]].depth = filters[filtIt].depth + 1
  BY <1>3, <1>4 DEF Level
<1> QED BY <1>1, <1>2, <1>3, <1>5 DEF CollectorSane

-----------------------------------------------------------------------------
(* The collector's levels.                                                 *)

LEMMA UnionOfLevels ==
    ASSUME NEW S, NEW n \in Seq(S)
    PROVE  \A s : s \in UNION {n[i] : i \in DOMAIN n} <=> \E i \in 1..Len(n) : s \in n[i]
<1>1. DOMAIN n = 1..Len(n) OBVIOUS
<1> QED BY <1>1

LEMMA TrackedIs ==
    ASSUME TypeOK
    PROVE  \A s : s \in Tracked <=> \E i \in 1..Len(nodes) : s \in nodes[i]
BY UnionOfLevels DEF TypeOK, Tracked

LEMMA DoomedIs ==
    ASSUME NEW level
    PROVE  \A s : s \in DoomedAbove(level)
                    <=> \E i \in (level + 2)..Len(nodes) : s \in nodes[i]
BY DEF DoomedAbove

LEMMA OutputIs == \A s : s \in InOutput <=> \E p \in DOMAIN outData : s \in outData[p]
BY DEF InOutput

\* What an input is, for the filter at hand.
LEMMA Inputs ==
    ASSUME TypeOK, CollectorSane, Walked, Layered, status = "running", filtIt # NoFilter,
           NEW s \in InputOf(filtIt)
    PROVE  /\ s \in made /\ s \in Streams /\ s # filtIt
           /\ s \in cached \cup forgotten \/ \E j \in 1..Level(filtIt) : s \in nodes[j]
<1>1. Level(filtIt) \in Nat \ {0} BY AtHand
<1>2. /\ s \in made
      /\ s \in cached \cup forgotten \/ \E j \in 1..Level(filtIt) : s \in nodes[j]
  BY <1>1 DEF Layered, InputOf
<1>3. s < filtIt /\ s \in Streams BY <1>2 DEF Walked, TypeOK
<1>4. s \in Nat BY <1>3, TreeShape
<1> QED BY <1>2, <1>3, <1>4

\* Cutting the levels, and adding one.
LEMMA CutLevels ==
    ASSUME NEW S, NEW n \in Seq(S), NEW level \in Nat \ {0}, level <= Len(n)
    PROVE  /\ SubSeq(n, 1, level) \in Seq(S) /\ Len(SubSeq(n, 1, level)) = level
           /\ DOMAIN SubSeq(n, 1, level) = 1..level
           /\ \A i \in 1..level : SubSeq(n, 1, level)[i] = n[i]
<1>1. 1 \in Nat \ {0} /\ level \in 0..Len(n) /\ 1 <= level + 1 /\ (level - 1) + 1 = level
  OBVIOUS
<1>2. /\ SubSeq(n, 1, level) \in Seq(S) /\ Len(SubSeq(n, 1, level)) = (level - 1) + 1
      /\ \A i \in 1..level : SubSeq(n, 1, level)[(i - 1) + 1] = n[i]
  BY <1>1, SubSeqElements
<1>3. \A i \in 1..level : (i - 1) + 1 = i OBVIOUS
<1> QED BY <1>1, <1>2, <1>3

LEMMA AddLevel ==
    ASSUME NEW S, NEW n \in Seq(S), NEW x \in S
    PROVE  /\ Append(n, x) \in Seq(S) /\ Len(Append(n, x)) = Len(n) + 1
           /\ \A i \in 1..Len(n) : Append(n, x)[i] = n[i]
           /\ Append(n, x)[Len(n) + 1] = x
OBVIOUS

\* The levels that are left, and those that are left and doomed together: the
\* two have nothing in common, and both are tracked.
UpTo(level) == UNION {nodes[i] : i \in 1..level}

LEMMA LevelsApart ==
    ASSUME TypeOK, CollectorSane, NEW level \in Nat \ {0}, level <= Len(nodes)
    PROVE  /\ UpTo(level) \subseteq Tracked /\ DoomedAbove(level) \subseteq Tracked
           /\ UpTo(level) \cap DoomedAbove(level) = {}
<1>1. nodes \in Seq(SUBSET Streams) /\ DOMAIN nodes = 1..Len(nodes) /\ Len(nodes) \in Nat
  BY DEF TypeOK
<1>2. 1..level \subseteq 1..Len(nodes) /\ (level + 2)..Len(nodes) \subseteq 1..Len(nodes)
  BY <1>1
<1>3. UpTo(level) \subseteq Tracked /\ DoomedAbove(level) \subseteq Tracked
  BY <1>1, <1>2 DEF UpTo, DoomedAbove, Tracked
<1>4. ASSUME NEW s \in UpTo(level), s \in DoomedAbove(level) PROVE FALSE
  <2>1. PICK i \in 1..level : s \in nodes[i] BY DEF UpTo
  <2>2. PICK j \in (level + 2)..Len(nodes) : s \in nodes[j] BY <1>4 DEF DoomedAbove
  <2>3. i \in DOMAIN nodes /\ j \in DOMAIN nodes /\ i # j BY <1>1, <1>2
  <2> QED BY <2>1, <2>2, <2>3 DEF CollectorSane
<1> QED BY <1>3, <1>4

\* A filter that runs, and what the collector deletes after it.
Ran(passed, mine, kept) ==
    /\ mine \subseteq {filtIt} /\ kept \subseteq mine
    /\ passed \subseteq made \cap (cached \cup forgotten \cup UpTo(Level(filtIt)))
    /\ made' = made \cup mine /\ cached' = cached \cup kept
    /\ UNCHANGED tree

Cut(level) ==
    /\ \A s \in Streams : deletions'[s] = deletions[s]
                                        + (IF s \in DoomedAbove(level) THEN 1 ELSE 0)
    /\ deletions' \in [Streams -> Nat]

LEMMA CutIs ==
    ASSUME TypeOK, NEW level, deletions' = Delete(DoomedAbove(level))
    PROVE  Cut(level)
<1>1. \A s \in Streams : deletions[s] \in Nat BY DEF TypeOK
<1> HIDE DEF Streams
<1> QED BY <1>1 DEF Delete, Cut

\* The stack and the levels, after a filter that has children: only its own
\* stream is new to the collector.
InnerAfter(passed, mine, kept) ==
    /\ Ran(passed, mine, kept) /\ Cut(Level(filtIt))
    /\ nodes' \in Seq(SUBSET Streams) /\ Len(nodes') = Level(filtIt) + 1
    /\ \A i \in 1..Level(filtIt) : nodes'[i] = nodes[i]
    /\ nodes'[Level(filtIt) + 1] = mine \ kept
    /\ Tracked' = UpTo(Level(filtIt)) \cup (mine \ kept)
    /\ inDataStack' \in Seq(SUBSET Streams) /\ Len(inDataStack') = Level(filtIt) + 1
    /\ \A i \in 1..Level(filtIt) : inDataStack'[i] = inDataStack[i]
    /\ inDataStack'[Level(filtIt) + 1] = passed \cup mine
    /\ ~Leaf(filters, filtIt) /\ Advance
    /\ UNCHANGED <<forgotten, outData, status>>

\* After a leaf: its output is no longer tracked.
LeafAfter(passed, mine, kept) ==
    /\ Ran(passed, mine, kept) /\ Cut(Level(filtIt))
    /\ nodes' \in Seq(SUBSET Streams) /\ Len(nodes') = Level(filtIt)
    /\ \A i \in 1..Level(filtIt) : nodes'[i] = nodes[i] \ (passed \cup mine)
    /\ Tracked' = UpTo(Level(filtIt)) \ (passed \cup mine)
    /\ forgotten' = forgotten \cup ((passed \cup mine) \cap UpTo(Level(filtIt)))
    /\ inDataStack' \in Seq(SUBSET Streams) /\ Len(inDataStack') = Level(filtIt)
    /\ \A i \in 1..Level(filtIt) : inDataStack'[i] = inDataStack[i]
    /\ DOMAIN outData' \subseteq DOMAIN outData \cup {filtIt}
    /\ InOutput' = InOutput \cup passed \cup mine
    /\ Leaf(filters, filtIt) /\ Advance
    /\ status' = status

LEMMA RanIs ==
    ASSUME TypeOK, CollectorSane, Walked, Layered, status = "running", filtIt # NoFilter,
           NEW passed, NEW mine \in SUBSET {filtIt}, NEW kept \in SUBSET mine,
           Runs(passed, mine, kept), UNCHANGED tree
    PROVE  Ran(passed, mine, kept)
<1>1. passed \subseteq made \cap (cached \cup forgotten \cup UpTo(Level(filtIt)))
  BY Inputs DEF Runs, UpTo
<1> QED BY <1>1 DEF Runs, Ran

LEMMA InnerLevels ==
    ASSUME TypeOK, CollectorSane, Walked, Accounted, Layered,
           status = "running", filtIt # NoFilter,
           NEW passed, NEW mine \in SUBSET {filtIt}, NEW kept \in SUBSET mine,
           RefreshInner(passed, mine, kept)
    PROVE  InnerAfter(passed, mine, kept)
<1> DEFINE L == Level(filtIt)
           down == SubSeq(nodes, 1, L)
           new == Untracked(down, passed \cup mine)
<1>1. /\ filtIt \in Streams /\ L \in Nat \ {0} /\ L <= Len(nodes) /\ L <= Len(inDataStack)
      /\ nodes \in Seq(SUBSET Streams) /\ inDataStack \in Seq(SUBSET Streams)
  BY AtHand DEF TypeOK
<1>2. /\ Runs(passed, mine, kept)
      /\ deletions' = Delete(DoomedAbove(L))
      /\ nodes' = Append(down, new)
      /\ inDataStack' = Append(SubSeq(inDataStack, 1, L), passed \cup mine)
      /\ ~Leaf(filters, filtIt) /\ Advance
      /\ UNCHANGED <<tree, forgotten, outData, status>>
  BY DEF RefreshInner, CollectToLevel
<1>3. /\ down \in Seq(SUBSET Streams) /\ Len(down) = L /\ DOMAIN down = 1..L
      /\ \A i \in 1..L : down[i] = nodes[i]
  BY <1>1, CutLevels
<1>4. Ran(passed, mine, kept) BY <1>2, RanIs
<1>5. filtIt \notin made /\ filtIt \in Nat
  BY <1>1, TreeShape DEF Walked
<1>6. UpTo(L) \subseteq made /\ forgotten \subseteq made /\ cached \subseteq made
  BY <1>1, LevelsApart DEF Accounted, TypeOK
<1>7. new = {s \in (passed \cup mine) \ cached' :
                s \notin forgotten /\ \A i \in DOMAIN down : s \notin down[i]}
  BY DEF Untracked
<1> HIDE DEF down, new
<1>8. new = mine \ kept
  <2>1. new = ((passed \cup mine) \ cached') \ (forgotten \cup UpTo(L))
    BY <1>3, <1>7 DEF UpTo
  <2> QED BY <2>1, <1>4, <1>5, <1>6 DEF Ran, L
<1>9. new \in SUBSET Streams /\ passed \cup mine \in SUBSET Streams
  BY <1>1, <1>4, <1>8 DEF Ran, TypeOK
<1> HIDE DEF L
<1>10. /\ nodes' \in Seq(SUBSET Streams) /\ Len(nodes') = L + 1
       /\ \A i \in 1..L : nodes'[i] = nodes[i]
       /\ nodes'[L + 1] = mine \ kept
  BY <1>2, <1>3, <1>8, <1>9, AddLevel
<1>11. Tracked' = UpTo(L) \cup (mine \ kept)
  <2>1. \A s : s \in Tracked' <=> \E i \in 1..(L + 1) : s \in nodes'[i]
    BY <1>10, UnionOfLevels DEF Tracked
  <2>2. 1..(L + 1) = 1..L \cup {L + 1} BY <1>1
  <2>3. \A s : s \in Tracked' <=> (\E i \in 1..L : s \in nodes[i]) \/ s \in mine \ kept
    BY <2>1, <2>2, <1>10
  <2> QED BY <2>3 DEF UpTo
<1>12. /\ inDataStack' \in Seq(SUBSET Streams) /\ Len(inDataStack') = L + 1
       /\ \A i \in 1..L : inDataStack'[i] = inDataStack[i]
       /\ inDataStack'[L + 1] = passed \cup mine
  <2> DEFINE under == SubSeq(inDataStack, 1, L)
  <2>1. /\ under \in Seq(SUBSET Streams) /\ Len(under) = L
        /\ \A i \in 1..L : under[i] = inDataStack[i]
    BY <1>1, CutLevels
  <2> HIDE DEF under
  <2>2. inDataStack' = Append(under, passed \cup mine) BY <1>2 DEF under
  <2> QED BY <2>1, <2>2, <1>9, AddLevel
<1>13. Cut(L) BY <1>2, CutIs
<1> QED BY <1>2, <1>4, <1>10, <1>11, <1>12, <1>13 DEF L, InnerAfter

LEMMA LeafLevels ==
    ASSUME TypeOK, CollectorSane, Walked, Accounted, Layered,
           status = "running", filtIt # NoFilter,
           NEW passed, NEW mine \in SUBSET {filtIt}, NEW kept \in SUBSET mine,
           RefreshLeaf(passed, mine, kept)
    PROVE  LeafAfter(passed, mine, kept)
<1> DEFINE L == Level(filtIt)
           down == SubSeq(nodes, 1, L)
           data == passed \cup mine
<1>1. /\ filtIt \in Streams /\ L \in Nat \ {0} /\ L <= Len(nodes) /\ L <= Len(inDataStack)
      /\ nodes \in Seq(SUBSET Streams) /\ inDataStack \in Seq(SUBSET Streams)
  BY AtHand DEF TypeOK
<1>2. /\ Runs(passed, mine, kept)
      /\ deletions' = Delete(DoomedAbove(L))
      /\ Forget(down, data)
      /\ inDataStack' = SubSeq(inDataStack, 1, L)
      /\ outData' = IF data = {} THEN outData
                    ELSE [p \in DOMAIN outData \cup {filtIt} |->
                             IF p = filtIt THEN data ELSE outData[p]]
      /\ Leaf(filters, filtIt) /\ Advance
      /\ UNCHANGED <<tree, status>>
  BY DEF RefreshLeaf, CollectToLevel
<1>3. /\ down \in Seq(SUBSET Streams) /\ Len(down) = L /\ DOMAIN down = 1..L
      /\ \A i \in 1..L : down[i] = nodes[i]
  BY <1>1, CutLevels
<1>4. /\ nodes' = [i \in DOMAIN down |-> down[i] \ data]
      /\ forgotten' = forgotten \cup (data \cap UNION {down[i] : i \in DOMAIN down})
  BY <1>2 DEF Forget
<1>5. Ran(passed, mine, kept) BY <1>2, RanIs
<1>6. Cut(L) BY <1>2, CutIs
<1> HIDE DEF L, down, data
<1>7. \A i \in 1..L : nodes'[i] = nodes[i] \ data
  BY <1>3, <1>4
<1>8. nodes' \in Seq(SUBSET Streams) /\ Len(nodes') = L
  <2>1. \A i \in 1..L : down[i] \ data \in SUBSET Streams BY <1>3
  <2>2. nodes' = [i \in 1..L |-> down[i] \ data] BY <1>3, <1>4
  <2> QED BY <2>1, <2>2, <1>1
<1>9. Tracked' = UpTo(L) \ data
  <2>1. \A s : s \in Tracked' <=> \E i \in 1..L : s \in nodes'[i]
    BY <1>8, UnionOfLevels DEF Tracked
  <2>2. \A s : s \in Tracked' <=> (\E i \in 1..L : s \in nodes[i]) /\ s \notin data
    BY <2>1, <1>7
  <2> QED BY <2>2 DEF UpTo
<1>10. forgotten' = forgotten \cup (data \cap UpTo(L))
  BY <1>3, <1>4 DEF UpTo
<1>11. /\ inDataStack' \in Seq(SUBSET Streams) /\ Len(inDataStack') = L
       /\ \A i \in 1..L : inDataStack'[i] = inDataStack[i]
  BY <1>1, <1>2, CutLevels
<1>12. filtIt \notin DOMAIN outData
  BY <1>1, TreeShape DEF Walked
<1>13. DOMAIN outData' \subseteq DOMAIN outData \cup {filtIt}
  BY <1>2
<1>14. InOutput' = InOutput \cup data
  <2>1. CASE data = {} BY <2>1, <1>2 DEF InOutput
  <2>2. CASE data # {}
    <3>1. /\ DOMAIN outData' = DOMAIN outData \cup {filtIt}
          /\ outData'[filtIt] = data
          /\ \A p \in DOMAIN outData : outData'[p] = outData[p]
      BY <2>2, <1>2, <1>12
    <3>2. \A s : s \in InOutput' <=> s \in InOutput \/ s \in data
      BY <3>1 DEF InOutput
    <3> QED BY <3>2
  <2> QED BY <2>1, <2>2
<1>15. InOutput' = InOutput \cup passed \cup mine BY <1>14 DEF data
<1> QED
  BY <1>2, <1>5, <1>6, <1>7, <1>8, <1>9, <1>10, <1>11, <1>13, <1>15 DEF L, data, LeafAfter

-----------------------------------------------------------------------------
(* A filter that is refreshed.                                             *)

\* What a filter leaves behind, whether it has children or not.
FilterAfter(passed, mine, kept) ==
    InnerAfter(passed, mine, kept) \/ LeafAfter(passed, mine, kept)

\* On to the next filter of the branch, or out of the branch: then the next
\* start lies beyond the filter.
LEMMA AdvanceIs ==
    ASSUME TypeOK, CollectorSane, Walked, status = "running", filtIt # NoFilter, Advance
    PROVE  \/ /\ filtIt' = filtIt + 1 /\ filtIt' # NoFilter /\ itPos' = itPos
              /\ filtIt + 1 \in Branch(filters, starts[itPos]) /\ filtIt + 1 \in Streams
           \/ /\ filtIt' = NoFilter /\ itPos' = itPos + 1 /\ Leaf(filters, filtIt)
              /\ itPos + 1 <= Len(starts) => filtIt < starts[itPos + 1]
<1>1. /\ filtIt \in Streams /\ itPos \in 1..Len(starts) /\ starts[itPos] \in Streams
      /\ filtIt \in Branch(filters, starts[itPos])
  BY AtHand
<1>2. Streams \subseteq Nat \ {0} /\ Len(starts) \in Nat BY TreeShape
<1>3. CASE filtIt + 1 \in Branch(filters, starts[itPos])
  BY <1>1, <1>2, <1>3, StepDown DEF Advance, NoFilter
<1>4. CASE filtIt + 1 \notin Branch(filters, starts[itPos])
  <2>1. Leaf(filters, filtIt) BY <1>1, <1>4, StepDown
  <2>2. ASSUME itPos + 1 <= Len(starts) PROVE filtIt < starts[itPos + 1]
    <3>1. /\ starts[itPos + 1] \in Streams /\ starts[itPos + 1] > starts[itPos]
          /\ starts[itPos + 1] \notin Branch(filters, starts[itPos])
      <4>1. itPos + 1 \in 1..Len(starts) /\ itPos < itPos + 1 BY <2>2, <1>1, <1>2
      <4> QED BY <4>1, <1>1, TreeShape
    <3> DEFINE e == BranchEnd(filters, starts[itPos])
    <3>2. Branch(filters, starts[itPos]) = starts[itPos]..e BY <1>1, BranchSpan
    <3>3. e \in starts[itPos]..Len(filters) BY <1>1, BranchSpan
    <3>4. Len(filters) \in Nat BY TreeShape
    <3> HIDE DEF e
    <3>5. starts[itPos + 1] \in Nat /\ starts[itPos] \in Nat /\ e \in Nat
      <4>1. starts[itPos + 1] \in Nat /\ starts[itPos] \in Nat BY <3>1, <1>1, <1>2, Zenon
      <4> QED BY <4>1, <3>3, <3>4
    <3>6. filtIt \in starts[itPos]..e /\ starts[itPos + 1] \notin starts[itPos]..e
      BY <3>1, <3>2, <1>1
    <3>7. starts[itPos + 1] > starts[itPos] BY <3>1
    <3> HIDE DEF Streams
    <3> QED BY <3>5, <3>6, <3>7
  <2> QED BY <1>4, <2>1, <2>2 DEF Advance
<1> QED BY <1>3, <1>4

LEMMA FilterWalked ==
    ASSUME TypeOK, CollectorSane, Walked, status = "running", filtIt # NoFilter,
           NEW passed, NEW mine, NEW kept, FilterAfter(passed, mine, kept)
    PROVE  Walked'
<1>1. /\ mine \subseteq {filtIt} /\ made' = made \cup mine /\ UNCHANGED tree
      /\ DOMAIN outData' \subseteq DOMAIN outData \cup {filtIt}
      /\ Advance /\ status' = "running"
  BY DEF FilterAfter, InnerAfter, LeafAfter, Ran
<1>2. Level(filtIt) \in Nat \ {0} BY AtHand
<1>3. inDataStack' # <<>> /\ inDataStack'[1] = {}
  <2>1. /\ inDataStack' \in Seq(SUBSET Streams) /\ Len(inDataStack') >= 1
        /\ inDataStack'[1] = inDataStack[1]
    BY <1>2 DEF FilterAfter, InnerAfter, LeafAfter
  <2>2. inDataStack[1] = {} BY DEF Walked
  <2>3. inDataStack' # <<>> BY <2>1
  <2> QED BY <2>1, <2>2, <2>3
<1>4. filtIt \in Nat /\ made \cup DOMAIN outData \subseteq Nat /\ Len(starts) \in Nat
      /\ itPos \in 1..Len(starts) /\ \A i \in 1..Len(starts) : starts[i] \in Nat
  <2>1. made \cup DOMAIN outData \subseteq Streams BY DEF TypeOK, Streams
  <2>2. Streams \subseteq Nat BY TreeShape
  <2> QED BY <2>1, <2>2, AtHand, TreeShape
<1>5. \A s \in made' \cup DOMAIN outData' : s \in Nat /\ s < filtIt + 1
  <2> SUFFICES ASSUME NEW s \in made' \cup DOMAIN outData' PROVE s \in Nat /\ s < filtIt + 1
    OBVIOUS
  <2>1. CASE s \in made \cup DOMAIN outData
    <3>1. s \in Nat /\ s < filtIt BY <2>1, <1>4 DEF Walked
    <3> QED BY <3>1, <1>4
  <2>2. CASE s = filtIt BY <2>2, <1>4
  <2> QED BY <2>1, <2>2, <1>1
<1>6. CASE /\ filtIt' = filtIt + 1 /\ filtIt' # NoFilter /\ itPos' = itPos
           /\ filtIt + 1 \in Branch(filters, starts[itPos])
  BY <1>1, <1>3, <1>4, <1>5, <1>6 DEF Walked, tree
<1>7. CASE /\ filtIt' = NoFilter /\ itPos' = itPos + 1
           /\ itPos + 1 <= Len(starts) => filtIt < starts[itPos + 1]
  <2>1. ASSUME itPos' <= Len(starts') PROVE \A s \in made' \cup DOMAIN outData' : s < starts'[itPos']
    <3>1. starts' = starts /\ itPos + 1 \in 1..Len(starts) BY <1>1, <1>4, <1>7, <2>1 DEF tree
    <3>2. filtIt < starts[itPos + 1] /\ starts[itPos + 1] \in Nat BY <3>1, <1>4, <1>7
    <3> QED BY <3>1, <3>2, <1>4, <1>5, <1>7
  <2> QED BY <1>3, <1>7, <2>1 DEF Walked
<1> QED BY <1>1, <1>6, <1>7, AdvanceIs

\* Each stream stays in one place.
LEMMA FilterAccounted ==
    ASSUME TypeOK, CollectorSane, Walked, Accounted, status = "running", filtIt # NoFilter,
           NEW passed, NEW mine, NEW kept, FilterAfter(passed, mine, kept)
    PROVE  Accounted' /\ Tracked' \cap (cached' \cup forgotten') = {}
<1> DEFINE L == Level(filtIt)
           B == UpTo(L)
           D == DoomedAbove(L)
<1>1. L \in Nat \ {0} /\ L <= Len(nodes) /\ filtIt \in Streams BY AtHand
<1>2. B \subseteq Tracked /\ D \subseteq Tracked /\ B \cap D = {} BY <1>1, LevelsApart
<1>3. filtIt \notin made
  <2>1. filtIt \in Nat BY <1>1, TreeShape
  <2> QED BY <2>1 DEF Walked
<1>4. /\ mine \subseteq {filtIt} /\ kept \subseteq mine
      /\ passed \subseteq made \cap (cached \cup forgotten \cup B)
      /\ made' = made \cup mine /\ cached' = cached \cup kept
      /\ Streams' = Streams /\ status' = "running"
  BY DEF FilterAfter, InnerAfter, LeafAfter, Ran, Streams, tree
<1>5. /\ \A s \in Streams : deletions'[s] = deletions[s] + (IF s \in D THEN 1 ELSE 0)
      /\ \A s \in Streams : deletions[s] \in Nat
  BY DEF FilterAfter, InnerAfter, LeafAfter, Cut, TypeOK
<1>6. \/ /\ Tracked' = B \cup (mine \ kept)
         /\ forgotten' = forgotten /\ InOutput' = InOutput
      \/ /\ Tracked' = B \ (passed \cup mine)
         /\ forgotten' = forgotten \cup ((passed \cup mine) \cap B)
         /\ InOutput' = InOutput \cup passed \cup mine
  BY DEF FilterAfter, InnerAfter, LeafAfter, InOutput
<1>7. /\ Tracked \subseteq made /\ InOutput \subseteq made /\ forgotten \subseteq InOutput
      /\ Tracked \cap InOutput = {} /\ Tracked \cap (cached \cup forgotten) = {}
      /\ cached \subseteq made /\ made \subseteq Streams
  BY DEF Accounted, CollectorSane, TypeOK
<1>8. \A s \in Streams :
          /\ deletions[s] <= 1
          /\ s \in (Streams \ made) \cup Tracked \cup cached \cup InOutput => deletions[s] = 0
  BY DEF Accounted
<1> HIDE DEF L, B, D
<1>9. /\ Tracked' \subseteq made' /\ InOutput' \subseteq made' /\ forgotten' \subseteq InOutput'
      /\ Tracked' \cap InOutput' = {} /\ Tracked' \cap (cached' \cup forgotten') = {}
  BY <1>2, <1>3, <1>4, <1>6, <1>7
<1>10. ASSUME NEW s \in Streams
       PROVE  /\ deletions'[s] <= 1
              /\ s \in (Streams \ made') \cup Tracked' \cup cached' \cup InOutput'
                   => deletions'[s] = 0
  <2>1. CASE s \in D
    <3>1. s \in Tracked /\ deletions[s] = 0 BY <2>1, <1>2, <1>8
    <3>2. s \notin (Streams \ made') \cup Tracked' \cup cached' \cup InOutput'
      <4>1. s \in made /\ s \notin B /\ s \notin cached /\ s \notin forgotten /\ s \notin InOutput
        BY <3>1, <2>1, <1>2, <1>7
      <4>2. s \notin passed /\ s \notin mine BY <4>1, <1>3, <1>4
      <4> QED BY <4>1, <4>2, <1>4, <1>6
    <3> QED BY <3>1, <3>2, <2>1, <1>5
  <2>2. CASE s \notin D
    <3>1. deletions'[s] = deletions[s] BY <2>2, <1>5
    <3>2. ASSUME s \in (Streams \ made') \cup Tracked' \cup cached' \cup InOutput'
          PROVE  s \in (Streams \ made) \cup Tracked \cup cached \cup InOutput
      BY <3>2, <1>2, <1>3, <1>4, <1>6, <1>7
    <3> QED BY <3>1, <3>2, <1>8
  <2> QED BY <2>1, <2>2
<1> QED BY <1>4, <1>9, <1>10 DEF Accounted

\* What is lost is the stream that the level above the filter at hand tracked: of
\* the filter before it at its level.
LEMMA FilterLoses ==
    ASSUME TypeOK, CollectorSane, Walked, Accounted, Layered, LostBeforeSiblingOnly,
           status = "running", filtIt # NoFilter,
           NEW passed, NEW mine, NEW kept, FilterAfter(passed, mine, kept)
    PROVE  LostBeforeSiblingOnly'
<1> DEFINE L == Level(filtIt)
<1>1. /\ L \in Nat \ {0} /\ L <= Len(nodes) /\ filtIt \in Streams
      /\ L + filters[starts[itPos]].depth = filters[filtIt].depth + 1
      /\ starts[itPos] \in Streams
  BY AtHand
<1>2. /\ mine \subseteq {filtIt} /\ kept \subseteq mine
      /\ made' = made \cup mine /\ cached' = cached \cup kept
      /\ filters' = filters /\ status' = "running"
  BY DEF FilterAfter, InnerAfter, LeafAfter, Ran, tree
<1>3. \A s \in Streams : deletions'[s] = deletions[s] + (IF s \in DoomedAbove(L) THEN 1 ELSE 0)
  BY DEF FilterAfter, InnerAfter, LeafAfter, Cut
<1>4. \/ Tracked' = UpTo(L) \cup (mine \ kept) /\ InOutput' = InOutput
      \/ /\ Tracked' = UpTo(L) \ (passed \cup mine)
         /\ InOutput' = InOutput \cup passed \cup mine
  BY DEF FilterAfter, InnerAfter, LeafAfter, InOutput
<1> SUFFICES ASSUME NEW s \in Lost'
             PROVE  ~Leaf(filters, s) /\ HasLaterSibling(s)
  BY <1>2 DEF LostBeforeSiblingOnly, HasLaterSibling
<1>5. s \in made' /\ deletions'[s] = 0 /\ s \notin cached' \cup Tracked' \cup InOutput'
  BY DEF Lost
<1>6. s \in made
  BY <1>2, <1>4, <1>5
<1>7. s \in Streams /\ deletions[s] \in Nat BY <1>6 DEF TypeOK
<1>8. deletions[s] = 0 /\ s \notin DoomedAbove(L) BY <1>3, <1>5, <1>7
<1>9. s \notin cached /\ s \notin InOutput /\ s \notin UpTo(L)
  BY <1>2, <1>4, <1>5
<1>10. CASE s \in Tracked
  <2>1. PICK i \in 1..Len(nodes) : s \in nodes[i] BY <1>10, TrackedIs
  <2>2. i \notin 1..L BY <1>9, <2>1 DEF UpTo
  <2>3. i \notin (L + 2)..Len(nodes) BY <1>8, <2>1 DEF DoomedAbove
  <2>4. Len(nodes) \in Nat /\ DOMAIN nodes = 1..Len(nodes) BY DEF TypeOK
  <2>5. i = L + 1 BY <2>1, <2>2, <2>3, <2>4, <1>1
  <2>6. /\ ~Leaf(filters, s)
        /\ filters[s].depth + 2 = filters[starts[itPos]].depth + i
        /\ filtIt - 1 \in Branch(filters, s)
    BY <2>1, <2>4 DEF Layered
  <2>7. filters[s].depth \in Nat /\ filters[starts[itPos]].depth \in Nat /\ filters[filtIt].depth \in Nat
    BY <1>1, <1>7, TreeShape
  <2>8. filters[filtIt].depth = filters[s].depth
    <3> DEFINE c == filters[filtIt].depth
               d == filters[s].depth
               e == filters[starts[itPos]].depth
    <3>1. L \in Nat /\ L + e = c + 1 /\ d + 2 = e + (L + 1) BY <1>1, <2>5, <2>6
    <3>2. c \in Nat /\ d \in Nat /\ e \in Nat BY <2>7
    <3> HIDE DEF L, c, d, e
    <3>3. c = d BY <3>1, <3>2
    <3> QED BY <3>3 DEF c, d
  <2> QED BY <2>6, <2>8, <1>1, <1>7, BranchGoesOn
<1>11. CASE s \notin Tracked
  <2>1. s \in Lost BY <1>11, <1>6, <1>8, <1>9 DEF Lost
  <2> QED BY <2>1 DEF LostBeforeSiblingOnly
<1> QED BY <1>10, <1>11

\* The level of the filter that comes next, if the branch goes on.
LEMMA NextLevel ==
    ASSUME TypeOK, CollectorSane, Walked, status = "running", filtIt # NoFilter,
           NEW passed, NEW mine, NEW kept, FilterAfter(passed, mine, kept), filtIt' # NoFilter
    PROVE  /\ filters' = filters /\ starts'[itPos'] = starts[itPos] /\ filtIt' - 1 = filtIt
           /\ Level(filtIt)' \in Nat \ {0} /\ Level(filtIt)' <= Level(filtIt) + 1
           /\ Level(filtIt)' <= Len(nodes') /\ Level(filtIt)' <= Len(inDataStack')
<1> DEFINE L == Level(filtIt)
           b == starts[itPos]
<1>1. /\ L \in Nat \ {0} /\ L + filters[b].depth = filters[filtIt].depth + 1
      /\ b \in Streams /\ filtIt \in Branch(filters, b) /\ filtIt \in Streams
  BY AtHand
<1>2. /\ Advance /\ UNCHANGED tree
      /\ \/ Len(nodes') = L + 1 /\ Len(inDataStack') = L + 1
         \/ Len(nodes') = L /\ Len(inDataStack') = L /\ Leaf(filters, filtIt)
  BY DEF FilterAfter, InnerAfter, LeafAfter, Ran
<1>3. /\ filtIt' = filtIt + 1 /\ itPos' = itPos
      /\ filtIt + 1 \in Branch(filters, b) /\ filtIt + 1 \in Streams
  BY <1>2, AdvanceIs
<1>4. /\ filters[filtIt + 1].depth > filters[b].depth
      /\ filters[filtIt + 1].depth <= filters[filtIt].depth + 1
      /\ Leaf(filters, filtIt) => filters[filtIt + 1].depth <= filters[filtIt].depth
  BY <1>1, <1>3, StepDown
<1>5. /\ filters[filtIt + 1].depth \in Nat /\ filters[b].depth \in Nat
      /\ filters[filtIt].depth \in Nat /\ filtIt \in Nat
  <2>1. \A p \in Streams : filters[p].depth \in Nat BY TreeShape
  <2>2. Streams = 1..Len(filters) /\ Len(filters) \in Nat BY TreeShape
  <2> HIDE DEF Streams, b
  <2>3. filtIt \in Nat BY <1>1, <2>2
  <2> QED BY <2>1, <2>3, <1>1, <1>3
<1>6. Level(filtIt)' = (filters[filtIt + 1].depth - filters[b].depth) + 1
  BY <1>2, <1>3 DEF Level, tree
<1> HIDE DEF L
<1>7. /\ Level(filtIt)' \in Nat \ {0} /\ Level(filtIt)' <= L + 1
      /\ Leaf(filters, filtIt) => Level(filtIt)' <= L
  BY <1>1, <1>4, <1>5, <1>6
<1>8. filters' = filters /\ starts'[itPos'] = b /\ filtIt' - 1 = filtIt
  BY <1>2, <1>3, <1>5 DEF tree
<1>9. Level(filtIt)' <= Len(nodes') /\ Level(filtIt)' <= Len(inDataStack')
  BY <1>1, <1>2, <1>7
<1> QED BY <1>7, <1>8, <1>9 DEF L

LEMMA FilterSane ==
    ASSUME TypeOK, CollectorSane, Walked, Accounted, status = "running", filtIt # NoFilter,
           NEW passed, NEW mine, NEW kept, FilterAfter(passed, mine, kept)
    PROVE  CollectorSane'
<1> DEFINE L == Level(filtIt)
<1>1. L \in Nat \ {0} /\ L <= Len(nodes) /\ filtIt \in Streams BY AtHand
<1>2. /\ nodes' \in Seq(SUBSET Streams) /\ mine \subseteq {filtIt}
      /\ \/ /\ Len(nodes') = L + 1 /\ nodes'[L + 1] \subseteq mine
            /\ \A i \in 1..L : nodes'[i] \subseteq nodes[i]
         \/ /\ Len(nodes') = L
            /\ \A i \in 1..L : nodes'[i] \subseteq nodes[i]
  BY DEF FilterAfter, InnerAfter, LeafAfter, Ran
<1>3. \A i, j \in 1..L : i # j => nodes[i] \cap nodes[j] = {}
  <2>1. 1..L \subseteq DOMAIN nodes BY <1>1 DEF TypeOK
  <2> QED BY <2>1 DEF CollectorSane
<1>4. \A i \in 1..L : filtIt \notin nodes[i]
  <2>1. UpTo(L) \subseteq made BY <1>1, LevelsApart DEF Accounted
  <2>2. filtIt \in Nat BY <1>1, TreeShape
  <2>3. filtIt \notin made BY <2>2 DEF Walked
  <2> QED BY <2>1, <2>3 DEF UpTo
<1> HIDE DEF L
<1>5. ASSUME NEW i \in DOMAIN nodes', NEW j \in DOMAIN nodes', i # j
      PROVE  nodes'[i] \cap nodes'[j] = {}
  <2>1. DOMAIN nodes' = 1..Len(nodes') BY <1>2
  <2>2. CASE i \in 1..L /\ j \in 1..L BY <2>2, <1>2, <1>3, <1>5
  <2>3. CASE i \notin 1..L \/ j \notin 1..L
    <3>1. /\ nodes'[L + 1] \subseteq {filtIt}
          /\ \A k \in 1..L : nodes'[k] \subseteq nodes[k]
          /\ \/ i = L + 1 /\ j \in 1..L
             \/ j = L + 1 /\ i \in 1..L
      <4>1. i \in 1..Len(nodes') /\ j \in 1..Len(nodes') /\ L \in Nat BY <2>1, <1>1
      <4>2. Len(nodes') # L BY <4>1, <2>3
      <4>3. /\ Len(nodes') = L + 1 /\ nodes'[L + 1] \subseteq mine
            /\ \A k \in 1..L : nodes'[k] \subseteq nodes[k]
        BY <4>2, <1>2
      <4>4. (i = L + 1 /\ j \in 1..L) \/ (j = L + 1 /\ i \in 1..L)
        BY <4>1, <4>3, <2>3, <1>5
      <4> QED BY <4>3, <4>4, <1>2
    <3> QED BY <3>1, <1>4
  <2> QED BY <2>2, <2>3
<1>6. Tracked' \cap (cached' \cup forgotten') = {} BY FilterAccounted
<1>7. ASSUME filtIt' # NoFilter
      PROVE  Len(nodes') >= Level(filtIt)' /\ Len(inDataStack') >= Level(filtIt)'
  <2>1. /\ Level(filtIt)' \in Nat \ {0}
        /\ Level(filtIt)' <= Len(nodes') /\ Level(filtIt)' <= Len(inDataStack')
    BY <1>7, NextLevel
  <2> QED BY <2>1
<1> QED BY <1>5, <1>6, <1>7 DEF CollectorSane

LEMMA FilterLayered ==
    ASSUME TypeOK, CollectorSane, Walked, Accounted, Layered,
           status = "running", filtIt # NoFilter,
           NEW passed, NEW mine, NEW kept, FilterAfter(passed, mine, kept)
    PROVE  Layered'
<1> SUFFICES ASSUME filtIt' # NoFilter PROVE Layered'
  BY DEF Layered
<1> DEFINE L == Level(filtIt)
           b == starts[itPos]
           data == passed \cup mine
<1>1. /\ L \in Nat \ {0} /\ L + filters[b].depth = filters[filtIt].depth + 1
      /\ L <= Len(nodes) /\ b \in Streams /\ filtIt \in Streams
  BY AtHand
<1>2. /\ filters' = filters /\ starts'[itPos'] = b /\ filtIt' - 1 = filtIt
      /\ Level(filtIt)' \in Nat \ {0} /\ Level(filtIt)' <= L + 1
      /\ Level(filtIt)' <= Len(inDataStack')
  BY NextLevel
<1>3. /\ mine \subseteq {filtIt} /\ kept \subseteq mine
      /\ passed \subseteq made \cap (cached \cup forgotten \cup UpTo(L))
      /\ made' = made \cup mine /\ cached' = cached \cup kept
      /\ nodes' \in Seq(SUBSET Streams)
      /\ \A i \in 1..L : inDataStack'[i] = inDataStack[i]
  BY DEF FilterAfter, InnerAfter, LeafAfter, Ran
<1>4. \/ /\ Len(nodes') = L + 1 /\ \A i \in 1..L : nodes'[i] = nodes[i]
         /\ nodes'[L + 1] = mine \ kept /\ forgotten' = forgotten
         /\ Len(inDataStack') = L + 1 /\ inDataStack'[L + 1] = data
         /\ ~Leaf(filters, filtIt)
      \/ /\ Len(nodes') = L /\ \A i \in 1..L : nodes'[i] = nodes[i] \ data
         /\ forgotten' = forgotten \cup (data \cap UpTo(L)) /\ Len(inDataStack') = L
  BY DEF FilterAfter, InnerAfter, LeafAfter
<1>5. /\ \A i \in 1..L : \A s \in inDataStack[i] :
            /\ s \in made
            /\ s \in cached \cup forgotten \/ \E j \in 1..i : s \in nodes[j]
      /\ \A i \in 1..L : \A s \in nodes[i] :
            /\ ~Leaf(filters, s) /\ filters[s].depth + 2 = filters[b].depth + i
            /\ filtIt - 1 \in Branch(filters, s) /\ s \in Streams
  <2>1. 1..L \subseteq DOMAIN nodes /\ \A i \in DOMAIN nodes : nodes[i] \subseteq Streams
    BY <1>1 DEF TypeOK
  <2> QED BY <2>1 DEF Layered
<1>6. /\ filters[b].depth \in Nat /\ filters[filtIt].depth \in Nat
      /\ \A s \in Streams : filters[s].depth \in Nat
  BY <1>1, TreeShape
<1> HIDE DEF L, b, data
<1>7. ASSUME NEW i \in 1..Level(filtIt)', NEW s \in inDataStack'[i]
      PROVE  /\ s \in made'
             /\ s \in cached' \cup forgotten' \/ \E j \in 1..i : s \in nodes'[j]
  <2>1. CASE i \in 1..L
    <3>1. s \in made /\ (s \in cached \cup forgotten \/ \E j \in 1..i : s \in nodes[j])
      BY <2>1, <1>3, <1>5
    <3>2. 1..i \subseteq 1..L BY <2>1, <1>1
    <3>3. ASSUME NEW j \in 1..i, s \in nodes[j]
          PROVE  s \in nodes'[j] \/ s \in forgotten'
      <4>1. s \in UpTo(L) BY <3>2, <3>3 DEF UpTo
      <4> QED BY <4>1, <3>2, <3>3, <1>4
    <3>4. cached \subseteq cached' /\ forgotten \subseteq forgotten' /\ made \subseteq made'
      BY <1>3, <1>4
    <3> QED BY <3>1, <3>3, <3>4
  <2>2. CASE i \notin 1..L
    <3>1. i = L + 1 /\ Len(inDataStack') = L + 1 BY <2>2, <1>1, <1>2, <1>4
    <3>2. /\ \A k \in 1..L : nodes'[k] = nodes[k]
          /\ nodes'[L + 1] = mine \ kept /\ forgotten' = forgotten
          /\ s \in passed \cup mine
      BY <3>1, <1>1, <1>4, <1>7 DEF data
    <3>3. CASE s \in mine
      <4>1. s \in made' /\ (s \in cached' \/ s \in nodes'[L + 1]) BY <3>2, <3>3, <1>3
      <4>2. L + 1 \in 1..i BY <3>1, <1>1
      <4> QED BY <4>1, <4>2
    <3>4. CASE s \in passed
      <4>1. s \in made /\ s \in cached \cup forgotten \cup UpTo(L) BY <3>4, <1>3
      <4>2. CASE s \in UpTo(L)
        <5>1. PICK j \in 1..L : s \in nodes[j] BY <4>2 DEF UpTo
        <5>2. j \in 1..i /\ s \in nodes'[j] BY <5>1, <3>1, <3>2, <1>1
        <5> QED BY <5>2, <4>1, <1>3
      <4>3. CASE s \in cached \cup forgotten BY <4>1, <4>3, <3>2, <1>3
      <4> QED BY <4>1, <4>2, <4>3
    <3> QED BY <3>2, <3>3, <3>4
  <2> QED BY <2>1, <2>2
<1>8. ASSUME NEW i \in DOMAIN nodes', NEW s \in nodes'[i]
      PROVE  /\ ~Leaf(filters, s) /\ filters[s].depth + 2 = filters[b].depth + i
             /\ filtIt \in Branch(filters, s)
  <2>1. DOMAIN nodes' = 1..Len(nodes') BY <1>3
  <2>2. CASE i \in 1..L
    <3>1. s \in nodes[i] BY <2>2, <1>4, <1>8
    <3>2. /\ ~Leaf(filters, s) /\ filters[s].depth + 2 = filters[b].depth + i
          /\ filtIt - 1 \in Branch(filters, s) /\ s \in Streams
      BY <3>1, <2>2, <1>5
    <3>3. filters[filtIt].depth > filters[s].depth
      <4>1. filters[s].depth \in Nat /\ i <= L /\ i \in Nat BY <3>2, <2>2, <1>1, <1>6
      <4>2. filters[s].depth + 2 = filters[b].depth + i BY <3>2
      <4>3. L + filters[b].depth = filters[filtIt].depth + 1 /\ L \in Nat BY <1>1
      <4> QED BY <4>1, <4>2, <4>3, <1>6
    <3> QED BY <3>2, <3>3, <1>1, BranchGoesOn
  <2>3. CASE i \notin 1..L
    <3>1. i = L + 1 /\ s = filtIt /\ ~Leaf(filters, filtIt)
      <4>1. i \in 1..Len(nodes') /\ L \in Nat BY <2>1, <1>1
      <4>2. Len(nodes') # L BY <4>1, <2>3
      <4>3. Len(nodes') = L + 1 /\ nodes'[L + 1] = mine \ kept /\ ~Leaf(filters, filtIt)
        BY <4>2, <1>4
      <4>4. i = L + 1 BY <4>1, <4>3, <2>3
      <4> QED BY <4>3, <4>4, <1>3, <1>8
    <3>2. filtIt \in Branch(filters, filtIt)
      <4>1. /\ BranchEnd(filters, filtIt) \in filtIt..Len(filters)
            /\ Branch(filters, filtIt) = filtIt..BranchEnd(filters, filtIt)
        BY <1>1, BranchSpan
      <4>2. filtIt \in Nat /\ Len(filters) \in Nat BY <1>1, TreeShape
      <4> QED BY <4>1, <4>2
    <3>3. filters[filtIt].depth + 2 = filters[b].depth + (L + 1)
      <4>1. L \in Nat /\ L + filters[b].depth = filters[filtIt].depth + 1 BY <1>1
      <4> QED BY <4>1, <1>6
    <3> QED BY <3>1, <3>2, <3>3
  <2> QED BY <2>2, <2>3
<1> QED BY <1>2, <1>7, <1>8 DEF Layered

LEMMA FilterTyped ==
    ASSUME TypeOK, CollectorSane, Walked, Accounted, status = "running", filtIt # NoFilter,
           NEW passed, NEW mine, NEW kept, FilterAfter(passed, mine, kept)
    PROVE  TypeOK'
<1> DEFINE L == Level(filtIt)
           b == starts[itPos]
<1>1. /\ L \in Nat \ {0} /\ L + filters[b].depth = filters[filtIt].depth + 1
      /\ b \in Streams /\ filtIt \in Branch(filters, b) /\ filtIt \in Streams
      /\ itPos \in 1..Len(starts)
  BY AtHand
<1>2. /\ mine \subseteq {filtIt} /\ kept \subseteq mine
      /\ made' = made \cup mine /\ cached' = cached \cup kept
      /\ filters' = filters /\ starts' = starts /\ Streams' = Streams
      /\ nodes' \in Seq(SUBSET Streams) /\ inDataStack' \in Seq(SUBSET Streams)
      /\ Advance /\ status' = "running" /\ deletions' \in [Streams -> Nat]
      /\ DOMAIN outData' \subseteq DOMAIN outData \cup {filtIt}
      /\ forgotten' = forgotten \/ forgotten' = forgotten \cup ((passed \cup mine) \cap UpTo(L))
  BY DEF FilterAfter, InnerAfter, LeafAfter, Ran, Streams, tree, Cut
<1>3. \/ Len(nodes') = L + 1 /\ Len(inDataStack') = L + 1 /\ ~Leaf(filters, filtIt)
      \/ Len(nodes') = L /\ Len(inDataStack') = L
  BY DEF FilterAfter, InnerAfter, LeafAfter
<1>4. \E p \in DOMAIN filters' :
         filters'[p].depth + 1 >= Len(nodes') /\ filters'[p].depth + 1 >= Len(inDataStack')
  <2>1. filters[b].depth \in Nat /\ filters[filtIt].depth \in Nat /\ DOMAIN filters = Streams
    BY <1>1, TreeShape DEF Streams
  <2>2. CASE ~Leaf(filters, filtIt)
    <3>1. /\ filtIt + 1 \in Branch(filters, b)
          /\ filters[filtIt + 1].depth = filters[filtIt].depth + 1
      BY <2>2, <1>1, StepDown
    <3>2. filtIt + 1 \in Streams BY <3>1, <1>1, StepDown
    <3>3. /\ filters[filtIt + 1].depth + 1 >= Len(nodes')
          /\ filters[filtIt + 1].depth + 1 >= Len(inDataStack')
      BY <3>1, <2>1, <1>1, <1>3
    <3> QED BY <3>2, <3>3, <2>1, <1>2
  <2>3. CASE Leaf(filters, filtIt)
    <3>1. /\ filters[filtIt].depth + 1 >= Len(nodes')
          /\ filters[filtIt].depth + 1 >= Len(inDataStack')
      BY <2>1, <2>3, <1>1, <1>3
    <3> QED BY <3>1, <2>1, <1>1, <1>2
  <2> QED BY <2>2, <2>3
<1>5. itPos' \in 1..(Len(starts') + 1) /\ filtIt' \in DOMAIN filters' \cup {NoFilter}
  <2>1. Len(starts) \in Nat BY TreeShape
  <2>2. \/ filtIt' = filtIt + 1 /\ itPos' = itPos /\ filtIt + 1 \in Streams
        \/ filtIt' = NoFilter /\ itPos' = itPos + 1
    BY <1>2, AdvanceIs
  <2>3. itPos' \in 1..(Len(starts) + 1) BY <2>1, <2>2, <1>1
  <2>4. filtIt' \in Streams \cup {NoFilter} BY <2>2
  <2> QED BY <2>3, <2>4, <1>2 DEF Streams
<1>6. /\ forgotten' \subseteq made' /\ cached' \subseteq made' /\ made' \subseteq Streams
      /\ InOutput' \subseteq made'
  BY <1>1, <1>2, FilterAccounted DEF Accounted, TypeOK
<1>7. \A p \in DOMAIN outData' : outData'[p] \subseteq Streams
  <2>1. \A p \in DOMAIN outData' : outData'[p] \subseteq InOutput' BY DEF InOutput
  <2> QED BY <2>1, <1>6
<1>8. DOMAIN outData' \subseteq DOMAIN filters' BY <1>1, <1>2 DEF TypeOK, Streams
<1>9. [shape |-> filters', starts |-> starts'] \in Trees BY <1>2 DEF TypeOK
<1> QED BY <1>2, <1>4, <1>5, <1>6, <1>7, <1>8, <1>9 DEF TypeOK

-----------------------------------------------------------------------------
(* The other steps of the walk.                                            *)

\* A filter that fails takes everything along that no cache keeps, once.
LEMMA FailsStep ==
    ASSUME Owned, status = "running", filtIt # NoFilter,
           NEW passed, NEW mine \in SUBSET {filtIt}, NEW kept \in SUBSET mine,
           RefreshFails(passed, mine, kept)
    PROVE  Owned'
<1> USE DEF Owned
<1> DEFINE L == Level(filtIt)
           B == UpTo(L)
           D == DoomedAbove(L)
           O == InOutput \ cached'
<1>1. L \in Nat \ {0} /\ L <= Len(nodes) /\ filtIt \in Streams BY AtHand
<1>2. B \subseteq Tracked /\ D \subseteq Tracked /\ B \cap D = {} BY <1>1, LevelsApart
<1>3. /\ made' = made \cup mine /\ cached' = cached \cup kept
      /\ inDataStack' = <<>> /\ nodes' = <<>> /\ status' = "failed"
      /\ UNCHANGED <<tree, itPos, filtIt, forgotten, outData>>
  BY DEF RefreshFails, Runs
<1>4. deletions' = [s \in Streams |->
           Delete(D)[s] + (IF s \in B THEN 1 ELSE 0) + (IF s \in O THEN 1 ELSE 0)]
  <2>1. UNION {CollectToLevel(L)[i] : i \in 1..L} = B
    <3>1. \A i \in 1..L : CollectToLevel(L)[i] = nodes[i]
      BY <1>1, CutLevels DEF CollectToLevel, TypeOK
    <3> QED BY <3>1 DEF UpTo
  <2> QED BY <2>1 DEF RefreshFails
<1>5. /\ Tracked \subseteq made /\ InOutput \subseteq made /\ forgotten \subseteq InOutput
      /\ Tracked \cap InOutput = {} /\ cached \subseteq made /\ made \subseteq Streams
      /\ Tracked \cap cached = {}
  BY DEF Accounted, CollectorSane, TypeOK
<1>6. \A s \in Streams :
          /\ deletions[s] \in Nat /\ deletions[s] <= 1
          /\ s \in (Streams \ made) \cup Tracked \cup cached \cup InOutput => deletions[s] = 0
  BY DEF Accounted, TypeOK
<1>7. filtIt \notin made
  <2>1. filtIt \in Nat BY <1>1, TreeShape
  <2> QED BY <2>1 DEF Walked
<1>8. Tracked' = {} BY <1>3 DEF Tracked
<1>9. InOutput' = InOutput /\ Streams' = Streams BY <1>3 DEF InOutput, Streams, tree
<1> HIDE DEF L, B, D, O
<1>10. \A s \in Streams : Delete(D)[s] = deletions[s] + (IF s \in D THEN 1 ELSE 0)
  BY DEF Delete
<1>11. ASSUME NEW s \in Streams
       PROVE  /\ deletions'[s] \in Nat /\ deletions'[s] <= 1
              /\ s \in (Streams \ made') \cup cached' => deletions'[s] = 0
              /\ s \in InOutput \ cached' => deletions'[s] = 1
  <2>1. deletions'[s] = (deletions[s] + (IF s \in D THEN 1 ELSE 0))
                          + (IF s \in B THEN 1 ELSE 0) + (IF s \in O THEN 1 ELSE 0)
    BY <1>4, <1>10
  <2>2. CASE s \in D \cup B
    <3>1. deletions[s] = 0 /\ s \in Tracked BY <2>2, <1>2, <1>6
    <3>2. s \notin InOutput /\ s \notin cached' /\ s \in made' /\ s \notin O
      BY <3>1, <1>3, <1>5, <1>7 DEF O
    <3>3. ~(s \in D /\ s \in B) BY <1>2
    <3> QED BY <2>1, <2>2, <3>1, <3>2, <3>3
  <2>3. CASE s \in O
    <3>1. s \in InOutput /\ s \notin cached' /\ s \in made' BY <2>3, <1>3, <1>5 DEF O
    <3>2. deletions[s] = 0 /\ s \notin D /\ s \notin B BY <3>1, <1>2, <1>5, <1>6
    <3> QED BY <2>1, <2>3, <3>1, <3>2
  <2>4. CASE s \notin D \cup B \cup O
    <3>1. deletions'[s] = deletions[s] BY <2>1, <2>4, <1>6
    <3>2. s \notin InOutput \ cached' BY <2>4 DEF O
    <3>3. ASSUME s \in (Streams \ made') \cup cached' PROVE deletions[s] = 0
      BY <3>3, <1>3, <1>6, <1>7
    <3> QED BY <3>1, <3>2, <3>3, <1>6
  <2> QED BY <2>2, <2>3, <2>4
<1>12. deletions' \in [Streams -> Nat] BY <1>4, <1>11
<1>13. TypeOK'
  <2>1. /\ [shape |-> filters', starts |-> starts'] \in Trees
        /\ itPos' \in 1..(Len(starts') + 1)
        /\ filtIt' \in DOMAIN filters' \cup {NoFilter}
        /\ DOMAIN outData' \subseteq DOMAIN filters'
        /\ \A p \in DOMAIN outData' : outData'[p] \subseteq Streams
    BY <1>3 DEF TypeOK, tree
  <2>2. inDataStack' \in Seq(SUBSET Streams) /\ nodes' \in Seq(SUBSET Streams)
    BY <1>3
  <2>3. \E p \in DOMAIN filters' :
           filters'[p].depth + 1 >= Len(nodes') /\ filters'[p].depth + 1 >= Len(inDataStack')
    <3>1. filtIt \in DOMAIN filters /\ filters[filtIt].depth \in Nat
      BY <1>1, TreeShape DEF Streams
    <3>2. Len(nodes') = 0 /\ Len(inDataStack') = 0 BY <1>3
    <3> QED BY <3>1, <3>2, <1>3 DEF tree
  <2>4. /\ forgotten' \subseteq made' /\ cached' \subseteq made' /\ made' \subseteq Streams
    BY <1>1, <1>3, <1>5
  <2> QED BY <2>1, <2>2, <2>3, <2>4, <1>3, <1>9, <1>12 DEF TypeOK
<1>14. CollectorSane' BY <1>3, <1>8 DEF CollectorSane
<1>15. Accounted'
  BY <1>3, <1>5, <1>8, <1>9, <1>11 DEF Accounted
<1> QED BY <1>3, <1>13, <1>14, <1>15 DEF Walked, Layered, LostBeforeSiblingOnly

\* Deleting all that is tracked.
LEMMA CollectAll ==
    ASSUME Owned, deletions' = Delete(Tracked)
    PROVE  /\ deletions' \in [Streams -> Nat]
           /\ \A s \in Streams :
                 /\ deletions'[s] <= 1
                 /\ s \in (Streams \ made) \cup cached => deletions'[s] = 0
                 /\ s \in InOutput /\ status # "failed" => deletions'[s] = 0
                 /\ deletions'[s] = 0 => deletions[s] = 0 /\ s \notin Tracked
<1>1. /\ Tracked \subseteq made /\ Tracked \cap InOutput = {} /\ Tracked \cap cached = {}
      /\ \A s \in Streams :
            /\ deletions[s] \in Nat /\ deletions[s] <= 1
            /\ s \in (Streams \ made) \cup Tracked \cup cached => deletions[s] = 0
            /\ s \in InOutput /\ status # "failed" => deletions[s] = 0
  BY DEF Owned, Accounted, CollectorSane, TypeOK
<1>2. deletions' = [s \in Streams |-> deletions[s] + (IF s \in Tracked THEN 1 ELSE 0)]
  BY DEF Delete
<1> HIDE DEF Streams
<1>3. \A s \in Streams : deletions'[s] = deletions[s] + (IF s \in Tracked THEN 1 ELSE 0)
  BY <1>2
<1>4. deletions' \in [Streams -> Nat] BY <1>1, <1>2
<1> QED BY <1>1, <1>3, <1>4

LEMMA NextStartStep == ASSUME Owned, NextStart PROVE Owned'
<1> USE DEF Owned
<1> DEFINE b == starts[itPos]
<1>1. /\ status = "running" /\ filtIt = NoFilter /\ itPos \in 1..Len(starts)
      /\ deletions' = Delete(Tracked) /\ nodes' = <<{}>> /\ filtIt' = b
      /\ UNCHANGED <<tree, itPos, inDataStack, forgotten, outData, cached, made, status>>
  <2>1. Len(starts) \in Nat BY TreeShape
  <2> QED BY <2>1 DEF NextStart, TypeOK
<1>2. /\ b \in Streams /\ b \in Nat /\ filters[b].depth \in Nat
  BY <1>1, TreeShape
<1>3. b \in Branch(filters, b)
  <2>1. /\ BranchEnd(filters, b) \in b..Len(filters)
        /\ Branch(filters, b) = b..BranchEnd(filters, b)
    BY <1>2, BranchSpan
  <2>2. Len(filters) \in Nat BY TreeShape
  <2> QED BY <2>1, <2>2, <1>2
<1>4. /\ Len(nodes') = 1 /\ DOMAIN nodes' = {1} /\ nodes'[1] = {} /\ Tracked' = {}
      /\ nodes' \in Seq(SUBSET Streams)
  BY <1>1 DEF Tracked
<1>5. Level(filtIt)' = 1
  <2>1. Level(filtIt)' = (filters[b].depth - filters[b].depth) + 1
    BY <1>1 DEF Level, tree
  <2> QED BY <2>1, <1>2
<1>6. inDataStack # <<>> /\ inDataStack[1] = {} /\ Len(inDataStack) \in Nat \ {0}
  <2>1. inDataStack \in Seq(SUBSET Streams) BY DEF TypeOK
  <2>2. inDataStack # <<>> /\ inDataStack[1] = {} BY <1>1 DEF Walked
  <2> QED BY <2>1, <2>2
<1>7. Streams' = Streams /\ InOutput' = InOutput BY <1>1 DEF Streams, InOutput, tree
<1>8. TypeOK'
  <2>1. \E p \in DOMAIN filters' :
           filters'[p].depth + 1 >= Len(nodes') /\ filters'[p].depth + 1 >= Len(inDataStack')
    <3>1. PICK p \in Streams : filters[p].depth + 1 >= Len(inDataStack) BY DEF TypeOK, Streams
    <3>2. filters[p].depth \in Nat BY TreeShape
    <3> QED BY <3>1, <3>2, <1>1, <1>4 DEF Streams, tree
  <2>2. deletions' \in [Streams -> Nat] BY <1>1, CollectAll
  <2>3. filtIt' \in DOMAIN filters' \cup {NoFilter} BY <1>1, <1>2 DEF Streams, tree
  <2> QED BY <2>1, <2>2, <2>3, <1>1, <1>4, <1>7 DEF TypeOK, tree
<1>9. CollectorSane'
  BY <1>1, <1>4, <1>5, <1>6 DEF CollectorSane
<1>10. Walked'
  <2>1. \A s \in made' \cup DOMAIN outData' : s < filtIt' BY <1>1 DEF Walked
  <2>2. filtIt' # NoFilter BY <1>1, <1>2, TreeShape DEF NoFilter
  <2>3. itPos' <= Len(starts') /\ filtIt' \in Branch(filters', starts'[itPos'])
    BY <1>1, <1>3 DEF tree
  <2> QED BY <2>1, <2>2, <2>3, <1>1, <1>6 DEF Walked
<1>11. Accounted'
  <2>1. \A s \in Streams :
                 /\ deletions'[s] <= 1
                 /\ s \in (Streams \ made) \cup cached => deletions'[s] = 0
                 /\ s \in InOutput => deletions'[s] = 0
    BY <1>1, CollectAll
  <2> QED BY <2>1, <1>1, <1>4, <1>7 DEF Accounted
<1>12. Layered'
  <2>1. 1..Level(filtIt)' = {1} BY <1>5
  <2> QED BY <2>1, <1>1, <1>4, <1>6 DEF Layered
<1>13. LostBeforeSiblingOnly'
  <2> SUFFICES ASSUME NEW s \in Lost' PROVE ~Leaf(filters, s) /\ HasLaterSibling(s)
    BY <1>1 DEF LostBeforeSiblingOnly, HasLaterSibling, tree
  <2>1. s \in made /\ deletions'[s] = 0 /\ s \notin cached \cup InOutput
    BY <1>1, <1>7 DEF Lost
  <2>2. s \in Streams BY <2>1 DEF TypeOK
  <2>3. deletions[s] = 0 /\ s \notin Tracked BY <1>1, <2>1, <2>2, CollectAll
  <2>4. s \in Lost BY <2>1, <2>3 DEF Lost
  <2> QED BY <2>4, <1>1 DEF LostBeforeSiblingOnly
<1> QED BY <1>8, <1>9, <1>10, <1>11, <1>12, <1>13

\* The scrubbed output holds what the output held, each stream in one entry.
LEMMA ScrubbedIs ==
    ASSUME TypeOK
    PROVE  /\ DOMAIN Scrubbed \subseteq DOMAIN outData
           /\ \A p \in DOMAIN Scrubbed : Scrubbed[p] \subseteq outData[p]
           /\ UNION {Scrubbed[p] : p \in DOMAIN Scrubbed} = InOutput
           /\ \A p, q \in DOMAIN Scrubbed : p # q => Scrubbed[p] \cap Scrubbed[q] = {}
<1>1. DOMAIN outData \subseteq Nat
  <2>1. DOMAIN outData \subseteq Streams BY DEF TypeOK, Streams
  <2>2. Streams \subseteq Nat BY TreeShape
  <2> QED BY <2>1, <2>2
<1>2. /\ DOMAIN Scrubbed = {q \in DOMAIN outData : ~(outData[q] \subseteq Earlier(q))}
      /\ \A p \in DOMAIN Scrubbed : Scrubbed[p] = outData[p] \ Earlier(p)
  BY DEF Scrubbed
<1>3. \A p, s : s \in Earlier(p) <=> \E q \in DOMAIN outData : q < p /\ s \in outData[q]
  BY DEF Earlier
<1> HIDE DEF Scrubbed, Earlier
<1>4. ASSUME NEW s \in InOutput PROVE \E p \in DOMAIN Scrubbed : s \in Scrubbed[p]
  <2> DEFINE Q == {p \in DOMAIN outData : s \in outData[p]}
  <2>1. Q \in SUBSET Nat /\ Q # {} BY <1>1, OutputIs
  <2>2. PICK m \in Q : \A n \in Q : m <= n BY <2>1, LeastNumber
  <2>3. s \notin Earlier(m)
    <3> SUFFICES ASSUME NEW q \in DOMAIN outData, q < m, s \in outData[q] PROVE FALSE
      BY <1>3
    <3>1. q \in Q /\ m \in Nat /\ q \in Nat BY <1>1
    <3> QED BY <3>1, <2>2
  <2>4. m \in DOMAIN outData /\ s \in outData[m] OBVIOUS
  <2>5. m \in DOMAIN Scrubbed /\ s \in Scrubbed[m] BY <2>3, <2>4, <1>2
  <2> QED BY <2>5
<1>5. UNION {Scrubbed[p] : p \in DOMAIN Scrubbed} = InOutput
  <2>1. \A p \in DOMAIN Scrubbed : p \in DOMAIN outData /\ Scrubbed[p] \subseteq outData[p]
    BY <1>2
  <2>2. \A s \in InOutput : s \in UNION {Scrubbed[p] : p \in DOMAIN Scrubbed} BY <1>4
  <2>3. \A p \in DOMAIN Scrubbed : Scrubbed[p] \subseteq InOutput BY <2>1, OutputIs
  <2> QED BY <2>2, <2>3
<1>6. ASSUME NEW p \in DOMAIN Scrubbed, NEW q \in DOMAIN Scrubbed, p < q
      PROVE  Scrubbed[p] \cap Scrubbed[q] = {}
  <2>1. p \in DOMAIN outData /\ Scrubbed[p] \subseteq outData[p] BY <1>2
  <2>2. outData[p] \subseteq Earlier(q) BY <2>1, <1>3, <1>6
  <2> QED BY <2>1, <2>2, <1>2
<1>7. ASSUME NEW p \in DOMAIN Scrubbed, NEW q \in DOMAIN Scrubbed, p # q
      PROVE  Scrubbed[p] \cap Scrubbed[q] = {}
  <2>1. p \in Nat /\ q \in Nat BY <1>1, <1>2
  <2>2. p < q \/ q < p BY <2>1, <1>7
  <2> QED BY <2>2, <1>6
<1> QED BY <1>2, <1>5, <1>7

LEMMA FinishStep == ASSUME Owned, Finish PROVE Owned'
<1> USE DEF Owned
<1>1. /\ status = "running" /\ filtIt = NoFilter
      /\ deletions' = Delete(Tracked) /\ inDataStack' = <<>> /\ nodes' = <<>>
      /\ outData' = Scrubbed /\ status' = "done"
      /\ UNCHANGED <<tree, itPos, filtIt, forgotten, cached, made>>
  BY DEF Finish
<1>2. Streams' = Streams /\ Tracked' = {} BY <1>1 DEF Streams, Tracked, tree
<1>3. /\ InOutput' = InOutput /\ DOMAIN outData' \subseteq DOMAIN outData
      /\ \A p \in DOMAIN outData' : outData'[p] \subseteq outData[p]
  BY <1>1, ScrubbedIs DEF InOutput
<1>4. TypeOK'
  <2>1. \E p \in DOMAIN filters' :
           filters'[p].depth + 1 >= Len(nodes') /\ filters'[p].depth + 1 >= Len(inDataStack')
    <3>1. PICK p \in Streams : TRUE BY TreeShape
    <3>2. filters[p].depth \in Nat BY TreeShape
    <3>3. Len(nodes') = 0 /\ Len(inDataStack') = 0 BY <1>1
    <3> QED BY <3>1, <3>2, <3>3, <1>1 DEF Streams, tree
  <2>2. deletions' \in [Streams -> Nat] BY <1>1, CollectAll
  <2>3. \A p \in DOMAIN outData' : outData'[p] \subseteq Streams BY <1>3 DEF TypeOK
  <2>4. inDataStack' \in Seq(SUBSET Streams) /\ nodes' \in Seq(SUBSET Streams) BY <1>1
  <2>5. DOMAIN outData' \subseteq DOMAIN filters' BY <1>1, <1>3 DEF TypeOK, tree
  <2> QED BY <2>1, <2>2, <2>3, <2>4, <2>5, <1>1, <1>2 DEF TypeOK, tree
<1>5. CollectorSane' BY <1>1, <1>2 DEF CollectorSane
<1>6. Accounted'
  <2>1. \A s \in Streams :
                 /\ deletions'[s] <= 1
                 /\ s \in (Streams \ made) \cup cached => deletions'[s] = 0
                 /\ s \in InOutput => deletions'[s] = 0
    BY <1>1, CollectAll
  <2> QED BY <2>1, <1>1, <1>2, <1>3 DEF Accounted
<1>7. LostBeforeSiblingOnly'
  <2> SUFFICES ASSUME NEW s \in Lost' PROVE ~Leaf(filters, s) /\ HasLaterSibling(s)
    BY <1>1 DEF LostBeforeSiblingOnly, HasLaterSibling, tree
  <2>1. s \in made /\ deletions'[s] = 0 /\ s \notin cached \cup InOutput
    BY <1>1, <1>3 DEF Lost
  <2>2. s \in Streams BY <2>1 DEF TypeOK
  <2>3. deletions[s] = 0 /\ s \notin Tracked BY <1>1, <2>1, <2>2, CollectAll
  <2>4. s \in Lost BY <2>1, <2>3 DEF Lost
  <2> QED BY <2>4, <1>1 DEF LostBeforeSiblingOnly
<1> QED BY <1>1, <1>4, <1>5, <1>6, <1>7 DEF Walked, Layered

-----------------------------------------------------------------------------
(* The invariants.                                                         *)

\* A step that refreshes a filter, however the filter ends.
LEMMA RefreshStep ==
    ASSUME Owned, RefreshFilter
    PROVE  Owned' /\ status' # "done"
<1> USE DEF Owned
<1>1. status = "running" /\ filtIt # NoFilter BY DEF RefreshFilter
<1>2. PICK passed, mine, kept :
         /\ mine \in SUBSET {filtIt} /\ kept \in SUBSET mine
         /\ \/ RefreshInner(passed, mine, kept)
            \/ RefreshLeaf(passed, mine, kept)
            \/ RefreshFails(passed, mine, kept)
  BY DEF RefreshFilter
<1>3. CASE RefreshFails(passed, mine, kept)
  <2>1. status' = "failed" BY <1>3 DEF RefreshFails
  <2> QED BY <2>1, <1>1, <1>2, <1>3, FailsStep
<1>4. CASE RefreshInner(passed, mine, kept) \/ RefreshLeaf(passed, mine, kept)
  <2>1. FilterAfter(passed, mine, kept)
    BY <1>1, <1>2, <1>4, InnerLevels, LeafLevels DEF FilterAfter
  <2>2. status' = "running" BY <1>1, <2>1 DEF FilterAfter, InnerAfter, LeafAfter
  <2>3. TypeOK' /\ CollectorSane' BY <1>1, <2>1, FilterTyped, FilterSane
  <2>4. Walked' /\ Accounted' BY <1>1, <2>1, FilterWalked, FilterAccounted
  <2>5. Layered' /\ LostBeforeSiblingOnly' BY <1>1, <2>1, FilterLayered, FilterLoses
  <2> QED BY <2>2, <2>3, <2>4, <2>5
<1> QED BY <1>2, <1>3, <1>4

\* What is handed to the scene is in one entry only.
PutOutOnce ==
    status = "done" => \A p, q \in DOMAIN outData : p # q => outData[p] \cap outData[q] = {}

LEMMA OwnedInit == Init => Owned /\ PutOutOnce
<1> SUFFICES ASSUME Init PROVE Owned /\ PutOutOnce OBVIOUS
<1>1. /\ itPos = 1 /\ filtIt = NoFilter /\ inDataStack = <<{}>>
      /\ nodes = <<>> /\ forgotten = {} /\ outData = [p \in {} |-> {}]
      /\ cached = {} /\ made = {} /\ deletions = [s \in Streams |-> 0]
      /\ status = "running"
  BY DEF Init
<1>2. DOMAIN outData = {} /\ Tracked = {} /\ InOutput = {}
  BY <1>1 DEF Tracked, InOutput
<1>3. TypeOK
  <2>1. PICK t \in Trees : filters = t.shape /\ starts = t.starts BY DEF Init
  <2>2. /\ t = [shape |-> filters, starts |-> starts]
        /\ filters \in Seq([depth : Nat]) /\ filters # <<>> /\ starts \in Seq(DOMAIN filters)
    BY <2>1, TreesAssumption DEF TreesAssumption
  <2>3. 1 \in DOMAIN filters /\ filters[1].depth \in Nat
    <3>1. 1 \in 1..Len(filters) /\ DOMAIN filters = 1..Len(filters) BY <2>2
    <3>2. filters[1] \in [depth : Nat] BY <2>2, <3>1, SeqElements
    <3> QED BY <3>1, <3>2
  <2>4. /\ Len(nodes) = 0 /\ Len(inDataStack) = 1
        /\ nodes \in Seq(SUBSET Streams) /\ inDataStack \in Seq(SUBSET Streams)
    BY <1>1
  <2>5. itPos \in 1..(Len(starts) + 1) BY <1>1, <2>2
  <2>6. \E p \in DOMAIN filters :
          filters[p].depth + 1 >= Len(nodes) /\ filters[p].depth + 1 >= Len(inDataStack)
    BY <2>3, <2>4
  <2> QED BY <2>1, <2>2, <2>4, <2>5, <2>6, <1>1, <1>2 DEF TypeOK
<1>4. CollectorSane BY <1>1, <1>2 DEF CollectorSane
<1>5. Walked BY <1>1, <1>2 DEF Walked
<1>6. Accounted
  <2>1. \A s \in Streams : deletions[s] = 0 BY <1>1
  <2> QED BY <2>1, <1>1, <1>2 DEF Accounted
<1>7. Layered /\ LostBeforeSiblingOnly /\ PutOutOnce
  BY <1>1 DEF Layered, LostBeforeSiblingOnly, Lost, PutOutOnce
<1> QED BY <1>3, <1>4, <1>5, <1>6, <1>7 DEF Owned

LEMMA OwnedStep == Owned /\ PutOutOnce /\ [Next]_vars => Owned' /\ PutOutOnce'
<1> SUFFICES ASSUME Owned, PutOutOnce, [Next]_vars PROVE Owned' /\ PutOutOnce' OBVIOUS
<1>1. CASE NextStart
  <2>1. status' # "done" BY <1>1 DEF NextStart
  <2> QED BY <2>1, <1>1, NextStartStep DEF PutOutOnce
<1>2. CASE RefreshFilter
  BY <1>2, RefreshStep DEF PutOutOnce
<1>3. CASE Finish
  <2>1. outData' = Scrubbed BY <1>3 DEF Finish
  <2>2. PutOutOnce' BY <2>1, ScrubbedIs DEF PutOutOnce, Owned
  <2> QED BY <2>2, <1>3, FinishStep
<1>4. CASE UNCHANGED vars
  BY <1>4 DEF vars, tree, Owned, PutOutOnce, TypeOK, CollectorSane, Walked, Accounted, Layered,
              LostBeforeSiblingOnly, Lost, Tracked, InOutput, Streams, Level, HasLaterSibling
<1> QED BY <1>1, <1>2, <1>3, <1>4 DEF Next

LEMMA AlwaysOwned == Spec => [](Owned /\ PutOutOnce)
BY OwnedInit, OwnedStep, PTL DEF Spec

\* For every tree and every set of starts: however a refresh ends, no stream has
\* been deleted twice and none that a cache keeps, the collector's sanity check
\* holds at every step, and a failed refresh deletes what it had put out
\* (refreshFilterTree, FilterRefreshCollector).
THEOREM NeverDeletedTwice == Spec => []DeletedAtMostOnce
<1>1. Owned => DeletedAtMostOnce
  <2> SUFFICES ASSUME Owned PROVE DeletedAtMostOnce OBVIOUS
  <2>1. TypeOK /\ CollectorSane /\ made \subseteq Streams /\ InOutput \subseteq made
    BY DEF Owned, TypeOK, Accounted
  <2>2. \A s \in Streams : deletions[s] <= 1 /\ (s \in cached => deletions[s] = 0)
    BY DEF Owned, Accounted
  <2>3. status = "failed" => \A s \in InOutput \ cached : deletions[s] = 1
    BY <2>1 DEF Owned, Accounted
  <2> HIDE DEF Streams
  <2> QED BY <2>1, <2>2, <2>3 DEF DeletedAtMostOnce
<1> QED BY <1>1, AlwaysOwned, PTL

\* For every tree: a filter is never given a stream that was deleted, what leaves
\* have put out exists until the refresh fails, and the scene gets each stream
\* in one entry.
THEOREM InputsAlive == Spec => []StreamsAlive
<1>1. Owned /\ PutOutOnce => StreamsAlive
  <2> SUFFICES ASSUME Owned, PutOutOnce PROVE StreamsAlive OBVIOUS
  <2> USE DEF Owned
  <2>1. /\ InOutput \subseteq made /\ forgotten \subseteq InOutput /\ made \subseteq Streams
        /\ \A s \in Streams :
              /\ s \in Tracked \cup cached => deletions[s] = 0
              /\ s \in InOutput /\ status # "failed" => deletions[s] = 0
    BY DEF Accounted, TypeOK
  <2>2. ASSUME status = "running", filtIt # NoFilter, NEW s \in InputOf(filtIt)
        PROVE  s \in made /\ deletions[s] = 0
    <3>1. /\ s \in made
          /\ s \in cached \cup forgotten \/ \E j \in 1..Level(filtIt) : s \in nodes[j]
      BY <2>2, Inputs
    <3>2. Level(filtIt) \in Nat \ {0} /\ Level(filtIt) <= Len(nodes) BY <2>2, AtHand
    <3>3. UpTo(Level(filtIt)) \subseteq Tracked BY <3>2, LevelsApart
    <3>4. s \in cached \cup forgotten \cup Tracked BY <3>1, <3>3 DEF UpTo
    <3> QED BY <3>1, <3>4, <2>1, <2>2
  <2> QED BY <2>1, <2>2 DEF StreamsAlive, PutOutOnce
<1> QED BY <1>1, AlwaysOwned, PTL

\* For every tree: what a refresh that does not fail loses without deleting it is
\* of filters that have children and a filter next to them (collectToLevel
\* leaves a level out).
THEOREM OnlyTheseAreLost == Spec => []LostBeforeSiblingOnly
<1>1. Owned => LostBeforeSiblingOnly BY DEF Owned
<1> QED BY <1>1, AlwaysOwned, PTL

-----------------------------------------------------------------------------
(* The settings of one filter.  What holds of them.                        *)

\* d is a record with the fields of c; a filter's settings are those of its kind.
Kin(c, d) == DOMAIN d = DOMAIN c /\ d = [f \in DOMAIN c |-> d[f]]
Whole(k, c) == Kin(New(k), c)

\* Two of the directions along the axes that are perpendicular.
Units == {<<1, 0, 0>>, <<-1, 0, 0>>, <<0, 1, 0>>, <<0, -1, 0>>, <<0, 0, 1>>, <<0, 0, -1>>}
Upright(up, across) == up \in Units /\ across \in Units /\ Notes!Dot(up, across) = 0

\* Range data of a file.
RangeForms == {NoRange} \cup
              [file : Nat \ {0}, ions : Seq(STRING), enabled : Seq(BOOLEAN)]

\* What the filters' code takes for granted of their settings.
Sane(k, c) ==
    CASE k = "ionClip" -> c.primitiveType \in Clip!Primitives
      [] k = "ionDownsample" ->
            /\ c.incoming \in RangeForms /\ {c.ionFractions, c.ionLimits} \subseteq Seq(Int)
            /\ {c.fraction, c.maxAfterFilter} \subseteq Int
      [] k = "ionInfo" ->
            \A f \in {"fitMode", "massBackStart", "massBackEnd"} : c[f] = Info!New[f]
      [] k = "annotation" ->
            c.annotationMode \in Notes!Modes /\ Upright(c.upVec, c.acrossVec)
      [] k = "spectrumPlot" ->
            /\ c.minPlot \in Int /\ c.maxPlot \in Int /\ c.minPlot < c.maxPlot
            /\ c.binWidth \in Nat \ {0}
      [] k = "clusterAnalysis" -> {c.wantClusterID, c.wantClusterMorphology} \subseteq BOOLEAN
      [] k = "voxelise" -> c.representation \in {"cloud", "surface", "slice"}
      [] k = "spatialAnalysis" -> c.algorithm \in Spatial!Algorithms
      [] OTHER -> TRUE

\* What is kept was made of the settings as they are, but for the grid, which is
\* at least one that was counted with ranges.
VoxSound(c, r) ==
    /\ IF r = NoRange
       THEN /\ c.incoming = NoRange /\ c.enabledIons = <<<<>>, <<>>>>
            /\ c.normaliseType \notin Voxel!NeedRanges
       ELSE c.incoming # NoRange /\ c.incoming.file = r.file
    /\ c.voxelCache # <<>> =>
          /\ c.voxelCache = Voxel!Counts(c, r) /\ c.bc = Voxel!DataExtent
          /\ IF c.fixedWidth THEN c.nBins = Voxel!BinsOf(Voxel!DataExtent, c.binWidth)
             ELSE c.binWidth = Voxel!WidthOf(Voxel!DataExtent, c.nBins)
    /\ c.vdbCache = <<>> \/ c.vdbCache[3] # NoRange

\* Flags of the ions: of a cluster analysis there are as many of both sorts, and
\* of a spatial analysis those of the ions it knows.
Array(x) == x = [i \in DOMAIN x |-> x[i]]

Sound(k, c) ==
    CASE k = "clusterAnalysis" ->
            /\ Array(c.ionCoreEnabled) /\ Array(c.ionBulkEnabled)
            /\ DOMAIN c.ionCoreEnabled = DOMAIN c.ionBulkEnabled
      [] k = "spatialAnalysis" ->
            \A f \in Spatial!Flags :
               /\ Array(c[f])
               /\ c.haveRangeParent => DOMAIN c[f] = 1..Len(c.ionNames)
      [] OTHER -> TRUE

\* What holds of the settings once initFilter has seen the ranges; a copy keeps it.
Settled(k, c, r) ==
    CASE k \in {"ionDownsample", "proxigram"} -> InitFilter(k, c, r) = c
      [] k = "clusterAnalysis" -> r # NoRange => c.ionNames = Cluster!EnabledNames(r)
      [] k = "spatialAnalysis" ->
            r # NoRange => \A f \in Spatial!Flags :
                              DOMAIN c[f] = 1..Len(Spatial!EnabledNames(r))
      [] k = "voxelise" -> VoxSound(c, r)
      [] OTHER -> TRUE

\* Neither initFilter nor refresh would change the settings any more.
Steady(k, c, r) == InitFilter(k, c, r) = c /\ Refreshed(k, c, r) = c

Dispositions == {"kept", "cleared", "patched", "legend", "dropped"}

Plain(c, a) ==
    /\ Kin(c, a.conf)
    /\ \/ a.cache = "kept" /\ a.conf = c
       \/ a.cache = "cleared" /\ a.update

Goes(k, c, stored, r, a) ==
    /\ Kin(c, a.conf) /\ Sane(k, a.conf)
    /\ a.cache \in Dispositions /\ (a.cache = "dropped" => a.misfit)
    /\ \/ a.misfit
       \/ a.cache = "cleared" /\ a.update
       \/ a.cache = "kept" /\ a.update /\ ~stored
       \/ a.cache = "patched" /\ a.update /\ (Steady(k, c, r) => Steady(k, a.conf, r))
       \/ /\ a.cache \in {"kept", "cleared"} /\ Output(k, a.conf) = Output(k, c)
          /\ Steady(k, c, r) => Steady(k, a.conf, r)

LEMMA PlainGoes ==
    ASSUME NEW k, NEW c, NEW stored, NEW r, NEW a, Plain(c, a), Sane(k, a.conf)
    PROVE  Goes(k, c, stored, r, a)
BY DEF Goes, Plain, Dispositions

LEMMA KinExcept ==
    ASSUME NEW c, NEW d, Kin(c, d), NEW f, NEW v
    PROVE  Kin(c, [d EXCEPT ![f] = v])
BY DEF Kin

LEMMA ChangedIsPlain ==
    ASSUME NEW c, NEW d, Kin(c, d)
    PROVE  Plain(c, Changed(d))
BY DEF Plain, Changed, Answer

LEMMA PlainForms ==
    ASSUME NEW c, Kin(c, c)
    PROVE  /\ Plain(c, Refuse(c)) /\ Plain(c, Ignore(c))
           /\ \A f, v : Plain(c, Assign(c, f, v)) /\ Plain(c, ApplyPropertyNow(c, f, v))
                        /\ Plain(c, AssignOther(c, f, v))
           /\ \A f, i, v : Plain(c, AssignIth(c, f, i, v)) /\ Plain(c, ApplyIth(c, f, i, v))
<1>1. Plain(c, Refuse(c)) /\ Plain(c, Ignore(c)) BY DEF Plain, Refuse, Ignore, Answer
<1>2. ASSUME NEW f, NEW v PROVE Plain(c, Assign(c, f, v))
  BY KinExcept, ChangedIsPlain, Zenon DEF Assign
<1>3. ASSUME NEW f, NEW i, NEW v PROVE Plain(c, AssignIth(c, f, i, v))
  BY <1>1, KinExcept, ChangedIsPlain DEF AssignIth
<1>4. ASSUME NEW f, NEW v
      PROVE  Plain(c, ApplyPropertyNow(c, f, v)) /\ Plain(c, AssignOther(c, f, v))
  BY <1>1, <1>2 DEF ApplyPropertyNow, AssignOther
<1>5. ASSUME NEW f, NEW i, NEW v PROVE Plain(c, ApplyIth(c, f, i, v))
  BY <1>1, <1>3 DEF ApplyIth
<1> QED BY <1>1, <1>2, <1>3, <1>4, <1>5

\* Kinds whose initFilter and refresh leave the settings alone.
LEMMA AlwaysSteady ==
    ASSUME NEW k \in {"ionClip", "ionColour", "rangeFile", "boundingBox", "dataLoad",
                      "externalProgram", "annotation"},
           NEW c, NEW r
    PROVE  Steady(k, c, r)
BY DEF Steady, InitFilter, Refreshed

LEMMA PatchedGoes ==
    ASSUME NEW k, NEW c, NEW d, Kin(c, d), Sane(k, d), NEW stored, NEW r,
           Steady(k, c, r) => Steady(k, d, r)
    PROVE  Goes(k, c, stored, r, Patched(d))
BY DEF Goes, Patched, Answer, Dispositions

LEMMA MisfitGoes ==
    ASSUME NEW k, NEW c, NEW d, Kin(c, d), Sane(k, d), NEW stored, NEW r, NEW u
    PROVE  Goes(k, c, stored, r, Misfit(d, u))
BY DEF Goes, Misfit, Uncleared, Answer, Dispositions

\* With no cache of its own, a filter only has to ask for the update.
LEMMA UnclearedGoes ==
    ASSUME NEW k, NEW c, NEW d, Kin(c, d), Sane(k, d), NEW r
    PROVE  Goes(k, c, FALSE, r, Uncleared(d, TRUE))
BY DEF Goes, Uncleared, Answer, Dispositions

LEMMA ChangedSane ==
    ASSUME NEW k, NEW c, Sane(k, c), NEW d
    PROVE  /\ Sane(k, Refuse(c).conf) /\ Sane(k, Ignore(c).conf)
           /\ Sane(k, d) => Sane(k, Changed(d).conf)
<1>1. Refuse(c).conf = c /\ Ignore(c).conf = c /\ Changed(d).conf = d
  BY DEF Refuse, Ignore, Changed, Answer
<1> QED BY <1>1

-----------------------------------------------------------------------------
(* Filters without anything of their own to make ready: what an answer, or *)
(* a drag, leaves behind goes with what is kept.                           *)

LEMMA ClipSame ==
    ASSUME NEW c
    PROVE  /\ \A d : Clip!Changed(d) = Changed(d)
           /\ \A d, u : Clip!Uncleared(d, u) = Uncleared(d, u)
           /\ \A f, w : Clip!ApplyPropertyNow(c, f, w) = ApplyPropertyNow(c, f, w)
           /\ \A f, i, w : Clip!ApplyIth(c, f, i, w) = ApplyIth(c, f, i, w)
BY DEF Answer, Refuse, Ignore, Changed, Uncleared, Assign, ApplyPropertyNow, AssignIth,
       ApplyIth, Clip!Answer, Clip!Refuse, Clip!Ignore, Clip!Changed, Clip!Uncleared,
       Clip!Assign, Clip!ApplyPropertyNow, Clip!AssignIth, Clip!ApplyIth

LEMMA ClipAnswers ==
    ASSUME NEW c, Whole("ionClip", c), Sane("ionClip", c), NEW stored, NEW r,
           NEW a \in Clip!Answers(c, stored)
    PROVE  Goes("ionClip", c, stored, r, a)
<1> USE DEF Sane
<1>0. DOMAIN c = DOMAIN Clip!New /\ Kin(c, c) BY DEF Whole, Kin, New
<1>d. {"primitiveType", "vectorParams", "scalarParams"} \subseteq DOMAIN c
  BY <1>0 DEF Clip!New
<1>1. PICK key \in Clip!Shown(c) : \E v \in Clip!Inputs(key) : a = Clip!SetProperty(c, key, v)
  BY DEF Clip!Answers
<1>2. PICK v \in Clip!Inputs(key) : a = Clip!SetProperty(c, key, v) BY <1>1
<1>3. CASE key = "primitiveType"
  <2>1. \E y, z : Clip!Reshaped(c, v) =
            [c EXCEPT !.primitiveType = v, !.vectorParams = y, !.scalarParams = z]
    BY Zenon DEF Clip!Reshaped
  <2>2. Kin(c, Clip!Reshaped(c, v)) BY <1>0, <2>1 DEF Kin
  <2>3. a = Changed(Clip!Reshaped(c, v)) /\ v \in Clip!Primitives
    BY <1>2, <1>3, ClipSame DEF Clip!SetProperty, Clip!Inputs
  <2>4. a.conf.primitiveType \in Clip!Primitives
    BY <1>d, <2>1, <2>3 DEF Changed, Answer
  <2> QED BY <2>2, <2>3, <2>4, ChangedIsPlain, PlainGoes
<1>4. CASE key # "primitiveType"
  <2>1. \/ a = ApplyPropertyNow(c, key, v)
        \/ \E f \in {"vectorParams", "scalarParams"} : \E i, w : a = ApplyIth(c, f, i, w)
    BY <1>2, <1>4, ClipSame DEF Clip!SetProperty, Clip!SetVector, Clip!SetNormal
  <2>2. a.conf.primitiveType = c.primitiveType
    BY <1>d, <1>4, <2>1 DEF ApplyPropertyNow, ApplyIth, Assign, AssignIth, Changed, Ignore, Refuse, Answer
  <2> QED BY <1>0, <2>1, <2>2, PlainForms, PlainGoes
<1> QED BY <1>3, <1>4

LEMMA ClipDrags ==
    ASSUME NEW c, Whole("ionClip", c), Sane("ionClip", c), NEW stored, NEW r, NEW a \in Clip!Drags(c)
    PROVE  Goes("ionClip", c, stored, r, a)
<1> USE DEF Sane
<1>0. DOMAIN c = DOMAIN Clip!New /\ Kin(c, c) BY DEF Whole, Kin, New
<1>d. {"primitiveType", "vectorParams", "scalarParams"} \subseteq DOMAIN c
  BY <1>0 DEF Clip!New
<1>1. PICK b \in Clip!Bindings(c) :
        a \in {Clip!Dragged(c, b, v) : v \in Clip!Inputs(IF b \in {"radius", "origin"} THEN b ELSE "normal")}
  BY Zenon DEF Clip!Drags
<1>2. PICK v : a = Clip!Dragged(c, b, v) BY <1>1
<1>3. b \in {"radius", "origin", "axis", "direction", "corner"}
  BY DEF Clip!Bindings, Clip!Primitives
<1>4. \/ a = Uncleared(c, TRUE)
      \/ \E f \in {"vectorParams", "scalarParams"} : \E x : a = Changed([c EXCEPT ![f] = x])
  BY <1>2, <1>3, ClipSame DEF Clip!Dragged
<1>5. Plain(c, Uncleared(c, TRUE)) BY <1>0 DEF Plain, Uncleared, Answer
<1>6. a.conf.primitiveType = c.primitiveType BY <1>d, <1>4 DEF Uncleared, Changed, Answer
<1> QED BY <1>0, <1>4, <1>5, <1>6, KinExcept, ChangedIsPlain, PlainGoes

LEMMA ColourSame ==
    ASSUME NEW c
    PROVE  /\ Colour!Refuse(c) = Refuse(c)
           /\ \A f, w : Colour!Assign(c, f, w) = Assign(c, f, w)
           /\ \A f, w : Colour!ApplyPropertyNow(c, f, w) = ApplyPropertyNow(c, f, w)
           /\ \A f, w : Colour!AssignOther(c, f, w) = AssignOther(c, f, w)
BY DEF Answer, Refuse, Ignore, Changed, Assign, ApplyPropertyNow, AssignOther,
       Colour!Answer, Colour!Refuse, Colour!Ignore, Colour!Changed, Colour!Assign,
       Colour!ApplyPropertyNow, Colour!AssignOther

LEMMA ColourAnswers ==
    ASSUME NEW c, Kin(c, c), NEW stored, NEW r, NEW a \in Colour!Answers(c, stored)
    PROVE  Goes("ionColour", c, stored, r, a)
<1>1. PICK key, v : a = Colour!SetProperty(c, key, v) BY DEF Colour!Answers
<1>2. \/ a = Refuse(c)
      \/ \E f, w : a \in {Assign(c, f, w), ApplyPropertyNow(c, f, w), AssignOther(c, f, w)}
  BY <1>1, ColourSame DEF Colour!SetProperty, Colour!SetMapStart, Colour!SetMapEnd
<1> QED BY <1>2, PlainForms, PlainGoes DEF Sane

LEMMA DataSame ==
    ASSUME NEW c
    PROVE  /\ Data!Refuse(c) = Refuse(c)
           /\ Data!Ignore(c) = Ignore(c)
           /\ \A d : Data!Changed(d) = Changed(d)
           /\ \A d : Data!Patched(d) = Patched(d)
           /\ \A f, w : Data!Assign(c, f, w) = Assign(c, f, w)
           /\ \A f, w : Data!ApplyPropertyNow(c, f, w) = ApplyPropertyNow(c, f, w)
           /\ \A f, w : Data!AssignOther(c, f, w) = AssignOther(c, f, w)
           /\ \A f, i, w : Data!AssignIth(c, f, i, w) = AssignIth(c, f, i, w)
BY DEF Answer, Refuse, Ignore, Changed, Patched, Assign, ApplyPropertyNow, AssignOther,
       AssignIth, Data!Answer, Data!Refuse, Data!Ignore, Data!Changed, Data!Patched,
       Data!Assign, Data!ApplyPropertyNow, Data!AssignOther, Data!AssignIth

LEMMA DataAnswers ==
    ASSUME NEW c, Kin(c, c), NEW stored, NEW r, NEW a \in Data!Answers(c, stored)
    PROVE  Goes("dataLoad", c, stored, r, a)
<1>1. PICK key, i, v : a = Data!SetProperty(c, key, i, v) BY DEF Data!Answers
<1>2. \/ a \in {Refuse(c), Ignore(c), Assign(c, key, v), ApplyPropertyNow(c, key, v),
                ApplyPropertyNow(c, "maxIons", v), AssignOther(c, key, v), AssignIth(c, key, i, v)}
      \/ a = Data!SetColumns(c, v)
      \/ a = Patched([c EXCEPT ![key] = v])
  BY <1>1, DataSame DEF Data!SetProperty, Data!SetSampleSize, Data!SetLook
<1>3. \/ Data!SetColumns(c, v) = Refuse(c)
      \/ \E x, y : Data!SetColumns(c, v) = Changed([c EXCEPT !.numColumns = x, !.index = y])
  BY DataSame, Zenon DEF Data!SetColumns
<1>4. CASE \E x, y : a = Changed([c EXCEPT !.numColumns = x, !.index = y])
  <2>1. PICK x, y : a = Changed([c EXCEPT !.numColumns = x, !.index = y]) BY <1>4
  <2>2. Kin(c, [c EXCEPT !.numColumns = x, !.index = y]) BY DEF Kin
  <2> QED BY <2>1, <2>2, ChangedIsPlain, PlainGoes DEF Sane
<1>5. CASE a = Patched([c EXCEPT ![key] = v])
  BY <1>5, KinExcept, PatchedGoes, AlwaysSteady DEF Sane
<1> QED BY <1>2, <1>3, <1>4, <1>5, PlainForms, PlainGoes DEF Sane

LEMMA ProgramSame ==
    ASSUME NEW c
    PROVE  /\ Program!Refuse(c) = Refuse(c)
           /\ \A f, w : Program!ApplyPropertyNow(c, f, w) = ApplyPropertyNow(c, f, w)
BY DEF Answer, Refuse, Ignore, Changed, Assign, ApplyPropertyNow, Program!Answer,
       Program!Refuse, Program!Ignore, Program!Changed, Program!Assign,
       Program!ApplyPropertyNow

LEMMA ProgramAnswers ==
    ASSUME NEW c, Kin(c, c), NEW stored, NEW r, NEW a \in Program!Answers(c, stored)
    PROVE  Goes("externalProgram", c, stored, r, a)
<1>1. PICK key, v : a = Program!SetProperty(c, key, v) BY DEF Program!Answers
<1>2. a = Refuse(c) \/ \E f, w : a = ApplyPropertyNow(c, f, w)
  BY <1>1, ProgramSame DEF Program!SetProperty
<1> QED BY <1>2, PlainForms, PlainGoes DEF Sane

LEMMA BoxSame ==
    ASSUME NEW c
    PROVE  /\ Box!Refuse(c) = Refuse(c)
           /\ \A d, u : Box!Uncleared(d, u) = Uncleared(d, u)
           /\ \A f, w : Box!ApplyPropertyNow(c, f, w) = ApplyPropertyNow(c, f, w)
BY DEF Answer, Refuse, Ignore, Changed, Uncleared, Assign, ApplyPropertyNow, Box!Answer,
       Box!Refuse, Box!Ignore, Box!Changed, Box!Uncleared, Box!Assign,
       Box!ApplyPropertyNow

LEMMA BoxAnswers ==
    ASSUME NEW c, Kin(c, c), NEW r, NEW a \in Box!Answers(c, FALSE)
    PROVE  Goes("boundingBox", c, FALSE, r, a)
<1>1. PICK key, i, v : a = Box!SetProperty(c, key, i, v) BY DEF Box!Answers
<1>2. \/ a \in {Refuse(c), ApplyPropertyNow(c, key, v)}
      \/ a = Uncleared([c EXCEPT ![key][i] = v], TRUE)
      \/ a = Uncleared([c EXCEPT !.lineColour = v], TRUE)
      \/ a = Uncleared([c EXCEPT !.lineWidth = v], TRUE)
  BY <1>1, BoxSame DEF Box!SetProperty, Box!SetTick
<1>3. Kin(c, [c EXCEPT ![key][i] = v]) BY KinExcept
<1>4. Kin(c, [c EXCEPT !.lineColour = v]) /\ Kin(c, [c EXCEPT !.lineWidth = v])
  BY KinExcept
<1> QED BY <1>2, <1>3, <1>4, PlainForms, PlainGoes, UnclearedGoes DEF Sane

LEMMA RangeFileSame ==
    ASSUME NEW c
    PROVE  /\ RangeFile!Refuse(c) = Refuse(c)
           /\ RangeFile!Ignore(c) = Ignore(c)
           /\ \A d : RangeFile!Changed(d) = Changed(d)
           /\ \A d : RangeFile!Patched(d) = Patched(d)
           /\ \A f, w : RangeFile!ApplyPropertyNow(c, f, w) = ApplyPropertyNow(c, f, w)
           /\ \A f, i, w : RangeFile!ApplyIth(c, f, i, w) = ApplyIth(c, f, i, w)
BY DEF Answer, Refuse, Ignore, Changed, Patched, Assign, ApplyPropertyNow, AssignIth,
       ApplyIth, RangeFile!Answer, RangeFile!Refuse, RangeFile!Ignore,
       RangeFile!Changed, RangeFile!Patched, RangeFile!Assign,
       RangeFile!ApplyPropertyNow, RangeFile!AssignIth, RangeFile!ApplyIth

LEMMA RangeFileAnswers ==
    ASSUME NEW c, Kin(c, c), NEW stored, NEW r, NEW a \in RangeFile!Answers(c, stored)
    PROVE  Goes("rangeFile", c, stored, r, a)
<1>1. PICK key, i, v :
        /\ a = RangeFile!SetProperty(c, stored, key, i, v)
        /\ key \in {"rngName", "dropUnranged", "showLegend", "allIons", "allRanges",
                    "ionName", "ionEnabled", "ionColour", "rangeEnabled", "rangeIon",
                    "start", "end"}
  <2>p. PICK p \in RangeFile!Shown(c) : \E v : a = RangeFile!SetProperty(c, stored, p[1], p[2], v)
    BY DEF RangeFile!Answers
  <2>1. PICK v : a = RangeFile!SetProperty(c, stored, p[1], p[2], v) BY <2>p
  <2>2. p[1] \in {"rngName", "dropUnranged", "showLegend", "allIons", "allRanges",
                  "ionName", "ionEnabled", "ionColour", "rangeEnabled", "rangeIon",
                  "start", "end"}
    BY DEF RangeFile!Shown
  <2> QED BY <2>1, <2>2
<1>2. CASE key = "rngName"
  <2> DEFINE d == [c EXCEPT
                     !.rngName = v, !.rng = RangeFile!Files[v],
                     !.enabledIons = RangeFile!ResizedOn(@, RangeFile!Files[v].ions),
                     !.enabledRanges = RangeFile!ResizedOn(@, RangeFile!Files[v].ranges)]
  <2>1. a = Refuse(c) \/ a = Changed(d)
    <3>1. a = RangeFile!SetFile(c, v) BY <1>1, <1>2 DEF RangeFile!SetProperty
    <3> QED BY <3>1, RangeFileSame, Zenon DEF RangeFile!SetFile
  <2>2. Kin(c, d) BY DEF Kin
  <2> HIDE DEF d
  <2> QED BY <2>1, <2>2, ChangedIsPlain, PlainForms, PlainGoes DEF Sane
<1>3. CASE key = "showLegend"
  <2> DEFINE d == [c EXCEPT !.showLegend = v]
             bad == [Patched(d) EXCEPT !.cache = "legend", !.misfit = TRUE]
  <2>1. a = RangeFile!SetLegend(c, stored, v)
    BY <1>1, <1>3 DEF RangeFile!SetProperty
  <2>2. a \in {ApplyPropertyNow(c, "showLegend", v), Refuse(c), Patched(d), bad}
    BY <2>1, RangeFileSame DEF RangeFile!SetLegend
  <2>3. Kin(c, d) BY KinExcept
  <2>4. Goes("rangeFile", c, stored, r, bad)
    <3> HIDE DEF d
    <3> QED BY <2>3 DEF Goes, Patched, Answer, Dispositions, Sane
  <2>5. Goes("rangeFile", c, stored, r, Patched(d))
    <3> HIDE DEF d
    <3> QED BY <2>3, PatchedGoes, AlwaysSteady DEF Sane
  <2> HIDE DEF d, bad
  <2> QED BY <2>2, <2>4, <2>5, PlainForms, PlainGoes DEF Sane
<1>4. CASE key \in {"allIons", "allRanges"}
  <2>1. a = Ignore(c) \/ \E f, x : a = Changed([c EXCEPT ![f] = x])
    BY <1>1, <1>4, RangeFileSame DEF RangeFile!SetProperty, RangeFile!SetAll
  <2> QED BY <2>1, KinExcept, ChangedIsPlain, PlainForms, PlainGoes DEF Sane
<1>5. CASE key \in {"ionName", "ionEnabled", "ionColour"}
  <2>1. a = RangeFile!SetIon(c, key, i, v) BY <1>1, <1>5 DEF RangeFile!SetProperty
  <2>2. \/ a \in {Refuse(c), ApplyIth(c, "enabledIons", i, v)}
        \/ a = Changed([c EXCEPT !.rng.ions[i] = v])
        \/ a = Changed([c EXCEPT !.rng.colours[i] = v])
    <3>1. CASE key = "ionName" BY <2>1, <3>1, RangeFileSame, Zenon DEF RangeFile!SetIon
    <3>2. CASE key = "ionEnabled" BY <2>1, <3>2, RangeFileSame DEF RangeFile!SetIon
    <3>3. CASE key = "ionColour"
      <4>1. a = RangeFile!Changed([c EXCEPT !.rng.colours[i] = v])
        BY <2>1, <3>3 DEF RangeFile!SetIon
      <4> QED BY <4>1, RangeFileSame, Zenon
    <3> QED BY <1>5, <3>1, <3>2, <3>3
  <2>3. Kin(c, [c EXCEPT !.rng.ions[i] = v]) /\ Kin(c, [c EXCEPT !.rng.colours[i] = v])
    BY KinExcept
  <2> QED BY <2>2, <2>3, ChangedIsPlain, PlainForms, PlainGoes DEF Sane
<1>6. CASE key = "rangeIon"
  <2>1. a = RangeFile!SetRange(c, key, i, v) BY <1>1, <1>6 DEF RangeFile!SetProperty
  <2>2. a = Refuse(c) \/ a = RangeFile!Changed([c EXCEPT !.rng.ionOf[i] = v])
    BY <2>1, <1>6, RangeFileSame DEF RangeFile!SetRange
  <2>3. Kin(c, [c EXCEPT !.rng.ionOf[i] = v]) BY KinExcept
  <2>4. RangeFile!Changed([c EXCEPT !.rng.ionOf[i] = v]) = Changed([c EXCEPT !.rng.ionOf[i] = v])
    BY RangeFileSame
  <2> QED BY <2>2, <2>3, <2>4, ChangedIsPlain, PlainForms, PlainGoes DEF Sane
<1>7. CASE key \in {"start", "end"}
  <2> DEFINE n == IF key = "start" THEN 1 ELSE 2
             d == [c EXCEPT !.rng.ranges[i][n] = v]
  <2>1. a = RangeFile!SetRange(c, key, i, v) BY <1>1, <1>7 DEF RangeFile!SetProperty
  <2>2. a = RangeFile!MoveRange(c, i, n, v) BY <2>1, <1>7 DEF RangeFile!SetRange
  <2>3. Kin(c, d) BY KinExcept
  <2>4. a = Refuse(c) \/ a = Changed(d)
    <3> HIDE DEF n
    <3> QED BY <2>2, RangeFileSame, Zenon DEF RangeFile!MoveRange
  <2> HIDE DEF d
  <2> QED BY <2>3, <2>4, ChangedIsPlain, PlainForms, PlainGoes DEF Sane
<1>8. CASE key \in {"dropUnranged", "rangeEnabled"}
  <2>1. a \in {ApplyPropertyNow(c, key, v), ApplyIth(c, "enabledRanges", i, v)}
    BY <1>1, <1>8, RangeFileSame DEF RangeFile!SetProperty, RangeFile!SetRange
  <2> QED BY <2>1, PlainForms, PlainGoes DEF Sane
<1> QED BY <1>1, <1>2, <1>3, <1>4, <1>5, <1>6, <1>7, <1>8

LEMMA RangeFileDrags ==
    ASSUME NEW c, Kin(c, c), NEW stored, NEW r, NEW a \in RangeFile!Drags(c)
    PROVE  Goes("rangeFile", c, stored, r, a)
<1>p. PICK b \in RangeFile!Bindings(c) : \E v : a = RangeFile!Dragged(c, b, v)
  BY DEF RangeFile!Drags
<1>1. PICK v : a = RangeFile!Dragged(c, b, v) BY <1>p
<1>2. b[1] \in {"start", "both", "end"} BY DEF RangeFile!Bindings
<1>3. CASE b[1] = "both"
  <2> DEFINE d == RangeFile!MoveBoth(c, b[2], v)
  <2>1. a = Changed(d) BY <1>1, <1>3, RangeFileSame DEF RangeFile!Dragged
  <2>2. Kin(c, d) BY KinExcept DEF RangeFile!MoveBoth
  <2> HIDE DEF d
  <2> QED BY <2>1, <2>2, ChangedIsPlain, PlainGoes DEF Sane
<1>4. CASE b[1] \in {"start", "end"}
  <2> DEFINE n == IF b[1] = "start" THEN 1 ELSE 2
             d == [c EXCEPT !.rng.ranges[b[2]][n] = v]
  <2>1. Kin(c, d) BY KinExcept
  <2>2. a = RangeFile!Changed(d) \/ a = RangeFile!Changed(c)
    BY <1>1, <1>4 DEF RangeFile!Dragged
  <2> HIDE DEF d
  <2> QED BY <2>1, <2>2, RangeFileSame, ChangedIsPlain, PlainGoes DEF Sane
<1> QED BY <1>2, <1>3, <1>4

LEMMA InfoSame ==
    ASSUME NEW c
    PROVE  /\ Info!Refuse(c) = Refuse(c)
           /\ \A d, u : Info!Uncleared(d, u) = Uncleared(d, u)
           /\ \A f, w : Info!ApplyPropertyNow(c, f, w) = ApplyPropertyNow(c, f, w)
BY DEF Answer, Refuse, Ignore, Changed, Uncleared, Assign, ApplyPropertyNow,
       Info!Answer, Info!Refuse, Info!Ignore, Info!Changed, Info!Uncleared, Info!Assign,
       Info!ApplyPropertyNow

LEMMA InfoAnswers ==
    ASSUME NEW c, Whole("ionInfo", c), Sane("ionInfo", c), NEW r, NEW a \in Info!Answers(c, FALSE)
    PROVE  Goes("ionInfo", c, FALSE, r, a)
<1>p. PICK key \in Info!Shown(c) : \E v : a = Info!SetProperty(c, key, v)
  BY DEF Info!Answers
<1>1. PICK v : a = Info!SetProperty(c, key, v) BY <1>p
<1>2. \/ a \in {Refuse(c), ApplyPropertyNow(c, key, v)}
      \/ a = Uncleared([c EXCEPT !.volumeAlgorithm = v], TRUE)
  BY <1>1, InfoSame DEF Info!SetProperty
<1>3. Kin(c, c) /\ DOMAIN c = DOMAIN Info!New BY DEF Whole, Kin, New
<1>4. {"fitMode", "massBackStart", "massBackEnd", "volumeAlgorithm"} \subseteq DOMAIN c
  BY <1>3 DEF Info!New
<1>5. key \notin {"fitMode", "massBackStart", "massBackEnd"} BY DEF Info!Shown
<1>6. Kin(c, [c EXCEPT !.volumeAlgorithm = v]) BY <1>3, KinExcept
<1>7. \A f \in {"fitMode", "massBackStart", "massBackEnd"} : a.conf[f] = c[f]
  BY <1>2, <1>4, <1>5
     DEF Refuse, ApplyPropertyNow, Ignore, Assign, Changed, Uncleared, Answer
<1>8. Sane("ionInfo", a.conf) BY <1>7 DEF Sane
<1>9. a = Uncleared([c EXCEPT !.volumeAlgorithm = v], TRUE) =>
        a.conf = [c EXCEPT !.volumeAlgorithm = v]
  BY DEF Uncleared, Answer
<1>10. CASE a \in {Refuse(c), ApplyPropertyNow(c, key, v)}
  BY <1>3, <1>8, <1>10, PlainForms, PlainGoes
<1>11. CASE a = Uncleared([c EXCEPT !.volumeAlgorithm = v], TRUE)
  <2> DEFINE d == [c EXCEPT !.volumeAlgorithm = v]
  <2>1. Kin(c, d) /\ Sane("ionInfo", d) /\ a = Uncleared(d, TRUE) BY <1>6, <1>8, <1>9, <1>11
  <2> HIDE DEF d
  <2> QED BY <2>1, UnclearedGoes
<1> QED BY <1>2, <1>10, <1>11

LEMMA ProxiSame ==
    ASSUME NEW c
    PROVE  /\ Proxi!Refuse(c) = Refuse(c)
           /\ \A d : Proxi!Changed(d) = Changed(d)
           /\ \A d, u : Proxi!Uncleared(d, u) = Uncleared(d, u)
           /\ \A f, w : Proxi!Assign(c, f, w) = Assign(c, f, w)
BY DEF Answer, Refuse, Changed, Uncleared, Assign, Proxi!Answer, Proxi!Refuse,
       Proxi!Changed, Proxi!Uncleared, Proxi!Assign

LEMMA ProxiAnswers ==
    ASSUME NEW c, Kin(c, c), NEW r, NEW a \in Proxi!Answers(c, FALSE)
    PROVE  Goes("proxigram", c, FALSE, r, a)
<1>p. PICK p \in Proxi!Shown(c) : \E v : a = Proxi!SetProperty(c, p[1], p[2], p[3], v)
  BY DEF Proxi!Answers
<1>1. PICK v : a = Proxi!SetProperty(c, p[1], p[2], p[3], v) BY <1>p
<1>2. p[1] \in Proxi!Lengths \cup {"weight_factor", "all", "ion"} BY DEF Proxi!Shown
<1>3. \/ a \in {Refuse(c), Assign(c, p[1], v)}
      \/ a = Uncleared([c EXCEPT ![p[1]] = v], TRUE)
      \/ a = Proxi!SetAll(c, p[2], v)
      \/ a = Proxi!SetIon(c, p[2], p[3], v)
  BY <1>1, <1>2, ProxiSame DEF Proxi!SetProperty, Proxi!SetLength, Proxi!Lengths
<1>4. ASSUME NEW part PROVE Plain(c, Proxi!SetAll(c, part, v))
  <2> DEFINE d == [c EXCEPT !.enabledIons[part] = [i \in DOMAIN @ |-> v],
                            ![Proxi!AllFlag[part]] = v]
  <2>1. Proxi!SetAll(c, part, v) = Changed(d) BY ProxiSame, Zenon DEF Proxi!SetAll
  <2>2. Kin(c, d) BY DEF Kin
  <2> HIDE DEF d
  <2> QED BY <2>1, <2>2, ChangedIsPlain
<1>5. ASSUME NEW part, NEW i PROVE Plain(c, Proxi!SetIon(c, part, i, v))
  <2> DEFINE d == [c EXCEPT !.enabledIons[part][i] = v, ![Proxi!AllFlag[part]] = @ /\ v]
  <2>1. Proxi!SetIon(c, part, i, v) = Changed(d) BY ProxiSame, Zenon DEF Proxi!SetIon
  <2>2. Kin(c, d) BY DEF Kin
  <2> HIDE DEF d
  <2> QED BY <2>1, <2>2, ChangedIsPlain
<1>7. Kin(c, [c EXCEPT ![p[1]] = v]) BY KinExcept
<1> QED BY <1>3, <1>4, <1>5, <1>7, PlainForms, PlainGoes, UnclearedGoes DEF Sane

LEMMA ProfSame ==
    ASSUME NEW c
    PROVE  /\ Prof!Refuse(c) = Refuse(c)
           /\ \A d : Prof!Changed(d) = Changed(d)
           /\ \A d, u : Prof!Uncleared(d, u) = Uncleared(d, u)
           /\ \A f, w : Prof!Assign(c, f, w) = Assign(c, f, w)
           /\ \A f, w : Prof!ApplyPropertyNow(c, f, w) = ApplyPropertyNow(c, f, w)
           /\ \A f, i, w : Prof!ApplyIth(c, f, i, w) = ApplyIth(c, f, i, w)
BY DEF Answer, Refuse, Ignore, Changed, Uncleared, Assign, ApplyPropertyNow, AssignIth,
       ApplyIth, Prof!Answer, Prof!Refuse, Prof!Ignore, Prof!Changed, Prof!Uncleared,
       Prof!Assign, Prof!ApplyPropertyNow, Prof!AssignIth, Prof!ApplyIth

LEMMA ProfileAnswers ==
    ASSUME NEW c, Kin(c, c), NEW stored, NEW r, NEW a \in Prof!Answers(c, stored)
    PROVE  Goes("profile", c, stored, r, a)
<1>1. PICK key, v : a = Prof!SetProperty(c, key, v) BY DEF Prof!Answers
<1>2. CASE key = "primitiveType"
  <2> DEFINE d == Prof!Reshaped(c, v)
  <2>1. a = Changed(d) BY <1>1, <1>2, ProfSame DEF Prof!SetProperty
  <2>2. Kin(c, d) BY DEF Kin, Prof!Reshaped
  <2> HIDE DEF d
  <2> QED BY <2>1, <2>2, ChangedIsPlain, PlainGoes DEF Sane
<1>3. CASE key # "primitiveType"
  <2>1. \/ a \in {Refuse(c), Assign(c, key, v), ApplyPropertyNow(c, key, v)}
        \/ a = ApplyIth(c, "vectorParams", 1, v) \/ a = ApplyIth(c, "scalarParams", 1, v)
        \/ a = Prof!SetNormal(c, v)
    BY <1>1, <1>3, ProfSame DEF Prof!SetProperty, Prof!SetBins, Prof!SetPlot
  <2>2. \/ Prof!SetNormal(c, v) = Refuse(c)
        \/ Prof!SetNormal(c, v) = ApplyIth(c, "vectorParams", 2, v)
        \/ Prof!SetNormal(c, v) = ApplyIth(c, "vectorParams", 2, "y20")
    BY ProfSame DEF Prof!SetNormal
  <2> QED BY <2>1, <2>2, PlainForms, PlainGoes DEF Sane
<1> QED BY <1>2, <1>3

LEMMA ProfileDrags ==
    ASSUME NEW c, Kin(c, c), NEW stored, NEW r, NEW a \in Prof!Drags(c)
    PROVE  Goes("profile", c, stored, r, a)
<1>1. PICK b \in Prof!Bindings(c) :
        a \in {Prof!Dragged(c, b, v) : v \in Prof!Inputs(IF b = "axis" THEN "normal" ELSE b)}
  BY Zenon DEF Prof!Drags
<1>2. PICK v : a = Prof!Dragged(c, b, v) BY <1>1
<1>3. b \in {"radius", "origin", "axis"} BY DEF Prof!Bindings
<1>4. \/ a = Uncleared(c, TRUE) \/ a = Changed([c EXCEPT !.scalarParams[1] = v])
      \/ a = Changed([c EXCEPT !.vectorParams[1] = v])
      \/ a = Changed([c EXCEPT !.vectorParams[2] = v])
  BY <1>2, <1>3, ProfSame DEF Prof!Dragged
<1>5. Plain(c, Uncleared(c, TRUE)) BY DEF Plain, Uncleared, Answer
<1>6. /\ Kin(c, [c EXCEPT !.scalarParams[1] = v]) /\ Kin(c, [c EXCEPT !.vectorParams[1] = v])
      /\ Kin(c, [c EXCEPT !.vectorParams[2] = v])
  BY KinExcept
<1> QED BY <1>4, <1>5, <1>6, ChangedIsPlain, PlainGoes DEF Sane

LEMMA TransfSame ==
    ASSUME NEW c
    PROVE  /\ Transf!Refuse(c) = Refuse(c)
           /\ \A d : Transf!Changed(d) = Changed(d)
           /\ \A f, w : Transf!ApplyPropertyNow(c, f, w) = ApplyPropertyNow(c, f, w)
           /\ \A f, i, w : Transf!ApplyIth(c, f, i, w) = ApplyIth(c, f, i, w)
BY DEF Answer, Refuse, Ignore, Changed, Assign, ApplyPropertyNow, AssignIth, ApplyIth,
       Transf!Answer, Transf!Refuse, Transf!Ignore, Transf!Changed, Transf!Assign,
       Transf!ApplyPropertyNow, Transf!AssignIth, Transf!ApplyIth

LEMMA TransformAnswers ==
    ASSUME NEW c, Kin(c, c), NEW stored, NEW r, NEW a \in Transf!Answers(c, stored)
    PROVE  Goes("transform", c, stored, r, a)
<1>1. PICK key, v : a = Transf!SetProperty(c, key, v)
  <2>1. PICK key \in Transf!Shown(c) :
          a \in {Transf!SetProperty(c, key, v) : v \in Transf!Inputs(key)}
    BY Zenon DEF Transf!Answers
  <2> QED BY <2>1
<1>2. CASE key = "transformMode"
  <2> DEFINE d == [c EXCEPT !.transformMode = v, !.vectorParams = Transf!Vectors(v),
                            !.scalarParams = Transf!Scalars(v)]
  <2>1. a = Changed(d) BY <1>1, <1>2, TransfSame DEF Transf!SetProperty, Transf!SetMode
  <2>2. Kin(c, d) BY DEF Kin
  <2> HIDE DEF d
  <2> QED BY <2>1, <2>2, ChangedIsPlain, PlainGoes DEF Sane
<1>3. CASE key # "transformMode"
  <2>1. \/ a \in {Refuse(c), ApplyPropertyNow(c, key, v)}
        \/ a = ApplyIth(c, "vectorParams", 1, v) \/ a = ApplyIth(c, "scalarParams", 1, v)
        \/ a = ApplyIth(c, "vectorParams", 2, v) \/ a = ApplyIth(c, "scalarParams", 2, v)
    BY <1>1, <1>3, TransfSame DEF Transf!SetProperty
  <2> QED BY <2>1, PlainForms, PlainGoes DEF Sane
<1> QED BY <1>2, <1>3

LEMMA TransformDrags ==
    ASSUME NEW c, Kin(c, c), NEW stored, NEW r, NEW a \in Transf!Drags(c)
    PROVE  Goes("transform", c, stored, r, a)
<1>1. PICK v : a = Transf!Dragged(c, v) BY DEF Transf!Drags
<1>2. a = Changed([c EXCEPT !.vectorParams[1] = v]) BY <1>1, TransfSame DEF Transf!Dragged
<1>3. Kin(c, [c EXCEPT !.vectorParams[1] = v]) BY KinExcept
<1> QED BY <1>2, <1>3, ChangedIsPlain, PlainGoes DEF Sane

LEMMA Turned ==
    ASSUME NEW v \in Units, NEW o \in Units, Notes!Cross(v, o) # Notes!Zero
    PROVE  /\ Upright(v, Notes!Cross(Notes!Cross(v, o), v))
           /\ Upright(Notes!Cross(Notes!Cross(v, o), v), v)
           /\ Notes!Dot(v, o) = 0 /\ Notes!Cross(Notes!Cross(v, o), v) = o
<1> USE DEF Notes!Cross, Notes!Dot, Notes!Zero
<1> DEFINE w == Notes!Cross(Notes!Cross(v, o), v)
<1>1. w = o /\ Notes!Dot(v, o) = 0 /\ Notes!Dot(o, v) = 0
  <2>1. CASE v = <<1, 0, 0>> BY <2>1 DEF Units
  <2>2. CASE v = <<-1, 0, 0>> BY <2>2 DEF Units
  <2>3. CASE v = <<0, 1, 0>> BY <2>3 DEF Units
  <2>4. CASE v = <<0, -1, 0>> BY <2>4 DEF Units
  <2>5. CASE v = <<0, 0, 1>> BY <2>5 DEF Units
  <2>6. CASE v = <<0, 0, -1>> BY <2>6 DEF Units
  <2> QED BY <2>1, <2>2, <2>3, <2>4, <2>5, <2>6 DEF Units
<1> HIDE DEF Notes!Cross, Notes!Dot, Notes!Zero
<1> QED BY <1>1 DEF Upright

LEMMA NotesSame ==
    ASSUME NEW c
    PROVE  /\ Notes!Refuse(c) = Refuse(c)
           /\ Notes!Ignore(c) = Ignore(c)
           /\ \A d, u : Notes!Uncleared(d, u) = Uncleared(d, u)
           /\ \A f, w : Notes!ApplyPropertyNow(c, f, w) = ApplyPropertyNow(c, f, w)
BY DEF Answer, Refuse, Ignore, Changed, Uncleared, Assign, ApplyPropertyNow,
       Notes!Answer, Notes!Refuse, Notes!Ignore, Notes!Changed, Notes!Uncleared,
       Notes!Assign, Notes!ApplyPropertyNow

LEMMA NotesAnswers ==
    ASSUME NEW c, Whole("annotation", c), Sane("annotation", c), NEW r,
           NEW a \in Notes!Answers(c, FALSE)
    PROVE  Goes("annotation", c, FALSE, r, a)
<1>1. PICK key \in Notes!Shown(c) :
        a \in {Notes!SetProperty(c, key, v) : v \in Notes!Inputs(key)}
  BY Zenon DEF Notes!Answers
<1>2. PICK v \in Notes!Inputs(key) : a = Notes!SetProperty(c, key, v) BY <1>1
<1>3. Kin(c, c) /\ DOMAIN c = DOMAIN Notes!New BY DEF Whole, Kin, New
<1>4. {"annotationMode", "upVec", "acrossVec"} \subseteq DOMAIN c BY <1>3 DEF Notes!New
<1>5. CASE key \in {"upVec", "acrossVec"}
  <2> DEFINE other == IF key = "upVec" THEN "acrossVec" ELSE "upVec"
             w == Notes!Cross(Notes!Cross(v, c[other]), v)
             d == [c EXCEPT ![key] = v, ![other] = w]
  <2>1. a = Notes!SetDirection(c, key, other, v) BY <1>2, <1>5 DEF Notes!SetProperty
  <2>2. v \in Units /\ c[other] \in Units
    BY <1>2, <1>5 DEF Notes!Inputs, Notes!Axes, Units, Sane, Upright, Notes!Directions
  <2>3. \/ a = Refuse(c)
        \/ Notes!Cross(v, c[other]) # Notes!Zero /\ a = Uncleared(d, c[key] # v)
    <3> HIDE DEF other
    <3> QED BY <2>1, NotesSame, Zenon DEF Notes!SetDirection
  <2>4. CASE a = Refuse(c)
    <3>1. a.conf = c BY <2>4 DEF Refuse, Answer
    <3> QED BY <1>3, <2>4, <3>1, PlainForms, PlainGoes
  <2>5. CASE Notes!Cross(v, c[other]) # Notes!Zero /\ a = Uncleared(d, c[key] # v)
    <3>1. Upright(v, w) /\ Upright(w, v) /\ w = c[other] BY <2>2, <2>5, Turned
    <3> HIDE DEF w
    <3>2. d.upVec = (IF key = "upVec" THEN v ELSE w)
          /\ d.acrossVec = (IF key = "upVec" THEN w ELSE v)
          /\ d.annotationMode = c.annotationMode
      BY <1>4, <1>5
    <3>3. Kin(c, d) BY <1>3 DEF Kin
    <3>4. ASSUME c[key] = v PROVE d = c BY <1>3, <1>4, <1>5, <3>1, <3>4 DEF Kin
    <3> HIDE DEF d
    <3>5. Sane("annotation", d) BY <3>1, <3>2 DEF Sane
    <3>6. CASE c[key] = v
      <4>1. a.conf = c /\ a.cache = "kept" BY <2>5, <3>4, <3>6 DEF Uncleared, Answer
      <4> QED BY <1>3, <4>1, PlainGoes DEF Plain
    <3>7. CASE c[key] # v
      <4>1. a = Uncleared(d, TRUE) BY <2>5, <3>7
      <4> QED BY <3>3, <3>5, <4>1, UnclearedGoes
    <3> QED BY <3>6, <3>7
  <2> QED BY <2>3, <2>4, <2>5
<1>6. CASE key \notin {"upVec", "acrossVec"}
  <2> DEFINE new == IF key = "angleFormat" /\ v[2] = 0 THEN <<v[1], c.angleFormat[2]>> ELSE v
             d == [c EXCEPT ![key] = new]
  <2>1. a \in {Ignore(c), Refuse(c), ApplyPropertyNow(c, key, v), Uncleared(d, TRUE)}
    <3>1. CASE key = "angleFormat"
      <4>1. a = Notes!SetAngleFormat(c, v) BY <1>2, <3>1 DEF Notes!SetProperty
      <4>2. Notes!SetAngleFormat(c, v) = Uncleared(d, TRUE)
        BY <3>1, NotesSame DEF Notes!SetAngleFormat
      <4> QED BY <4>1, <4>2
    <3>2. CASE key # "angleFormat"
      <4>1. new = v BY <3>2
      <4> HIDE DEF new
      <4> QED BY <1>2, <1>6, <3>2, <4>1, NotesSame
            DEF Notes!SetProperty, Notes!SetIf, Notes!SetLineSize
    <3> QED BY <3>1, <3>2
  <2>2. ASSUME key = "annotationMode" PROVE v \in Notes!Modes /\ new = v
    <3>1. Notes!Inputs(key) = Notes!Modes BY <2>2, Zenon DEF Notes!Inputs, Notes!Directions
    <3> QED BY <1>2, <2>2, <3>1
  <2> HIDE DEF new
  <2>3. Kin(c, d) BY <1>3, KinExcept
  <2>4. Sane("annotation", d) BY <1>4, <1>6, <2>2 DEF Sane
  <2>5. Sane("annotation", ApplyPropertyNow(c, key, v).conf)
    BY <1>4, <1>6, <2>2 DEF Sane, ApplyPropertyNow, Ignore, Assign, Changed, Answer
  <2> HIDE DEF d
  <2> QED BY <1>3, <2>1, <2>3, <2>4, <2>5, PlainForms, ChangedSane, PlainGoes, UnclearedGoes
<1> QED BY <1>5, <1>6

LEMMA NotesDrags ==
    ASSUME NEW c, Whole("annotation", c), Sane("annotation", c), NEW r, NEW a \in Notes!Drags(c)
    PROVE  Goes("annotation", c, FALSE, r, a)
<1>1. PICK b \in Notes!Bindings(c) : a = Notes!Uncleared(Notes!Dragged(c, b), TRUE)
  BY DEF Notes!Drags
<1>2. b \in {"text origin", "arrow origin", "arrow vector", "angle origin", "angle radius",
             "ruler origin", "ruler target", "ruler radius"}
  BY DEF Notes!Bindings, Sane, Notes!Modes, Notes!Ruler
<1>3. Kin(c, c) /\ DOMAIN c = DOMAIN Notes!New BY DEF Whole, Kin, New
<1>4. {"annotationMode", "upVec", "acrossVec"} \subseteq DOMAIN c BY <1>3 DEF Notes!New
<1> DEFINE d == Notes!Dragged(c, b)
<1>5. /\ Kin(c, d) /\ d.annotationMode = c.annotationMode
      /\ d.upVec = c.upVec /\ d.acrossVec = c.acrossVec
  <2>1. \/ d = c \/ \E f \in {"position", "target", "anglePos", "sphereMarkerSize"} : \E x :
                      d = [c EXCEPT ![f] = x]
        \/ d = [c EXCEPT !.position = "d", !.target = "d+"]
    BY <1>2 DEF Notes!Dragged
  <2> HIDE DEF d
  <2> QED BY <1>3, <1>4, <2>1 DEF Kin
<1>6. a = Uncleared(d, TRUE) BY <1>1, NotesSame
<1> HIDE DEF d
<1>7. Sane("annotation", d) BY <1>5 DEF Sane
<1> QED BY <1>5, <1>6, <1>7, UnclearedGoes

-----------------------------------------------------------------------------
(* The spectrum, whose bins refresh narrows.                               *)

SpectrumSettled(c, r) ==
    /\ c.autoExtrema => /\ c.minPlot = Spectrum!Least(r) - 20
                        /\ c.maxPlot = Spectrum!Greatest(r) + 20
    /\ \/ (c.maxPlot - c.minPlot) \div c.binWidth > 0
       \/ c.binWidth = ((c.maxPlot - c.minPlot) + 9) \div 10

LEMMA SpectrumSteady ==
    ASSUME NEW c, c = [f \in DOMAIN c |-> c[f]], DOMAIN c = DOMAIN Spectrum!New, NEW r
    PROVE  Spectrum!Refreshed(c, r) = c <=> SpectrumSettled(c, r)
<1> DEFINE lo == Spectrum!Least(r) - 20
           hi == Spectrum!Greatest(r) + 20
           e == Spectrum!Extrema(c, r)
           w == e.maxPlot - e.minPlot
           d == [e EXCEPT !.binWidth = (w + 9) \div 10]
<1>1. {"minPlot", "maxPlot", "binWidth", "autoExtrema"} \subseteq DOMAIN c
  BY DEF Spectrum!New
<1>2. e = IF c.autoExtrema THEN [c EXCEPT !.minPlot = lo, !.maxPlot = hi] ELSE c
  BY DEF Spectrum!Extrema
<1>3. Spectrum!Refreshed(c, r) = IF w \div c.binWidth > 0 THEN e ELSE d
  BY DEF Spectrum!Refreshed
<1>4. /\ e.binWidth = c.binWidth
      /\ e.minPlot = IF c.autoExtrema THEN lo ELSE c.minPlot
      /\ e.maxPlot = IF c.autoExtrema THEN hi ELSE c.maxPlot
      /\ (e = c <=> (c.autoExtrema => c.minPlot = lo /\ c.maxPlot = hi))
      /\ DOMAIN e = DOMAIN c
  <2> HIDE DEF lo, hi, e
  <2>1. CASE ~c.autoExtrema BY <1>2, <2>1
  <2>2. CASE c.autoExtrema
    <3>1. e = [c EXCEPT !.minPlot = lo, !.maxPlot = hi] BY <1>2, <2>2
    <3>2. e.minPlot = lo /\ e.maxPlot = hi /\ e.binWidth = c.binWidth /\ DOMAIN e = DOMAIN c
      BY <1>1, <3>1
    <3>3. ASSUME c.minPlot = lo, c.maxPlot = hi PROVE e = c
      BY <1>1, <3>1, <3>3
    <3> QED BY <2>2, <3>2, <3>3
  <2> QED BY <2>1, <2>2
<1> HIDE DEF lo, hi, e
<1>5. d = c <=> e = c /\ c.binWidth = (w + 9) \div 10
  <2>1. d.binWidth = (w + 9) \div 10 /\ d.minPlot = e.minPlot /\ d.maxPlot = e.maxPlot
    BY <1>1, <1>4
  <2>2. ASSUME d = c PROVE e = c
    BY <1>2, <1>4, <2>1, <2>2
  <2>3. ASSUME e = c, c.binWidth = (w + 9) \div 10 PROVE d = c
    <3>1. d = [c EXCEPT !.binWidth = c.binWidth] BY <2>3
    <3> QED BY <3>1
  <2> HIDE DEF d, w
  <2> QED BY <2>1, <2>2, <2>3
<1> HIDE DEF d
<1>6. CASE e = c
  <2>1. w = c.maxPlot - c.minPlot BY <1>6
  <2> QED BY <1>3, <1>4, <1>5, <1>6, <2>1 DEF SpectrumSettled, lo, hi
<1>7. CASE e # c
  BY <1>3, <1>4, <1>5, <1>7 DEF SpectrumSettled, lo, hi
<1> QED BY <1>6, <1>7

LEMMA SpectrumSame ==
    ASSUME NEW c
    PROVE  /\ \A o, u, h, d : Spectrum!Answer(o, u, h, d) = Answer(o, u, h, d)
           /\ Spectrum!Refuse(c) = Refuse(c)
           /\ Spectrum!Ignore(c) = Ignore(c)
           /\ \A d : Spectrum!Changed(d) = Changed(d)
           /\ \A d : Spectrum!Patched(d) = Patched(d)
           /\ \A d, u : Spectrum!Uncleared(d, u) = Uncleared(d, u)
           /\ Spectrum!Dropped(c) = Dropped(c)
           /\ \A f, w : Spectrum!Assign(c, f, w) = Assign(c, f, w)
           /\ \A f, w : Spectrum!ApplyPropertyNow(c, f, w) = ApplyPropertyNow(c, f, w)
BY DEF Answer, Refuse, Ignore, Changed, Patched, Uncleared, Dropped, Assign,
       ApplyPropertyNow, Spectrum!Answer, Spectrum!Refuse, Spectrum!Ignore,
       Spectrum!Changed, Spectrum!Patched, Spectrum!Uncleared, Spectrum!Dropped,
       Spectrum!Assign, Spectrum!ApplyPropertyNow

LEMMA SpectrumAnswers ==
    ASSUME NEW c, Whole("spectrumPlot", c), Sane("spectrumPlot", c), NEW stored, NEW r,
           NEW a \in Spectrum!Answers(c, stored)
    PROVE  Goes("spectrumPlot", c, stored, r, a)
<1> USE DEF Sane
<1>0. PICK key : \E v \in Spectrum!Inputs(key) : a = Spectrum!SetProperty(c, stored, key, v)
  BY DEF Spectrum!Answers
<1>1. PICK v \in Spectrum!Inputs(key) : a = Spectrum!SetProperty(c, stored, key, v)
  BY <1>0
<1>2. Kin(c, c) /\ DOMAIN c = DOMAIN Spectrum!New BY DEF Whole, Kin, New
<1>3. {"minPlot", "maxPlot", "binWidth", "autoExtrema", "logarithmic", "plotStyle", "rgba",
       "fitMode", "showOnlyCorrected"} \subseteq DOMAIN c
  BY <1>2 DEF Spectrum!New
<1>4. CASE key = "binWidth"
  <2>1. v \in {0, 40, 4000} BY <1>4 DEF Spectrum!Inputs
  <2>2. a = Refuse(c) \/ (a = Assign(c, "binWidth", v) /\ v # 0)
    BY <1>1, <1>4, SpectrumSame DEF Spectrum!SetProperty, Spectrum!SetBinWidth
  <2>3. Sane("spectrumPlot", a.conf)
    BY <1>3, <2>1, <2>2 DEF Refuse, Assign, Changed, Answer
  <2> QED BY <1>2, <2>2, <2>3, PlainForms, PlainGoes
<1>5. CASE key \in {"minPlot", "maxPlot"}
  <2> DEFINE d == [c EXCEPT ![key] = v]
  <2>1. v \in {20, 40} BY <1>5 DEF Spectrum!Inputs
  <2>2. a = Refuse(c) \/ (a = Changed(d) /\ ~(d.minPlot >= d.maxPlot))
    BY <1>1, <1>5, SpectrumSame DEF Spectrum!SetProperty, Spectrum!SetExtremum
  <2>3. d.minPlot \in Int /\ d.maxPlot \in Int /\ d.binWidth = c.binWidth
    BY <1>3, <1>5, <2>1
  <2>4. Kin(c, d) BY <1>2, KinExcept
  <2> HIDE DEF d
  <2>5. Sane("spectrumPlot", a.conf) BY <2>2, <2>3 DEF Refuse, Changed, Answer
  <2> QED BY <1>2, <2>2, <2>4, <2>5, PlainForms, PlainGoes, ChangedIsPlain
<1>6. CASE key \in {"logarithmic", "plotStyle", "rgba"}
  <2> DEFINE d == [c EXCEPT ![key] = v]
             m == \/ Spectrum!Background(c)
                  \/ key = "logarithmic" /\ c.fitMode # "none"
             b == [Patched(d) EXCEPT !.misfit = m]
             same == key # "plotStyle" /\ c[key] = v
             e == Answer(TRUE, ~same, "cleared", d)
  <2>1. \/ a = Ignore(c) \/ (a = b /\ ~same)
        \/ a = Uncleared(d, TRUE) /\ ~stored
        \/ a = e
    <3>1. a = Spectrum!SetLook(c, stored, key, v)
      BY <1>1, <1>6 DEF Spectrum!SetProperty
    <3>2. a = CASE same /\ (stored \/ key = "logarithmic") -> Ignore(c)
                [] ~same /\ stored -> b
                [] ~same /\ ~stored /\ key = "logarithmic" -> Uncleared(d, TRUE)
                [] OTHER -> e
      BY <3>1, SpectrumSame DEF Spectrum!SetLook
    <3> HIDE DEF b, d, e, same
    <3>3. CASE same /\ (stored \/ key = "logarithmic") BY <3>2, <3>3
    <3>4. CASE ~same /\ stored BY <3>2, <3>4
    <3>5. CASE ~same /\ ~stored /\ key = "logarithmic" BY <3>2, <3>5
    <3>6. CASE ~stored /\ key # "logarithmic" BY <3>2, <3>6
    <3> QED BY <3>3, <3>4, <3>5, <3>6
  <2>2. Kin(c, d) BY <1>2, KinExcept
  <2>3. Sane("spectrumPlot", d) BY <1>3, <1>6
  <2>4. ASSUME Steady("spectrumPlot", c, r) PROVE Steady("spectrumPlot", d, r)
    <3>1. Spectrum!Refreshed(c, r) = c BY <2>4 DEF Steady, Refreshed
    <3>2. SpectrumSettled(c, r) BY <3>1, <1>2, SpectrumSteady DEF Kin
    <3>3. \A f \in {"minPlot", "maxPlot", "binWidth", "autoExtrema"} : d[f] = c[f]
      BY <1>3, <1>6
    <3>4. SpectrumSettled(d, r)
      <4> HIDE DEF d
      <4> QED BY <3>2, <3>3 DEF SpectrumSettled
    <3> HIDE DEF d
    <3>5. Spectrum!Refreshed(d, r) = d
      BY <2>2, <1>2, <3>4, SpectrumSteady DEF Kin
    <3> QED BY <3>5 DEF Steady, InitFilter, Refreshed
  <2>5. b.conf = d /\ b.cache = "patched" /\ b.update BY DEF Patched, Answer
  <2>6. e.conf = d /\ e.cache = "cleared" /\ e.update = ~same BY DEF Answer
  <2>7. same => d = c BY <1>2 DEF Kin
  <2> HIDE DEF b, d, e, same
  <2>8. Goes("spectrumPlot", c, stored, r, b)
    BY <2>2, <2>3, <2>4, <2>5 DEF Goes, Dispositions
  <2>9. Goes("spectrumPlot", c, stored, r, e)
    <3>1. CASE same BY <1>2, <2>2, <2>3, <2>6, <2>7, <3>1 DEF Goes, Dispositions
    <3>2. CASE ~same BY <2>2, <2>3, <2>6, <3>2 DEF Goes, Dispositions
    <3> QED BY <3>1, <3>2
  <2>10. ~stored => Goes("spectrumPlot", c, stored, r, Uncleared(d, TRUE))
    <3>1. Goes("spectrumPlot", c, FALSE, r, Uncleared(d, TRUE))
      BY <2>2, <2>3, UnclearedGoes
    <3> QED BY <3>1 DEF Goes
  <2>11. Goes("spectrumPlot", c, stored, r, Ignore(c))
    BY <1>2, PlainForms, PlainGoes DEF Ignore, Answer
  <2> QED BY <2>1, <2>8, <2>9, <2>10, <2>11
<1>7. CASE key \notin {"binWidth", "minPlot", "maxPlot", "logarithmic", "plotStyle", "rgba"}
  <2>1. a \in {Refuse(c), Assign(c, key, v), ApplyPropertyNow(c, key, v), Dropped(c)}
    BY <1>1, <1>7, SpectrumSame
    DEF Spectrum!SetProperty, Spectrum!SetWindow, Spectrum!SetNormaliseBound
  <2>2. Sane("spectrumPlot", a.conf)
    BY <1>3, <1>7, <2>1
    DEF Refuse, Assign, ApplyPropertyNow, Ignore, Changed, Dropped, Answer
  <2>3. CASE a = Dropped(c)
    <3>1. a.conf = c /\ a.misfit /\ a.cache = "dropped" BY <2>3 DEF Dropped, Answer
    <3> QED BY <1>2, <2>2, <3>1 DEF Goes, Dispositions
  <2> QED BY <1>2, <2>1, <2>2, <2>3, PlainForms, PlainGoes
<1> QED BY <1>4, <1>5, <1>6, <1>7

-----------------------------------------------------------------------------
(* Filters that initFilter tells of the ions of the ranges.                *)

ClusterReady(c, r) ==
    IF r = NoRange THEN c.haveRangeParent = FALSE
    ELSE c.haveRangeParent = TRUE /\ c.ionNames = Cluster!EnabledNames(r)

LEMMA ClusterSteady ==
    ASSUME NEW c, Whole("clusterAnalysis", c), NEW r
    PROVE  Steady("clusterAnalysis", c, r) <=> ClusterReady(c, r)
<1> DEFINE names == Cluster!EnabledNames(r)
           found == [c EXCEPT !.haveRangeParent = TRUE, !.ionNames = names]
           new == [found EXCEPT !.ionCoreEnabled = Cluster!Carried(c, names, @, FALSE),
                                !.ionBulkEnabled = Cluster!Carried(c, names, @, TRUE)]
<1>1. Kin(c, c) /\ DOMAIN c = DOMAIN Cluster!New BY DEF Whole, Kin, New
<1>2. {"haveRangeParent", "ionNames", "ionCoreEnabled", "ionBulkEnabled"} \subseteq DOMAIN c
  BY <1>1 DEF Cluster!New
<1>3. Steady("clusterAnalysis", c, r) <=> Cluster!InitFilter(c, r) = c
  BY DEF Steady, InitFilter, Refreshed
<1>4. Cluster!NoRange = NoRange BY DEF Cluster!NoRange, NoRange
<1>5. CASE r = NoRange
  <2>1. Cluster!InitFilter(c, r) = [c EXCEPT !.haveRangeParent = FALSE]
    BY <1>4, <1>5 DEF Cluster!InitFilter
  <2> QED BY <1>1, <1>2, <1>3, <1>5, <2>1 DEF ClusterReady, Kin
<1>6. CASE r # NoRange
  <2>1. Cluster!InitFilter(c, r) = IF ~Cluster!Different(c, r) THEN found ELSE new
    BY <1>4, <1>6 DEF Cluster!InitFilter
  <2>2. /\ found.haveRangeParent = TRUE /\ found.ionNames = names
        /\ new.haveRangeParent = TRUE /\ new.ionNames = names
    BY <1>2
  <2>3. ASSUME c.haveRangeParent = TRUE, c.ionNames = names PROVE Cluster!InitFilter(c, r) = c
    <3>1. ~Cluster!Different(c, r) BY <2>3 DEF Cluster!Different
    <3>2. found = c BY <1>1, <1>2, <2>3 DEF Kin
    <3> QED BY <2>1, <3>1, <3>2
  <2> HIDE DEF found, new
  <2> QED BY <1>3, <1>6, <2>1, <2>2, <2>3 DEF ClusterReady
<1> QED BY <1>5, <1>6

LEMMA ClusterSame ==
    ASSUME NEW c
    PROVE  /\ Cluster!Refuse(c) = Refuse(c)
           /\ Cluster!Ignore(c) = Ignore(c)
           /\ \A d : Cluster!Changed(d) = Changed(d)
           /\ \A d : Cluster!Patched(d) = Patched(d)
           /\ \A d, u : Cluster!Uncleared(d, u) = Uncleared(d, u)
           /\ \A d, u : Cluster!Misfit(d, u) = Misfit(d, u)
           /\ \A f, w : Cluster!Assign(c, f, w) = Assign(c, f, w)
           /\ \A f, w : Cluster!ApplyPropertyNow(c, f, w) = ApplyPropertyNow(c, f, w)
BY DEF Answer, Refuse, Ignore, Changed, Patched, Uncleared, Misfit, Assign,
       ApplyPropertyNow, Cluster!Answer, Cluster!Refuse, Cluster!Ignore,
       Cluster!Changed, Cluster!Patched, Cluster!Uncleared, Cluster!Misfit,
       Cluster!Assign, Cluster!ApplyPropertyNow

LEMMA ClusterAnswers ==
    ASSUME NEW c, Whole("clusterAnalysis", c), Sane("clusterAnalysis", c), NEW stored,
           NEW r, NEW a \in Cluster!Answers(c, stored)
    PROVE  Goes("clusterAnalysis", c, stored, r, a)
<1>s. \A d : Sane("clusterAnalysis", d) <=>
                {d.wantClusterID, d.wantClusterMorphology} \subseteq BOOLEAN
  BY DEF Sane
<1>1. PICK p \in Cluster!Shown(c) :
        a \in {Cluster!SetProperty(c, p[1], p[2], v) : v \in Cluster!Inputs(p[1])}
  BY Zenon DEF Cluster!Answers
<1>2. PICK v \in Cluster!Inputs(p[1]) : a = Cluster!SetProperty(c, p[1], p[2], v) BY <1>1
<1> DEFINE key == p[1]
           i == p[2]
<1>3. a = Cluster!SetProperty(c, key, i, v) BY <1>2
<1>4. Kin(c, c) /\ DOMAIN c = DOMAIN Cluster!New BY DEF Whole, Kin, New
<1>d. {"haveRangeParent", "ionNames", "wantClusterID", "wantClusterMorphology",
       "normaliseComposition"} \subseteq DOMAIN c
  BY <1>4 DEF Cluster!New
<1>5. key = "normaliseComposition" => ~c.wantClusterID
  BY DEF Cluster!Shown, Cluster!ShownLinking, Cluster!ShownResults, Cluster!ShownIons
<1>e. key \in {"nMin", "nMax", "wantClusterSizeDist", "wantClusterComposition",
               "logClusterSize", "wantClusterID", "normaliseComposition", "core", "bulk",
               "allBulk"}
      \/ a \in {Refuse(c), Assign(c, key, v), ApplyPropertyNow(c, key, v)}
  BY <1>3, ClusterSame DEF Cluster!SetProperty, Cluster!SetDistance
<1>v. key \in {"wantClusterID", "wantClusterMorphology"} => v \in BOOLEAN
  BY <1>2 DEF Cluster!Inputs
<1> HIDE DEF key, i
<1>6. CASE a \in {Refuse(c), Assign(c, key, v), ApplyPropertyNow(c, key, v)}
  <2>1. Sane("clusterAnalysis", a.conf)
    BY <1>s, <1>d, <1>v, <1>6 DEF Refuse, Assign, ApplyPropertyNow, Ignore, Changed, Answer
  <2> QED BY <1>4, <1>6, <2>1, PlainForms, PlainGoes
<1>7. CASE key \in {"nMin", "nMax"}
  <2>1. \E x : a = Refuse(c) \/ a = Changed([c EXCEPT ![key] = x])
    <3> DEFINE x == IF key = "nMax" /\ v = 0 THEN Cluster!MaxSize ELSE v
    <3>1. a = Cluster!SetCrop(c, key, v) BY <1>3, <1>7 DEF Cluster!SetProperty
    <3>2. a = IF [c EXCEPT ![key] = x].nMin > [c EXCEPT ![key] = x].nMax
              THEN Cluster!Refuse(c) ELSE Cluster!Changed([c EXCEPT ![key] = x])
      BY <3>1, Zenon DEF Cluster!SetCrop
    <3> HIDE DEF x
    <3>3. a = Refuse(c) \/ a = Changed([c EXCEPT ![key] = x])
      BY <3>2, ClusterSame
    <3> QED BY <3>3
  <2>2. Sane("clusterAnalysis", a.conf)
    BY <1>s, <1>d, <1>7, <2>1 DEF Refuse, Changed, Answer
  <2> QED BY <1>4, <2>1, <2>2, KinExcept, ChangedIsPlain, PlainForms, PlainGoes
<1>8. CASE key = "wantClusterSizeDist"
  <2> DEFINE d == [c EXCEPT !.wantClusterSizeDist = v]
  <2>1. a = Cluster!SetSizeDist(c, v) BY <1>3, <1>8 DEF Cluster!SetProperty
  <2>2. a \in {Ignore(c), Changed(d), Misfit(d, TRUE)}
    BY <2>1, ClusterSame DEF Cluster!SetSizeDist
  <2>3. Kin(c, d) BY <1>4, KinExcept
  <2>s. Sane("clusterAnalysis", d) BY <1>s, <1>d, <1>v, <1>8
  <2> HIDE DEF d
  <2> QED BY <1>4, <2>2, <2>3, <2>s, ChangedIsPlain, ChangedSane, PlainForms, PlainGoes, MisfitGoes
<1>9. CASE key = "wantClusterComposition"
  <2> DEFINE d == [c EXCEPT !.wantClusterComposition = v]
  <2>1. a = Cluster!SetComposition(c, v) BY <1>3, <1>9 DEF Cluster!SetProperty
  <2>2. a \in {Ignore(c), Changed(d), Patched(d)}
    BY <2>1, ClusterSame DEF Cluster!SetComposition
  <2>3. Kin(c, d) BY <1>4, KinExcept
  <2>s. Sane("clusterAnalysis", d) BY <1>s, <1>d, <1>v, <1>9
  <2>4. ASSUME Steady("clusterAnalysis", c, r) PROVE Steady("clusterAnalysis", d, r)
    <3>1. \A f \in DOMAIN c : f # "wantClusterComposition" => d[f] = c[f] OBVIOUS
    <3> HIDE DEF d
    <3>2. ClusterReady(c, r) BY <2>4, ClusterSteady
    <3>4. d.haveRangeParent = c.haveRangeParent /\ d.ionNames = c.ionNames BY <3>1, <1>d
    <3>5. ClusterReady(d, r) BY <3>2, <3>4 DEF ClusterReady
    <3>3. Whole("clusterAnalysis", d) BY <2>3 DEF Whole, Kin
    <3> QED BY <3>5, <3>3, ClusterSteady
  <2> HIDE DEF d
  <2> QED BY <1>4, <2>2, <2>3, <2>s, <2>4, ChangedIsPlain, ChangedSane, PlainForms, PlainGoes, PatchedGoes
<1>10. CASE key = "logClusterSize"
  <2> DEFINE d == [c EXCEPT !.logClusterSize = v]
  <2>1. a = Cluster!SetLog(c, v) BY <1>3, <1>10 DEF Cluster!SetProperty
  <2>2. a \in {Ignore(c), Patched(d)}
    BY <2>1, ClusterSame DEF Cluster!SetLog
  <2>3. Kin(c, d) BY <1>4, KinExcept
  <2>s. Sane("clusterAnalysis", d) BY <1>s, <1>d, <1>v, <1>10
  <2>4. ASSUME Steady("clusterAnalysis", c, r) PROVE Steady("clusterAnalysis", d, r)
    <3>1. \A f \in DOMAIN c : f # "logClusterSize" => d[f] = c[f] OBVIOUS
    <3> HIDE DEF d
    <3>2. ClusterReady(c, r) BY <2>4, ClusterSteady
    <3>4. d.haveRangeParent = c.haveRangeParent /\ d.ionNames = c.ionNames BY <3>1, <1>d
    <3>5. ClusterReady(d, r) BY <3>2, <3>4 DEF ClusterReady
    <3>3. Whole("clusterAnalysis", d) BY <2>3 DEF Whole, Kin
    <3> QED BY <3>5, <3>3, ClusterSteady
  <2> HIDE DEF d
  <2> QED BY <1>4, <2>2, <2>3, <2>s, <2>4, ChangedSane, PlainForms, PlainGoes, PatchedGoes
<1>11. CASE key = "wantClusterID"
  <2> DEFINE d == [c EXCEPT !.wantClusterID = v, !.wantClusterComposition = FALSE]
  <2>1. a = Cluster!SetClusterID(c, v) BY <1>3, <1>11 DEF Cluster!SetProperty
  <2>2. a \in {Changed(d), Ignore(c), Misfit(d, FALSE)}
    BY <2>1, ClusterSame DEF Cluster!SetClusterID
  <2>3. Kin(c, d) BY <1>4 DEF Kin
  <2>s. Sane("clusterAnalysis", d) BY <1>s, <1>d, <1>v, <1>11
  <2> HIDE DEF d
  <2> QED BY <1>4, <2>2, <2>3, <2>s, ChangedIsPlain, ChangedSane, PlainForms, PlainGoes, MisfitGoes
<1>12. CASE key = "normaliseComposition"
  <2> DEFINE d == [c EXCEPT !.normaliseComposition = v, !.wantClusterID = FALSE]
  <2>1. a = Cluster!SetNormalise(c, v) BY <1>3, <1>12 DEF Cluster!SetProperty
  <2>2. IF v = c.normaliseComposition THEN a = Uncleared(d, FALSE) ELSE a = Changed(d)
    BY <2>1, ClusterSame DEF Cluster!SetNormalise
  <2>3. Kin(c, d) BY <1>4 DEF Kin
  <2>s. Sane("clusterAnalysis", d) BY <1>s, <1>d, <1>12
  <2>4. CASE v = c.normaliseComposition
    <3>1. c.wantClusterID = FALSE BY <1>5, <1>12 DEF key
    <3>2. d = c BY <1>4, <1>d, <2>4, <3>1 DEF Kin
    <3>3. Plain(c, Uncleared(c, FALSE)) BY <1>4 DEF Plain, Uncleared, Answer
    <3>4. a = Uncleared(c, FALSE) /\ a.conf = c BY <2>2, <2>4, <3>2 DEF Uncleared, Answer
    <3> QED BY <3>3, <3>4, PlainGoes
  <2>5. CASE v # c.normaliseComposition
    <3>1. a = Changed(d) BY <2>2, <2>5
    <3> HIDE DEF d
    <3> QED BY <3>1, <2>3, <2>s, ChangedIsPlain, ChangedSane, PlainGoes
  <2> QED BY <2>4, <2>5
<1>13. CASE key \in {"core", "bulk"}
  <2> DEFINE of == IF key = "core" THEN "ionCoreEnabled" ELSE "ionBulkEnabled"
             other == IF key = "core" THEN "ionBulkEnabled" ELSE "ionCoreEnabled"
             d == [c EXCEPT ![of][i] = v, ![other][i] = @ /\ ~v]
  <2>1. a = Cluster!SetIon(c, of, other, i, v) BY <1>3, <1>13 DEF Cluster!SetProperty
  <2>o. {of, other} \cap {"wantClusterID", "wantClusterMorphology"} = {} OBVIOUS
  <2> HIDE DEF of, other
  <2>2. a = Refuse(c) \/ a = Changed(d) BY <2>1, ClusterSame, Zenon DEF Cluster!SetIon
  <2>3. Kin(c, d) BY <1>4 DEF Kin
  <2>s. Sane("clusterAnalysis", d) BY <1>s, <1>d, <2>o
  <2> HIDE DEF d
  <2> QED BY <1>4, <2>2, <2>3, <2>s, ChangedIsPlain, ChangedSane, PlainForms, PlainGoes
<1>14. CASE key = "allBulk"
  <2> DEFINE d == [c EXCEPT !.ionBulkEnabled = [j \in DOMAIN @ |-> v],
                            !.ionCoreEnabled = [j \in DOMAIN @ |-> @[j] /\ ~v]]
  <2>1. a = Cluster!SetAllBulk(c, v) BY <1>3, <1>14 DEF Cluster!SetProperty
  <2>2. a = Misfit(d, FALSE) BY <2>1, ClusterSame, Zenon DEF Cluster!SetAllBulk
  <2>3. Kin(c, d) BY <1>4 DEF Kin
  <2>s. Sane("clusterAnalysis", d) BY <1>s, <1>d, <1>v, <1>14
  <2> HIDE DEF d
  <2> QED BY <2>2, <2>3, <2>s, MisfitGoes
<1> QED BY <1>e, <1>6, <1>7, <1>8, <1>9, <1>10, <1>11, <1>12, <1>13, <1>14

SpatialReady(c, r) ==
    IF r = NoRange THEN c.haveRangeParent = FALSE
    ELSE c.haveRangeParent = TRUE /\ c.ionNames = Spatial!EnabledNames(r)

LEMMA SpatialSteady ==
    ASSUME NEW c, Whole("spatialAnalysis", c), NEW r
    PROVE  Steady("spatialAnalysis", c, r) <=> SpatialReady(c, r)
<1> DEFINE names == Spatial!EnabledNames(r)
           found == [c EXCEPT !.haveRangeParent = TRUE, !.ionNames = names]
           new == [f \in DOMAIN c |-> IF f \in Spatial!Flags
                                      THEN Spatial!Resized(c[f], Len(names)) ELSE found[f]]
<1>1. Kin(c, c) /\ DOMAIN c = DOMAIN Spatial!New BY DEF Whole, Kin, New
<1>2. {"haveRangeParent", "ionNames"} \subseteq DOMAIN c
  BY <1>1 DEF Spatial!New
<1>3. Steady("spatialAnalysis", c, r) <=> Spatial!InitFilter(c, r) = c
  BY DEF Steady, InitFilter, Refreshed
<1>4. Spatial!NoRange = NoRange BY DEF Spatial!NoRange, NoRange
<1>5. CASE r = NoRange
  <2>1. Spatial!InitFilter(c, r) = [c EXCEPT !.haveRangeParent = FALSE]
    BY <1>4, <1>5 DEF Spatial!InitFilter
  <2> QED BY <1>1, <1>2, <1>3, <1>5, <2>1 DEF SpatialReady, Kin
<1>6. CASE r # NoRange
  <2>1. Spatial!InitFilter(c, r) = IF c.haveRangeParent /\ c.ionNames = names THEN found ELSE new
    BY <1>4, <1>6 DEF Spatial!InitFilter
  <2>2. found.haveRangeParent = TRUE /\ found.ionNames = names
    BY <1>2
  <2>4. new.haveRangeParent = TRUE /\ new.ionNames = names
    <3>1. "haveRangeParent" \notin Spatial!Flags /\ "ionNames" \notin Spatial!Flags
      BY DEF Spatial!Flags
    <3> HIDE DEF found
    <3> QED BY <1>2, <2>2, <3>1
  <2>3. ASSUME c.haveRangeParent = TRUE, c.ionNames = names PROVE Spatial!InitFilter(c, r) = c
    <3>1. found = c BY <1>1, <1>2, <2>3 DEF Kin
    <3> HIDE DEF found, new
    <3> QED BY <2>1, <2>3, <3>1
  <2> HIDE DEF found, new
  <2> QED BY <1>3, <1>6, <2>1, <2>2, <2>3, <2>4 DEF SpatialReady
<1> QED BY <1>5, <1>6

LEMMA SpatialSame ==
    ASSUME NEW c
    PROVE  /\ Spatial!Refuse(c) = Refuse(c)
           /\ Spatial!Ignore(c) = Ignore(c)
           /\ \A d : Spatial!Changed(d) = Changed(d)
           /\ \A d : Spatial!Patched(d) = Patched(d)
           /\ \A f, w : Spatial!Assign(c, f, w) = Assign(c, f, w)
           /\ \A f, w : Spatial!ApplyPropertyNow(c, f, w) = ApplyPropertyNow(c, f, w)
           /\ \A f, i, w : Spatial!ApplyIth(c, f, i, w) = ApplyIth(c, f, i, w)
BY DEF Answer, Refuse, Ignore, Changed, Patched, Assign, ApplyPropertyNow, AssignIth,
       ApplyIth, Spatial!Answer, Spatial!Refuse, Spatial!Ignore, Spatial!Changed,
       Spatial!Patched, Spatial!Assign, Spatial!ApplyPropertyNow, Spatial!AssignIth,
       Spatial!ApplyIth

LEMMA SpatialAnswers ==
    ASSUME NEW c, Whole("spatialAnalysis", c), Sane("spatialAnalysis", c), NEW stored,
           NEW r, NEW a \in Spatial!Answers(c, stored)
    PROVE  Goes("spatialAnalysis", c, stored, r, a)
<1>1. PICK p \in Spatial!Shown(c) :
        a \in {Spatial!SetProperty(c, p[1], p[2], v) : v \in Spatial!Inputs(p[1])}
  BY Zenon DEF Spatial!Answers
<1>2. PICK v \in Spatial!Inputs(p[1]) : a = Spatial!SetProperty(c, p[1], p[2], v) BY <1>1
<1> DEFINE key == p[1]
           i == p[2]
<1>3. a = Spatial!SetProperty(c, key, i, v) BY <1>2
<1>4. Kin(c, c) /\ DOMAIN c = DOMAIN Spatial!New BY DEF Whole, Kin, New
<1>5. {"algorithm", "rgba", "haveRangeParent", "ionNames", "vectorParams", "scalarParams",
       "nnMax", "densityCutoff"} \subseteq DOMAIN c
  BY <1>4 DEF Spatial!New
<1>e. key \in {"algorithm", "rgba", "normal", "radius", "origin"} \cup Spatial!Flags
      \/ a \in {Refuse(c), Assign(c, key, v), ApplyPropertyNow(c, "densityCutoff", v),
                ApplyPropertyNow(c, key, v)}
  BY <1>3, SpatialSame DEF Spatial!SetProperty, Spatial!SetNumber, Spatial!SetCutoff
<1>v. key = "algorithm" => v \in Spatial!Algorithms BY <1>2 DEF Spatial!Inputs
<1> HIDE DEF key, i
<1>6. CASE /\ key # "algorithm"
           /\ a \in {Refuse(c), Assign(c, key, v), ApplyPropertyNow(c, "densityCutoff", v),
                     ApplyPropertyNow(c, key, v)}
  <2>1. a.conf.algorithm = c.algorithm
    BY <1>5, <1>6 DEF Refuse, Assign, ApplyPropertyNow, Ignore, Changed, Answer
  <2> QED BY <1>4, <1>6, <2>1, PlainForms, PlainGoes DEF Sane
<1>7. CASE key = "algorithm"
  <2> DEFINE new == [c EXCEPT !.algorithm = v,
                              !.nnMax = IF v = "local conc." /\ @ < 2 THEN 2 ELSE @]
             d == Spatial!WithParams(new)
  <2>1. a = Spatial!SetAlgorithm(c, v) BY <1>3, <1>7 DEF Spatial!SetProperty, Spatial!Flags
  <2>2. a = Changed(d)
    <3>1. a = Spatial!Changed(d) BY <2>1 DEF Spatial!SetAlgorithm
    <3> HIDE DEF d
    <3> QED BY <3>1, SpatialSame
  <2>3. Kin(c, new) /\ new.algorithm = v BY <1>4, <1>5 DEF Kin
  <2> HIDE DEF new
  <2>4. Kin(c, d) /\ d.algorithm = v BY <1>5, <2>3 DEF Kin, Spatial!WithParams
  <2>5. Sane("spatialAnalysis", d) BY <1>v, <1>7, <2>4 DEF Sane
  <2> HIDE DEF d
  <2> QED BY <2>2, <2>4, <2>5, ChangedIsPlain, ChangedSane, PlainGoes
<1>8. CASE key = "rgba"
  <2> DEFINE d == [c EXCEPT !.rgba = v]
  <2>1. a = Spatial!SetColour(c, v) BY <1>3, <1>8 DEF Spatial!SetProperty, Spatial!Flags
  <2>2. a \in {Ignore(c), Patched(d)} BY <2>1, SpatialSame DEF Spatial!SetColour
  <2>3. Kin(c, d) BY <1>4, KinExcept
  <2>4. /\ d.algorithm = c.algorithm /\ d.haveRangeParent = c.haveRangeParent
        /\ d.ionNames = c.ionNames
    BY <1>5
  <2> HIDE DEF d
  <2>5. Sane("spatialAnalysis", d) BY <2>4 DEF Sane
  <2>6. ASSUME Steady("spatialAnalysis", c, r) PROVE Steady("spatialAnalysis", d, r)
    <3>1. SpatialReady(c, r) BY <2>6, SpatialSteady
    <3>2. SpatialReady(d, r) BY <2>4, <3>1 DEF SpatialReady
    <3>3. Whole("spatialAnalysis", d) BY <1>4, <2>3 DEF Whole, Kin, New
    <3> QED BY <3>2, <3>3, SpatialSteady
  <2> QED BY <1>4, <2>2, <2>3, <2>5, <2>6, PlainForms, ChangedSane, PlainGoes, PatchedGoes
<1>9. CASE key \in {"normal", "radius", "origin"} \cup Spatial!Flags
  <2> DEFINE every == \A j \in DOMAIN c[key] : c[key][j]
             all == [j \in DOMAIN c[key] |-> ~every]
  <2>1. \/ a \in {Refuse(c), ApplyIth(c, "vectorParams", 1, v), ApplyIth(c, "vectorParams", 2, v),
                  ApplyIth(c, "scalarParams", 1, v)}
        \/ key \in Spatial!Flags /\ a \in {ApplyIth(c, key, i, v), Spatial!SetAll(c, key)}
    BY <1>3, <1>9, SpatialSame
       DEF Spatial!SetProperty, Spatial!SetNormal, Spatial!SetRadius, Spatial!Flags
  <2>2. Spatial!SetAll(c, key) = Assign(c, key, all) BY SpatialSame, Zenon DEF Spatial!SetAll
  <2>3. "algorithm" \notin Spatial!Flags BY DEF Spatial!Flags
  <2> HIDE DEF all
  <2>4. a.conf.algorithm = c.algorithm
    <3>1. \A f, j, w : f # "algorithm" => ApplyIth(c, f, j, w).conf.algorithm = c.algorithm
      BY <1>5 DEF ApplyIth, Ignore, AssignIth, Refuse, Changed, Answer
    <3>2. \A f, w : f # "algorithm" => Assign(c, f, w).conf.algorithm = c.algorithm
      BY <1>5 DEF Assign, Changed, Answer
    <3>3. Refuse(c).conf = c BY DEF Refuse, Answer
    <3> QED BY <2>1, <2>2, <2>3, <3>1, <3>2, <3>3
  <2>5. Plain(c, a) BY <1>4, <2>1, <2>2, PlainForms
  <2> QED BY <2>4, <2>5, PlainGoes DEF Sane
<1> QED BY <1>e, <1>6, <1>7, <1>8, <1>9

LEMMA SpatialDrags ==
    ASSUME NEW c, Whole("spatialAnalysis", c), Sane("spatialAnalysis", c), NEW stored,
           NEW r, NEW a \in Spatial!Drags(c)
    PROVE  Goes("spatialAnalysis", c, stored, r, a)
<1>1. Kin(c, c) /\ DOMAIN c = DOMAIN Spatial!New BY DEF Whole, Kin, New
<1>2. {"algorithm", "vectorParams", "scalarParams"} \subseteq DOMAIN c
  BY <1>1 DEF Spatial!New
<1>3. \/ a = Changed([c EXCEPT !.scalarParams = <<2>>])
      \/ a = Changed([c EXCEPT !.vectorParams[2] = "d"])
      \/ a = Changed([c EXCEPT !.vectorParams[1] = "d"])
  BY SpatialSame DEF Spatial!Drags
<1>4. /\ Kin(c, [c EXCEPT !.scalarParams = <<2>>]) /\ Kin(c, [c EXCEPT !.vectorParams[2] = "d"])
      /\ Kin(c, [c EXCEPT !.vectorParams[1] = "d"])
  BY <1>1, KinExcept
<1>5. a.conf.algorithm = c.algorithm BY <1>2, <1>3 DEF Changed, Answer
<1> QED BY <1>3, <1>4, <1>5, ChangedIsPlain, PlainGoes DEF Sane

DownReady(c, r) ==
    IF r = NoRange THEN c.incoming = NoRange /\ c.perSpecies = FALSE
    ELSE /\ c.incoming # NoRange /\ c.incoming.file = r.file /\ c.incoming.ions = r.ions
         /\ \A i \in DOMAIN c.incoming.enabled \cap DOMAIN r.enabled :
               c.incoming.enabled[i] = r.enabled[i]
         /\ \/ Len(c.ionFractions) = Len(r.ions)
            \/ Len(c.ionFractions) = Len(r.ions) + 1 /\ Len(c.ionLimits) = Len(r.ions) + 1

LEMMA ResizedIs ==
    ASSUME NEW a \in Seq(Int), NEW n \in Nat, NEW v \in Int
    PROVE  /\ Downsample!Resized(a, n, v) \in Seq(Int)
           /\ Len(Downsample!Resized(a, n, v)) = n + 1
           /\ Len(a) = n + 1 => Downsample!Resized(a, n, v) = a
<1> DEFINE b == Downsample!Resized(a, n, v)
<1>1. b = [i \in 1..(n + 1) |-> IF i \in DOMAIN a THEN a[i] ELSE v]
  BY DEF Downsample!Resized
<1>2. \A i \in DOMAIN a : a[i] \in Int OBVIOUS
<1>3. b \in [1..(n + 1) -> Int] BY <1>1, <1>2
<1>4. b \in Seq(Int) /\ Len(b) = n + 1 BY <1>3
<1>5. ASSUME Len(a) = n + 1 PROVE b = a
  <2>1. DOMAIN a = 1..(n + 1) /\ a = [i \in 1..(n + 1) |-> a[i]] BY <1>5
  <2> HIDE DEF b
  <2>2. b = [i \in 1..(n + 1) |-> a[i]] BY <1>1, <2>1
  <2> QED BY <2>1, <2>2
<1> QED BY <1>4, <1>5

LEMMA DownInit ==
    ASSUME NEW c, Whole("ionDownsample", c), Sane("ionDownsample", c), NEW r \in RangeForms
    PROVE  LET d == Downsample!InitFilter(c, r) IN
           /\ Kin(c, d) /\ Sane("ionDownsample", d) /\ DownReady(d, r)
           /\ DownReady(c, r) <=> d = c
<1> DEFINE n == Len(r.ions)
           same == c.incoming # NoRange /\ c.incoming.file = r.file
           both == Downsample!ResizedBoth(c, n)
           sized == IF Len(c.ionFractions) # n \/ (c.incoming # NoRange /\ ~same)
                    THEN both ELSE c
           flags == [i \in DOMAIN c.incoming.enabled |->
                        IF i \in DOMAIN r.enabled THEN r.enabled[i] ELSE c.incoming.enabled[i]]
           d == Downsample!InitFilter(c, r)
<1>0. SUFFICES /\ Kin(c, d) /\ Sane("ionDownsample", d) /\ DownReady(d, r)
               /\ DownReady(c, r) <=> d = c
  OBVIOUS
<1>1. Kin(c, c) /\ DOMAIN c = DOMAIN Downsample!New BY DEF Whole, Kin, New
<1>2. {"incoming", "perSpecies", "ionFractions", "ionLimits", "fraction", "maxAfterFilter"}
        \subseteq DOMAIN c
  BY <1>1 DEF Downsample!New
<1>3. Downsample!NoRange = NoRange BY DEF Downsample!NoRange, NoRange
<1>4. /\ c.incoming \in RangeForms /\ c.ionFractions \in Seq(Int) /\ c.ionLimits \in Seq(Int)
      /\ c.fraction \in Int /\ c.maxAfterFilter \in Int
  BY DEF Sane
<1>5. CASE r = NoRange
  <2>1. d = [c EXCEPT !.incoming = NoRange, !.perSpecies = FALSE]
    BY <1>3, <1>5 DEF Downsample!InitFilter
  <2> HIDE DEF d
  <2>2. /\ d.incoming = NoRange /\ d.perSpecies = FALSE /\ d.ionFractions = c.ionFractions
        /\ d.ionLimits = c.ionLimits /\ d.fraction = c.fraction
        /\ d.maxAfterFilter = c.maxAfterFilter
    BY <1>2, <2>1
  <2>3. Kin(c, d) BY <1>1, <2>1 DEF Kin
  <2>4. Sane("ionDownsample", d) BY <1>4, <2>2 DEF Sane, RangeForms
  <2>5. DownReady(c, r) <=> d = c
    <3>1. ASSUME DownReady(c, r) PROVE d = c
      BY <1>1, <1>2, <1>5, <2>1, <3>1 DEF DownReady, Kin
    <3> QED BY <1>5, <2>2, <3>1 DEF DownReady
  <2> QED BY <1>5, <2>2, <2>3, <2>4, <2>5 DEF DownReady
<1>6. CASE r # NoRange
  <2>1. /\ r \in [file : Nat \ {0}, ions : Seq(STRING), enabled : Seq(BOOLEAN)] /\ n \in Nat
        /\ r = [file |-> r.file, ions |-> r.ions, enabled |-> r.enabled]
        /\ NoRange.file # r.file
    BY <1>6 DEF RangeForms, NoRange
  <2>2. /\ Kin(c, both) /\ both.ionFractions \in Seq(Int) /\ both.ionLimits \in Seq(Int)
        /\ Len(both.ionFractions) = n + 1 /\ Len(both.ionLimits) = n + 1
        /\ \A f \in {"incoming", "perSpecies", "fraction", "maxAfterFilter"} : both[f] = c[f]
        /\ (Len(c.ionFractions) = n + 1 /\ Len(c.ionLimits) = n + 1) => both = c
    <3>1. both = [c EXCEPT !.ionFractions = Downsample!Resized(c.ionFractions, n, c.fraction),
                           !.ionLimits = Downsample!Resized(c.ionLimits, n, c.maxAfterFilter)]
      BY DEF Downsample!ResizedBoth
    <3>2. /\ Downsample!Resized(c.ionFractions, n, c.fraction) \in Seq(Int)
          /\ Len(Downsample!Resized(c.ionFractions, n, c.fraction)) = n + 1
          /\ Len(c.ionFractions) = n + 1 =>
                Downsample!Resized(c.ionFractions, n, c.fraction) = c.ionFractions
          /\ Downsample!Resized(c.ionLimits, n, c.maxAfterFilter) \in Seq(Int)
          /\ Len(Downsample!Resized(c.ionLimits, n, c.maxAfterFilter)) = n + 1
          /\ Len(c.ionLimits) = n + 1 =>
                Downsample!Resized(c.ionLimits, n, c.maxAfterFilter) = c.ionLimits
      BY <1>4, <2>1, ResizedIs
    <3> HIDE DEF both, n
    <3>3. Kin(c, both) BY <1>1, <3>1 DEF Kin
    <3>4. (Len(c.ionFractions) = n + 1 /\ Len(c.ionLimits) = n + 1) => both = c
      BY <1>1, <1>2, <3>1, <3>2 DEF Kin
    <3> QED BY <1>2, <3>1, <3>2, <3>3, <3>4
  <2> HIDE DEF both
  <2>3. /\ Kin(c, sized) /\ sized.ionFractions \in Seq(Int) /\ sized.ionLimits \in Seq(Int)
        /\ \/ Len(sized.ionFractions) = n
           \/ Len(sized.ionFractions) = n + 1 /\ Len(sized.ionLimits) = n + 1
        /\ \A f \in {"incoming", "perSpecies", "fraction", "maxAfterFilter"} : sized[f] = c[f]
        /\ DownReady(c, r) => sized = c
    BY <1>1, <1>4, <1>6, <2>1, <2>2 DEF DownReady
  <2> HIDE DEF sized
  <2>4. CASE ~same
    <3>1. d = [sized EXCEPT !.incoming = r]
      BY <1>3, <1>6, <2>4 DEF Downsample!InitFilter, sized, both
    <3> HIDE DEF d
    <3>2. /\ d.incoming = r /\ Kin(c, d)
          /\ \A f \in {"perSpecies", "fraction", "maxAfterFilter", "ionFractions", "ionLimits"} :
                d[f] = sized[f]
      BY <1>2, <2>3, <3>1 DEF Kin
    <3>3. ~DownReady(c, r) BY <1>6, <2>4 DEF DownReady
    <3>4. d # c BY <1>6, <2>4, <3>2
    <3>5. Sane("ionDownsample", d) BY <1>4, <2>3, <3>2 DEF Sane
    <3>6. DownReady(d, r) BY <1>6, <2>3, <3>2 DEF DownReady
    <3> QED BY <3>2, <3>3, <3>4, <3>5, <3>6
  <2>5. CASE same
    <3> DEFINE new == [c.incoming EXCEPT !.ions = r.ions, !.enabled = flags]
    <3>1. c.incoming \in [file : Nat \ {0}, ions : Seq(STRING), enabled : Seq(BOOLEAN)]
      BY <1>4, <2>5 DEF RangeForms
    <3>2. flags \in Seq(BOOLEAN) /\ DOMAIN flags = DOMAIN c.incoming.enabled
      <4>1. /\ DOMAIN c.incoming.enabled = 1..Len(c.incoming.enabled)
            /\ Len(c.incoming.enabled) \in Nat
            /\ \A i \in DOMAIN c.incoming.enabled : c.incoming.enabled[i] \in BOOLEAN
            /\ \A i \in DOMAIN r.enabled : r.enabled[i] \in BOOLEAN
        BY <2>1, <3>1
      <4>2. flags \in [1..Len(c.incoming.enabled) -> BOOLEAN]
        BY <4>1, Zenon
      <4> QED BY <4>1, <4>2
    <3>3. d = [sized EXCEPT !.incoming = new]
      <4>1. sized.incoming = c.incoming BY <2>3
      <4>2. d = [sized EXCEPT !.incoming.ions = r.ions,
                   !.incoming.enabled = [i \in DOMAIN @ |->
                        IF i \in DOMAIN r.enabled THEN r.enabled[i] ELSE @[i]]]
        BY <1>3, <1>6, <2>5, Zenon DEF Downsample!InitFilter, sized, both
      <4> HIDE DEF d
      <4> QED BY <1>2, <2>3, <3>1, <4>1, <4>2 DEF Kin
    <3>4. /\ new.file = c.incoming.file /\ new.ions = r.ions /\ new.enabled = flags
          /\ new \in [file : Nat \ {0}, ions : Seq(STRING), enabled : Seq(BOOLEAN)]
      BY <2>1, <3>1, <3>2
    <3>5. new # NoRange BY <3>4 DEF NoRange
    <3>6. \A i \in DOMAIN flags \cap DOMAIN r.enabled : flags[i] = r.enabled[i] OBVIOUS
    <3>7. ASSUME DownReady(c, r) PROVE new = c.incoming
      <4>1. flags = c.incoming.enabled
        BY <1>6, <3>1, <3>2, <3>7 DEF DownReady
      <4> HIDE DEF flags
      <4> QED BY <1>6, <3>1, <3>7, <4>1 DEF DownReady
    <3> HIDE DEF d, new, flags
    <3>8. /\ d.incoming = new /\ Kin(c, d)
          /\ \A f \in {"perSpecies", "fraction", "maxAfterFilter", "ionFractions", "ionLimits"} :
                d[f] = sized[f]
      BY <1>2, <2>3, <3>3 DEF Kin
    <3>9. Sane("ionDownsample", d) BY <1>4, <2>3, <3>4, <3>8 DEF Sane, RangeForms
    <3>10. DownReady(d, r) BY <1>6, <2>3, <2>5, <3>4, <3>5, <3>6, <3>8 DEF DownReady
    <3>11. ASSUME DownReady(c, r) PROVE d = c
      BY <1>1, <1>2, <2>3, <3>3, <3>7, <3>11 DEF Kin
    <3> QED BY <3>8, <3>9, <3>10, <3>11
  <2> QED BY <2>4, <2>5
<1> QED BY <1>5, <1>6

LEMMA DownSteady ==
    ASSUME NEW c, Whole("ionDownsample", c), Sane("ionDownsample", c), NEW r \in RangeForms
    PROVE  Steady("ionDownsample", c, r) <=> DownReady(c, r)
BY DownInit DEF Steady, InitFilter, Refreshed

LEMMA DownsampleSame ==
    ASSUME NEW c
    PROVE  /\ Downsample!Refuse(c) = Refuse(c)
           /\ Downsample!Ignore(c) = Ignore(c)
           /\ \A d : Downsample!Changed(d) = Changed(d)
           /\ \A d, u : Downsample!Uncleared(d, u) = Uncleared(d, u)
           /\ \A f, w : Downsample!Assign(c, f, w) = Assign(c, f, w)
           /\ \A f, w : Downsample!ApplyPropertyNow(c, f, w) = ApplyPropertyNow(c, f, w)
           /\ \A f, i, w : Downsample!AssignIth(c, f, i, w) = AssignIth(c, f, i, w)
BY DEF Answer, Refuse, Ignore, Changed, Uncleared, Assign, ApplyPropertyNow, AssignIth,
       Downsample!Answer, Downsample!Refuse, Downsample!Ignore, Downsample!Changed,
       Downsample!Uncleared, Downsample!Assign, Downsample!ApplyPropertyNow,
       Downsample!AssignIth

LEMMA DownAnswers ==
    ASSUME NEW c, Whole("ionDownsample", c), Sane("ionDownsample", c), NEW stored,
           NEW r, NEW a \in Downsample!Answers(c, stored)
    PROVE  Goes("ionDownsample", c, stored, r, a)
<1>1. PICK p \in Downsample!Shown(c) :
        a \in {Downsample!SetProperty(c, p[1], p[2], v) : v \in Downsample!Inputs(c, p[1])}
  BY Zenon DEF Downsample!Answers
<1>2. PICK v \in Downsample!Inputs(c, p[1]) : a = Downsample!SetProperty(c, p[1], p[2], v)
  BY <1>1
<1> DEFINE key == p[1]
           i == p[2]
<1>3. a = Downsample!SetProperty(c, key, i, v) /\ v \in Downsample!Inputs(c, key) BY <1>2
<1>4. /\ key \in {"fixedNumOut", "perSpecies", "ion", "maxAfterFilter", "fraction"}
      /\ key = "fraction" => ~c.fixedNumOut
  BY DEF Downsample!Shown
<1> HIDE DEF key, i
<1>5. Kin(c, c) /\ DOMAIN c = DOMAIN Downsample!New BY DEF Whole, Kin, New
<1>6. {"incoming", "perSpecies", "ionFractions", "ionLimits", "fraction", "maxAfterFilter",
       "fixedNumOut"} \subseteq DOMAIN c
  BY <1>5 DEF Downsample!New
<1>7. key \in {"ion", "maxAfterFilter", "fraction"} => v \in Int
  BY <1>3 DEF Downsample!Inputs
<1>8. CASE key # "ion"
  <2>1. a \in {Refuse(c), Assign(c, key, v), ApplyPropertyNow(c, key, v)}
    BY <1>3, <1>4, <1>8, DownsampleSame DEF Downsample!SetProperty, Downsample!SetFraction
  <2>2. \A f \in {"incoming", "ionFractions", "ionLimits"} : a.conf[f] = c[f]
    BY <1>4, <1>6, <1>8, <2>1
       DEF Refuse, Assign, ApplyPropertyNow, Ignore, Changed, Answer
  <2>3. {a.conf.fraction, a.conf.maxAfterFilter} \subseteq Int
    BY <1>4, <1>6, <1>7, <1>8, <2>1
       DEF Refuse, Assign, ApplyPropertyNow, Ignore, Changed, Answer, Sane
  <2>4. Sane("ionDownsample", a.conf) BY <2>2, <2>3 DEF Sane
  <2> QED BY <1>5, <2>1, <2>4, PlainForms, PlainGoes
<1>9. CASE key = "ion"
  <2>1. \/ a \in {Refuse(c), AssignIth(c, "ionLimits", i, v)}
        \/ a = AssignIth(c, "ionFractions", i, v)
    BY <1>3, <1>9, DownsampleSame DEF Downsample!SetProperty, Downsample!SetIonRate
  <2>2. ASSUME NEW f \in {"ionLimits", "ionFractions"}
        PROVE  Sane("ionDownsample", AssignIth(c, f, i, v).conf)
    <3> DEFINE b == [c[f] EXCEPT ![i] = v]
               d == [c EXCEPT ![f][i] = v]
    <3>1. CASE i \in DOMAIN c[f]
      <4>1. AssignIth(c, f, i, v).conf = d BY <3>1 DEF AssignIth, Changed, Answer
      <4>2. b \in Seq(Int) BY <1>7, <1>9, <3>1 DEF Sane
      <4>3. d = [c EXCEPT ![f] = b] OBVIOUS
      <4> HIDE DEF b, d
      <4>4. d[f] = b /\ \A g \in {"incoming", "ionFractions", "ionLimits", "fraction",
                                  "maxAfterFilter"} \ {f} : d[g] = c[g]
        BY <1>6, <4>3
      <4>5. /\ c.incoming \in RangeForms /\ c.ionFractions \in Seq(Int) /\ c.ionLimits \in Seq(Int)
            /\ c.fraction \in Int /\ c.maxAfterFilter \in Int
        BY DEF Sane
      <4>6. /\ d.incoming \in RangeForms /\ d.ionFractions \in Seq(Int) /\ d.ionLimits \in Seq(Int)
            /\ d.fraction \in Int /\ d.maxAfterFilter \in Int
        BY <4>2, <4>4, <4>5
      <4>7. Sane("ionDownsample", d) BY <4>6 DEF Sane
      <4> QED BY <4>1, <4>7
    <3>2. CASE i \notin DOMAIN c[f]
      <4>1. AssignIth(c, f, i, v).conf = c BY <3>2 DEF AssignIth, Refuse, Answer
      <4> QED BY <4>1
    <3> QED BY <3>1, <3>2
  <2>3. Refuse(c).conf = c BY DEF Refuse, Answer
  <2> QED BY <1>5, <2>1, <2>2, <2>3, PlainForms, PlainGoes
<1> QED BY <1>8, <1>9

-----------------------------------------------------------------------------
(* Voxels, which keep counts and a grid besides the cache.                 *)

\* What counts and grid were made of, and they themselves.
VoxMade == {"fixedWidth", "nBins", "binWidth", "bc", "normaliseType", "enabledIons",
            "incoming", "filterMode", "gaussDev", "filterRatio", "voxelCache", "vdbCache"}

LEMMA VoxelSoundAs ==
    ASSUME NEW c, NEW d, NEW r, \A f \in VoxMade : d[f] = c[f], VoxSound(c, r)
    PROVE  VoxSound(d, r)
<1>1. /\ d.fixedWidth = c.fixedWidth /\ d.nBins = c.nBins /\ d.binWidth = c.binWidth
      /\ d.bc = c.bc /\ d.normaliseType = c.normaliseType /\ d.enabledIons = c.enabledIons
      /\ d.incoming = c.incoming /\ d.filterMode = c.filterMode /\ d.gaussDev = c.gaussDev
      /\ d.filterRatio = c.filterRatio /\ d.voxelCache = c.voxelCache
      /\ d.vdbCache = c.vdbCache
  BY DEF VoxMade
<1>2. Voxel!Counts(d, r) = Voxel!Counts(c, r)
  BY <1>1, Zenon DEF Voxel!Counts, Voxel!Parts
<1> QED BY <1>1, <1>2 DEF VoxSound

LEMMA VoxelFields ==
    ASSUME NEW c, Whole("voxelise", c)
    PROVE  /\ Kin(c, c)
           /\ DOMAIN c = VoxMade \cup
                {"voxelsize", "numeratorAll", "denominatorAll", "representation", "splatSize",
                 "rgba", "alpha", "isoLevel", "colourMap", "autoColourMap", "colourMapBounds",
                 "showColourBar", "sliceInterpolate", "sliceAxis", "sliceOffset"}
BY DEF Whole, Kin, New, Voxel!New, VoxMade

\* A filter is steady if what it shows was made.
LEMMA VoxelSteady ==
    ASSUME NEW c, Whole("voxelise", c), NEW r, VoxSound(c, r)
    PROVE  /\ InitFilter("voxelise", c, r) = c
           /\ Steady("voxelise", c, r) <=>
                IF c.representation = "surface" THEN c.vdbCache # <<>> \/ c.incoming = NoRange
                ELSE c.voxelCache # <<>>
<1> USE VoxelFields
<1>1. {"fixedWidth", "nBins", "binWidth", "bc", "normaliseType", "enabledIons",
       "incoming", "voxelCache", "vdbCache", "representation"} \subseteq DOMAIN c
  BY DEF VoxMade
<1>2. Voxel!NoRange = NoRange BY DEF Voxel!NoRange, NoRange
<1>3. Voxel!InitFilter(c, r) = c
  <2>1. CASE r = NoRange
    <3>1. Voxel!InitFilter(c, r) =
            [c EXCEPT !.incoming = r, !.enabledIons = <<<<>>, <<>>>>,
                      !.normaliseType = IF @ \in Voxel!NeedRanges THEN "none" ELSE @]
      BY <1>2, <2>1 DEF Voxel!InitFilter
    <3>2. c.incoming = r /\ c.enabledIons = <<<<>>, <<>>>> /\ c.normaliseType \notin Voxel!NeedRanges
      BY <2>1 DEF VoxSound
    <3> QED BY <1>1, <3>1, <3>2 DEF Kin
  <2>2. CASE r # NoRange
    BY <1>2, <2>2 DEF VoxSound, Voxel!InitFilter
  <2> QED BY <2>1, <2>2
<1>4. InitFilter("voxelise", c, r) = c BY <1>3 DEF InitFilter
<1>5. Voxel!Refreshed(c, r) = c <=>
        IF c.representation = "surface" THEN c.vdbCache # <<>> \/ c.incoming = NoRange
        ELSE c.voxelCache # <<>>
  <2>1. CASE c.representation = "surface"
    <3> DEFINE new == [c EXCEPT !.vdbCache = Voxel!Grid(c, r)]
    <3>1. new.vdbCache # <<>>
      <4>1. Voxel!Grid(c, r) # <<>> BY DEF Voxel!Grid
      <4> QED BY <1>1, <4>1
    <3>2. Voxel!Refreshed(c, r) = IF c.vdbCache # <<>> \/ c.incoming = NoRange THEN c ELSE new
      BY <1>2, <2>1 DEF Voxel!Refreshed
    <3> HIDE DEF new
    <3> QED BY <2>1, <3>1, <3>2
  <2>2. CASE c.representation # "surface"
    <3> DEFINE f == Voxel!Fitted(c)
               new == [f EXCEPT !.voxelCache = Voxel!Counts(f, r)]
    <3>1. "voxelCache" \in DOMAIN f BY <1>1 DEF Voxel!Fitted
    <3>2. Voxel!Refreshed(c, r) = IF c.voxelCache # <<>> THEN c ELSE new
      BY <2>2, Zenon DEF Voxel!Refreshed
    <3>3. Voxel!Counts(f, r) # <<>> BY DEF Voxel!Counts
    <3> HIDE DEF f
    <3>4. new.voxelCache # <<>> BY <3>1, <3>3
    <3> HIDE DEF new
    <3> QED BY <2>2, <3>2, <3>4
  <2> QED BY <2>1, <2>2
<1>6. Refreshed("voxelise", c, r) = Voxel!Refreshed(c, r) BY DEF Refreshed
<1> QED BY <1>4, <1>5, <1>6 DEF Steady

\* As the look is none of what counts and grid are made of, it may change.
LEMMA VoxelLook ==
    ASSUME NEW c, Whole("voxelise", c), NEW r, VoxSound(c, r), NEW f \in DOMAIN c \ VoxMade,
           NEW v
    PROVE  /\ VoxSound([c EXCEPT ![f] = v], r)
           /\ f # "representation" /\ Steady("voxelise", c, r) =>
                 Steady("voxelise", [c EXCEPT ![f] = v], r)
<1> DEFINE d == [c EXCEPT ![f] = v]
<1>1. \A g \in VoxMade : d[g] = c[g] BY VoxelFields
<1>2. VoxSound(d, r)
  <2> HIDE DEF d
  <2> QED BY <1>1, VoxelSoundAs
<1>3. Whole("voxelise", d) BY DEF Whole, Kin
<1>4. f # "representation" => d.representation = c.representation BY VoxelFields
<1>5. d.vdbCache = c.vdbCache /\ d.incoming = c.incoming /\ d.voxelCache = c.voxelCache
  BY <1>1 DEF VoxMade
<1> SUFFICES VoxSound(d, r) /\ (f # "representation" /\ Steady("voxelise", c, r) =>
                                   Steady("voxelise", d, r))
  OBVIOUS
<1> HIDE DEF d
<1> QED BY <1>2, <1>3, <1>4, <1>5, VoxelSteady

\* Without counts, nothing is said about the bins; that needs neither counts nor grid.
LEMMA VoxelUncounted ==
    ASSUME NEW c, NEW d, NEW r, VoxSound(c, r), d.voxelCache = <<>>,
           d.vdbCache \in {<<>>, c.vdbCache}, d.incoming = c.incoming,
           \/ d.normaliseType = c.normaliseType \/ d.normaliseType \notin Voxel!NeedRanges
           \/ c.incoming # NoRange,
           d.enabledIons = c.enabledIons \/ c.incoming # NoRange
    PROVE  VoxSound(d, r)
BY DEF VoxSound

LEMMA VoxelSame ==
    ASSUME NEW c
    PROVE  /\ Voxel!Refuse(c) = Refuse(c)
           /\ Voxel!Ignore(c) = Ignore(c)
           /\ \A d : Voxel!Changed(d) = Changed(d)
           /\ \A d : Voxel!Patched(d) = Patched(d)
           /\ \A d, u : Voxel!Uncleared(d, u) = Uncleared(d, u)
           /\ \A d, u : Voxel!Misfit(d, u) = Misfit(d, u)
           /\ \A f, w : Voxel!Assign(c, f, w) = Assign(c, f, w)
           /\ \A f, w : Voxel!ApplyPropertyNow(c, f, w) = ApplyPropertyNow(c, f, w)
           /\ \A f, w : Voxel!AssignOther(c, f, w) = AssignOther(c, f, w)
BY DEF Answer, Refuse, Ignore, Changed, Patched, Uncleared, Misfit, Assign,
       ApplyPropertyNow, AssignOther, Voxel!Answer, Voxel!Refuse, Voxel!Ignore,
       Voxel!Changed, Voxel!Patched, Voxel!Uncleared, Voxel!Misfit, Voxel!Assign,
       Voxel!ApplyPropertyNow, Voxel!AssignOther

\* What an answer of the voxels has to keep.
VoxGoes(c, stored, r, a) ==
    /\ Goes("voxelise", c, stored, r, a) /\ VoxSound(a.conf, r)
    /\ stored /\ a.conf.representation = "slice" => c.representation = "slice" \/ a.misfit

LEMMA VoxelRefusals ==
    ASSUME NEW c, Whole("voxelise", c), Sane("voxelise", c), NEW stored, NEW r, VoxSound(c, r)
    PROVE  VoxGoes(c, stored, r, Refuse(c)) /\ VoxGoes(c, stored, r, Ignore(c))
<1>1. Kin(c, c) BY VoxelFields
<1>2. Refuse(c).conf = c /\ Ignore(c).conf = c BY DEF Refuse, Ignore, Answer
<1> QED BY <1>1, <1>2, PlainForms, PlainGoes, ChangedSane DEF VoxGoes

\* The cache is cleared: the counts may go with it, and the grid.
LEMMA VoxelCleared ==
    ASSUME NEW c, Whole("voxelise", c), NEW stored, NEW r, NEW d, Kin(c, d),
           Sane("voxelise", d), VoxSound(d, r),
           d.representation = c.representation \/ d.representation # "slice"
           \/ ~stored
    PROVE  VoxGoes(c, stored, r, Changed(d))
<1>1. Changed(d).conf = d BY DEF Changed, Answer
<1> QED BY <1>1, VoxelFields, ChangedIsPlain, PlainGoes DEF VoxGoes

LEMMA VoxelWithCounts ==
    ASSUME NEW c, Whole("voxelise", c), Sane("voxelise", c), NEW stored, NEW r,
           VoxSound(c, r),
           NEW f \in {"fixedWidth", "filterMode", "gaussDev", "filterRatio"}, NEW v
    PROVE  VoxGoes(c, stored, r, Voxel!WithCounts(Voxel!ApplyPropertyNow(c, f, v)))
<1> DEFINE new == [c EXCEPT ![f] = v]
           d == [new EXCEPT !.voxelCache = <<>>]
<1>1. Voxel!ApplyPropertyNow(c, f, v) \in {Ignore(c), Changed(new)}
  BY VoxelSame DEF ApplyPropertyNow, Assign
<1>2. Voxel!WithCounts(Ignore(c)) = Ignore(c)
  BY DEF Voxel!WithCounts, Ignore, Answer
<1>3. \A n : Voxel!WithCounts(Changed(n)) = Changed([n EXCEPT !.voxelCache = <<>>])
  BY DEF Voxel!WithCounts, Voxel!ClearCache, Changed, Answer
<1>4. Voxel!WithCounts(Changed(new)) = Changed(d) BY <1>3
<1>5. /\ Kin(c, d) /\ d.voxelCache = <<>> /\ d.vdbCache = c.vdbCache
      /\ d.incoming = c.incoming /\ d.normaliseType = c.normaliseType
      /\ d.enabledIons = c.enabledIons /\ d.representation = c.representation
  BY VoxelFields DEF VoxMade, Kin
<1> HIDE DEF d, new
<1>6. VoxSound(d, r) BY <1>5, VoxelUncounted
<1>7. Sane("voxelise", d) BY <1>5 DEF Sane
<1>8. VoxGoes(c, stored, r, Changed(d)) BY <1>5, <1>6, <1>7, VoxelCleared
<1> QED BY <1>1, <1>2, <1>4, <1>8, VoxelRefusals

LEMMA VoxelWithGrid ==
    ASSUME NEW c, Whole("voxelise", c), Sane("voxelise", c), NEW stored, NEW r,
           VoxSound(c, r), NEW d, Kin(c, d), Sane("voxelise", d), d.incoming = c.incoming,
           \/ d.normaliseType = c.normaliseType \/ d.normaliseType \notin Voxel!NeedRanges
           \/ c.incoming # NoRange,
           d.enabledIons = c.enabledIons \/ c.incoming # NoRange,
           d.representation = c.representation \/ d.representation # "slice" \/ ~stored
    PROVE  VoxGoes(c, stored, r, Voxel!WithGrid(Changed(d)))
<1> DEFINE e == [[d EXCEPT !.voxelCache = <<>>] EXCEPT !.vdbCache = <<>>]
<1>1. Voxel!WithGrid(Changed(d)) = Changed(e)
  BY DEF Voxel!WithGrid, Voxel!WithCounts, Voxel!ClearCache, Changed, Answer
<1>2. /\ Kin(c, e) /\ e.voxelCache = <<>> /\ e.vdbCache = <<>>
      /\ e.incoming = d.incoming /\ e.normaliseType = d.normaliseType
      /\ e.enabledIons = d.enabledIons /\ e.representation = d.representation
  BY VoxelFields DEF VoxMade, Kin
<1> HIDE DEF e
<1>3. VoxSound(e, r) BY <1>2, VoxelUncounted
<1>4. Sane("voxelise", e) BY <1>2 DEF Sane
<1> QED BY <1>1, <1>2, <1>3, <1>4, VoxelCleared

LEMMA VoxelPatched ==
    ASSUME NEW c, Whole("voxelise", c), Sane("voxelise", c), NEW stored, NEW r,
           VoxSound(c, r), NEW f \in DOMAIN c \ VoxMade, f # "representation", NEW v
    PROVE  /\ VoxGoes(c, stored, r, Patched([c EXCEPT ![f] = v]))
           /\ VoxGoes(c, stored, r, Changed([c EXCEPT ![f] = v]))
           /\ VoxGoes(c, TRUE, r, Misfit([c EXCEPT ![f] = v], TRUE))
           /\ VoxGoes(c, FALSE, r, Uncleared([c EXCEPT ![f] = v], TRUE))
<1> DEFINE d == [c EXCEPT ![f] = v]
<1>1. VoxSound(d, r) /\ (Steady("voxelise", c, r) => Steady("voxelise", d, r))
  BY VoxelLook
<1>2. Kin(c, d) BY VoxelFields, KinExcept
<1>3. d.representation = c.representation BY VoxelFields
<1> SUFFICES /\ VoxGoes(c, stored, r, Patched(d)) /\ VoxGoes(c, stored, r, Changed(d))
             /\ VoxGoes(c, TRUE, r, Misfit(d, TRUE)) /\ VoxGoes(c, FALSE, r, Uncleared(d, TRUE))
  OBVIOUS
<1> HIDE DEF d
<1>4. Sane("voxelise", d) BY <1>3 DEF Sane
<1>5. /\ Patched(d).conf = d /\ Misfit(d, TRUE).conf = d
      /\ Uncleared(d, TRUE).conf = d
  BY DEF Patched, Misfit, Uncleared, Answer
<1>6. /\ Goes("voxelise", c, stored, r, Patched(d))
      /\ Goes("voxelise", c, TRUE, r, Misfit(d, TRUE))
      /\ Goes("voxelise", c, FALSE, r, Uncleared(d, TRUE))
  BY <1>1, <1>2, <1>4, PatchedGoes, MisfitGoes, UnclearedGoes
<1> QED BY <1>1, <1>2, <1>3, <1>4, <1>5, <1>6, VoxelCleared DEF VoxGoes

LEMMA VoxelBins ==
    ASSUME NEW c, Whole("voxelise", c), Sane("voxelise", c), NEW stored, NEW r,
           VoxSound(c, r), NEW v,
           NEW key, key = IF c.fixedWidth THEN "binWidth" ELSE "nBins"
    PROVE  VoxGoes(c, stored, r, Voxel!SetBins(c, key, v))
<1> DEFINE other == IF key = "nBins" THEN "binWidth" ELSE "nBins"
           makes == IF key = "nBins" THEN Voxel!WidthOf(c.bc, v) ELSE Voxel!BinsOf(c.bc, v)
           same == [c EXCEPT ![other] = makes]
           new == [[c EXCEPT ![key] = v] EXCEPT !.voxelCache = <<>>]
           d == [new EXCEPT ![other] = makes]
<1>1. {"nBins", "binWidth", "bc", "fixedWidth", "voxelCache", "vdbCache", "incoming",
       "normaliseType", "enabledIons", "representation", "filterMode", "gaussDev",
       "filterRatio"} \subseteq DOMAIN c
  BY VoxelFields DEF VoxMade
<1>2. CASE c[key] = v
  <2>1. Voxel!ApplyPropertyNow(c, key, v) = Ignore(c)
    BY <1>2, VoxelSame DEF ApplyPropertyNow
  <2>2. Voxel!WithCounts(Ignore(c)) = Ignore(c) BY DEF Voxel!WithCounts, Ignore, Answer
  <2>3. Voxel!SetBins(c, key, v) = [Ignore(c) EXCEPT !.conf = same]
    <3> DEFINE a == Voxel!WithCounts(Voxel!ApplyPropertyNow(c, key, v))
    <3>1. Voxel!SetBins(c, key, v) =
            IF key = "nBins" THEN [a EXCEPT !.conf.binWidth = Voxel!WidthOf(c.bc, v)]
            ELSE [a EXCEPT !.conf.nBins = Voxel!BinsOf(c.bc, v)]
      BY Zenon DEF Voxel!SetBins
    <3>2. a = Ignore(c) BY <2>1, <2>2
    <3> HIDE DEF a
    <3>3. Ignore(c).conf = c /\ "conf" \in DOMAIN Ignore(c) BY DEF Ignore, Answer
    <3> QED BY <3>1, <3>2, <3>3
  <2>4. /\ \A f \in DOMAIN c \ {other} : same[f] = c[f]
        /\ DOMAIN same = DOMAIN c
    OBVIOUS
  <2>5. Kin(c, same) BY VoxelFields, KinExcept
  <2>6. c.voxelCache # <<>> => same = c
    <3>1. ASSUME c.voxelCache # <<>> PROVE c[other] = makes
      BY <1>2, <3>1 DEF VoxSound
    <3> HIDE DEF makes, other
    <3> QED BY <3>1, VoxelFields DEF Kin
  <2>7. VoxSound(same, r)
    <3>1. CASE c.voxelCache # <<>> BY <2>6, <3>1
    <3>2. CASE c.voxelCache = <<>>
      <4>1. other \in {"nBins", "binWidth"} OBVIOUS
      <4> HIDE DEF same, other
      <4>2. /\ same.voxelCache = <<>> /\ same.vdbCache = c.vdbCache
            /\ same.incoming = c.incoming /\ same.normaliseType = c.normaliseType
            /\ same.enabledIons = c.enabledIons
        BY <1>1, <2>4, <3>2, <4>1
      <4> QED BY <4>2, VoxelUncounted
    <3> QED BY <3>1, <3>2
  <2>8. \A f \in {"representation", "vdbCache", "incoming", "voxelCache", "voxelsize", "rgba",
                  "alpha", "splatSize", "isoLevel", "sliceAxis", "sliceOffset",
                  "sliceInterpolate", "colourMap", "autoColourMap", "colourMapBounds",
                  "showColourBar"} :
           same[f] = c[f]
    <3>1. other \in {"nBins", "binWidth"} OBVIOUS
    <3> HIDE DEF same, other
    <3> QED BY <2>4, <3>1, VoxelFields DEF VoxMade
  <2> HIDE DEF same
  <2>9. Sane("voxelise", same) BY <2>8 DEF Sane
  <2>10. Steady("voxelise", c, r) => Steady("voxelise", same, r)
    <3>1. Whole("voxelise", same) BY <2>5 DEF Whole, Kin
    <3> QED BY <2>7, <2>8, <3>1, VoxelSteady
  <2>11. Voxel!Output(same) = Voxel!Output(c)
    <3>1. /\ same.representation = c.representation /\ same.vdbCache = c.vdbCache
          /\ same.voxelCache = c.voxelCache /\ same.voxelsize = c.voxelsize
          /\ same.rgba = c.rgba /\ same.alpha = c.alpha /\ same.splatSize = c.splatSize
          /\ same.isoLevel = c.isoLevel /\ same.sliceAxis = c.sliceAxis
          /\ same.sliceOffset = c.sliceOffset /\ same.sliceInterpolate = c.sliceInterpolate
          /\ same.colourMap = c.colourMap /\ same.autoColourMap = c.autoColourMap
          /\ same.colourMapBounds = c.colourMapBounds /\ same.showColourBar = c.showColourBar
      BY <2>8
    <3> QED BY <3>1, Zenon DEF Voxel!Output
  <2>12. Output("voxelise", same) = Output("voxelise", c) BY <2>11 DEF Output
  <2> DEFINE a == [Ignore(c) EXCEPT !.conf = same]
  <2>13. a.conf = same /\ a.cache = "kept" /\ a.misfit = FALSE BY DEF Ignore, Answer
  <2> HIDE DEF a
  <2>14. Goes("voxelise", c, stored, r, a)
    BY <2>5, <2>9, <2>10, <2>12, <2>13 DEF Goes, Dispositions
  <2>15. VoxGoes(c, stored, r, a) BY <2>7, <2>8, <2>13, <2>14 DEF VoxGoes
  <2> QED BY <2>3, <2>15 DEF a
<1>3. CASE c[key] # v
  <2>1. Voxel!ApplyPropertyNow(c, key, v) = Changed([c EXCEPT ![key] = v])
    BY <1>3, VoxelSame DEF ApplyPropertyNow, Assign
  <2>2. Voxel!WithCounts(Changed([c EXCEPT ![key] = v])) = Changed(new)
    BY DEF Voxel!WithCounts, Voxel!ClearCache, Changed, Answer
  <2> DEFINE a == Voxel!WithCounts(Voxel!ApplyPropertyNow(c, key, v))
             b == Voxel!SetBins(c, key, v)
  <2>3. b.conf = d /\ b.cache = "cleared" /\ b.update
    <3>1. b = IF key = "nBins" THEN [a EXCEPT !.conf.binWidth = Voxel!WidthOf(c.bc, v)]
              ELSE [a EXCEPT !.conf.nBins = Voxel!BinsOf(c.bc, v)]
      BY Zenon DEF Voxel!SetBins
    <3>2. a = Changed(new) BY <2>1, <2>2
    <3> HIDE DEF a, b
    <3>3. /\ Changed(new).conf = new /\ Changed(new).cache = "cleared" /\ Changed(new).update
          /\ {"conf", "cache", "update"} \subseteq DOMAIN Changed(new)
      BY DEF Changed, Answer
    <3> HIDE DEF new
    <3> QED BY <3>1, <3>2, <3>3
  <2> HIDE DEF a, b
  <2>4. key \in {"nBins", "binWidth"} /\ other \in {"nBins", "binWidth"} OBVIOUS
  <2>5. /\ Kin(c, d) /\ d.voxelCache = <<>> /\ d.vdbCache = c.vdbCache
        /\ d.incoming = c.incoming /\ d.normaliseType = c.normaliseType
        /\ d.enabledIons = c.enabledIons /\ d.representation = c.representation
    <3> HIDE DEF makes, other
    <3> QED BY <1>1, <2>4, VoxelFields DEF Kin
  <2> HIDE DEF d, new
  <2>6. VoxSound(d, r) BY <2>5, VoxelUncounted
  <2>7. Sane("voxelise", d) BY <2>5 DEF Sane
  <2>8. VoxGoes(c, stored, r, b)
    BY <2>3, <2>5, <2>6, <2>7 DEF VoxGoes, Goes, Dispositions
  <2> QED BY <2>8 DEF b
<1> QED BY <1>2, <1>3

LEMMA VoxelRepresentation ==
    ASSUME NEW c, Whole("voxelise", c), Sane("voxelise", c), NEW stored \in BOOLEAN, NEW r,
           VoxSound(c, r), NEW v \in {"cloud", "surface", "slice"}
    PROVE  VoxGoes(c, stored, r, Voxel!SetRepresentation(c, v, stored))
<1> DEFINE d == [c EXCEPT !.representation = v]
<1>1. /\ Kin(c, d) /\ d.representation = v /\ d.incoming = c.incoming
      /\ d.normaliseType = c.normaliseType /\ d.enabledIons = c.enabledIons
  BY VoxelFields DEF VoxMade, Kin
<1>2. v = c.representation => d = c BY VoxelFields DEF Kin
<1>3. VoxSound(d, r)
  <2>1. "representation" \in DOMAIN c \ VoxMade BY VoxelFields DEF VoxMade
  <2> QED BY <2>1, VoxelLook
<1>4. Voxel!SetRepresentation(c, v, stored) =
        IF ~stored \/ v = "surface" THEN Voxel!WithGrid(Changed(d))
        ELSE IF v = c.representation THEN Patched(d)
        ELSE Misfit(d, TRUE)
  BY VoxelSame, Zenon DEF Voxel!SetRepresentation
<1> HIDE DEF d
<1>5. Sane("voxelise", d) BY <1>1 DEF Sane
<1>6. CASE ~stored \/ v = "surface" BY <1>1, <1>4, <1>5, <1>6, VoxelWithGrid
<1>7. CASE ~(~stored \/ v = "surface") /\ v = c.representation
  <2>1. Patched(d).conf = d BY DEF Patched, Answer
  <2>2. Goes("voxelise", c, stored, r, Patched(d)) BY <1>1, <1>2, <1>5, <1>7, PatchedGoes
  <2> QED BY <1>2, <1>3, <1>4, <1>7, <2>1, <2>2 DEF VoxGoes
<1>8. CASE ~(~stored \/ v = "surface") /\ v # c.representation
  <2>1. Misfit(d, TRUE).conf = d /\ Misfit(d, TRUE).misfit = TRUE
    BY DEF Misfit, Uncleared, Answer
  <2>2. Goes("voxelise", c, stored, r, Misfit(d, TRUE)) BY <1>1, <1>5, MisfitGoes
  <2> QED BY <1>3, <1>4, <1>8, <2>1, <2>2 DEF VoxGoes
<1> QED BY <1>6, <1>7, <1>8

LEMMA VoxelIons ==
    ASSUME NEW c, Whole("voxelise", c), Sane("voxelise", c), NEW stored, NEW r,
           VoxSound(c, r), c.incoming # NoRange, NEW part \in {1, 2}, NEW i, NEW v
    PROVE  VoxGoes(c, stored, r, Voxel!SetAll(c, part, v))
           /\ VoxGoes(c, stored, r, Voxel!SetIon(c, part, i, v))
<1> DEFINE all == [c EXCEPT !.enabledIons[part] = [j \in DOMAIN @ |-> v],
                            ![Voxel!AllFlag[part]] = v]
           one == [c EXCEPT !.enabledIons[part][i] = v, ![Voxel!AllFlag[part]] = @ /\ v]
<1>1. Voxel!AllFlag[part] \in {"numeratorAll", "denominatorAll"} BY DEF Voxel!AllFlag
<1>2. ASSUME NEW d \in {all, one} PROVE VoxGoes(c, stored, r, Voxel!WithGrid(Changed(d)))
  <2>1. /\ Kin(c, d) /\ d.incoming = c.incoming /\ d.normaliseType = c.normaliseType
        /\ d.representation = c.representation
    BY <1>1, <1>2, VoxelFields DEF VoxMade, Kin
  <2> HIDE DEF all, one
  <2>2. Sane("voxelise", d) BY <2>1 DEF Sane
  <2> QED BY <2>1, <2>2, VoxelWithGrid
<1>3. /\ Voxel!SetAll(c, part, v) = Voxel!WithGrid(Changed(all))
      /\ Voxel!SetIon(c, part, i, v) = Voxel!WithGrid(Changed(one))
  BY VoxelSame, Zenon DEF Voxel!SetAll, Voxel!SetIon
<1> HIDE DEF all, one
<1> QED BY <1>2, <1>3

LEMMA VoxelShown ==
    ASSUME NEW c, Sane("voxelise", c), NEW p \in Voxel!Shown(c)
    PROVE  \/ /\ p[1] \in {"fixedWidth", "nBins", "binWidth", "normaliseType", "filterMode",
                           "representation", "gaussDev", "filterRatio", "splatSize", "alpha",
                           "voxelsize", "isoLevel", "rgba", "sliceAxis", "sliceOffset",
                           "sliceInterpolate", "colourMap", "showColourBar",
                           "autoColourMap", "start", "end"}
              /\ p[1] \in {"nBins", "binWidth"} =>
                    p[1] = IF c.fixedWidth THEN "binWidth" ELSE "nBins"
           \/ p[1] \in {"all", "ion"} /\ p[2] \in {1, 2} /\ c.incoming # NoRange
<1> DEFINE keys == {"fixedWidth", IF c.fixedWidth THEN "binWidth" ELSE "nBins",
                    "normaliseType", "filterMode", "representation"}
                   \cup (IF c.filterMode = "none" THEN {} ELSE {"gaussDev", "filterRatio"})
                   \cup Voxel!ShownLook(c)
<1>1. p \in {<<key>> : key \in keys} \/ p \in Voxel!ShownIons(c)
  BY Zenon DEF Voxel!Shown
<1>2. CASE p \in {<<key>> : key \in keys}
  <2>1. PICK key \in keys : p = <<key>> BY <1>2
  <2>2. p[1] = key BY <2>1
  <2>3. Voxel!ShownLook(c) \subseteq
          {"splatSize", "alpha", "voxelsize", "isoLevel", "rgba", "sliceAxis", "sliceOffset",
           "sliceInterpolate", "colourMap", "showColourBar", "autoColourMap", "start", "end"}
    <3>1. c.representation \in {"cloud", "surface", "slice"} BY DEF Sane
    <3> QED BY <3>1 DEF Voxel!ShownLook
  <2> QED BY <2>1, <2>2, <2>3
<1>3. CASE p \in Voxel!ShownIons(c)
  <2>1. Voxel!NoRange = NoRange BY DEF Voxel!NoRange, NoRange
  <2>2. c.incoming # NoRange BY <1>3, <2>1 DEF Voxel!ShownIons
  <2> DEFINE parts == IF c.normaliseType = "ratio" THEN {1, 2} ELSE {1}
             ions(part) == {<<"all", part>>} \cup
                           {<<"ion", part, i>> : i \in DOMAIN c.incoming.enabled}
  <2>3. Voxel!ShownIons(c) = UNION {ions(part) : part \in parts}
    BY <2>1, <2>2, Zenon DEF Voxel!ShownIons
  <2>4. PICK part \in parts : p \in ions(part) BY <1>3, <2>3
  <2>5. part \in {1, 2} BY <2>4
  <2>6. p[1] \in {"all", "ion"} /\ p[2] = part BY <2>4
  <2> QED BY <2>2, <2>5, <2>6
<1> QED BY <1>1, <1>2, <1>3

LEMMA VoxelAnswers ==
    ASSUME NEW c, Whole("voxelise", c), Sane("voxelise", c), NEW stored \in BOOLEAN,
           NEW r, VoxSound(c, r), NEW a \in Voxel!Answers(c, stored)
    PROVE  VoxGoes(c, stored, r, a)
<1>1. PICK p \in Voxel!Shown(c) :
        a \in {Voxel!SetProperty(c, p, v, stored) : v \in Voxel!Inputs(c, p[1])}
  BY Zenon DEF Voxel!Answers
<1>2. PICK v \in Voxel!Inputs(c, p[1]) : a = Voxel!SetProperty(c, p, v, stored) BY <1>1
<1> DEFINE key == p[1]
<1>3. a = Voxel!SetProperty(c, p, v, stored) BY <1>2
<1>4. v \in Voxel!Inputs(c, key) OBVIOUS
<1>5. \/ /\ key \in {"fixedWidth", "nBins", "binWidth", "normaliseType", "filterMode",
                     "representation", "gaussDev", "filterRatio", "splatSize", "alpha",
                     "voxelsize", "isoLevel", "rgba", "sliceAxis", "sliceOffset",
                     "sliceInterpolate", "colourMap", "showColourBar",
                     "autoColourMap", "start", "end"}
         /\ key \in {"nBins", "binWidth"} =>
               key = IF c.fixedWidth THEN "binWidth" ELSE "nBins"
      \/ key \in {"all", "ion"} /\ p[2] \in {1, 2} /\ c.incoming # NoRange
  BY VoxelShown
<1>6. VoxGoes(c, stored, r, Refuse(c)) /\ VoxGoes(c, stored, r, Ignore(c))
  BY VoxelRefusals
<1>7. ASSUME NEW f \in {"splatSize", "voxelsize", "isoLevel", "rgba", "alpha", "sliceAxis",
                        "sliceOffset", "sliceInterpolate", "colourMap", "showColourBar",
                        "autoColourMap", "colourMapBounds"}, NEW w
      PROVE  /\ VoxGoes(c, stored, r, Patched([c EXCEPT ![f] = w]))
             /\ VoxGoes(c, stored, r, Changed([c EXCEPT ![f] = w]))
             /\ VoxGoes(c, TRUE, r, Misfit([c EXCEPT ![f] = w], TRUE))
             /\ VoxGoes(c, FALSE, r, Uncleared([c EXCEPT ![f] = w], TRUE))
  <2>1. f \in DOMAIN c \ VoxMade /\ f # "representation" BY VoxelFields DEF VoxMade
  <2> QED BY <2>1, VoxelPatched
<1>8. ASSUME NEW f \in {"sliceAxis", "sliceOffset", "sliceInterpolate", "colourMap",
                        "showColourBar", "autoColourMap", "colourMapBounds"}, NEW w
      PROVE  /\ VoxGoes(c, stored, r, Voxel!ApplyPropertyNow(c, f, w))
             /\ VoxGoes(c, stored, r, Voxel!AssignOther(c, f, w))
  <2>1. VoxGoes(c, stored, r, Changed([c EXCEPT ![f] = w])) BY <1>7
  <2> QED BY <1>6, <2>1, VoxelSame DEF ApplyPropertyNow, AssignOther, Assign
<1> HIDE DEF key
<1>9. CASE key \in {"fixedWidth", "filterMode"}
  <2>1. a = Voxel!WithCounts(Voxel!ApplyPropertyNow(c, key, v))
    BY <1>3, <1>9 DEF Voxel!SetProperty, key
  <2> QED BY <1>9, <2>1, VoxelWithCounts
<1>10. CASE key \in {"gaussDev", "filterRatio"}
  <2>1. a \in {Refuse(c), Voxel!WithCounts(Voxel!ApplyPropertyNow(c, key, v))}
    BY <1>3, <1>10, VoxelSame DEF Voxel!SetProperty, Voxel!SetFilter, key
  <2> QED BY <1>6, <1>10, <2>1, VoxelWithCounts
<1>11. CASE key \in {"nBins", "binWidth"}
  <2>1. a = Voxel!SetBins(c, key, v) BY <1>3, <1>11 DEF Voxel!SetProperty, key
  <2>2. key = IF c.fixedWidth THEN "binWidth" ELSE "nBins" BY <1>5, <1>11
  <2> QED BY <2>1, <2>2, VoxelBins
<1>12. CASE key = "normaliseType"
  <2> DEFINE d == [c EXCEPT !.normaliseType = v]
  <2>1. a = Voxel!WithGrid(Voxel!ApplyPropertyNow(c, key, v))
    BY <1>3, <1>12 DEF Voxel!SetProperty, key
  <2>2. Voxel!ApplyPropertyNow(c, key, v) \in {Ignore(c), Changed(d)}
    BY <1>12, VoxelSame DEF ApplyPropertyNow, Assign
  <2>3. Voxel!WithGrid(Ignore(c)) = Ignore(c) BY DEF Voxel!WithGrid, Ignore, Answer
  <2>4. d.normaliseType \notin Voxel!NeedRanges \/ c.incoming # NoRange
    <3>1. "normaliseType" \in DOMAIN c BY VoxelFields DEF VoxMade
    <3>2. Voxel!NoRange = NoRange BY DEF Voxel!NoRange, NoRange
    <3>3. v \in {"none", "volume"} \/ c.incoming # NoRange
      BY <1>4, <1>12, <3>2 DEF Voxel!Inputs
    <3> QED BY <3>1, <3>3 DEF Voxel!NeedRanges
  <2>5. /\ Kin(c, d) /\ d.incoming = c.incoming /\ d.enabledIons = c.enabledIons
        /\ d.representation = c.representation
    BY VoxelFields DEF VoxMade, Kin
  <2> HIDE DEF d
  <2>6. Sane("voxelise", d) BY <2>5 DEF Sane
  <2>7. VoxGoes(c, stored, r, Voxel!WithGrid(Changed(d))) BY <2>4, <2>5, <2>6, VoxelWithGrid
  <2> QED BY <1>6, <2>1, <2>2, <2>3, <2>7
<1>13. CASE key = "representation"
  <2>1. a = Voxel!SetRepresentation(c, v, stored) BY <1>3, <1>13 DEF Voxel!SetProperty, key
  <2>2. v \in {"cloud", "surface", "slice"} BY <1>4, <1>13 DEF Voxel!Inputs
  <2> QED BY <2>1, <2>2, VoxelRepresentation
<1>14. CASE key \in {"splatSize", "voxelsize", "isoLevel", "rgba"}
  <2>1. a \in {Refuse(c), Ignore(c), Patched([c EXCEPT ![key] = v])}
    BY <1>3, <1>14, VoxelSame
       DEF Voxel!SetProperty, Voxel!SetSurface, Voxel!SetLookOther, key
  <2> QED BY <1>6, <1>7, <1>14, <2>1
<1>15. CASE key = "alpha"
  <2>1. a = IF stored THEN Misfit([c EXCEPT !.alpha = v], TRUE)
            ELSE Uncleared([c EXCEPT !.alpha = v], TRUE)
    BY <1>3, <1>15, VoxelSame DEF Voxel!SetProperty, Voxel!SetTransparency, key
  <2> QED BY <1>7, <2>1
<1>16. CASE key \in {"sliceAxis", "sliceOffset", "sliceInterpolate", "colourMap",
                     "showColourBar", "autoColourMap"}
  <2>1. a \in {Voxel!ApplyPropertyNow(c, key, v), Voxel!AssignOther(c, key, v)}
    BY <1>3, <1>16 DEF Voxel!SetProperty, key
  <2> QED BY <1>8, <1>16, <2>1
<1>17. CASE key \in {"start", "end"}
  <2>1. a = Refuse(c) \/ \E w : a = Voxel!ApplyPropertyNow(c, "colourMapBounds", w)
    <3>1. PICK i \in {1, 2} : a = Voxel!SetEnd(c, i, v)
      BY <1>3, <1>17 DEF Voxel!SetProperty, key
    <3> DEFINE w == [c.colourMapBounds EXCEPT ![i] = v]
    <3>2. a \in {Refuse(c), Voxel!ApplyPropertyNow(c, "colourMapBounds", w)}
      BY <3>1, VoxelSame, Zenon DEF Voxel!SetEnd
    <3> HIDE DEF w
    <3> QED BY <3>2
  <2> QED BY <1>6, <1>8, <2>1
<1>18. CASE key \in {"all", "ion"}
  <2>1. a \in {Voxel!SetAll(c, p[2], v), Voxel!SetIon(c, p[2], p[3], v)}
    BY <1>3, <1>18 DEF Voxel!SetProperty, key
  <2>2. p[2] \in {1, 2} /\ c.incoming # NoRange BY <1>5, <1>18
  <2> QED BY <2>1, <2>2, VoxelIons
<1> QED BY <1>5, <1>9, <1>10, <1>11, <1>12, <1>13, <1>14, <1>15, <1>16, <1>17, <1>18

\* A slice is dragged, which is not stored.
LEMMA VoxelDrags ==
    ASSUME NEW c, Whole("voxelise", c), Sane("voxelise", c), NEW r, VoxSound(c, r),
           NEW a \in Voxel!Drags(c)
    PROVE  c.representation = "slice" /\ VoxGoes(c, FALSE, r, a)
<1>1. PICK v : a = Uncleared([c EXCEPT !.sliceOffset = v], TRUE)
  BY VoxelSame DEF Voxel!Drags
<1>2. "sliceOffset" \in DOMAIN c \ VoxMade BY VoxelFields DEF VoxMade
<1>3. c.representation = "slice" BY DEF Voxel!Drags
<1> QED BY <1>1, <1>2, <1>3, VoxelPatched

LEMMA VoxelInit ==
    ASSUME NEW c, Whole("voxelise", c), Sane("voxelise", c), NEW r, c.voxelCache = <<>>,
           c.vdbCache = <<>> \/ c.vdbCache[3] # NoRange
    PROVE  LET d == InitFilter("voxelise", c, r)
           IN  Whole("voxelise", d) /\ Sane("voxelise", d) /\ VoxSound(d, r)
<1> DEFINE d == Voxel!InitFilter(c, r)
           n == Len(r.ions)
           none == [c EXCEPT !.incoming = r, !.enabledIons = <<<<>>, <<>>>>,
                             !.normaliseType = IF @ \in Voxel!NeedRanges THEN "none" ELSE @]
           other == [c EXCEPT !.incoming = r,
                              !.enabledIons = <<Voxel!Resized(@[1], n, FALSE),
                                                Voxel!Resized(@[2], n, TRUE)>>]
<1>1. Voxel!NoRange = NoRange BY DEF Voxel!NoRange, NoRange
<1>2. d = IF r = NoRange THEN none
          ELSE IF c.incoming # NoRange /\ c.incoming.file = r.file THEN c ELSE other
  BY <1>1, Zenon DEF Voxel!InitFilter
<1>3. {"incoming", "enabledIons", "normaliseType", "voxelCache", "vdbCache",
       "representation"} \subseteq DOMAIN c
  BY VoxelFields DEF VoxMade
<1>4. /\ none.voxelCache = <<>> /\ none.vdbCache = c.vdbCache /\ none.incoming = r
      /\ none.enabledIons = <<<<>>, <<>>>> /\ none.normaliseType \notin Voxel!NeedRanges
      /\ none.representation = c.representation /\ Kin(c, none)
  BY <1>3, VoxelFields DEF Kin, Voxel!NeedRanges
<1>5. /\ other.voxelCache = <<>> /\ other.vdbCache = c.vdbCache /\ other.incoming = r
      /\ other.representation = c.representation /\ Kin(c, other)
  BY <1>3, VoxelFields DEF Kin
<1> HIDE DEF none, other
<1>6. Kin(c, d) /\ d.representation = c.representation
  BY <1>2, <1>4, <1>5, VoxelFields
<1>7. VoxSound(d, r) BY <1>2, <1>4, <1>5 DEF VoxSound
<1>8. InitFilter("voxelise", c, r) = d BY DEF InitFilter
<1> HIDE DEF d
<1>9. Whole("voxelise", d) BY <1>6 DEF Whole, Kin
<1>10. Sane("voxelise", d) BY <1>6 DEF Sane
<1> QED BY <1>7, <1>8, <1>9, <1>10

\* What refresh shows, it has made.
LEMMA VoxelRefreshed ==
    ASSUME NEW c, Whole("voxelise", c), Sane("voxelise", c), NEW r, VoxSound(c, r)
    PROVE  LET d == Refreshed("voxelise", c, r)
           IN  /\ Whole("voxelise", d) /\ Sane("voxelise", d) /\ VoxSound(d, r)
               /\ Steady("voxelise", d, r) /\ d.representation = c.representation
               /\ Alike(d, c, {"bc", IF c.fixedWidth THEN "nBins" ELSE "binWidth"})
<1> DEFINE d == Voxel!Refreshed(c, r)
           g == [c EXCEPT !.vdbCache = Voxel!Grid(c, r)]
           f == Voxel!Fitted(c)
           new == [f EXCEPT !.voxelCache = Voxel!Counts(f, r)]
           set == {"bc", IF c.fixedWidth THEN "nBins" ELSE "binWidth"}
<1>1. Voxel!NoRange = NoRange BY DEF Voxel!NoRange, NoRange
<1>2. d = IF c.representation = "surface"
          THEN IF c.vdbCache # <<>> \/ c.incoming = NoRange THEN c ELSE g
          ELSE IF c.voxelCache # <<>> THEN c ELSE new
  BY <1>1, Zenon DEF Voxel!Refreshed
<1>3. {"bc", "nBins", "binWidth", "fixedWidth", "incoming", "enabledIons", "normaliseType",
       "voxelCache", "vdbCache", "representation", "filterMode", "gaussDev", "filterRatio"}
        \subseteq DOMAIN c
  BY VoxelFields DEF VoxMade
<1> DEFINE Done(e) == /\ Kin(c, e) /\ e.representation = c.representation /\ VoxSound(e, r)
                      /\ Alike(e, c, set)
                      /\ IF e.representation = "surface"
                         THEN e.vdbCache # <<>> \/ e.incoming = NoRange
                         ELSE e.voxelCache # <<>>
<1>4. ASSUME IF c.representation = "surface" THEN c.vdbCache # <<>> \/ c.incoming = NoRange
             ELSE c.voxelCache # <<>>
      PROVE  Done(c)
  BY <1>4, VoxelFields DEF Alike
<1>5. ASSUME c.representation = "surface", c.incoming # NoRange PROVE Done(g)
  <2> DEFINE grid == Voxel!Grid(c, r)
  <2>1. grid # <<>> /\ grid[3] = r BY DEF Voxel!Grid
  <2>2. r # NoRange BY <1>5 DEF VoxSound
  <2>3. /\ \A h \in DOMAIN c \ {"vdbCache"} : g[h] = c[h]
        /\ g.vdbCache = grid /\ Kin(c, g)
    BY <1>3, VoxelFields, KinExcept
  <2> HIDE DEF g, grid
  <2>4. VoxSound(g, r)
    <3>1. /\ g.incoming = c.incoming /\ g.enabledIons = c.enabledIons
          /\ g.normaliseType = c.normaliseType /\ g.voxelCache = c.voxelCache /\ g.bc = c.bc
          /\ g.fixedWidth = c.fixedWidth /\ g.nBins = c.nBins /\ g.binWidth = c.binWidth
          /\ g.filterMode = c.filterMode /\ g.gaussDev = c.gaussDev
          /\ g.filterRatio = c.filterRatio
      BY <1>3, <2>3
    <3>2. Voxel!Counts(g, r) = Voxel!Counts(c, r)
      BY <3>1, Zenon DEF Voxel!Counts, Voxel!Parts
    <3> QED BY <2>1, <2>2, <2>3, <3>1, <3>2 DEF VoxSound
  <2>5. Alike(g, c, set) BY <2>3 DEF Alike, Transient, Kin
  <2>6. g.representation = c.representation BY <1>3, <2>3
  <2> HIDE DEF set
  <2> QED BY <1>5, <2>1, <2>3, <2>4, <2>5, <2>6
<1>6. ASSUME c.representation # "surface" PROVE Done(new)
  <2>1. /\ Kin(c, f) /\ f.bc = Voxel!DataExtent
        /\ IF f.fixedWidth THEN f.nBins = Voxel!BinsOf(Voxel!DataExtent, f.binWidth)
           ELSE f.binWidth = Voxel!WidthOf(Voxel!DataExtent, f.nBins)
        /\ \A h \in DOMAIN c \ set : f[h] = c[h]
    <3>1. CASE c.fixedWidth
      <4>1. f = [c EXCEPT !.bc = Voxel!DataExtent,
                          !.nBins = Voxel!BinsOf(Voxel!DataExtent, c.binWidth)]
        BY <3>1, Zenon DEF Voxel!Fitted
      <4> QED BY <1>3, <3>1, <4>1, VoxelFields DEF Kin
    <3>2. CASE ~c.fixedWidth
      <4>1. f = [c EXCEPT !.bc = Voxel!DataExtent,
                          !.binWidth = Voxel!WidthOf(Voxel!DataExtent, c.nBins)]
        BY <3>2, Zenon DEF Voxel!Fitted
      <4> QED BY <1>3, <3>2, <4>1, VoxelFields DEF Kin
    <3> QED BY <3>1, <3>2
  <2> DEFINE counts == Voxel!Counts(f, r)
  <2>2. counts # <<>> BY DEF Voxel!Counts
  <2> HIDE DEF f
  <2>3. DOMAIN f = DOMAIN c BY <2>1 DEF Kin
  <2>4. /\ \A h \in DOMAIN c \ {"voxelCache"} : new[h] = f[h]
        /\ new.voxelCache = counts /\ Kin(c, new)
    <3> HIDE DEF counts
    <3>1. new = [f EXCEPT !.voxelCache = counts] BY DEF counts
    <3> QED BY <1>3, <2>1, <2>3, <3>1, KinExcept
  <2> HIDE DEF new
  <2>5. /\ new.incoming = f.incoming /\ new.enabledIons = f.enabledIons
        /\ new.normaliseType = f.normaliseType /\ new.bc = f.bc
        /\ new.fixedWidth = f.fixedWidth /\ new.nBins = f.nBins /\ new.binWidth = f.binWidth
        /\ new.filterMode = f.filterMode /\ new.gaussDev = f.gaussDev
        /\ new.filterRatio = f.filterRatio /\ new.vdbCache = f.vdbCache
        /\ new.representation = f.representation
    BY <1>3, <2>4
  <2>6. Voxel!Counts(new, r) = counts
    BY <2>5, Zenon DEF Voxel!Counts, Voxel!Parts
  <2>7. /\ f.incoming = c.incoming /\ f.enabledIons = c.enabledIons
        /\ f.normaliseType = c.normaliseType /\ f.vdbCache = c.vdbCache
        /\ f.representation = c.representation
    BY <1>3, <2>1
  <2>8. VoxSound(new, r)
    <3> HIDE DEF counts
    <3> QED BY <2>1, <2>4, <2>5, <2>6, <2>7 DEF VoxSound
  <2>9. Alike(new, c, set) BY <2>1, <2>4 DEF Alike, Transient, Kin
  <2> HIDE DEF set, counts
  <2> QED BY <1>6, <2>2, <2>4, <2>5, <2>7, <2>8, <2>9
<1> HIDE DEF g, f, new, set
<1>7. Done(d) BY <1>2, <1>4, <1>5, <1>6
<1>8. Refreshed("voxelise", c, r) = d BY DEF Refreshed
<1> HIDE DEF d
<1>9. Whole("voxelise", d) BY <1>7 DEF Whole, Kin
<1>10. Sane("voxelise", d) BY <1>7 DEF Sane
<1>11. Steady("voxelise", d, r) BY <1>7, <1>9, VoxelSteady
<1> QED BY <1>7, <1>8, <1>9, <1>10, <1>11 DEF set

\* What a steady filter shows is what it would make anew, but for an old grid.
LEMMA VoxelAfresh ==
    ASSUME NEW c, Whole("voxelise", c), Sane("voxelise", c), NEW r, VoxSound(c, r),
           Steady("voxelise", c, r), ~Voxel!GridIsOld(c, r)
    PROVE  Output("voxelise", Afresh("voxelise", c, r)) = Output("voxelise", c)
<1> DEFINE b == [c EXCEPT !.voxelCache = <<>>, !.vdbCache = <<>>]
           d == Voxel!Refreshed(b, r)
<1>1. Voxel!NoRange = NoRange BY DEF Voxel!NoRange, NoRange
<1>2. /\ \A h \in DOMAIN c \ {"voxelCache", "vdbCache"} : b[h] = c[h]
      /\ b.voxelCache = <<>> /\ b.vdbCache = <<>> /\ DOMAIN b = DOMAIN c
  BY VoxelFields DEF VoxMade
<1>3. Afresh("voxelise", c, r) = d BY DEF Afresh, Voxel!Afresh
<1> HIDE DEF b
<1>4. /\ b.bc = c.bc /\ b.fixedWidth = c.fixedWidth /\ b.nBins = c.nBins
      /\ b.binWidth = c.binWidth /\ b.incoming = c.incoming
      /\ b.enabledIons = c.enabledIons /\ b.normaliseType = c.normaliseType
      /\ b.filterMode = c.filterMode /\ b.gaussDev = c.gaussDev
      /\ b.filterRatio = c.filterRatio
  BY <1>2, VoxelFields DEF VoxMade
<1>5. /\ b.representation = c.representation /\ b.voxelsize = c.voxelsize /\ b.rgba = c.rgba
      /\ b.alpha = c.alpha /\ b.splatSize = c.splatSize /\ b.isoLevel = c.isoLevel
      /\ b.sliceAxis = c.sliceAxis /\ b.sliceOffset = c.sliceOffset
      /\ b.sliceInterpolate = c.sliceInterpolate /\ b.colourMap = c.colourMap
      /\ b.autoColourMap = c.autoColourMap /\ b.colourMapBounds = c.colourMapBounds
      /\ b.showColourBar = c.showColourBar
  BY <1>2, VoxelFields DEF VoxMade
<1>6. Voxel!Output(d) = Voxel!Output(c)
  <2>1. CASE c.representation = "surface"
    <3>1. d = IF c.incoming = NoRange THEN b ELSE [b EXCEPT !.vdbCache = Voxel!Grid(b, r)]
      BY <1>1, <1>2, <1>4, <1>5, <2>1 DEF Voxel!Refreshed
    <3>2. Voxel!Grid(b, r) = Voxel!Grid(c, r)
      BY <1>4, <1>5, Zenon DEF Voxel!Grid, Voxel!Parts
    <3>3. c.vdbCache \in {<<>>, Voxel!Grid(c, r)} BY <2>1 DEF Voxel!GridIsOld
    <3>4. c.vdbCache # <<>> \/ c.incoming = NoRange BY <2>1, VoxelSteady
    <3>5. d.vdbCache = c.vdbCache
      <4>1. Voxel!Grid(c, r)[3] = r BY DEF Voxel!Grid
      <4>2. CASE c.incoming = NoRange
        <5>1. r = NoRange BY <4>2 DEF VoxSound
        <5>2. c.vdbCache = <<>> BY <3>3, <4>1, <5>1 DEF VoxSound
        <5> QED BY <1>2, <3>1, <4>2, <5>2
      <4>3. CASE c.incoming # NoRange
        <5>1. "vdbCache" \in DOMAIN b BY <1>2, VoxelFields DEF VoxMade
        <5> QED BY <3>1, <3>2, <3>3, <3>4, <4>3, <5>1
      <4> QED BY <4>2, <4>3
    <3>6. /\ d.representation = "surface" /\ d.voxelsize = c.voxelsize /\ d.rgba = c.rgba
          /\ d.alpha = c.alpha /\ d.isoLevel = c.isoLevel
      BY <1>2, <1>5, <2>1, <3>1, VoxelFields DEF VoxMade
    <3> HIDE DEF d
    <3> QED BY <2>1, <3>5, <3>6, Zenon DEF Voxel!Output
  <2>2. CASE c.representation # "surface"
    <3> DEFINE f == Voxel!Fitted(b)
    <3>1. c.voxelCache # <<>> BY <2>2, VoxelSteady
    <3>2. d = [f EXCEPT !.voxelCache = Voxel!Counts(f, r)]
      BY <1>2, <1>5, <2>2, Zenon DEF Voxel!Refreshed
    <3>3. f = b
      <4>1. b = [h \in DOMAIN b |-> b[h]]
        BY <1>2, VoxelFields DEF b, Kin
      <4>2. /\ b.bc = Voxel!DataExtent
            /\ IF b.fixedWidth THEN b.nBins = Voxel!BinsOf(Voxel!DataExtent, b.binWidth)
               ELSE b.binWidth = Voxel!WidthOf(Voxel!DataExtent, b.nBins)
        BY <1>4, <3>1 DEF VoxSound
      <4>3. CASE b.fixedWidth
        <5>1. f = [b EXCEPT !.bc = Voxel!DataExtent,
                            !.nBins = Voxel!BinsOf(Voxel!DataExtent, b.binWidth)]
          BY <4>3, Zenon DEF Voxel!Fitted
        <5> QED BY <4>1, <4>2, <4>3, <5>1
      <4>4. CASE ~b.fixedWidth
        <5>1. f = [b EXCEPT !.bc = Voxel!DataExtent,
                            !.binWidth = Voxel!WidthOf(Voxel!DataExtent, b.nBins)]
          BY <4>4, Zenon DEF Voxel!Fitted
        <5> QED BY <4>1, <4>2, <4>4, <5>1
      <4> QED BY <4>3, <4>4
    <3>4. Voxel!Counts(b, r) = Voxel!Counts(c, r)
      BY <1>4, Zenon DEF Voxel!Counts, Voxel!Parts
    <3>5. c.voxelCache = Voxel!Counts(c, r) BY <3>1 DEF VoxSound
    <3>6. /\ d.voxelCache = c.voxelCache
          /\ \A h \in DOMAIN c \ {"voxelCache"} : d[h] = b[h]
      <4> HIDE DEF f
      <4> QED BY <1>2, <3>2, <3>3, <3>4, <3>5, VoxelFields DEF VoxMade
    <3> HIDE DEF d
    <3>7. /\ d.representation = c.representation /\ d.rgba = c.rgba
          /\ d.alpha = c.alpha /\ d.splatSize = c.splatSize
          /\ d.sliceAxis = c.sliceAxis /\ d.sliceOffset = c.sliceOffset
          /\ d.sliceInterpolate = c.sliceInterpolate /\ d.colourMap = c.colourMap
          /\ d.autoColourMap = c.autoColourMap /\ d.colourMapBounds = c.colourMapBounds
          /\ d.showColourBar = c.showColourBar
      BY <1>5, <3>6, VoxelFields
    <3>8. c.representation \in {"cloud", "slice"} BY <2>2 DEF Sane
    <3> QED BY <3>6, <3>7, <3>8, Zenon DEF Voxel!Output
  <2> QED BY <2>1, <2>2
<1> QED BY <1>3, <1>6 DEF Output

-----------------------------------------------------------------------------
(* What initFilter and refresh make of settings.                           *)

LEMMA ProfileInit ==
    ASSUME NEW c, Whole("profile", c), NEW r
    PROVE  LET d == Prof!InitFilter(c, r) IN Kin(c, d) /\ Prof!InitFilter(d, r) = d
<1> DEFINE d == Prof!InitFilter(c, r)
<1>1. Kin(c, c) /\ DOMAIN c = DOMAIN Prof!New BY DEF Whole, Kin, New
<1>2. "haveRangeParent" \in DOMAIN c BY <1>1 DEF Prof!New
<1>3. d = [c EXCEPT !.haveRangeParent = r # Prof!NoRange] BY DEF Prof!InitFilter
<1>4. Prof!InitFilter(d, r) = [d EXCEPT !.haveRangeParent = r # Prof!NoRange]
  BY DEF Prof!InitFilter
<1> HIDE DEF d
<1>5. Kin(c, d) BY <1>1, <1>3 DEF Kin
<1>6. Prof!InitFilter(d, r) = d BY <1>2, <1>3, <1>4
<1> QED BY <1>5, <1>6 DEF d

LEMMA InfoInit ==
    ASSUME NEW c, Whole("ionInfo", c), NEW r \in RangeForms
    PROVE  LET d == Info!InitFilter(c, r)
           IN  /\ Kin(c, d) /\ Info!InitFilter(d, r) = d
               /\ \A f \in {"fitMode", "massBackStart", "massBackEnd"} : d[f] = c[f]
<1> DEFINE d == Info!InitFilter(c, r)
<1>1. Kin(c, c) /\ DOMAIN c = DOMAIN Info!New BY DEF Whole, Kin, New
<1>2. {"incoming", "fitMode", "massBackStart", "massBackEnd"} \subseteq DOMAIN c
  BY <1>1 DEF Info!New
<1>3. Info!NoRange = NoRange BY DEF Info!NoRange, NoRange
<1>4. CASE r # NoRange /\ c.incoming # NoRange /\ c.incoming.file = r.file
  <2>1. d = c BY <1>3, <1>4 DEF Info!InitFilter
  <2> QED BY <1>1, <2>1
<1>5. CASE ~(r # NoRange /\ c.incoming # NoRange /\ c.incoming.file = r.file)
  <2>1. d = [c EXCEPT !.incoming = r] BY <1>3, <1>5 DEF Info!InitFilter
  <2>2. \A e : Info!InitFilter(e, r) \in {e, [e EXCEPT !.incoming = r]}
    BY DEF Info!InitFilter
  <2> HIDE DEF d
  <2>3. Kin(c, d) BY <1>1, <2>1 DEF Kin
  <2>4. [d EXCEPT !.incoming = r] = d BY <1>2, <2>1
  <2>5. \A f \in {"fitMode", "massBackStart", "massBackEnd"} : d[f] = c[f] BY <1>2, <2>1
  <2>6. Info!InitFilter(d, r) = d BY <2>2, <2>4
  <2> QED BY <2>3, <2>5, <2>6 DEF d
<1> QED BY <1>4, <1>5

LEMMA ProxiInit ==
    ASSUME NEW c, Whole("proxigram", c), NEW r \in RangeForms
    PROVE  LET d == Proxi!InitFilter(c, r) IN Kin(c, d) /\ Proxi!InitFilter(d, r) = d
<1> DEFINE d == Proxi!InitFilter(c, r)
<1>1. Kin(c, c) /\ DOMAIN c = DOMAIN Proxi!New BY DEF Whole, Kin, New
<1>2. {"incoming", "enabledIons"} \subseteq DOMAIN c BY <1>1 DEF Proxi!New
<1>3. Proxi!NoRange = NoRange BY DEF Proxi!NoRange, NoRange
<1>4. CASE r = NoRange
  <2>1. \A e : Proxi!InitFilter(e, r) =
                  [e EXCEPT !.incoming = r, !.enabledIons = <<<<>>, <<>>>>]
    BY <1>3, <1>4 DEF Proxi!InitFilter
  <2>2. d = [c EXCEPT !.incoming = r, !.enabledIons = <<<<>>, <<>>>>] BY <2>1
  <2> HIDE DEF d
  <2>3. Kin(c, d) BY <1>1, <2>2 DEF Kin
  <2>4. [d EXCEPT !.incoming = r, !.enabledIons = <<<<>>, <<>>>>] = d BY <1>2, <2>2
  <2>5. Proxi!InitFilter(d, r) = d BY <2>1, <2>4
  <2> QED BY <2>3, <2>5 DEF d
<1>5. CASE r # NoRange /\ c.incoming # NoRange /\ c.incoming.file = r.file
  <2>1. d = c BY <1>3, <1>5 DEF Proxi!InitFilter
  <2> QED BY <1>1, <2>1
<1>6. CASE r # NoRange /\ ~(c.incoming # NoRange /\ c.incoming.file = r.file)
  <2>1. \E x : d = [c EXCEPT !.incoming = r, !.enabledIons = x]
    BY <1>3, <1>6, Zenon DEF Proxi!InitFilter
  <2> HIDE DEF d
  <2>2. Kin(c, d) /\ d.incoming = r BY <1>1, <1>2, <2>1 DEF Kin
  <2>3. Proxi!InitFilter(d, r) = d BY <1>3, <1>6, <2>2 DEF Proxi!InitFilter
  <2> QED BY <2>2, <2>3 DEF d
<1> QED BY <1>4, <1>5, <1>6

LEMMA ClusterInit ==
    ASSUME NEW c, Whole("clusterAnalysis", c), Sane("clusterAnalysis", c),
           Sound("clusterAnalysis", c), NEW r
    PROVE  LET d == Cluster!InitFilter(c, r)
           IN  /\ Kin(c, d) /\ Sane("clusterAnalysis", d) /\ ClusterReady(d, r)
               /\ Sound("clusterAnalysis", d)
<1> DEFINE names == Cluster!EnabledNames(r)
           none == [c EXCEPT !.haveRangeParent = FALSE]
           found == [c EXCEPT !.haveRangeParent = TRUE, !.ionNames = names]
           new == [found EXCEPT !.ionCoreEnabled = Cluster!Carried(c, names, @, FALSE),
                                !.ionBulkEnabled = Cluster!Carried(c, names, @, TRUE)]
           d == Cluster!InitFilter(c, r)
<1>1. Kin(c, c) /\ DOMAIN c = DOMAIN Cluster!New BY DEF Whole, Kin, New
<1>2. {"haveRangeParent", "ionNames", "ionCoreEnabled", "ionBulkEnabled", "wantClusterID",
       "wantClusterMorphology"} \subseteq DOMAIN c
  BY <1>1 DEF Cluster!New
<1>3. Cluster!NoRange = NoRange BY DEF Cluster!NoRange, NoRange
<1>4. \A flags, v : LET x == Cluster!Carried(c, names, flags, v)
                    IN  DOMAIN x = DOMAIN names /\ Array(x)
  <2>1. ASSUME NEW flags, NEW v
        PROVE  LET x == Cluster!Carried(c, names, flags, v)
               IN  DOMAIN x = DOMAIN names /\ Array(x)
    <3> DEFINE x == Cluster!Carried(c, names, flags, v)
    <3>1. PICK g : x = [i \in DOMAIN names |-> g[i]]
      <4> DEFINE g == [i \in DOMAIN names |->
              LET was == {j \in DOMAIN c.ionNames : c.ionNames[j] = names[i]}
              IN  IF was = {} THEN v ELSE flags[CHOOSE j \in was : \A k \in was : k <= j]]
      <4>1. x = g BY Zenon DEF Cluster!Carried
      <4>2. g = [i \in DOMAIN names |-> g[i]] OBVIOUS
      <4> QED BY <4>1, <4>2
    <3> HIDE DEF x
    <3> QED BY <3>1 DEF Array, x
  <2> QED BY <2>1
<1>5. d = IF r = NoRange THEN none ELSE IF ~Cluster!Different(c, r) THEN found ELSE new
  BY <1>3, Zenon DEF Cluster!InitFilter
<1> DEFINE Right(e) == /\ Kin(c, e) /\ e.wantClusterID = c.wantClusterID
                       /\ e.wantClusterMorphology = c.wantClusterMorphology
                       /\ Array(e.ionCoreEnabled) /\ Array(e.ionBulkEnabled)
                       /\ DOMAIN e.ionCoreEnabled = DOMAIN e.ionBulkEnabled
<1>6. Right(none) /\ none.haveRangeParent = FALSE BY <1>1, <1>2 DEF Kin, Sound
<1>7. Right(found) /\ found.haveRangeParent = TRUE /\ found.ionNames = names
  BY <1>1, <1>2 DEF Kin, Sound
<1>8. Right(new) /\ new.haveRangeParent = TRUE /\ new.ionNames = names
  <2> HIDE DEF found, names
  <2>1. DOMAIN found = DOMAIN c BY <1>7 DEF Kin
  <2>2. /\ new.ionCoreEnabled = Cluster!Carried(c, names, found.ionCoreEnabled, FALSE)
        /\ new.ionBulkEnabled = Cluster!Carried(c, names, found.ionBulkEnabled, TRUE)
        /\ \A f \in DOMAIN c \ {"ionCoreEnabled", "ionBulkEnabled"} : new[f] = found[f]
        /\ Kin(c, new)
    BY <1>2, <1>7, <2>1, KinExcept
  <2>3. /\ Array(new.ionCoreEnabled) /\ Array(new.ionBulkEnabled)
        /\ DOMAIN new.ionCoreEnabled = DOMAIN new.ionBulkEnabled
    BY <1>4, <2>2
  <2>4. /\ new.wantClusterID = c.wantClusterID /\ new.haveRangeParent = TRUE
        /\ new.wantClusterMorphology = c.wantClusterMorphology /\ new.ionNames = names
    <3> HIDE DEF new
    <3> QED BY <1>2, <1>7, <2>2
  <2> QED BY <2>2, <2>3, <2>4
<1> HIDE DEF none, found, new
<1>9. Right(d) /\ ClusterReady(d, r) BY <1>5, <1>6, <1>7, <1>8 DEF ClusterReady
<1> HIDE DEF d
<1>10. Sane("clusterAnalysis", d) /\ Sound("clusterAnalysis", d) BY <1>9 DEF Sane, Sound
<1> QED BY <1>9, <1>10 DEF d

LEMMA SpatialInit ==
    ASSUME NEW c, Whole("spatialAnalysis", c), Sane("spatialAnalysis", c),
           Sound("spatialAnalysis", c), NEW r
    PROVE  LET d == Spatial!InitFilter(c, r)
           IN  /\ Kin(c, d) /\ Sane("spatialAnalysis", d) /\ SpatialReady(d, r)
               /\ Sound("spatialAnalysis", d) /\ Settled("spatialAnalysis", d, r)
               /\ Settled("spatialAnalysis", c, r) => Alike(d, c, {"ionNames"})
<1> DEFINE names == Spatial!EnabledNames(r)
           none == [c EXCEPT !.haveRangeParent = FALSE]
           found == [c EXCEPT !.haveRangeParent = TRUE, !.ionNames = names]
           new == [f \in DOMAIN c |-> IF f \in Spatial!Flags
                                      THEN Spatial!Resized(c[f], Len(names)) ELSE found[f]]
           d == Spatial!InitFilter(c, r)
<1>1. Kin(c, c) /\ DOMAIN c = DOMAIN Spatial!New BY DEF Whole, Kin, New
<1>2. {"haveRangeParent", "ionNames", "algorithm"} \subseteq DOMAIN c
      /\ Spatial!Flags \subseteq DOMAIN c
      /\ {"haveRangeParent", "ionNames", "algorithm"} \cap Spatial!Flags = {}
  BY <1>1 DEF Spatial!New, Spatial!Flags
<1>3. Spatial!NoRange = NoRange BY DEF Spatial!NoRange, NoRange
<1>4. d = IF r = NoRange THEN none
          ELSE IF c.haveRangeParent /\ c.ionNames = names THEN found ELSE new
  BY <1>3, Zenon DEF Spatial!InitFilter
<1>5. \A f \in Spatial!Flags : Array(c[f])
      /\ (c.haveRangeParent => DOMAIN c[f] = 1..Len(c.ionNames))
  BY DEF Sound
<1> DEFINE Right(e) ==
        /\ Kin(c, e) /\ e.algorithm = c.algorithm
        /\ \A f \in DOMAIN c \ ({"haveRangeParent", "ionNames"} \cup Spatial!Flags) : e[f] = c[f]
        /\ \A f \in Spatial!Flags : Array(e[f])
        /\ r # NoRange => \A f \in Spatial!Flags : DOMAIN e[f] = 1..Len(names)
        /\ \A f \in Spatial!Flags : r # NoRange /\ DOMAIN c[f] = 1..Len(names) => e[f] = c[f]
<1>6. ASSUME r = NoRange
      PROVE  Right(none) /\ none.haveRangeParent = FALSE
             /\ \A f \in Spatial!Flags : none[f] = c[f]
  BY <1>1, <1>2, <1>5, <1>6 DEF Kin
<1>7. found.haveRangeParent = TRUE /\ found.ionNames = names /\ Kin(c, found)
      /\ \A f \in DOMAIN c \ {"haveRangeParent", "ionNames"} : found[f] = c[f]
  BY <1>1, <1>2 DEF Kin
<1> HIDE DEF found, none, names
<1>8. ASSUME c.haveRangeParent, c.ionNames = names PROVE Right(found)
  BY <1>2, <1>5, <1>7, <1>8
<1>9. Right(new) /\ new.haveRangeParent = TRUE /\ new.ionNames = names
  <2>1. /\ \A f \in Spatial!Flags : new[f] = Spatial!Resized(c[f], Len(names))
        /\ \A f \in DOMAIN c \ Spatial!Flags : new[f] = found[f]
        /\ Kin(c, new)
    BY <1>2 DEF Kin
  <2>2. ASSUME NEW x
        PROVE  LET y == Spatial!Resized(x, Len(names))
               IN  /\ DOMAIN y = 1..Len(names) /\ Array(y)
                   /\ Array(x) /\ DOMAIN x = 1..Len(names) => y = x
    BY DEF Spatial!Resized, Array
  <2> HIDE DEF new
  <2> QED BY <1>2, <1>5, <1>7, <2>1, <2>2
<1> HIDE DEF new
<1>10. Right(d) /\ SpatialReady(d, r)
  <2>1. CASE r = NoRange BY <1>4, <1>6, <2>1 DEF SpatialReady
  <2>2. CASE r # NoRange
    BY <1>4, <1>7, <1>8, <1>9, <2>2 DEF SpatialReady, names
  <2> QED BY <2>1, <2>2
<1>11. r = NoRange => \A f \in Spatial!Flags : d[f] = c[f] BY <1>4, <1>6
<1>12. Settled("spatialAnalysis", d, r) BY <1>10 DEF Settled, names
<1>13. Sane("spatialAnalysis", d) BY <1>10 DEF Sane
<1>14. Sound("spatialAnalysis", d) BY <1>10 DEF Sound, SpatialReady, names
<1>15. ASSUME Settled("spatialAnalysis", c, r) PROVE Alike(d, c, {"ionNames"})
  <2>1. r # NoRange => \A f \in Spatial!Flags : DOMAIN c[f] = 1..Len(names)
    BY <1>15 DEF Settled, names
  <2>2. \A f \in Spatial!Flags : d[f] = c[f] BY <1>10, <1>11, <2>1
  <2> QED BY <1>10, <2>2 DEF Alike, Transient, Kin
<1> HIDE DEF d
<1> QED BY <1>10, <1>12, <1>13, <1>14, <1>15 DEF d

Distinct(names) == \A i, j \in DOMAIN names : names[i] = names[j] => i = j

\* The flags that are carried over are those that were, if the ions are the same.
LEMMA CarriedOver ==
    ASSUME NEW c, NEW names \in Seq(STRING), c.ionNames = names,
           Distinct(names), NEW flags, Array(flags), DOMAIN flags = DOMAIN names, NEW v
    PROVE  Cluster!Carried(c, names, flags, v) = flags
<1> DEFINE was(i) == {j \in DOMAIN c.ionNames : c.ionNames[j] = names[i]}
           last(i) == CHOOSE j \in was(i) : \A k \in was(i) : k <= j
           x == [i \in DOMAIN names |-> IF was(i) = {} THEN v ELSE flags[last(i)]]
<1>1. Cluster!Carried(c, names, flags, v) = x BY Zenon DEF Cluster!Carried
<1>2. ASSUME NEW i \in DOMAIN names PROVE x[i] = flags[i]
  <2>1. was(i) = {i} BY <1>2 DEF Distinct
  <2>2. last(i) = i
    <3>1. i \in Nat BY <1>2
    <3>2. i \in was(i) /\ \A k \in was(i) : k <= i BY <2>1, <3>1
    <3>3. last(i) \in was(i) BY <3>2, Zenon
    <3> QED BY <2>1, <3>3
  <2> HIDE DEF was, last
  <2> QED BY <1>2, <2>1, <2>2
<1>3. x = flags
  <2>1. DOMAIN x = DOMAIN names /\ Array(x) BY DEF Array
  <2> HIDE DEF x
  <2> QED BY <1>2, <2>1 DEF Array
<1> QED BY <1>1, <1>3

LEMMA ClusterKeeps ==
    ASSUME NEW c, Whole("clusterAnalysis", c), Sound("clusterAnalysis", c), NEW r,
           Settled("clusterAnalysis", c, r), DOMAIN c.ionCoreEnabled = DOMAIN c.ionNames,
           r # NoRange => LET names == Cluster!EnabledNames(r)
                          IN  names \in Seq(STRING) /\ Distinct(names)
    PROVE  Alike(Cluster!InitFilter(c, r), c, {})
<1> DEFINE names == Cluster!EnabledNames(r)
           none == [c EXCEPT !.haveRangeParent = FALSE]
           found == [c EXCEPT !.haveRangeParent = TRUE, !.ionNames = names]
           new == [found EXCEPT !.ionCoreEnabled = Cluster!Carried(c, names, @, FALSE),
                                !.ionBulkEnabled = Cluster!Carried(c, names, @, TRUE)]
           d == Cluster!InitFilter(c, r)
<1>1. Kin(c, c) /\ DOMAIN c = DOMAIN Cluster!New BY DEF Whole, Kin, New
<1>2. {"haveRangeParent", "ionNames", "ionCoreEnabled", "ionBulkEnabled"} \subseteq DOMAIN c
  BY <1>1 DEF Cluster!New
<1>3. Cluster!NoRange = NoRange BY DEF Cluster!NoRange, NoRange
<1>4. d = IF r = NoRange THEN none ELSE IF ~Cluster!Different(c, r) THEN found ELSE new
  BY <1>3, Zenon DEF Cluster!InitFilter
<1>5. Alike(none, c, {}) BY <1>1, <1>2 DEF Alike, Transient
<1>6. CASE r = NoRange BY <1>4, <1>5, <1>6
<1>7. CASE r # NoRange
  <2>1. c.ionNames = names BY <1>7 DEF Settled
  <2>2. DOMAIN found = DOMAIN c /\ \A f \in DOMAIN c \ {"haveRangeParent"} : found[f] = c[f]
    BY <1>1, <1>2, <2>1
  <2>3. names \in Seq(STRING) /\ Distinct(names) BY <1>7
  <2> HIDE DEF names
  <2>4. /\ Array(c.ionCoreEnabled) /\ Array(c.ionBulkEnabled)
        /\ DOMAIN c.ionCoreEnabled = DOMAIN names /\ DOMAIN c.ionBulkEnabled = DOMAIN names
    BY <2>1 DEF Sound
  <2>5. /\ Cluster!Carried(c, names, c.ionCoreEnabled, FALSE) = c.ionCoreEnabled
        /\ Cluster!Carried(c, names, c.ionBulkEnabled, TRUE) = c.ionBulkEnabled
    <3>1. ASSUME NEW flags, NEW v, Array(flags), DOMAIN flags = DOMAIN names
          PROVE  Cluster!Carried(c, names, flags, v) = flags
      BY <2>1, <2>3, <3>1, CarriedOver
    <3> QED BY <2>4, <3>1
  <2> HIDE DEF found
  <2>6. DOMAIN new = DOMAIN c /\ \A f \in DOMAIN c \ {"haveRangeParent"} : new[f] = c[f]
    BY <1>2, <2>2, <2>5
  <2> HIDE DEF new
  <2>7. d \in {found, new} BY <1>4, <1>7
  <2> HIDE DEF d
  <2>8. Alike(d, c, {}) BY <2>2, <2>6, <2>7 DEF Alike, Transient
  <2> QED BY <2>8 DEF d
<1> QED BY <1>6, <1>7

\* The flags of a cluster analysis are changed for both sorts alike.
LEMMA ClusterSound ==
    ASSUME NEW c, Whole("clusterAnalysis", c), Sound("clusterAnalysis", c), NEW stored,
           NEW a \in Cluster!Answers(c, stored)
    PROVE  Sound("clusterAnalysis", a.conf)
<1>1. PICK p \in Cluster!Shown(c) :
        a \in {Cluster!SetProperty(c, p[1], p[2], v) : v \in Cluster!Inputs(p[1])}
  BY Zenon DEF Cluster!Answers
<1>2. PICK v : a = Cluster!SetProperty(c, p[1], p[2], v) BY <1>1
<1> DEFINE key == p[1]
           i == p[2]
<1>3. a = Cluster!SetProperty(c, key, i, v) BY <1>2
<1>4. Kin(c, c) /\ DOMAIN c = DOMAIN Cluster!New BY DEF Whole, Kin, New
<1>5. {"ionCoreEnabled", "ionBulkEnabled"} \subseteq DOMAIN c BY <1>4 DEF Cluster!New
<1>6. key \notin {"ionCoreEnabled", "ionBulkEnabled"}
  BY DEF Cluster!Shown, Cluster!ShownLinking, Cluster!ShownResults, Cluster!ShownIons
<1>7. /\ Array(c.ionCoreEnabled) /\ Array(c.ionBulkEnabled)
      /\ DOMAIN c.ionCoreEnabled = DOMAIN c.ionBulkEnabled
  BY DEF Sound
<1> HIDE DEF key, i
<1>9. \A d : /\ Refuse(c).conf = c /\ Ignore(c).conf = c /\ Changed(d).conf = d
             /\ Patched(d).conf = d
             /\ Misfit(d, TRUE).conf = d /\ Misfit(d, FALSE).conf = d
             /\ Uncleared(d, FALSE).conf = d
  BY DEF Refuse, Ignore, Changed, Patched, Misfit, Uncleared, Answer
<1> DEFINE Same(d) == d.ionCoreEnabled = c.ionCoreEnabled /\ d.ionBulkEnabled = c.ionBulkEnabled
<1>8. ASSUME NEW w PROVE Same([c EXCEPT ![key] = w]) BY <1>5, <1>6
<1>10. CASE key \notin {"core", "bulk", "allBulk"}
  <2> SUFFICES Same(a.conf) BY <1>7 DEF Sound
  <2>1. CASE key \in {"coreDist", "coreKNN", "linkDist", "bulkLink", "dErosion"}
    <3> DEFINE d == [c EXCEPT ![key] = v]
    <3>1. a \in {Refuse(c), Changed(d)}
      BY <1>3, <2>1, ClusterSame DEF Cluster!SetProperty, Cluster!SetDistance, Assign
    <3>2. Same(d) BY <1>8
    <3> HIDE DEF d
    <3> QED BY <1>9, <3>1, <3>2
  <2>2. CASE key \in {"nMin", "nMax"}
    <3> DEFINE x == IF key = "nMax" /\ v = 0 THEN Cluster!MaxSize ELSE v
    <3>1. a = Cluster!SetCrop(c, key, v) BY <1>3, <2>2 DEF Cluster!SetProperty
    <3>2. a = IF [c EXCEPT ![key] = x].nMin > [c EXCEPT ![key] = x].nMax
              THEN Cluster!Refuse(c) ELSE Cluster!Changed([c EXCEPT ![key] = x])
      BY <3>1, Zenon DEF Cluster!SetCrop
    <3> HIDE DEF x
    <3> DEFINE d == [c EXCEPT ![key] = x]
    <3>3. a \in {Refuse(c), Changed(d)} BY <3>2, ClusterSame
    <3>4. Same(d) BY <1>8
    <3> HIDE DEF d
    <3> QED BY <1>9, <3>3, <3>4
  <2>3. CASE key \in {"wantClusterSizeDist", "wantClusterComposition", "logClusterSize"}
    <3> DEFINE d == [c EXCEPT ![key] = v]
    <3>1. a \in {Ignore(c), Changed(d), Patched(d), Misfit(d, TRUE)}
      BY <1>3, <2>3, ClusterSame
         DEF Cluster!SetProperty, Cluster!SetSizeDist, Cluster!SetComposition, Cluster!SetLog
    <3>2. Same(d) BY <1>8
    <3> HIDE DEF d
    <3> QED BY <1>9, <3>1, <3>2
  <2>4. CASE key = "wantClusterID"
    <3> DEFINE d == [c EXCEPT !.wantClusterID = v, !.wantClusterComposition = FALSE]
    <3>1. a = Cluster!SetClusterID(c, v) BY <1>3, <2>4 DEF Cluster!SetProperty
    <3>2. a \in {Changed(d), Ignore(c), Misfit(d, FALSE)}
      BY <3>1, ClusterSame DEF Cluster!SetClusterID
    <3>3. Same(d) BY <1>5
    <3> HIDE DEF d
    <3> QED BY <1>9, <3>2, <3>3
  <2>5. CASE key = "normaliseComposition"
    <3> DEFINE d == [c EXCEPT !.normaliseComposition = v, !.wantClusterID = FALSE]
    <3>1. a = Cluster!SetNormalise(c, v) BY <1>3, <2>5 DEF Cluster!SetProperty
    <3>2. a \in {Uncleared(d, FALSE), Changed(d)}
      BY <3>1, ClusterSame DEF Cluster!SetNormalise
    <3>3. Same(d) BY <1>5
    <3> HIDE DEF d
    <3> QED BY <1>9, <3>2, <3>3
  <2>6. CASE key \notin {"coreDist", "coreKNN", "linkDist", "bulkLink", "dErosion", "nMin",
                         "nMax", "wantClusterSizeDist", "wantClusterComposition",
                         "logClusterSize", "wantClusterID", "normaliseComposition"}
    <3> DEFINE d == [c EXCEPT ![key] = v]
    <3>1. a \in {Ignore(c), Changed(d)}
      BY <1>3, <1>10, <2>6, ClusterSame DEF Cluster!SetProperty, ApplyPropertyNow, Assign
    <3>2. Same(d) BY <1>8
    <3> HIDE DEF d
    <3> QED BY <1>9, <3>1, <3>2
  <2> QED BY <2>1, <2>2, <2>3, <2>4, <2>5, <2>6
<1>11. CASE key \in {"core", "bulk"}
  <2> DEFINE of == IF key = "core" THEN "ionCoreEnabled" ELSE "ionBulkEnabled"
             other == IF key = "core" THEN "ionBulkEnabled" ELSE "ionCoreEnabled"
             d == [c EXCEPT ![of][i] = v, ![other][i] = @ /\ ~v]
  <2>1. a = Cluster!SetIon(c, of, other, i, v) BY <1>3, <1>11 DEF Cluster!SetProperty
  <2>0. {of, other} \subseteq {"ionCoreEnabled", "ionBulkEnabled"} OBVIOUS
  <2> HIDE DEF of, other
  <2>2. a = Refuse(c) \/ a = Changed(d) BY <2>1, ClusterSame, Zenon DEF Cluster!SetIon
  <2>3. /\ Array(d.ionCoreEnabled) /\ Array(d.ionBulkEnabled)
        /\ DOMAIN d.ionCoreEnabled = DOMAIN c.ionCoreEnabled
        /\ DOMAIN d.ionBulkEnabled = DOMAIN c.ionBulkEnabled
    BY <1>5, <1>7, <2>0 DEF Array
  <2> HIDE DEF d
  <2> QED BY <1>7, <1>9, <2>2, <2>3 DEF Sound
<1>12. CASE key = "allBulk"
  <2> DEFINE d == [c EXCEPT !.ionBulkEnabled = [j \in DOMAIN @ |-> v],
                            !.ionCoreEnabled = [j \in DOMAIN @ |-> @[j] /\ ~v]]
  <2>1. a = Cluster!SetAllBulk(c, v) BY <1>3, <1>12 DEF Cluster!SetProperty
  <2>2. a = Misfit(d, FALSE) BY <2>1, ClusterSame, Zenon DEF Cluster!SetAllBulk
  <2>3. /\ Array(d.ionCoreEnabled) /\ Array(d.ionBulkEnabled)
        /\ DOMAIN d.ionCoreEnabled = DOMAIN c.ionCoreEnabled
        /\ DOMAIN d.ionBulkEnabled = DOMAIN c.ionBulkEnabled
    BY <1>5, <1>7 DEF Array
  <2> HIDE DEF d
  <2> QED BY <1>7, <1>9, <2>2, <2>3 DEF Sound
<1> QED BY <1>10, <1>11, <1>12

\* The flags of a spatial analysis are set one by one, or all.
LEMMA SpatialSound ==
    ASSUME NEW c, Whole("spatialAnalysis", c), Sound("spatialAnalysis", c), NEW stored, NEW r,
           NEW a \in Spatial!Answers(c, stored) \cup Spatial!Drags(c)
    PROVE  /\ Sound("spatialAnalysis", a.conf)
           /\ Settled("spatialAnalysis", c, r) => Settled("spatialAnalysis", a.conf, r)
<1> DEFINE Same(d) == /\ d.haveRangeParent = c.haveRangeParent /\ d.ionNames = c.ionNames
                      /\ \A f \in Spatial!Flags : Array(d[f]) /\ DOMAIN d[f] = DOMAIN c[f]
<1> SUFFICES Same(a.conf) BY DEF Sound, Settled
<1>1. Kin(c, c) /\ DOMAIN c = DOMAIN Spatial!New BY DEF Whole, Kin, New
<1>2. {"haveRangeParent", "ionNames", "vectorParams", "scalarParams"} \subseteq DOMAIN c
      /\ Spatial!Flags \subseteq DOMAIN c
      /\ {"haveRangeParent", "ionNames"} \cap Spatial!Flags = {}
      /\ {"vectorParams", "scalarParams", "algorithm", "nnMax"} \cap Spatial!Flags = {}
  BY <1>1 DEF Spatial!New, Spatial!Flags
<1>3. \A f \in Spatial!Flags : Array(c[f]) BY DEF Sound
<1>4. \A d : /\ Refuse(c).conf = c /\ Ignore(c).conf = c /\ Changed(d).conf = d
             /\ Patched(d).conf = d
  BY DEF Refuse, Ignore, Changed, Patched, Answer
<1>5. Same(c) BY <1>3
<1>6. ASSUME NEW f, f \notin {"haveRangeParent", "ionNames"} \cup Spatial!Flags, NEW w
      PROVE  Same([c EXCEPT ![f] = w])
  BY <1>2, <1>3, <1>6
<1>7. ASSUME NEW f \in Spatial!Flags, NEW w, Array(w), DOMAIN w = DOMAIN c[f]
      PROVE  Same([c EXCEPT ![f] = w])
  BY <1>2, <1>3, <1>7
<1>8. ASSUME NEW f, f \notin {"haveRangeParent", "ionNames"}, NEW j, NEW w
      PROVE  Same(ApplyIth(c, f, j, w).conf)
  <2> DEFINE x == [c[f] EXCEPT ![j] = w]
             d == [c EXCEPT ![f] = x]
  <2>1. ApplyIth(c, f, j, w) \in {Ignore(c), Refuse(c), Changed(d)}
    BY DEF ApplyIth, AssignIth
  <2>2. Array(x) /\ DOMAIN x = DOMAIN c[f] BY DEF Array
  <2> HIDE DEF x
  <2>3. Same(d)
    <3>1. CASE f \in Spatial!Flags BY <1>7, <2>2, <3>1
    <3>2. CASE f \notin Spatial!Flags BY <1>6, <1>8, <3>2
    <3> QED BY <3>1, <3>2
  <2> HIDE DEF d
  <2> QED BY <1>4, <1>5, <2>1, <2>3
<1>9. ASSUME NEW f, f \notin {"haveRangeParent", "ionNames"} \cup Spatial!Flags, NEW w
      PROVE  Same(Changed([c EXCEPT ![f] = w]).conf) /\ Same(Patched([c EXCEPT ![f] = w]).conf)
  <2> DEFINE d == [c EXCEPT ![f] = w]
  <2>1. Same(d) BY <1>6, <1>9
  <2> SUFFICES Same(Changed(d).conf) /\ Same(Patched(d).conf) OBVIOUS
  <2> HIDE DEF d
  <2> QED BY <1>4, <2>1
<1>10. CASE a \in Spatial!Drags(c)
  <2>1. \/ a = Changed([c EXCEPT !.scalarParams = <<2>>])
        \/ a = Changed([c EXCEPT !.vectorParams[2] = "d"])
        \/ a = Changed([c EXCEPT !.vectorParams[1] = "d"])
    BY <1>10, SpatialSame DEF Spatial!Drags
  <2>2. PICK f \in {"vectorParams", "scalarParams"}, w \in
          {<<2>>, [c.vectorParams EXCEPT ![2] = "d"], [c.vectorParams EXCEPT ![1] = "d"]} :
             a = Changed([c EXCEPT ![f] = w])
    BY <2>1
  <2> DEFINE d == [c EXCEPT ![f] = w]
  <2>3. Same(d) BY <1>2, <1>6
  <2>4. a = Changed(d) BY <2>2
  <2> HIDE DEF d
  <2> QED BY <1>4, <2>3, <2>4
<1>11. CASE a \in Spatial!Answers(c, stored)
  <2>1. PICK p \in Spatial!Shown(c) :
          a \in {Spatial!SetProperty(c, p[1], p[2], v) : v \in Spatial!Inputs(p[1])}
    BY <1>11, Zenon DEF Spatial!Answers
  <2>2. PICK v : a = Spatial!SetProperty(c, p[1], p[2], v) BY <2>1
  <2> DEFINE key == p[1]
             i == p[2]
  <2>3. a = Spatial!SetProperty(c, key, i, v) BY <2>2
  <2>4. key \notin {"haveRangeParent", "ionNames"}
    <3> DEFINE keys == {"algorithm"} \cup Spatial!ShownStop(c) \cup Spatial!ShownOwn(c)
                        \cup Spatial!ShownFlags(c)
               flags == Spatial!ShownFlags(c)
    <3>1. /\ Spatial!ShownFlags(c) \subseteq Spatial!Flags
          /\ keys \cap {"haveRangeParent", "ionNames"} = {}
      BY DEF Spatial!ShownStop, Spatial!ShownOwn, Spatial!ShownFlags, Spatial!Flags
    <3>2. \/ p \in {<<k, 0>> : k \in keys}
          \/ p \in {q \in flags \X (1..Len(c.ionNames)) : q[2] \in DOMAIN c[q[1]]}
      BY Zenon DEF Spatial!Shown
    <3> HIDE DEF keys, flags
    <3>3. p[1] \in keys \cup flags BY <3>2
    <3> QED BY <1>2, <3>1, <3>3 DEF flags
  <2> HIDE DEF key, i
  <2>5. CASE key \notin {"algorithm", "rgba", "normal", "radius", "origin"} \cup Spatial!Flags
    <3>1. \/ a \in {Refuse(c), Ignore(c), Changed([c EXCEPT ![key] = v])}
          \/ key = "densityCutoff" /\ a = Changed([c EXCEPT ![key] = v])
      BY <2>3, <2>5, SpatialSame DEF Spatial!SetProperty, Spatial!SetNumber, Spatial!SetCutoff,
         ApplyPropertyNow, Assign
    <3> QED BY <1>4, <1>5, <1>9, <2>4, <2>5, <3>1
  <2>6. CASE key = "algorithm"
    <3> DEFINE new == [c EXCEPT !.algorithm = v,
                                !.nnMax = IF v = "local conc." /\ @ < 2 THEN 2 ELSE @]
               d == Spatial!WithParams(new)
    <3>1. a = Spatial!SetAlgorithm(c, v) BY <2>3, <2>6 DEF Spatial!SetProperty, Spatial!Flags
    <3>2. a = Changed(d)
      <4>1. a = Spatial!Changed(d) BY <3>1 DEF Spatial!SetAlgorithm
      <4> HIDE DEF d
      <4> QED BY <4>1, SpatialSame
    <3>3. /\ \A f \in {"haveRangeParent", "ionNames"} \cup Spatial!Flags : new[f] = c[f]
          /\ DOMAIN new = DOMAIN c
      BY <1>2
    <3> HIDE DEF new
    <3>4. \A f \in {"haveRangeParent", "ionNames"} \cup Spatial!Flags : d[f] = new[f]
      BY <1>2, <3>3 DEF Spatial!WithParams
    <3> HIDE DEF d
    <3>5. Same(d) BY <1>5, <3>3, <3>4
    <3> QED BY <1>4, <3>2, <3>5
  <2>7. CASE key = "rgba"
    <3> DEFINE d == [c EXCEPT !.rgba = v]
    <3>1. a \in {Ignore(c), Patched(d)}
      BY <2>3, <2>7, SpatialSame DEF Spatial!SetProperty, Spatial!SetColour, Spatial!Flags
    <3>2. "rgba" \notin {"haveRangeParent", "ionNames"} \cup Spatial!Flags
      BY DEF Spatial!Flags
    <3>3. Same(d) BY <1>2, <1>3, <3>2
    <3> HIDE DEF d
    <3> QED BY <1>4, <1>5, <3>1, <3>3
  <2>8. CASE key \in {"normal", "radius", "origin"} \cup Spatial!Flags
    <3> DEFINE every == \A j \in DOMAIN c[key] : c[key][j]
               all == [j \in DOMAIN c[key] |-> ~every]
    <3>1. \/ a \in {Refuse(c), ApplyIth(c, "vectorParams", 1, v), ApplyIth(c, "vectorParams", 2, v),
                    ApplyIth(c, "scalarParams", 1, v)}
          \/ key \in Spatial!Flags /\ a \in {ApplyIth(c, key, i, v), Spatial!SetAll(c, key)}
      BY <2>3, <2>8, SpatialSame
         DEF Spatial!SetProperty, Spatial!SetNormal, Spatial!SetRadius, Spatial!Flags
    <3>2. Spatial!SetAll(c, key) = Changed([c EXCEPT ![key] = all])
      BY SpatialSame, Zenon DEF Spatial!SetAll, Assign
    <3>3. Array(all) /\ DOMAIN all = DOMAIN c[key] BY DEF Array
    <3> HIDE DEF all
    <3> DEFINE d == [c EXCEPT ![key] = all]
    <3>4. key \in Spatial!Flags => Same(d) BY <1>7, <3>3
    <3> HIDE DEF d
    <3>5. key \in Spatial!Flags => Same(Spatial!SetAll(c, key).conf)
      BY <1>4, <3>2, <3>4 DEF d
    <3> QED BY <1>4, <1>5, <1>8, <2>4, <3>1, <3>5
  <2> QED BY <2>5, <2>6, <2>7, <2>8
<1> QED BY <1>10, <1>11

\* The origin that is computed takes the place of the first vector.
LEMMA TransformRefreshed ==
    ASSUME NEW c, Whole("transform", c)
    PROVE  LET d == Transf!Refreshed(c)
           IN  /\ Kin(c, d) /\ Transf!Refreshed(d) = d
               /\ Alike(d, c, IF c.originMode # "select" THEN {"vectorParams"} ELSE {})
<1> DEFINE d == Transf!Refreshed(c)
           v == [c.vectorParams EXCEPT ![1] = c.originMode]
           new == [c EXCEPT !.vectorParams = v]
<1>1. Kin(c, c) /\ {"originMode", "vectorParams"} \subseteq DOMAIN c
  BY DEF Whole, Kin, New, Transf!New
<1>2. d = IF c.originMode = "select" \/ c.vectorParams = <<>> THEN c ELSE new
  BY DEF Transf!Refreshed
<1>3. Alike(c, c, {}) BY DEF Alike
<1>4. CASE c.originMode = "select" \/ c.vectorParams = <<>>
  <2>1. d = c BY <1>2, <1>4
  <2> QED BY <1>1, <2>1 DEF Alike
<1>5. CASE ~(c.originMode = "select" \/ c.vectorParams = <<>>)
  <2>1. d = new BY <1>2, <1>5
  <2>2. [v EXCEPT ![1] = c.originMode] = v OBVIOUS
  <2> HIDE DEF v
  <2>3. /\ Kin(c, new) /\ new.originMode = c.originMode /\ new.vectorParams = v
        /\ \A f \in DOMAIN c \ {"vectorParams"} : new[f] = c[f]
    BY <1>1, KinExcept
  <2>4. Transf!Refreshed(new) \in {new, [new EXCEPT !.vectorParams = v]}
    BY <2>2, <2>3 DEF Transf!Refreshed
  <2>5. [new EXCEPT !.vectorParams = v] = new BY <1>1
  <2> HIDE DEF new, d
  <2>6. Alike(new, c, {"vectorParams"}) BY <2>3 DEF Alike, Kin
  <2> QED BY <1>5, <2>1, <2>3, <2>4, <2>5, <2>6 DEF d
<1> QED BY <1>4, <1>5

LEMMA SpectrumRefreshed ==
    ASSUME NEW c, Whole("spectrumPlot", c), Sane("spectrumPlot", c), NEW r
    PROVE  LET d == Spectrum!Refreshed(c, r)
           IN  /\ Kin(c, d) /\ Sane("spectrumPlot", d) /\ Spectrum!Refreshed(d, r) = d
               /\ Alike(d, c, IF c.autoExtrema THEN {"minPlot", "maxPlot", "binWidth"}
                              ELSE IF c.binWidth > c.maxPlot - c.minPlot THEN {"binWidth"}
                              ELSE {})
<1> DEFINE d == Spectrum!Refreshed(c, r)
           lo == Spectrum!Least(r) - 20
           hi == Spectrum!Greatest(r) + 20
           e == Spectrum!Extrema(c, r)
           w == e.maxPlot - e.minPlot
           new == [e EXCEPT !.binWidth = (w + 9) \div 10]
<1>1. Kin(c, c) /\ DOMAIN c = DOMAIN Spectrum!New BY DEF Whole, Kin, New
<1>2. {"minPlot", "maxPlot", "binWidth", "autoExtrema"} \subseteq DOMAIN c
  BY <1>1 DEF Spectrum!New
<1>3. e = IF ~c.autoExtrema THEN c ELSE [c EXCEPT !.minPlot = lo, !.maxPlot = hi]
  BY DEF Spectrum!Extrema
<1>4. d = IF w \div c.binWidth > 0 THEN e ELSE new
  BY DEF Spectrum!Refreshed
<1>5. lo \in Int /\ hi \in Int /\ lo < hi BY DEF Spectrum!Least, Spectrum!Greatest
<1>6. /\ c.minPlot \in Int /\ c.maxPlot \in Int /\ c.minPlot < c.maxPlot
      /\ c.binWidth \in Nat \ {0}
  BY DEF Sane
<1> HIDE DEF lo, hi
<1>7. /\ Kin(c, e) /\ e.binWidth = c.binWidth /\ e.autoExtrema = c.autoExtrema
      /\ IF c.autoExtrema THEN e.minPlot = lo /\ e.maxPlot = hi ELSE e = c
      /\ \A f \in DOMAIN c \ {"minPlot", "maxPlot"} : e[f] = c[f]
  BY <1>1, <1>2, <1>3 DEF Kin
<1>8. w \in Nat \ {0} BY <1>5, <1>6, <1>7
<1>9. /\ Kin(c, new) /\ new.binWidth = (w + 9) \div 10
      /\ \A f \in DOMAIN c \ {"binWidth"} : new[f] = e[f]
  <2> HIDE DEF e, w
  <2> QED BY <1>2, <1>7, KinExcept DEF Kin
<1> HIDE DEF new, w, e
<1>10. new.minPlot = e.minPlot /\ new.maxPlot = e.maxPlot /\ new.autoExtrema = e.autoExtrema
  BY <1>2, <1>9
<1>11. (w + 9) \div 10 \in Nat \ {0} BY <1>8, SMT
<1>12. w = e.maxPlot - e.minPlot BY DEF w
<1>13. Kin(c, d) /\ d.minPlot = e.minPlot /\ d.maxPlot = e.maxPlot /\ d.autoExtrema = c.autoExtrema
       /\ d.binWidth \in Nat \ {0}
       /\ d.binWidth = IF w \div c.binWidth > 0 THEN c.binWidth ELSE (w + 9) \div 10
  BY <1>4, <1>6, <1>7, <1>9, <1>10, <1>11
<1>14. Sane("spectrumPlot", d) BY <1>5, <1>6, <1>7, <1>13 DEF Sane
<1>15. SpectrumSettled(d, r)
  <2>1. w \div c.binWidth > 0 => w \div d.binWidth > 0 BY <1>13
  <2>2. ~(w \div c.binWidth > 0) => d.binWidth = (w + 9) \div 10 BY <1>13
  <2>3. d.autoExtrema => d.minPlot = lo /\ d.maxPlot = hi BY <1>7, <1>13
  <2> HIDE DEF d
  <2> QED BY <1>12, <1>13, <2>1, <2>2, <2>3 DEF SpectrumSettled, lo, hi
<1> HIDE DEF d
<1>16. Spectrum!Refreshed(d, r) = d
  <2>1. d = [f \in DOMAIN d |-> d[f]] /\ DOMAIN d = DOMAIN Spectrum!New
    BY <1>1, <1>13 DEF Kin
  <2> QED BY <1>15, <2>1, SpectrumSteady
<1>17. Alike(d, c, IF c.autoExtrema THEN {"minPlot", "maxPlot", "binWidth"}
                   ELSE IF c.binWidth > c.maxPlot - c.minPlot THEN {"binWidth"} ELSE {})
  <2>1. \A f \in DOMAIN c \ {"minPlot", "maxPlot", "binWidth"} : d[f] = c[f]
    BY <1>4, <1>7, <1>9 DEF d
  <2>2. DOMAIN d = DOMAIN c BY <1>13 DEF Kin
  <2>3. CASE c.autoExtrema BY <2>1, <2>2, <2>3 DEF Alike
  <2>4. CASE ~c.autoExtrema /\ c.binWidth > c.maxPlot - c.minPlot
    <3>1. d.minPlot = c.minPlot /\ d.maxPlot = c.maxPlot BY <1>7, <1>13, <2>4
    <3>2. \A f \in DOMAIN c \ {"binWidth"} : d[f] = c[f] BY <2>1, <3>1
    <3> QED BY <2>2, <2>4, <3>2 DEF Alike
  <2>5. CASE ~c.autoExtrema /\ ~(c.binWidth > c.maxPlot - c.minPlot)
    <3>1. w = c.maxPlot - c.minPlot BY <1>7, <1>12, <2>5
    <3>2. w \div c.binWidth > 0 BY <1>6, <2>5, <3>1, SMT
    <3>3. d = c BY <1>4, <1>7, <2>5, <3>2 DEF d
    <3> QED BY <2>5, <3>3 DEF Alike
  <2> QED BY <2>3, <2>4, <2>5
<1> QED BY <1>13, <1>14, <1>16, <1>17 DEF d

-----------------------------------------------------------------------------
(* Settings of a new filter, and what initFilter makes of those of any kind.*)

\* Settings of a filter that have not met the ranges: of a new one, of a file, or
\* without what is kept besides the cache.
Raw(k, c) ==
    /\ Whole(k, c) /\ Sane(k, c) /\ Sound(k, c)
    /\ k = "voxelise" => /\ c.voxelCache = <<>>
                         /\ c.vdbCache = <<>> \/ c.vdbCache[3] # NoRange

Good(k, c, r) == Whole(k, c) /\ Sane(k, c) /\ Sound(k, c) /\ Settled(k, c, r)

\* Settings each of which is one of c or one of new.
Mixed(new, c, d) ==
    Kin(new, d) /\ \A f \in DOMAIN new : d[f] \in {c[f], new[f]}

LEMMA TakingMixes ==
    ASSUME NEW new, NEW c, NEW fs
    PROVE  LET d == Taking(new, c, fs)
           IN  /\ Mixed(new, c, d)
               /\ \A f \in DOMAIN new : d[f] = IF f \in fs THEN c[f] ELSE new[f]
BY DEF Taking, Mixed, Kin

LEMMA TakingSame ==
    ASSUME NEW new, NEW c, NEW fs
    PROVE  /\ Clip!Taking(new, c, fs) = Taking(new, c, fs)
           /\ Colour!Taking(new, c, fs) = Taking(new, c, fs)
           /\ Downsample!Taking(new, c, fs) = Taking(new, c, fs)
           /\ RangeFile!Taking(new, c, fs) = Taking(new, c, fs)
           /\ Transf!Taking(new, c, fs) = Taking(new, c, fs)
           /\ Box!Taking(new, c, fs) = Taking(new, c, fs)
           /\ Prof!Taking(new, c, fs) = Taking(new, c, fs)
           /\ Cluster!Taking(new, c, fs) = Taking(new, c, fs)
           /\ Info!Taking(new, c, fs) = Taking(new, c, fs)
           /\ Spectrum!Taking(new, c, fs) = Taking(new, c, fs)
           /\ Data!Taking(new, c, fs) = Taking(new, c, fs)
           /\ Program!Taking(new, c, fs) = Taking(new, c, fs)
           /\ Proxi!Taking(new, c, fs) = Taking(new, c, fs)
           /\ Voxel!Taking(new, c, fs) = Taking(new, c, fs)
           /\ Spatial!Taking(new, c, fs) = Taking(new, c, fs)
           /\ Notes!Taking(new, c, fs) = Taking(new, c, fs)
BY DEF Taking, Clip!Taking, Colour!Taking, Downsample!Taking, RangeFile!Taking,
       Transf!Taking, Box!Taking, Prof!Taking, Cluster!Taking, Info!Taking,
       Spectrum!Taking, Data!Taking, Program!Taking, Proxi!Taking, Voxel!Taking,
       Spatial!Taking, Notes!Taking

\* New settings are those of the kind.
LEMMA NewWhole ==
    ASSUME NEW k \in AllKinds
    PROVE  Whole(k, New(k))
<1>1. Kin(Clip!New, Clip!New) BY DEF Kin, Clip!New
<1>2. Kin(Colour!New, Colour!New) BY DEF Kin, Colour!New
<1>3. Kin(Downsample!New, Downsample!New) BY DEF Kin, Downsample!New
<1>4. Kin(RangeFile!New, RangeFile!New) BY DEF Kin, RangeFile!New
<1>5. Kin(Transf!New, Transf!New) BY DEF Kin, Transf!New
<1>6. Kin(Box!New, Box!New) BY DEF Kin, Box!New
<1>7. Kin(Prof!New, Prof!New) BY DEF Kin, Prof!New
<1>8. Kin(Cluster!New, Cluster!New) BY DEF Kin, Cluster!New
<1>9. Kin(Info!New, Info!New) BY DEF Kin, Info!New
<1>10. Kin(Spectrum!New, Spectrum!New) BY DEF Kin, Spectrum!New
<1>11. Kin(Data!New, Data!New) BY DEF Kin, Data!New
<1>12. Kin(Program!New, Program!New) BY DEF Kin, Program!New
<1>13. Kin(Proxi!New, Proxi!New) BY DEF Kin, Proxi!New
<1>14. Kin(Voxel!New, Voxel!New) BY DEF Kin, Voxel!New
<1>15. Kin(Spatial!New, Spatial!New) BY DEF Kin, Spatial!New
<1>16. Kin(Notes!New, Notes!New) BY DEF Kin, Notes!New
<1> QED
  BY <1>1, <1>2, <1>3, <1>4, <1>5, <1>6, <1>7, <1>8,
     <1>9, <1>10, <1>11, <1>12, <1>13, <1>14, <1>15, <1>16
  DEF Whole, New, AllKinds

LEMMA NewRaw ==
    ASSUME NEW k \in AllKinds
    PROVE  Raw(k, New(k))
<1>1. Whole(k, New(k)) BY NewWhole
<1>2. Sane(k, New(k))
  <2>1. CASE k = "ionClip" BY <2>1 DEF Sane, New, Clip!New, Clip!Primitives
  <2>2. CASE k = "ionDownsample"
    <3> DEFINE c == Downsample!New
    <3>1. c.incoming = NoRange BY DEF Downsample!New, Downsample!NoRange, NoRange
    <3>2. /\ c.ionFractions = <<>> /\ c.ionLimits = <<>> /\ c.fraction = 10
          /\ c.maxAfterFilter = 5000
      BY DEF Downsample!New
    <3>3. New(k) = c BY <2>2 DEF New
    <3> HIDE DEF c
    <3>4. <<>> \in Seq(Int) OBVIOUS
    <3>5. Sane(k, c) BY <2>2, <3>1, <3>2, <3>4 DEF Sane, RangeForms
    <3> QED BY <3>3, <3>5
  <2>3. CASE k = "ionInfo" BY <2>3 DEF Sane, New
  <2>4. CASE k = "annotation"
    <3> DEFINE c == Notes!New
    <3>1. /\ c.upVec = <<0, 0, 1>> /\ c.acrossVec = <<0, 1, 0>>
          /\ c.annotationMode = "text"
      BY DEF Notes!New
    <3>2. New(k) = c BY <2>4 DEF New
    <3> HIDE DEF c
    <3>3. Notes!Dot(<<0, 0, 1>>, <<0, 1, 0>>) = 0 BY DEF Notes!Dot
    <3>4. Upright(c.upVec, c.acrossVec) BY <3>1, <3>3 DEF Upright, Units
    <3>5. c.annotationMode \in Notes!Modes BY <3>1 DEF Notes!Modes
    <3> QED BY <2>4, <3>2, <3>4, <3>5 DEF Sane
  <2>5. CASE k = "spectrumPlot" BY <2>5 DEF Sane, New, Spectrum!New
  <2>6. CASE k = "clusterAnalysis" BY <2>6 DEF Sane, New, Cluster!New
  <2>7. CASE k = "voxelise" BY <2>7 DEF Sane, New, Voxel!New
  <2>8. CASE k = "spatialAnalysis" BY <2>8 DEF Sane, New, Spatial!New, Spatial!Algorithms
  <2>9. CASE k \notin {"ionClip", "ionDownsample", "ionInfo", "annotation", "spectrumPlot",
                       "clusterAnalysis", "voxelise", "spatialAnalysis"}
    BY <2>9 DEF Sane
  <2> QED BY <2>1, <2>2, <2>3, <2>4, <2>5, <2>6, <2>7, <2>8, <2>9
<1>3. Sound(k, New(k))
  <2>1. Array(<<>>) BY DEF Array
  <2>2. CASE k = "clusterAnalysis" BY <2>1, <2>2 DEF Sound, New, Cluster!New
  <2>3. CASE k = "spatialAnalysis"
    <3> DEFINE c == Spatial!New
    <3>1. c.haveRangeParent = FALSE /\ \A f \in Spatial!Flags : c[f] = <<>>
      BY DEF Spatial!New, Spatial!Flags
    <3>2. New(k) = c BY <2>3 DEF New
    <3> HIDE DEF c
    <3> QED BY <2>1, <2>3, <3>1, <3>2 DEF Sound
  <2>4. CASE k \notin {"clusterAnalysis", "spatialAnalysis"} BY <2>4 DEF Sound
  <2> QED BY <2>2, <2>3, <2>4
<1>4. k = "voxelise" => New(k).voxelCache = <<>> /\ New(k).vdbCache = <<>>
  BY DEF New, Voxel!New
<1> QED BY <1>1, <1>2, <1>3, <1>4 DEF Raw

\* What a voxelisation keeps may be missing.
Unmade(c) == c.voxelCache = <<>> /\ (c.vdbCache = <<>> \/ c.vdbCache[3] # NoRange)

\* Settings from which initFilter makes good ones.
Usable(k, c, r) ==
    /\ Whole(k, c) /\ Sane(k, c) /\ Sound(k, c)
    /\ k = "voxelise" => VoxSound(c, r) \/ Unmade(c)

LEMMA UsableForms ==
    ASSUME NEW k, NEW c, NEW r
    PROVE  (Raw(k, c) => Usable(k, c, r)) /\ (Good(k, c, r) => Usable(k, c, r))
BY DEF Raw, Good, Usable, Unmade, Settled

LEMMA WholeAgain ==
    ASSUME NEW k, NEW c, NEW d, Whole(k, c), Kin(c, d)
    PROVE  Whole(k, d)
BY DEF Whole, Kin

\* initFilter makes good settings, and leaves those alone that it has made.
LEMMA Initialised ==
    ASSUME NEW k \in AllKinds, NEW r \in RangeForms, NEW c, Usable(k, c, r)
    PROVE  LET d == InitFilter(k, c, r) IN Good(k, d, r) /\ InitFilter(k, d, r) = d
<1> DEFINE d == InitFilter(k, c, r)
<1>1. Whole(k, c) /\ Sane(k, c) /\ Sound(k, c) BY DEF Usable
<1>2. CASE k \in {"ionClip", "ionColour", "rangeFile", "transform", "boundingBox",
                  "spectrumPlot", "dataLoad", "externalProgram", "annotation"}
  <2>1. \A e : InitFilter(k, e, r) = e BY <1>2 DEF InitFilter
  <2>2. Settled(k, c, r) BY <1>2 DEF Settled
  <2> QED BY <1>1, <2>1, <2>2 DEF Good
<1>3. CASE k = "ionDownsample"
  <2>1. \A e : InitFilter(k, e, r) = Downsample!InitFilter(e, r) BY <1>3 DEF InitFilter
  <2>2. d = Downsample!InitFilter(c, r) BY <2>1
  <2> HIDE DEF d
  <2>3. Kin(c, d) /\ Sane(k, d) /\ DownReady(d, r) BY <1>1, <1>3, <2>2, DownInit
  <2>4. Whole(k, d) BY <1>1, <2>3, WholeAgain
  <2>5. InitFilter(k, d, r) = d BY <1>3, <2>1, <2>3, <2>4, DownInit
  <2> QED BY <1>3, <2>3, <2>4, <2>5 DEF Good, Sound, Settled, d
<1>4. CASE k = "profile"
  <2>1. \A e : InitFilter(k, e, r) = Prof!InitFilter(e, r) BY <1>4 DEF InitFilter
  <2>2. Kin(c, d) /\ InitFilter(k, d, r) = d BY <1>1, <1>4, <2>1, ProfileInit
  <2> HIDE DEF d
  <2>3. Whole(k, d) BY <1>1, <2>2, WholeAgain
  <2> QED BY <1>4, <2>2, <2>3 DEF Good, Sane, Sound, Settled, d
<1>5. CASE k = "ionInfo"
  <2>1. \A e : InitFilter(k, e, r) = Info!InitFilter(e, r) BY <1>5 DEF InitFilter
  <2>2. /\ Kin(c, d) /\ InitFilter(k, d, r) = d
        /\ \A f \in {"fitMode", "massBackStart", "massBackEnd"} : d[f] = c[f]
    BY <1>1, <1>5, <2>1, InfoInit
  <2> HIDE DEF d
  <2>3. Whole(k, d) BY <1>1, <2>2, WholeAgain
  <2>4. Sane(k, d) BY <1>1, <1>5, <2>2 DEF Sane
  <2> QED BY <1>5, <2>2, <2>3, <2>4 DEF Good, Sound, Settled, d
<1>6. CASE k = "proxigram"
  <2>1. \A e : InitFilter(k, e, r) = Proxi!InitFilter(e, r) BY <1>6 DEF InitFilter
  <2>2. Kin(c, d) /\ InitFilter(k, d, r) = d BY <1>1, <1>6, <2>1, ProxiInit
  <2> HIDE DEF d
  <2>3. Whole(k, d) BY <1>1, <2>2, WholeAgain
  <2> QED BY <1>6, <2>2, <2>3 DEF Good, Sane, Sound, Settled, d
<1>7. CASE k = "clusterAnalysis"
  <2>1. d = Cluster!InitFilter(c, r) BY <1>7 DEF InitFilter
  <2> HIDE DEF d
  <2>2. Kin(c, d) /\ Sane(k, d) /\ ClusterReady(d, r) /\ Sound(k, d)
    BY <1>1, <1>7, <2>1, ClusterInit
  <2>3. Whole(k, d) BY <1>1, <2>2, WholeAgain
  <2>4. InitFilter(k, d, r) = d BY <1>7, <2>2, <2>3, ClusterSteady DEF Steady
  <2>5. Settled(k, d, r) BY <1>7, <2>2 DEF Settled, ClusterReady
  <2> QED BY <2>2, <2>3, <2>4, <2>5 DEF Good, d
<1>8. CASE k = "spatialAnalysis"
  <2>1. d = Spatial!InitFilter(c, r) BY <1>8 DEF InitFilter
  <2> HIDE DEF d
  <2>2. Kin(c, d) /\ Sane(k, d) /\ SpatialReady(d, r) /\ Sound(k, d) /\ Settled(k, d, r)
    BY <1>1, <1>8, <2>1, SpatialInit
  <2>3. Whole(k, d) BY <1>1, <2>2, WholeAgain
  <2>4. InitFilter(k, d, r) = d BY <1>8, <2>2, <2>3, SpatialSteady DEF Steady
  <2> QED BY <2>2, <2>3, <2>4 DEF Good, d
<1>9. CASE k = "voxelise"
  <2>1. CASE VoxSound(c, r)
    <3>1. d = c BY <1>1, <1>9, <2>1, VoxelSteady
    <3> QED BY <1>1, <1>9, <2>1, <3>1 DEF Good, Settled
  <2>2. CASE Unmade(c)
    <3>1. Whole(k, d) /\ Sane(k, d) /\ VoxSound(d, r)
      BY <1>1, <1>9, <2>2, VoxelInit DEF Unmade
    <3> HIDE DEF d
    <3>2. InitFilter(k, d, r) = d BY <1>9, <3>1, VoxelSteady
    <3> QED BY <1>9, <3>1, <3>2 DEF Good, Sound, Settled, d
  <2> QED BY <1>9, <2>1, <2>2 DEF Usable
<1>10. k \in {"ionClip", "ionColour", "rangeFile", "transform", "boundingBox", "spectrumPlot",
             "dataLoad", "externalProgram", "annotation"}
            \cup {"ionDownsample", "profile", "ionInfo", "proxigram", "clusterAnalysis",
                 "spatialAnalysis", "voxelise"}
  BY DEF AllKinds
<1> QED BY <1>2, <1>3, <1>4, <1>5, <1>6, <1>7, <1>8, <1>9, <1>10

\* After refresh there is nothing more to change.
LEMMA RefreshedGood ==
    ASSUME NEW k \in AllKinds, NEW r, NEW c, Good(k, c, r), InitFilter(k, c, r) = c
    PROVE  LET d == Refreshed(k, c, r) IN Good(k, d, r) /\ Steady(k, d, r)
<1> DEFINE d == Refreshed(k, c, r)
<1>1. Whole(k, c) /\ Sane(k, c) /\ Sound(k, c) /\ Settled(k, c, r) BY DEF Good
<1>2. CASE k \notin {"transform", "spectrumPlot", "voxelise"}
  <2>1. d = c BY <1>2 DEF Refreshed
  <2> QED BY <2>1 DEF Steady
<1>3. CASE k = "transform"
  <2>1. \A e : Refreshed(k, e, r) = Transf!Refreshed(e) /\ InitFilter(k, e, r) = e
    BY <1>3 DEF Refreshed, InitFilter
  <2>2. Kin(c, d) /\ Refreshed(k, d, r) = d BY <1>1, <1>3, <2>1, TransformRefreshed
  <2>3. InitFilter(k, d, r) = d BY <2>1
  <2> HIDE DEF d
  <2>4. Whole(k, d) BY <1>1, <2>2, WholeAgain
  <2> QED BY <1>3, <2>2, <2>3, <2>4 DEF Good, Sane, Sound, Settled, Steady, d
<1>4. CASE k = "spectrumPlot"
  <2>1. \A e : Refreshed(k, e, r) = Spectrum!Refreshed(e, r) /\ InitFilter(k, e, r) = e
    BY <1>4 DEF Refreshed, InitFilter
  <2>2. Kin(c, d) /\ Sane(k, d) /\ Refreshed(k, d, r) = d
    BY <1>1, <1>4, <2>1, SpectrumRefreshed
  <2>3. InitFilter(k, d, r) = d BY <2>1
  <2> HIDE DEF d
  <2>4. Whole(k, d) BY <1>1, <2>2, WholeAgain
  <2> QED BY <1>4, <2>2, <2>3, <2>4 DEF Good, Sound, Settled, Steady, d
<1>5. CASE k = "voxelise"
  <2>1. VoxSound(c, r) BY <1>1, <1>5 DEF Settled
  <2>2. Whole(k, d) /\ Sane(k, d) /\ VoxSound(d, r) /\ Steady(k, d, r)
    BY <1>1, <1>5, <2>1, VoxelRefreshed
  <2> HIDE DEF d
  <2> QED BY <1>5, <2>2 DEF Good, Sound, Settled, d
<1> QED BY <1>2, <1>3, <1>4, <1>5

-----------------------------------------------------------------------------
(* A copy.                                                                 *)

\* What a copy begins anew with.
NotCloned(k) ==
    CASE k = "rangeFile" -> {"showLegend"}
      [] k = "boundingBox" -> {"lineColour"}
      [] k = "profile" -> {"minEvents", "haveRangeParent"}
      [] k = "clusterAnalysis" -> Cluster!NotCloned
      [] k = "ionInfo" -> {"fitMode", "massBackStart", "massBackEnd", "incoming"}
      [] k = "dataLoad" -> {"valueLabel", "endianMode"}
      [] k = "voxelise" -> Voxel!NotCloned
      [] k = "spatialAnalysis" -> Spatial!NotCloned
      [] OTHER -> {}

LEMMA CloneTakes ==
    ASSUME NEW k \in AllKinds, NEW c, DOMAIN c = DOMAIN New(k)
    PROVE  LET d == Clone(k, c)
           IN  /\ Kin(New(k), d)
               /\ \A f \in DOMAIN c : d[f] = IF f \in NotCloned(k) THEN New(k)[f] ELSE c[f]
<1> DEFINE Cloned(d) ==
             /\ Kin(New(k), d)
             /\ \A f \in DOMAIN c : d[f] = IF f \in NotCloned(k) THEN New(k)[f] ELSE c[f]
           all == Taking(New(k), c, DOMAIN New(k) \ NotCloned(k))
<1>1. Cloned(all)
  <2>1. \A f \in DOMAIN c : f \in DOMAIN New(k) \ NotCloned(k) <=> f \notin NotCloned(k)
    OBVIOUS
  <2> QED BY <2>1, TakingMixes DEF Mixed
<1> HIDE DEF Cloned
<1>2. CASE k \in {"ionClip", "ionColour", "ionDownsample", "transform", "spectrumPlot",
                  "externalProgram", "proxigram", "annotation"}
  <2>1. NotCloned(k) = {} BY <1>2 DEF NotCloned
  <2>2. all = Taking(New(k), c, DOMAIN New(k)) BY <2>1
  <2>3. Clone(k, c) = Taking(New(k), c, DOMAIN New(k))
    BY <1>2, TakingSame DEF Clone, New, Clip!Clone, Colour!Clone, Downsample!Clone,
       Transf!Clone, Spectrum!Clone, Program!Clone, Proxi!Clone, Notes!Clone
  <2> QED BY <1>1, <2>2, <2>3 DEF Cloned
<1>3. CASE k \in {"rangeFile", "boundingBox", "profile", "clusterAnalysis", "dataLoad",
                  "voxelise", "spatialAnalysis"}
  <2>1. Clone(k, c) = all
    <3>1. CASE k = "rangeFile"
      BY <3>1, TakingSame DEF Clone, New, NotCloned, RangeFile!Clone
    <3>2. CASE k = "boundingBox" BY <3>2, TakingSame DEF Clone, New, NotCloned, Box!Clone
    <3>3. CASE k = "profile" BY <3>3, TakingSame DEF Clone, New, NotCloned, Prof!Clone
    <3>4. CASE k = "clusterAnalysis"
      BY <3>4, TakingSame DEF Clone, New, NotCloned, Cluster!Clone
    <3>5. CASE k = "dataLoad" BY <3>5, TakingSame DEF Clone, New, NotCloned, Data!Clone
    <3>6. CASE k = "voxelise" BY <3>6, TakingSame DEF Clone, New, NotCloned, Voxel!Clone
    <3>7. CASE k = "spatialAnalysis"
      BY <3>7, TakingSame DEF Clone, New, NotCloned, Spatial!Clone
    <3> HIDE DEF all
    <3> QED BY <1>3, <3>1, <3>2, <3>3, <3>4, <3>5, <3>6, <3>7
  <2> QED BY <1>1, <2>1 DEF Cloned
<1>4. CASE k = "ionInfo"
  <2> DEFINE taken == {"wantIonCounts", "wantVolume", "wantNormalise", "cubeSideLen",
                     "volumeAlgorithm"}
  <2>1. DOMAIN Info!New \ {"fitMode", "massBackStart", "massBackEnd", "incoming"} = taken
    BY DEF Info!New
  <2>2. Clone(k, c) = Taking(Info!New, c, taken) BY <1>4, TakingSame DEF Clone, Info!Clone
  <2>3. New(k) = Info!New BY <1>4 DEF New
  <2>4. NotCloned(k) = {"fitMode", "massBackStart", "massBackEnd", "incoming"}
    BY <1>4 DEF NotCloned
  <2>5. Clone(k, c) = all BY <2>1, <2>2, <2>3, <2>4
  <2> QED BY <1>1, <2>5 DEF Cloned
<1>5. k \in {"ionClip", "ionColour", "ionDownsample", "transform", "spectrumPlot",
            "externalProgram", "proxigram", "annotation"}
           \cup {"rangeFile", "boundingBox", "profile", "clusterAnalysis", "dataLoad",
                 "voxelise", "spatialAnalysis"} \cup {"ionInfo"}
  BY DEF AllKinds
<1> QED BY <1>2, <1>3, <1>4, <1>5

\* Nothing is lost by a copy but what is said so.
LEMMA CloneAlike ==
    ASSUME NEW k \in AllKinds, NEW c, Whole(k, c), Sane(k, c)
    PROVE  Alike(Clone(k, c), c, LostByCopy(k))
<1> DEFINE d == Clone(k, c)
<1>1. DOMAIN c = DOMAIN New(k) BY DEF Whole, Kin
<1>2. DOMAIN d = DOMAIN c
      /\ \A f \in DOMAIN c : d[f] = IF f \in NotCloned(k) THEN New(k)[f] ELSE c[f]
  BY <1>1, CloneTakes DEF Kin
<1> HIDE DEF d
<1>3. CASE k # "ionInfo"
  <2>1. NotCloned(k) \subseteq LostByCopy(k) \cup Transient
    BY <1>3 DEF NotCloned, LostByCopy, Transient, Cluster!NotCloned, Voxel!NotCloned,
       Spatial!NotCloned, AllKinds
  <2> QED BY <1>2, <2>1 DEF Alike, d
<1>4. CASE k = "ionInfo"
  <2>1. NotCloned(k) = {"fitMode", "massBackStart", "massBackEnd", "incoming"}
    BY <1>4 DEF NotCloned
  <2>2. \A f \in {"fitMode", "massBackStart", "massBackEnd"} : c[f] = New(k)[f]
    BY <1>4 DEF Sane, New
  <2>3. "incoming" \in Transient BY DEF Transient
  <2> QED BY <1>2, <2>1, <2>2, <2>3 DEF Alike, d
<1> QED BY <1>3, <1>4

LEMMA CloneGood ==
    ASSUME NEW k \in AllKinds, NEW c, NEW r, Good(k, c, r)
    PROVE  Good(k, Clone(k, c), r)
<1> DEFINE d == Clone(k, c)
<1>1. Whole(k, c) /\ Sane(k, c) /\ Sound(k, c) /\ Settled(k, c, r) BY DEF Good
<1>2. DOMAIN c = DOMAIN New(k) /\ Kin(c, c) BY <1>1 DEF Whole, Kin
<1>3. /\ Whole(k, d)
      /\ \A f \in DOMAIN c : d[f] = IF f \in NotCloned(k) THEN New(k)[f] ELSE c[f]
  BY <1>2, CloneTakes DEF Whole
<1> HIDE DEF d
<1>4. ASSUME NotCloned(k) = {} PROVE d = c
  <2>1. DOMAIN d = DOMAIN c /\ d = [f \in DOMAIN c |-> d[f]] BY <1>2, <1>3 DEF Whole, Kin
  <2>2. c = [f \in DOMAIN c |-> c[f]] BY <1>2 DEF Kin
  <2>3. \A f \in DOMAIN c : d[f] = c[f] BY <1>3, <1>4
  <2> QED BY <2>1, <2>2, <2>3
<1>5. CASE k \in {"ionClip", "ionColour", "ionDownsample", "transform", "spectrumPlot",
                  "externalProgram", "proxigram", "annotation"}
  BY <1>1, <1>4, <1>5 DEF Good, NotCloned, d
<1>6. CASE k \in {"rangeFile", "boundingBox", "profile", "dataLoad"}
  BY <1>3, <1>6 DEF Good, Sane, Sound, Settled, d
<1>7. CASE k = "ionInfo"
  <2>1. {"fitMode", "massBackStart", "massBackEnd"} \subseteq DOMAIN c
    BY <1>2, <1>7 DEF New, Info!New
  <2>2. \A f \in {"fitMode", "massBackStart", "massBackEnd"} : d[f] = Info!New[f]
    BY <1>1, <1>3, <1>7, <2>1 DEF Sane, New
  <2> QED BY <1>3, <1>7, <2>2 DEF Good, Sane, Sound, Settled, d
<1>8. CASE k = "clusterAnalysis"
  <2> DEFINE kept == {"wantClusterMorphology", "ionNames", "ionCoreEnabled", "ionBulkEnabled"}
  <2>1. kept \cup {"wantClusterID"} \subseteq DOMAIN c
    BY <1>2, <1>8 DEF New, Cluster!New
  <2>2. \A f \in kept : f \notin NotCloned(k) BY <1>8 DEF NotCloned, Cluster!NotCloned
  <2>3. \A f \in kept : d[f] = c[f] BY <1>3, <2>1, <2>2
  <2>4. d.wantClusterID = FALSE
    BY <1>3, <1>8, <2>1 DEF NotCloned, Cluster!NotCloned, New, Cluster!New
  <2> QED BY <1>1, <1>3, <1>8, <2>3, <2>4 DEF Good, Sane, Sound, Settled, d
<1>9. CASE k = "spatialAnalysis"
  <2> DEFINE kept == Spatial!Flags \cup {"algorithm"}
  <2>1. kept \cup {"haveRangeParent"} \subseteq DOMAIN c
    BY <1>2, <1>9 DEF New, Spatial!New, Spatial!Flags
  <2>2. \A f \in kept : f \notin NotCloned(k)
    BY <1>9 DEF NotCloned, Spatial!NotCloned, Spatial!Flags
  <2>3. \A f \in kept : d[f] = c[f] BY <1>3, <2>1, <2>2
  <2>4. d.haveRangeParent = FALSE
    BY <1>3, <1>9, <2>1 DEF NotCloned, Spatial!NotCloned, New, Spatial!New
  <2>5. Sane(k, d) BY <1>1, <1>9, <2>3 DEF Sane
  <2>6. Sound(k, d) BY <1>1, <1>9, <2>3, <2>4 DEF Sound
  <2>7. Settled(k, d, r) BY <1>1, <1>9, <2>3 DEF Settled
  <2> QED BY <1>3, <2>5, <2>6, <2>7 DEF Good, d
<1>10. CASE k = "voxelise"
  <2> DEFINE kept == {"incoming", "normaliseType", "enabledIons", "representation"}
             gone == {"voxelCache", "vdbCache"}
  <2>1. kept \cup gone \subseteq DOMAIN c BY <1>2, <1>10 DEF New, Voxel!New
  <2>2. /\ \A f \in kept : f \notin NotCloned(k)
        /\ \A f \in gone : f \in NotCloned(k) /\ New(k)[f] = <<>>
    BY <1>10 DEF NotCloned, Voxel!NotCloned, New, Voxel!New
  <2>3. (\A f \in kept : d[f] = c[f]) /\ \A f \in gone : d[f] = <<>> BY <1>3, <2>1, <2>2
  <2>4. VoxSound(c, r) BY <1>1, <1>10 DEF Settled
  <2>5. VoxSound(d, r) BY <2>3, <2>4, VoxelUncounted
  <2> QED BY <1>1, <1>3, <1>10, <2>3, <2>5 DEF Good, Sane, Sound, Settled, d
<1>11. k \in {"ionClip", "ionColour", "ionDownsample", "transform", "spectrumPlot",
             "externalProgram", "proxigram", "annotation"}
            \cup {"rangeFile", "boundingBox", "profile", "dataLoad"}
            \cup {"ionInfo", "clusterAnalysis", "spatialAnalysis", "voxelise"}
  BY DEF AllKinds
<1> QED BY <1>5, <1>6, <1>7, <1>8, <1>9, <1>10, <1>11

-----------------------------------------------------------------------------
(* A filter that is read from a file.                                      *)

\* readState of each kind is that of FilterBase.
LEMMA RestoredSame ==
    ASSUME NEW new, NEW c, NEW written, NEW wanted
    PROVE  LET Same(r) == /\ r = [ok |-> r.ok, conf |-> r.conf]
                          /\ \E fs : r.conf = Taking(new, c, fs)
           IN  /\ Same(Clip!Restored(new, c, written, wanted))
               /\ Same(Colour!Restored(new, c, written, wanted))
               /\ Same(Downsample!Restored(new, c, written, wanted))
               /\ Same(RangeFile!Restored(new, c, written, wanted))
               /\ Same(Transf!Restored(new, c, written, wanted))
               /\ Same(Box!Restored(new, c, written, wanted))
               /\ Same(Prof!Restored(new, c, written, wanted))
               /\ Same(Cluster!Restored(new, c, written, wanted))
               /\ Same(Info!Restored(new, c, written, wanted))
               /\ Same(Spectrum!Restored(new, c, written, wanted))
               /\ Same(Data!Restored(new, c, written, wanted))
               /\ Same(Program!Restored(new, c, written, wanted))
               /\ Same(Proxi!Restored(new, c, written, wanted))
               /\ Same(Voxel!Restored(new, c, written, wanted))
               /\ Same(Spatial!Restored(new, c, written, wanted))
               /\ Same(Notes!Restored(new, c, written, wanted))
<1> DEFINE Same(r) == r = [ok |-> r.ok, conf |-> r.conf] /\ \E fs : r.conf = Taking(new, c, fs)
<1>0. ASSUME NEW ok, NEW fs PROVE Same([ok |-> ok, conf |-> Taking(new, c, fs)])
  OBVIOUS
<1> HIDE DEF Same
<1>1. Same(Clip!Restored(new, c, written, wanted))
  BY <1>0, TakingSame DEF Clip!Restored
<1>2. Same(Colour!Restored(new, c, written, wanted))
  BY <1>0, TakingSame DEF Colour!Restored
<1>3. Same(Downsample!Restored(new, c, written, wanted))
  BY <1>0, TakingSame DEF Downsample!Restored
<1>4. Same(RangeFile!Restored(new, c, written, wanted))
  BY <1>0, TakingSame DEF RangeFile!Restored
<1>5. Same(Transf!Restored(new, c, written, wanted))
  BY <1>0, TakingSame DEF Transf!Restored
<1>6. Same(Box!Restored(new, c, written, wanted))
  BY <1>0, TakingSame DEF Box!Restored
<1>7. Same(Prof!Restored(new, c, written, wanted))
  BY <1>0, TakingSame DEF Prof!Restored
<1>8. Same(Cluster!Restored(new, c, written, wanted))
  BY <1>0, TakingSame DEF Cluster!Restored
<1>9. Same(Info!Restored(new, c, written, wanted))
  BY <1>0, TakingSame DEF Info!Restored
<1>10. Same(Spectrum!Restored(new, c, written, wanted))
  BY <1>0, TakingSame DEF Spectrum!Restored
<1>11. Same(Data!Restored(new, c, written, wanted))
  BY <1>0, TakingSame DEF Data!Restored
<1>12. Same(Program!Restored(new, c, written, wanted))
  BY <1>0, TakingSame DEF Program!Restored
<1>13. Same(Proxi!Restored(new, c, written, wanted))
  BY <1>0, TakingSame DEF Proxi!Restored
<1>14. Same(Voxel!Restored(new, c, written, wanted))
  BY <1>0, TakingSame DEF Voxel!Restored
<1>15. Same(Spatial!Restored(new, c, written, wanted))
  BY <1>0, TakingSame DEF Spatial!Restored
<1>16. Same(Notes!Restored(new, c, written, wanted))
  BY <1>0, TakingSame DEF Notes!Restored
<1> QED
  BY <1>1, <1>2, <1>3, <1>4, <1>5, <1>6, <1>7, <1>8,
     <1>9, <1>10, <1>11, <1>12, <1>13, <1>14, <1>15, <1>16
  DEF Same

LEMMA ClusterRestores ==
    ASSUME NEW new, NEW c, NEW written, NEW wanted
    PROVE  LET r == ReadBack(written, wanted)
           IN  Cluster!Restored(new, c, written, wanted) =
                  [ok |-> r.ok, conf |-> Taking(new, c, r.got)]
<1>1. Cluster!ReadBack(written, wanted) = ReadBack(written, wanted)
  BY DEF Cluster!ReadBack, Cluster!ReadStep, Cluster!NextElem, ReadBack, ReadStep, NextElem
<1> QED BY <1>1, TakingSame DEF Cluster!Restored

LEMMA SpatialRestores ==
    ASSUME NEW new, NEW c, NEW written, NEW wanted
    PROVE  LET r == ReadBack(written, wanted)
           IN  Spatial!Restored(new, c, written, wanted) =
                  [ok |-> r.ok, conf |-> Taking(new, c, r.got)]
<1>1. Spatial!ReadBack(written, wanted) = ReadBack(written, wanted)
  BY DEF Spatial!ReadBack, Spatial!ReadStep, Spatial!NextElem, ReadBack, ReadStep, NextElem
<1> QED BY <1>1, TakingSame DEF Spatial!Restored

LEMMA VoxelRestores ==
    ASSUME NEW new, NEW c, NEW written, NEW wanted
    PROVE  LET r == ReadBack(written, wanted)
           IN  Voxel!Restored(new, c, written, wanted) =
                  [ok |-> r.ok, conf |-> Taking(new, c, r.got)]
<1>1. Voxel!ReadBack(written, wanted) = ReadBack(written, wanted)
  BY DEF Voxel!ReadBack, Voxel!ReadStep, Voxel!NextElem, ReadBack, ReadStep, NextElem
<1> QED BY <1>1, TakingSame DEF Voxel!Restored

LEMMA NotesRestores ==
    ASSUME NEW new, NEW c, NEW written, NEW wanted
    PROVE  LET r == ReadBack(written, wanted)
           IN  Notes!Restored(new, c, written, wanted) =
                  [ok |-> r.ok, conf |-> Taking(new, c, r.got)]
<1>1. Notes!ReadBack(written, wanted) = ReadBack(written, wanted)
  BY DEF Notes!ReadBack, Notes!ReadStep, Notes!NextElem, ReadBack, ReadStep, NextElem
<1> QED BY <1>1, TakingSame DEF Notes!Restored

\* What a filter gets of a file are settings it wants, and if it is satisfied, all
\* that it cannot do without.
LEMMA ReadBackGets ==
    ASSUME NEW written, NEW wanted, Len(wanted) \in Nat, DOMAIN wanted = 1..Len(wanted)
    PROVE  LET r == ReadBack(written, wanted)
           IN  /\ r.got \subseteq UNION {wanted[k].fields : k \in DOMAIN wanted}
               /\ \A k \in DOMAIN wanted :
                     r.ok /\ wanted[k].optional = FALSE => wanted[k].fields \subseteq r.got
<1> DEFINE l == Len(wanted)
           Start == [ok |-> TRUE, at |-> 0, got |-> {}]
           Round(s, k) == IF k = 0 THEN Start ELSE ReadStep(written, s[k - 1], wanted[k])
           Def(m, s) == s = [k \in 0..m |-> Round(s, k)]
           so == CHOOSE s : Def(l, s)
<1>1. ReadBack(written, wanted) = so[l] BY DEF ReadBack
<1>2. Def(l, so)
  <2> DEFINE S == {m \in Nat : \E s : Def(m, s)}
  <2>1. 0 \in S
    <3> DEFINE s == [k \in 0..0 |-> Start]
    <3>1. Def(0, s) OBVIOUS
    <3> HIDE DEF s
    <3> QED BY <3>1
  <2>2. ASSUME NEW m \in S \cap Nat PROVE m + 1 \in S
    <3>1. PICK s : Def(m, s) OBVIOUS
    <3> DEFINE q == [k \in 0..(m+1) |->
                        IF k = m + 1 THEN ReadStep(written, s[m], wanted[m + 1]) ELSE s[k]]
    <3>2. \A k \in 0..m : s[k] = Round(s, k) BY <3>1
    <3>3. \A k \in 0..m : q[k] = s[k] OBVIOUS
    <3>4. ASSUME NEW k \in 0..(m+1) PROVE q[k] = Round(q, k)
      <4>1. CASE k = m + 1
        <5>1. q[k] = ReadStep(written, s[m], wanted[k]) BY <4>1
        <5>2. k # 0 /\ k - 1 = m /\ m \in 0..m BY <4>1
        <5>3. q[k-1] = s[m] BY <5>2, <3>3
        <5> HIDE DEF q
        <5> QED BY <5>1, <5>2, <5>3
      <4>2. CASE k # m + 1
        <5>1. k \in 0..m /\ (k # 0 => k - 1 \in 0..m) BY <4>2
        <5>2. q[k] = s[k] /\ (k # 0 => q[k-1] = s[k-1]) BY <5>1, <3>3
        <5> HIDE DEF q
        <5> QED BY <5>1, <5>2, <3>2
      <4> QED BY <4>1, <4>2
    <3>5. q = [k \in 0..(m+1) |-> q[k]] OBVIOUS
    <3> HIDE DEF q
    <3>6. Def(m + 1, q)
      <4> HIDE DEF Round
      <4> QED BY <3>4, <3>5
    <3> HIDE DEF Def
    <3> QED BY <3>6
  <2> HIDE DEF Def
  <2>3. l \in S
    <3> HIDE DEF S
    <3>1. Nat \subseteq S BY <2>1, <2>2, AllNumbers
    <3> QED BY <3>1
  <2> QED BY <2>3
<1>3. \A k \in 0..l : so[k] = Round(so, k)
  <2> DEFINE s == so
  <2>1. Def(l, s) BY <1>2
  <2> HIDE DEF s
  <2>2. \A k \in 0..l : s[k] = Round(s, k) BY <2>1
  <2> QED BY <2>2 DEF s
<1>4. so[0] = Start
  <2> HIDE DEF so
  <2> QED BY <1>3
<1>5. ASSUME NEW k \in 0..l, k + 1 \in 0..l
      PROVE  so[k + 1] = ReadStep(written, so[k], wanted[k + 1])
  <2> DEFINE n == k + 1
  <2>1. n \in 0..l /\ n # 0 /\ n - 1 = k BY <1>5
  <2> HIDE DEF so, n
  <2>2. so[n] = ReadStep(written, so[n - 1], wanted[n]) BY <1>3, <2>1
  <2> QED BY <2>1, <2>2 DEF n
<1> HIDE DEF so
<1> DEFINE Fine(k) ==
             /\ so[k] = [ok |-> so[k].ok, at |-> so[k].at, got |-> so[k].got]
             /\ so[k].got \subseteq UNION {wanted[i].fields : i \in DOMAIN wanted}
             /\ \A i \in DOMAIN wanted :
                   i <= k /\ so[k].ok /\ wanted[i].optional = FALSE =>
                      wanted[i].fields \subseteq so[k].got
           T == {k \in Nat : k <= l => Fine(k)}
<1>6. 0 \in T BY <1>4
<1>7. ASSUME NEW k \in T \cap Nat PROVE k + 1 \in T
  <2>0. SUFFICES ASSUME k + 1 <= l PROVE Fine(k + 1)
    <3> HIDE DEF Fine
    <3> QED OBVIOUS
  <2>1. k \in 0..l /\ k + 1 \in 0..l /\ k + 1 \in DOMAIN wanted /\ k <= l BY <2>0
  <2>2. Fine(k) BY <2>1
  <2> DEFINE s == so[k]
             w == wanted[k + 1]
             t == ReadStep(written, s, w)
  <2>3. so[k + 1] = t BY <2>1, <1>5
  <2>4. s = [ok |-> s.ok, at |-> s.at, got |-> s.got] BY <2>2
  <2>5. \/ t = s /\ ~s.ok
        \/ s.ok /\ t = [s EXCEPT !.ok = w.optional]
        \/ \E j : t = [ok |-> TRUE, at |-> j, got |-> s.got \cup w.fields] /\ s.ok
    <3> HIDE DEF s, w
    <3> QED BY DEF ReadStep
  <2>6. CASE t = s /\ ~s.ok BY <2>3, <2>6, <2>2
  <2>7. CASE s.ok /\ t = [s EXCEPT !.ok = w.optional]
    <3>1. t = [ok |-> w.optional, at |-> s.at, got |-> s.got]
      <4> HIDE DEF s, t, w
      <4> QED BY <2>4, <2>7
    <3>2. \A i \in DOMAIN wanted : i <= k + 1 => i <= k \/ i = k + 1 BY <2>1
    <3> HIDE DEF t
    <3> QED BY <3>1, <3>2, <2>2, <2>3, <2>7
  <2>8. ASSUME NEW j, t = [ok |-> TRUE, at |-> j, got |-> s.got \cup w.fields], s.ok
        PROVE  Fine(k + 1)
    <3>1. \A i \in DOMAIN wanted : i <= k + 1 => i <= k \/ i = k + 1 BY <2>1
    <3>2. t.got = s.got \cup w.fields /\ t.ok = TRUE
          /\ t = [ok |-> t.ok, at |-> t.at, got |-> t.got]
      <4> HIDE DEF t, s, w
      <4> QED BY <2>8
    <3>3. t.got \subseteq UNION {wanted[i].fields : i \in DOMAIN wanted}
      <4>1. w.fields \subseteq UNION {wanted[i].fields : i \in DOMAIN wanted} BY <2>1
      <4> HIDE DEF t, w
      <4> QED BY <4>1, <3>2, <2>2
    <3>4. ASSUME NEW i \in DOMAIN wanted, i <= k + 1, wanted[i].optional = FALSE
          PROVE  wanted[i].fields \subseteq t.got
      <4>1. CASE i <= k BY <4>1, <3>4, <3>2, <2>2, <2>8
      <4>2. CASE i = k + 1 BY <4>2, <3>2
      <4> QED BY <4>1, <4>2, <3>1, <3>4
    <3> HIDE DEF t
    <3> QED BY <3>2, <3>3, <3>4, <2>3
  <2> HIDE DEF t, s, w, Fine
  <2> QED BY <2>5, <2>6, <2>7, <2>8
<1>8. Fine(l)
  <2> HIDE DEF T
  <2>1. Nat \subseteq T BY <1>6, <1>7, AllNumbers
  <2>2. l \in T BY <2>1
  <2> HIDE DEF Fine
  <2> QED BY <2>2 DEF T
<1> QED BY <1>1, <1>8

\* Kinds whose settings do not have to fit each other may have any of them from a
\* file.
LEMMA MixedRaw ==
    ASSUME NEW k \in AllKinds \ {"spectrumPlot", "annotation", "clusterAnalysis",
                                 "spatialAnalysis", "voxelise"},
           NEW c, Sane(k, c), NEW d, Mixed(New(k), c, d)
    PROVE  Raw(k, d)
<1>1. Whole(k, d) /\ \A f \in DOMAIN New(k) : d[f] \in {c[f], New(k)[f]}
  BY DEF Mixed, Whole
<1>2. Sane(k, New(k)) BY NewRaw DEF Raw
<1>3. Sane(k, d)
  <2>1. CASE k = "ionClip"
    <3>1. "primitiveType" \in DOMAIN New(k) BY <2>1 DEF New, Clip!New
    <3> QED BY <1>1, <1>2, <2>1, <3>1 DEF Sane
  <2>2. CASE k = "ionDownsample"
    <3>1. {"incoming", "ionFractions", "ionLimits", "fraction", "maxAfterFilter"}
            \subseteq DOMAIN New(k)
      BY <2>2 DEF New, Downsample!New
    <3> QED BY <1>1, <1>2, <2>2, <3>1 DEF Sane
  <2>3. CASE k = "ionInfo"
    <3>1. {"fitMode", "massBackStart", "massBackEnd"} \subseteq DOMAIN New(k)
      BY <2>3 DEF New, Info!New
    <3>2. New(k) = Info!New BY <2>3 DEF New
    <3>3. \A f \in {"fitMode", "massBackStart", "massBackEnd"} : c[f] = Info!New[f]
      BY <2>3 DEF Sane
    <3>4. \A f \in {"fitMode", "massBackStart", "massBackEnd"} : d[f] = Info!New[f]
      BY <1>1, <3>1, <3>2, <3>3
    <3> QED BY <2>3, <3>4 DEF Sane
  <2>4. CASE k \notin {"ionClip", "ionDownsample", "ionInfo"} BY <2>4 DEF Sane
  <2> QED BY <2>1, <2>2, <2>3, <2>4
<1>4. Sound(k, d) BY DEF Sound
<1> QED BY <1>1, <1>3, <1>4 DEF Raw

LEMMA MixedExcept ==
    ASSUME NEW k, NEW d, Whole(k, d), NEW f, NEW v
    PROVE  Whole(k, [d EXCEPT ![f] = v])
BY DEF Whole, Kin

\* These filters read back what does not have to fit.
LEMMA SimplyReadRaw ==
    ASSUME NEW k \in AllKinds \ {"spectrumPlot", "annotation", "clusterAnalysis",
                                 "spatialAnalysis", "voxelise"},
           NEW c, Sane(k, c)
    PROVE  Raw(k, ReadState(k, c).conf)
<1> DEFINE d == ReadState(k, c).conf
           Right(e) == \E fs : e = Taking(New(k), c, fs)
<1>0. ASSUME NEW e, Right(e) PROVE Raw(k, e)
  BY <1>0, TakingMixes, MixedRaw
<1>1. ASSUME NEW e, Right(e), NEW f, NEW v, k \in {"rangeFile", "transform", "proxigram"}
      PROVE  Raw(k, [e EXCEPT ![f] = v])
  <2>1. Whole(k, e) BY <1>0, <1>1 DEF Raw
  <2>2. Whole(k, [e EXCEPT ![f] = v]) BY <2>1, MixedExcept
  <2> QED BY <1>1, <2>2 DEF Raw, Sane, Sound
<1>2. CASE k = "ionClip"
  <2> DEFINE r == Clip!Restored(Clip!New, c, Clip!Written, Clip!Wanted)
  <2>1. r = [ok |-> r.ok, conf |-> r.conf] /\ Right(r.conf) BY <1>2, RestoredSame DEF New
  <2> HIDE DEF r
  <2>2. d = r.conf BY <1>2, <2>1 DEF ReadState, Clip!ReadState, r
  <2> QED BY <1>0, <2>1, <2>2
<1>3. CASE k = "ionColour"
  <2> DEFINE r == Colour!Restored(Colour!New, c, Colour!Written, Colour!Wanted)
  <2>1. r = [ok |-> r.ok, conf |-> r.conf] /\ Right(r.conf) BY <1>3, RestoredSame DEF New
  <2> HIDE DEF r
  <2>2. d = r.conf BY <1>3, <2>1 DEF ReadState, Colour!ReadState, r
  <2> QED BY <1>0, <2>1, <2>2
<1>4. CASE k = "ionDownsample"
  <2> DEFINE r == Downsample!Restored(Downsample!New, c, Downsample!Written, Downsample!Wanted)
  <2>1. r = [ok |-> r.ok, conf |-> r.conf] /\ Right(r.conf) BY <1>4, RestoredSame DEF New
  <2> HIDE DEF r
  <2>2. d = r.conf BY <1>4, <2>1 DEF ReadState, Downsample!ReadState, r
  <2> QED BY <1>0, <2>1, <2>2
<1>5. CASE k = "boundingBox"
  <2> DEFINE r == Box!Restored(Box!New, c, Box!Written, Box!Wanted)
  <2>1. r = [ok |-> r.ok, conf |-> r.conf] /\ Right(r.conf) BY <1>5, RestoredSame DEF New
  <2> HIDE DEF r
  <2>2. d = r.conf BY <1>5, <2>1 DEF ReadState, Box!ReadState, r
  <2> QED BY <1>0, <2>1, <2>2
<1>6. CASE k = "profile"
  <2> DEFINE r == Prof!Restored(Prof!New, c, Prof!Written, Prof!Wanted)
  <2>1. r = [ok |-> r.ok, conf |-> r.conf] /\ Right(r.conf) BY <1>6, RestoredSame DEF New
  <2> HIDE DEF r
  <2>2. d = r.conf BY <1>6, <2>1 DEF ReadState, Prof!ReadState, r
  <2> QED BY <1>0, <2>1, <2>2
<1>7. CASE k = "ionInfo"
  <2> DEFINE r == Info!Restored(Info!New, c, Info!Written, Info!Wanted)
  <2>1. r = [ok |-> r.ok, conf |-> r.conf] /\ Right(r.conf) BY <1>7, RestoredSame DEF New
  <2> HIDE DEF r
  <2>2. d = r.conf BY <1>7, <2>1 DEF ReadState, Info!ReadState, r
  <2> QED BY <1>0, <2>1, <2>2
<1>8. CASE k = "dataLoad"
  <2> DEFINE r == Data!Restored(Data!New, c, Data!Written, Data!Wanted)
  <2>1. r = [ok |-> r.ok, conf |-> r.conf] /\ Right(r.conf) BY <1>8, RestoredSame DEF New
  <2> HIDE DEF r
  <2>2. d = r.conf BY <1>8, <2>1 DEF ReadState, Data!ReadState, r
  <2> QED BY <1>0, <2>1, <2>2
<1>9. CASE k = "externalProgram"
  <2> DEFINE r == Program!Restored(Program!New, c, Program!Written, Program!Wanted)
  <2>1. r = [ok |-> r.ok, conf |-> r.conf] /\ Right(r.conf) BY <1>9, RestoredSame DEF New
  <2> HIDE DEF r
  <2>2. d = r.conf BY <1>9, <2>1 DEF ReadState, Program!ReadState, r
  <2> QED BY <1>0, <2>1, <2>2
<1>10. CASE k = "rangeFile"
  <2> DEFINE r == RangeFile!Restored(RangeFile!New, c, RangeFile!Written, RangeFile!Wanted)
             rng == [RangeFile!Files[r.conf.rngName] EXCEPT !.colours = c.rng.colours]
  <2>1. Right(r.conf) BY <1>10, RestoredSame DEF New
  <2>2. d = [r.conf EXCEPT !.rng = rng] BY <1>10 DEF ReadState, RangeFile!ReadState
  <2> HIDE DEF r, rng
  <2> QED BY <1>1, <1>10, <2>1, <2>2
<1>11. CASE k = "transform"
  <2> DEFINE r == Transf!Restored(Transf!New, c, Transf!Written, Transf!Wanted)
             mode == Transf!OriginModes[IF c.showOrigin THEN 2 ELSE 1]
  <2>1. Right(r.conf) BY <1>11, RestoredSame DEF New
  <2>2. d = [r.conf EXCEPT !.originMode = mode] BY <1>11 DEF ReadState, Transf!ReadState
  <2> HIDE DEF r, mode
  <2> QED BY <1>1, <1>11, <2>1, <2>2
<1>12. CASE k = "proxigram"
  <2> DEFINE r == Proxi!Restored(Proxi!New, c, Proxi!Written, Proxi!Wanted)
  <2>1. r = [ok |-> r.ok, conf |-> r.conf] /\ Right(r.conf) BY <1>12, RestoredSame DEF New
  <2> HIDE DEF r
  <2>2. d = [r.conf EXCEPT !.weight_factor = FALSE]
    BY <1>12, <2>1 DEF ReadState, Proxi!ReadState, r
  <2> QED BY <1>1, <1>12, <2>1, <2>2
<1> QED BY <1>2, <1>3, <1>4, <1>5, <1>6, <1>7, <1>8, <1>9, <1>10, <1>11, <1>12 DEF AllKinds

\* No element of s is for the setting f.
Lacks(f, s) == \E E : s \in Seq(E) /\ \A e \in E : f \notin e.fields

LEMMA LacksTuple ==
    ASSUME NEW f, NEW n \in Nat, NEW s, s = [i \in 1..n |-> s[i]],
           \A i \in 1..n : f \notin s[i].fields
    PROVE  Lacks(f, s)
<1> DEFINE E == {s[i] : i \in 1..n}
<1>1. s \in [1..n -> E] OBVIOUS
<1>2. \A e \in E : f \notin e.fields OBVIOUS
<1> HIDE DEF E
<1>3. s \in Seq(E) BY <1>1
<1> QED BY <1>2, <1>3 DEF Lacks

LEMMA LacksJoined ==
    ASSUME NEW f, NEW s, NEW t, Lacks(f, s), Lacks(f, t)
    PROVE  Lacks(f, s \o t)
<1>1. PICK D : s \in Seq(D) /\ \A e \in D : f \notin e.fields BY DEF Lacks
<1>2. PICK E : t \in Seq(E) /\ \A e \in E : f \notin e.fields BY DEF Lacks
<1>3. s \in Seq(D \cup E) /\ t \in Seq(D \cup E) BY <1>1, <1>2
<1>4. s \o t \in Seq(D \cup E) BY <1>3
<1> QED BY <1>1, <1>2, <1>4 DEF Lacks

\* What no element is for does not come from a file.
LEMMA ReadBackLacks ==
    ASSUME NEW f, NEW wanted, Lacks(f, wanted), NEW written
    PROVE  f \notin ReadBack(written, wanted).got
<1>1. PICK E : wanted \in Seq(E) /\ \A e \in E : f \notin e.fields BY DEF Lacks
<1>2. Len(wanted) \in Nat /\ DOMAIN wanted = 1..Len(wanted) BY <1>1
<1>3. \A k \in DOMAIN wanted : f \notin wanted[k].fields
  <2>1. \A k \in DOMAIN wanted : wanted[k] \in E BY <1>1
  <2> QED BY <1>1, <2>1
<1>4. f \notin UNION {wanted[k].fields : k \in DOMAIN wanted} BY <1>3
<1>5. ReadBack(written, wanted).got \subseteq UNION {wanted[k].fields : k \in DOMAIN wanted}
  BY <1>2, ReadBackGets
<1> QED BY <1>4, <1>5

\* The ends of the plot come together.
LEMMA SpectrumReadRaw ==
    ASSUME NEW c, Sane("spectrumPlot", c), ReadState("spectrumPlot", c).ok
    PROVE  Raw("spectrumPlot", ReadState("spectrumPlot", c).conf)
<1> DEFINE s == ReadState("spectrumPlot", c)
           r == Spectrum!Restored(Spectrum!New, c, Spectrum!Written, Spectrum!Wanted)
           k == "spectrumPlot"
<1>1. r = [ok |-> r.ok, conf |-> r.conf] /\ \E fs : r.conf = Taking(New(k), c, fs)
  BY RestoredSame DEF New
<1>2. s = Spectrum!ReadState(c) BY DEF ReadState
<1>3. s.conf = r.conf /\ (s.ok => r.conf.minPlot < r.conf.maxPlot)
  <2> HIDE DEF r
  <2> QED BY <1>1, <1>2 DEF Spectrum!ReadState, r
<1> DEFINE d == r.conf
<1>4. Mixed(New(k), c, d) BY <1>1, TakingMixes
<1>5. Sane(k, New(k)) BY NewRaw DEF Raw, AllKinds
<1>6. {"minPlot", "maxPlot", "binWidth"} \subseteq DOMAIN New(k) BY DEF New, Spectrum!New
<1> HIDE DEF r, s
<1>7. \A f \in {"minPlot", "maxPlot", "binWidth"} : d[f] \in {c[f], New(k)[f]}
  BY <1>4, <1>6 DEF Mixed
<1>8. Sane(k, d) BY <1>3, <1>5, <1>7 DEF Sane, s
<1> QED BY <1>3, <1>4, <1>8 DEF Raw, Mixed, Whole, Sound, s

\* The two directions of an annotation are both in the file.
LEMMA NotesReadRaw ==
    ASSUME NEW c, Sane("annotation", c), ReadState("annotation", c).ok
    PROVE  Raw("annotation", ReadState("annotation", c).conf)
<1> DEFINE s == ReadState("annotation", c)
           k == "annotation"
           wanted == Notes!Wanted
           r == ReadBack(Notes!Written, wanted)
           e == Taking(New(k), c, r.got)
<1>1. /\ wanted = [i \in 1..16 |->
                      IF i = 7 THEN [Of(Notes!Stored[i]) EXCEPT !.optional = TRUE]
                      ELSE Of(Notes!Stored[i])]
  <2>1. DOMAIN Notes!Stored = 1..16 BY DEF Notes!Stored
  <2>2. Notes!Each(Notes!Stored) = [i \in 1..16 |-> Of(Notes!Stored[i])]
    BY <2>1 DEF Notes!Each, Notes!Of, Notes!Element, Of, Element
  <2> DEFINE x == Notes!Each(Notes!Stored)
  <2>3. wanted = [x EXCEPT ![7].optional = TRUE] BY DEF Notes!Wanted
  <2> HIDE DEF x
  <2> QED BY <2>2, <2>3 DEF x
<1>2. Len(wanted) = 16 /\ DOMAIN wanted = 1..16 BY <1>1
<1>3. /\ wanted[4].fields = {"upVec"} /\ wanted[4].optional = FALSE
      /\ wanted[5].fields = {"acrossVec"} /\ wanted[5].optional = FALSE
  BY <1>1 DEF Of, Element, Notes!Stored
<1> HIDE DEF wanted
<1>4. r.ok => {"upVec", "acrossVec"} \subseteq r.got
  <2>0. Len(wanted) \in Nat /\ DOMAIN wanted = 1..Len(wanted) BY <1>2
  <2>1. \A i \in DOMAIN wanted :
           r.ok /\ wanted[i].optional = FALSE => wanted[i].fields \subseteq r.got
    BY ONLY <2>0, ReadBackGets
  <2> HIDE DEF r
  <2> QED BY <1>2, <1>3, <2>1
<1> HIDE DEF r
<1>5. Notes!Restored(Notes!New, c, Notes!Written, Notes!Wanted) = [ok |-> r.ok, conf |-> e]
  BY NotesRestores DEF New, r, wanted
<1> DEFINE d == [e EXCEPT !.angleFormat = <<@[1], @[1]>>]
<1> HIDE DEF e
<1>6. s.conf = d /\ (s.ok => r.ok)
  <2> DEFINE q == Notes!Restored(Notes!New, c, Notes!Written, Notes!Wanted)
             still == \A f \in {"annotateSize", "sphereMarkerSize", "lineSize"} :
                         q.conf[f] >= 0
  <2>1. s = [q EXCEPT !.conf.angleFormat = <<@[1], @[1]>>, !.ok = q.ok /\ still]
    BY Zenon DEF ReadState, Notes!ReadState
  <2>2. q = [ok |-> r.ok, conf |-> e] BY <1>5
  <2> HIDE DEF q, still
  <2>3. s = [ok |-> q.ok /\ still, conf |-> d] BY <2>1, <2>2
  <2> HIDE DEF s, d
  <2> QED BY <2>2, <2>3
<1>7. Mixed(New(k), c, e)
      /\ \A f \in DOMAIN New(k) : e[f] = IF f \in r.got THEN c[f] ELSE New(k)[f]
  BY TakingMixes DEF e
<1>8. Sane(k, New(k)) BY NewRaw DEF Raw, AllKinds
<1>9. {"annotationMode", "upVec", "acrossVec"} \subseteq DOMAIN New(k) BY DEF New, Notes!New
<1>10. /\ e.annotationMode \in {c.annotationMode, New(k).annotationMode}
       /\ e.upVec = c.upVec /\ e.acrossVec = c.acrossVec
  BY <1>4, <1>6, <1>7, <1>9 DEF Mixed
<1>11. \A f \in {"annotationMode", "upVec", "acrossVec"} : d[f] = e[f]
       /\ Whole(k, d)
  BY <1>7, <1>9 DEF Mixed, Whole, Kin
<1> HIDE DEF d, s
<1>12. Sane(k, d) BY <1>8, <1>10, <1>11 DEF Sane
<1> QED BY <1>6, <1>11, <1>12 DEF Raw, Sound, s

\* The flags of the ions are read together.
LEMMA ClusterReadRaw ==
    ASSUME NEW c, Sane("clusterAnalysis", c), Sound("clusterAnalysis", c),
           ReadState("clusterAnalysis", c).ok
    PROVE  Raw("clusterAnalysis", ReadState("clusterAnalysis", c).conf)
<1> DEFINE s == ReadState("clusterAnalysis", c)
           k == "clusterAnalysis"
           wanted == Cluster!Wanted
           r == ReadBack(Cluster!Written, wanted)
           e == Taking(New(k), c, r.got)
           Flags == {"ionCoreEnabled", "ionBulkEnabled"}
<1>1. Len(wanted) = 12 /\ DOMAIN wanted = 1..12 BY DEF Cluster!Wanted
<1>2. wanted[12] = Cluster!Element("enabledions", {"ionNames"} \cup Flags)
  <2>1. {"ionNames", "ionCoreEnabled", "ionBulkEnabled"} = {"ionNames"} \cup Flags OBVIOUS
  <2> HIDE DEF Flags
  <2> QED BY <2>1 DEF Cluster!Wanted
<1>3. wanted[12].fields = {"ionNames"} \cup Flags /\ wanted[12].optional = FALSE
  BY <1>2 DEF Cluster!Element
<1> HIDE DEF wanted
<1>4. r.ok => Flags \subseteq r.got
  <2>1. Len(wanted) \in Nat /\ DOMAIN wanted = 1..Len(wanted) BY <1>1
  <2>2. \A i \in DOMAIN wanted :
           r.ok /\ wanted[i].optional = FALSE => wanted[i].fields \subseteq r.got
    BY ONLY <2>1, ReadBackGets
  <2> HIDE DEF r
  <2> QED BY <1>1, <1>3, <2>2
<1> HIDE DEF r
<1>5. Cluster!Restored(Cluster!New, c, Cluster!Written, Cluster!Wanted) =
         [ok |-> r.ok, conf |-> e]
  BY ClusterRestores DEF New, r, wanted
<1> HIDE DEF e
<1> DEFINE core == Cluster!New.bulkLink # 0
           bulk == c.bulkLink # 0
           erosion == c.dErosion # 0
           off == [i \in DOMAIN e.ionBulkEnabled |->
                      e.ionBulkEnabled[i] /\ ~c.ionCoreEnabled[i]]
           d == [e EXCEPT !.enableCoreClassify = core, !.enableBulkLink = bulk,
                          !.enableErosion = erosion,
                          !.wantClusterID = c.wantClusterMorphology,
                          !.wantClusterComposition = FALSE, !.ionBulkEnabled = off]
<1>6. /\ Kin(New(k), e)
      /\ \A f \in DOMAIN New(k) : e[f] = IF f \in r.got THEN c[f] ELSE New(k)[f]
  BY TakingMixes DEF Mixed, e
<1>7. Flags \cup {"wantClusterID", "wantClusterMorphology", "enableCoreClassify",
                  "enableBulkLink", "enableErosion", "wantClusterComposition"}
        \subseteq DOMAIN New(k)
  BY DEF New, Cluster!New
<1>8. s.conf = d /\ (s.ok => r.ok)
  <2> DEFINE q == Cluster!Restored(Cluster!New, c, Cluster!Written, Cluster!Wanted)
             fine == q.ok /\ c.coreKNN > 0 /\ c.linkDist > 0
             conf0 == [q.conf EXCEPT
                         !.enableCoreClassify = core, !.enableBulkLink = bulk,
                         !.enableErosion = erosion,
                         !.wantClusterID = c.wantClusterMorphology,
                         !.wantClusterComposition = FALSE,
                         !.ionBulkEnabled = [i \in DOMAIN @ |-> @[i] /\ ~c.ionCoreEnabled[i]]]
  <2>1. q.conf = e /\ q.ok = r.ok BY <1>5
  <2>2. s = [ok |-> fine, conf |-> conf0] BY Zenon DEF ReadState, Cluster!ReadState
  <2> HIDE DEF q, core, bulk, erosion
  <2>3. fine => q.ok OBVIOUS
  <2>4. conf0 = d
    <3>1. DOMAIN e = DOMAIN New(k) BY <1>6 DEF Kin
    <3> QED BY <2>1, <3>1
  <2> HIDE DEF fine, conf0, d, s
  <2> QED BY <2>1, <2>2, <2>3, <2>4
<1> HIDE DEF core, bulk, erosion, off
<1>9. /\ d.wantClusterMorphology = e.wantClusterMorphology
      /\ d.ionCoreEnabled = e.ionCoreEnabled /\ d.wantClusterID = c.wantClusterMorphology
      /\ d.ionBulkEnabled = off /\ Whole(k, d)
  BY <1>6, <1>7 DEF Whole, Kin
<1> HIDE DEF d, s
<1>10. e.ionCoreEnabled = c.ionCoreEnabled /\ e.ionBulkEnabled = c.ionBulkEnabled
  BY <1>4, <1>6, <1>7, <1>8 DEF s
<1>11. Sane(k, d)
  <2>1. e.wantClusterMorphology \in {c.wantClusterMorphology, New(k).wantClusterMorphology}
    BY <1>6, <1>7
  <2>2. New(k).wantClusterMorphology = FALSE BY DEF New, Cluster!New
  <2> QED BY <1>9, <2>1, <2>2 DEF Sane
<1>12. Sound(k, d)
  <2>1. Array(off) /\ DOMAIN off = DOMAIN e.ionBulkEnabled BY DEF Array, off
  <2> QED BY <1>9, <1>10, <2>1 DEF Sound
<1> QED BY <1>8, <1>9, <1>11, <1>12 DEF Raw, s

\* Whether there are ranges above is not in the file.
LEMMA SpatialReadRaw ==
    ASSUME NEW c, Sane("spatialAnalysis", c), Sound("spatialAnalysis", c)
    PROVE  Raw("spatialAnalysis", ReadState("spatialAnalysis", c).conf)
<1> DEFINE s == ReadState("spatialAnalysis", c)
           k == "spatialAnalysis"
           lists == Spatial!IonLists
           each == <<"distMax", "numBins", "excludeSurface", "reductionDistance", "rgba",
                     "densityCutoff", "keepDensityUpper">>
           wanted == Spatial!Wanted
           r == ReadBack(Spatial!Written(c), wanted)
           e == Taking(New(k), c, r.got)
<1>1. Lacks("haveRangeParent", wanted)
  <2> DEFINE f == "haveRangeParent"
             first == <<Spatial!Of("algorithm"), Spatial!Of("stopMode"), Spatial!Of("nnMax"),
                        Spatial!MayLack("nnhist", {"normaliseNNHist"}),
                        Spatial!MayLack("random", {"wantRandomNNHist"})>>
             many == Spatial!Each(each)
             other == <<Spatial!MayLack("replace", {"replaceFile", "replaceMode",
                                                    "replaceTolerance"}),
                        Spatial!MayLack("binomial", Spatial!BinomialShape),
                        Spatial!Element("binomialdisplay", Spatial!BinomialDisplay),
                        Spatial!MayLack("scalarParams", {"scalarParams"}),
                        Spatial!MayLack("vectorParams", {"vectorParams"})>>
             last == [i \in DOMAIN lists |-> [lists[i] EXCEPT !.optional = TRUE]]
  <2>1. Lacks(f, first)
    <3>1. first = [i \in 1..5 |-> first[i]] OBVIOUS
    <3>2. \A i \in 1..5 : f \notin first[i].fields
      BY DEF Spatial!Of, Spatial!MayLack, Spatial!Element
    <3> HIDE DEF first
    <3> QED BY <3>1, <3>2, LacksTuple
  <2>2. Lacks(f, many)
    <3>1. many = [i \in 1..7 |-> Spatial!Of(each[i])] BY DEF Spatial!Each
    <3>2. \A i \in 1..7 : each[i] # f OBVIOUS
    <3> HIDE DEF many, each
    <3>3. many = [i \in 1..7 |-> many[i]] BY <3>1
    <3>4. \A i \in 1..7 : f \notin many[i].fields
      BY <3>1, <3>2 DEF Spatial!Of, Spatial!Element
    <3> QED BY <3>3, <3>4, LacksTuple
  <2>3. Lacks(f, other)
    <3>1. other = [i \in 1..5 |-> other[i]] OBVIOUS
    <3>2. \A i \in 1..5 : f \notin other[i].fields
      BY DEF Spatial!MayLack, Spatial!Element, Spatial!BinomialShape, Spatial!BinomialDisplay
    <3> HIDE DEF other
    <3> QED BY <3>1, <3>2, LacksTuple
  <2>4. Lacks(f, last)
    <3>1. DOMAIN lists = 1..4 BY DEF Spatial!IonLists
    <3>2. \A i \in 1..4 : [lists[i] EXCEPT !.optional = TRUE].fields = lists[i].fields
          /\ f \notin lists[i].fields
      BY DEF Spatial!IonLists, Spatial!Element
    <3> HIDE DEF lists
    <3>3. last = [i \in 1..4 |-> last[i]] BY <3>1
    <3>4. \A i \in 1..4 : f \notin last[i].fields BY <3>1, <3>2
    <3> HIDE DEF last
    <3> QED BY <3>3, <3>4, LacksTuple
  <2>5. wanted = first \o many \o other \o last BY DEF Spatial!Wanted, Spatial!Numbers
  <2> HIDE DEF f, first, many, other, last, wanted
  <2>6. Lacks(f, first \o many) BY <2>1, <2>2, LacksJoined
  <2>7. Lacks(f, first \o many \o other) BY <2>3, <2>6, LacksJoined
  <2>8. Lacks(f, wanted) BY <2>4, <2>5, <2>7, LacksJoined
  <2> QED BY <2>8 DEF f
<1>2. "haveRangeParent" \notin r.got
  <2> HIDE DEF wanted
  <2> QED BY <1>1, ReadBackLacks
<1> HIDE DEF r
<1>3. Spatial!Restored(Spatial!New, c, Spatial!Written(c), Spatial!Wanted) =
         [ok |-> r.ok, conf |-> e]
  BY SpatialRestores DEF New, r
<1> HIDE DEF e
<1>4. s.conf = Spatial!WithParams(e) BY <1>3 DEF ReadState, Spatial!ReadState
<1>5. /\ Kin(New(k), e)
      /\ \A f \in DOMAIN New(k) : e[f] = IF f \in r.got THEN c[f] ELSE New(k)[f]
  BY TakingMixes DEF Mixed, e
<1> DEFINE d == Spatial!WithParams(e)
           ours == Spatial!Flags \cup {"algorithm", "haveRangeParent"}
<1>6. ours \subseteq DOMAIN New(k) /\ {"vectorParams", "scalarParams"} \cap ours = {}
  BY DEF New, Spatial!New, Spatial!Flags
<1>7. Whole(k, d) /\ \A f \in ours : d[f] = e[f]
  <2> DEFINE v == IF Len(e.vectorParams) = 2 THEN e.vectorParams ELSE <<"o", "z">>
             w == IF Len(e.scalarParams) = 1 THEN e.scalarParams ELSE <<1>>
  <2>1. d = e \/ d = [e EXCEPT !.vectorParams = v, !.scalarParams = w]
    BY DEF Spatial!WithParams
  <2> HIDE DEF d, v, w, ours
  <2>2. Whole(k, e) BY <1>5 DEF Whole
  <2>3. Whole(k, [e EXCEPT !.vectorParams = v, !.scalarParams = w]) BY <2>2 DEF Whole, Kin
  <2>4. \A f \in ours : [e EXCEPT !.vectorParams = v, !.scalarParams = w][f] = e[f]
    BY <1>5, <1>6 DEF Kin
  <2> QED BY <2>1, <2>2, <2>3, <2>4
<1>8. \A f \in ours : d[f] \in {c[f], New(k)[f]} BY <1>5, <1>6, <1>7
<1>9. d.haveRangeParent = FALSE
  <2>1. New(k).haveRangeParent = FALSE BY DEF New, Spatial!New
  <2> QED BY <1>2, <1>5, <1>6, <1>7, <2>1
<1>10. Sane(k, New(k)) /\ Sound(k, New(k)) BY NewRaw DEF Raw, AllKinds
<1> HIDE DEF d
<1>11. Sane(k, d) BY <1>8, <1>10 DEF Sane
<1>12. Sound(k, d)
  <2>1. \A f \in Spatial!Flags : Array(c[f]) /\ Array(New(k)[f]) BY <1>10 DEF Sound
  <2> QED BY <1>8, <1>9, <2>1 DEF Sound
<1> QED BY <1>4, <1>7, <1>11, <1>12 DEF Raw, d

\* What is kept besides the cache is not in the file.
LEMMA VoxelReadRaw ==
    ASSUME NEW c, Sane("voxelise", c)
    PROVE  Raw("voxelise", ReadState("voxelise", c).conf)
<1> DEFINE s == ReadState("voxelise", c)
           k == "voxelise"
           each == <<"fixedWidth", "nBins", "binWidth", "normaliseType", "enabledIons",
                     "representation", "isoLevel">>
           first == <<Voxel!Of("voxelsize"), Voxel!Element("userstring", {})>>
           many == Voxel!Each(each)
           last == <<Voxel!Element("colour", {"rgba", "alpha"}),
                     [Voxel!Slice EXCEPT !.optional = TRUE]>>
           wanted == Voxel!Wanted
           r == ReadBack(Voxel!Written, wanted)
           e == Taking(New(k), c, r.got)
<1>1. ASSUME NEW f \in {"voxelCache", "vdbCache"} PROVE f \notin r.got
  <2>1. Lacks(f, first)
    <3>1. first = [i \in 1..2 |-> first[i]] OBVIOUS
    <3>2. \A i \in 1..2 : f \notin first[i].fields BY DEF Voxel!Of, Voxel!Element
    <3> HIDE DEF first
    <3> QED BY <3>1, <3>2, LacksTuple
  <2>2. Lacks(f, many)
    <3>1. many = [i \in 1..7 |-> Voxel!Of(each[i])] BY DEF Voxel!Each
    <3>2. \A i \in 1..7 : each[i] # f OBVIOUS
    <3> HIDE DEF many, each
    <3>3. many = [i \in 1..7 |-> many[i]] BY <3>1
    <3>4. \A i \in 1..7 : f \notin many[i].fields BY <3>1, <3>2 DEF Voxel!Of, Voxel!Element
    <3> QED BY <3>3, <3>4, LacksTuple
  <2>3. Lacks(f, last)
    <3>1. last = [i \in 1..2 |-> last[i]] OBVIOUS
    <3>2. f \notin Voxel!Element("colour", {"rgba", "alpha"}).fields BY DEF Voxel!Element
    <3>3. f \notin [Voxel!Slice EXCEPT !.optional = TRUE].fields
      BY DEF Voxel!Slice, Voxel!Element
    <3> DEFINE x == Voxel!Element("colour", {"rgba", "alpha"})
               y == [Voxel!Slice EXCEPT !.optional = TRUE]
    <3>4. last = <<x, y>> OBVIOUS
    <3> HIDE DEF x, y, last
    <3>5. last[1] = x /\ last[2] = y BY <3>4
    <3>6. \A i \in 1..2 : i = 1 \/ i = 2 OBVIOUS
    <3>7. \A i \in 1..2 : f \notin last[i].fields BY <3>2, <3>3, <3>5, <3>6 DEF x, y
    <3> QED BY <3>1, <3>7, LacksTuple
  <2>4. wanted = first \o many \o last BY DEF Voxel!Wanted
  <2> HIDE DEF first, many, last, wanted
  <2>5. Lacks(f, first \o many) BY <2>1, <2>2, LacksJoined
  <2>6. Lacks(f, wanted) BY <2>3, <2>4, <2>5, LacksJoined
  <2> QED BY <2>6, ReadBackLacks
<1> HIDE DEF r
<1>2. s.conf = e BY VoxelRestores DEF New, ReadState, Voxel!ReadState, r
<1>3. /\ Kin(New(k), e)
      /\ \A f \in DOMAIN New(k) : e[f] = IF f \in r.got THEN c[f] ELSE New(k)[f]
  BY TakingMixes DEF Mixed
<1> HIDE DEF e
<1>4. {"voxelCache", "vdbCache", "representation"} \subseteq DOMAIN New(k)
      /\ New(k).voxelCache = <<>> /\ New(k).vdbCache = <<>>
  BY DEF New, Voxel!New
<1>5. e.voxelCache = <<>> /\ e.vdbCache = <<>> BY <1>1, <1>3, <1>4
<1>6. Sane(k, New(k)) BY NewRaw DEF Raw, AllKinds
<1>7. e.representation \in {c.representation, New(k).representation} BY <1>3, <1>4
<1>8. Sane(k, e) BY <1>6, <1>7 DEF Sane
<1> QED BY <1>2, <1>3, <1>5, <1>8 DEF Raw, Whole, Sound

\* A filter that is read back has settings that initFilter can be given.
LEMMA ReadRaw ==
    ASSUME NEW k \in AllKinds, NEW c, Sane(k, c), Sound(k, c), ReadState(k, c).ok
    PROVE  Raw(k, ReadState(k, c).conf)
<1>1. CASE k \notin {"spectrumPlot", "annotation", "clusterAnalysis", "spatialAnalysis",
                     "voxelise"}
  BY <1>1, SimplyReadRaw
<1> QED BY <1>1, SpectrumReadRaw, NotesReadRaw, ClusterReadRaw, SpatialReadRaw, VoxelReadRaw

-----------------------------------------------------------------------------
(* All kinds together.                                                     *)

\* The answers of every kind, to what may be asked of good settings, go with what
\* was kept, and leave settings that initFilter can be given.
LEMMA AnswersGo ==
    ASSUME NEW k \in AllKinds, NEW r \in RangeForms, NEW c, Good(k, c, r),
           NEW stored \in BOOLEAN, k \in NeverCache => ~stored, NEW a \in Answers(k, c, stored)
    PROVE  /\ Goes(k, c, stored, r, a) /\ Usable(k, a.conf, r)
           /\ k = "voxelise" =>
                 /\ VoxSound(a.conf, r)
                 /\ stored /\ a.conf.representation = "slice" =>
                       c.representation = "slice" \/ a.misfit
<1>1. Whole(k, c) /\ Sane(k, c) /\ Sound(k, c) /\ Settled(k, c, r) BY DEF Good
<1>2. Kin(c, c) BY <1>1 DEF Whole, Kin
<1>3. k \in NeverCache => stored = FALSE OBVIOUS
<1>4. Goes(k, c, stored, r, a)
  <2>1. CASE k = "ionClip" BY <1>1, <2>1, ClipAnswers DEF Answers
  <2>2. CASE k = "ionColour" BY <1>2, <2>2, ColourAnswers DEF Answers
  <2>3. CASE k = "ionDownsample" BY <1>1, <2>3, DownAnswers DEF Answers
  <2>4. CASE k = "rangeFile" BY <1>2, <2>4, RangeFileAnswers DEF Answers
  <2>5. CASE k = "transform" BY <1>2, <2>5, TransformAnswers DEF Answers
  <2>6. CASE k = "boundingBox" BY <1>2, <1>3, <2>6, BoxAnswers DEF Answers, NeverCache
  <2>7. CASE k = "profile" BY <1>2, <2>7, ProfileAnswers DEF Answers
  <2>8. CASE k = "clusterAnalysis" BY <1>1, <2>8, ClusterAnswers DEF Answers
  <2>9. CASE k = "ionInfo" BY <1>1, <1>3, <2>9, InfoAnswers DEF Answers, NeverCache
  <2>10. CASE k = "spectrumPlot" BY <1>1, <2>10, SpectrumAnswers DEF Answers
  <2>11. CASE k = "dataLoad" BY <1>2, <2>11, DataAnswers DEF Answers
  <2>12. CASE k = "externalProgram" BY <1>2, <2>12, ProgramAnswers DEF Answers
  <2>13. CASE k = "proxigram" BY <1>2, <1>3, <2>13, ProxiAnswers DEF Answers, NeverCache
  <2>14. CASE k = "voxelise"
    BY <1>1, <2>14, VoxelAnswers DEF Answers, VoxGoes, Settled
  <2>15. CASE k = "spatialAnalysis" BY <1>1, <2>15, SpatialAnswers DEF Answers
  <2>16. CASE k = "annotation" BY <1>1, <1>3, <2>16, NotesAnswers DEF Answers, NeverCache
  <2> QED BY <2>1, <2>2, <2>3, <2>4, <2>5, <2>6, <2>7, <2>8, <2>9, <2>10, <2>11, <2>12,
             <2>13, <2>14, <2>15, <2>16 DEF AllKinds
<1>5. k = "voxelise" => VoxGoes(c, stored, r, a)
  <2> SUFFICES ASSUME k = "voxelise" PROVE VoxGoes(c, stored, r, a) OBVIOUS
  <2>1. VoxSound(c, r) /\ a \in Voxel!Answers(c, stored) BY <1>1 DEF Answers, Settled
  <2> QED BY <1>1, <2>1, VoxelAnswers
<1>6. Sound(k, a.conf)
  <2>1. CASE k = "clusterAnalysis" BY <1>1, <2>1, ClusterSound DEF Answers
  <2>2. CASE k = "spatialAnalysis"
    <3>1. a \in Spatial!Answers(c, stored) \cup Spatial!Drags(c) BY <2>2 DEF Answers
    <3> QED BY <1>1, <2>2, <3>1, SpatialSound
  <2>3. CASE k \notin {"clusterAnalysis", "spatialAnalysis"} BY <2>3 DEF Sound
  <2> QED BY <2>1, <2>2, <2>3
<1>7. Whole(k, a.conf) /\ Sane(k, a.conf) BY <1>1, <1>4, WholeAgain DEF Goes
<1>8. Usable(k, a.conf, r) BY <1>5, <1>6, <1>7 DEF Usable, VoxGoes
<1> QED BY <1>4, <1>5, <1>8 DEF VoxGoes

\* So do drags, and they leave good settings; those of a voxelisation are of its
\* slice, which is never kept.
LEMMA DragsGo ==
    ASSUME NEW k \in AllKinds, NEW r, NEW c, Good(k, c, r), NEW a \in Drags(k, c),
           NEW stored, k \in NeverCache \cup {"voxelise"} => stored = FALSE
    PROVE  /\ Goes(k, c, stored, r, a) /\ Good(k, a.conf, r)
           /\ k = "voxelise" => c.representation = "slice"
<1>1. Whole(k, c) /\ Sane(k, c) /\ Sound(k, c) /\ Settled(k, c, r) BY DEF Good
<1>2. Kin(c, c) BY <1>1 DEF Whole, Kin
<1> DEFINE Dragged == {"ionClip", "rangeFile", "transform", "profile", "voxelise",
                       "spatialAnalysis", "annotation"}
<1>3. k \in Dragged BY DEF Drags, AllKinds
<1>4. Goes(k, c, stored, r, a)
  <2>1. CASE k = "ionClip" BY <1>1, <2>1, ClipDrags DEF Drags
  <2>2. CASE k = "rangeFile" BY <1>2, <2>2, RangeFileDrags DEF Drags
  <2>3. CASE k = "transform" BY <1>2, <2>3, TransformDrags DEF Drags
  <2>4. CASE k = "profile" BY <1>2, <2>4, ProfileDrags DEF Drags
  <2>5. CASE k = "voxelise" BY <1>1, <2>5, VoxelDrags DEF Drags, VoxGoes, Settled
  <2>6. CASE k = "spatialAnalysis" BY <1>1, <2>6, SpatialDrags DEF Drags
  <2>7. CASE k = "annotation" BY <1>1, <2>7, NotesDrags DEF Drags, NeverCache
  <2> QED BY <1>3, <2>1, <2>2, <2>3, <2>4, <2>5, <2>6, <2>7
<1>5. Whole(k, a.conf) /\ Sane(k, a.conf) BY <1>1, <1>4, WholeAgain DEF Goes
<1>6. CASE k = "voxelise"
  <2>1. VoxSound(c, r) /\ a \in Voxel!Drags(c) BY <1>1, <1>6 DEF Drags, Settled
  <2>2. c.representation = "slice" /\ VoxGoes(c, FALSE, r, a)
    BY <1>1, <1>6, <2>1, VoxelDrags
  <2> QED BY <1>4, <1>5, <1>6, <2>2 DEF VoxGoes, Good, Sound, Settled
<1>7. CASE k = "spatialAnalysis"
  <2>1. a \in Spatial!Answers(c, FALSE) \cup Spatial!Drags(c) BY <1>7 DEF Drags
  <2>2. Sound(k, a.conf) /\ Settled(k, a.conf, r) BY <1>1, <1>7, <2>1, SpatialSound
  <2> QED BY <1>4, <1>5, <1>7, <2>2 DEF Good
<1>8. CASE k \in {"ionClip", "rangeFile", "transform", "profile", "annotation"}
  BY <1>4, <1>5, <1>8 DEF Good, Sound, Settled
<1> QED BY <1>3, <1>6, <1>7, <1>8

-----------------------------------------------------------------------------
(* The invariant of the settings.                                          *)

\* What is kept was made of the settings, and they are those that initFilter and
\* refresh want.
Fresh(k, c, r, o, b) ==
    o # <<>> \/ b # <<>> => Steady(k, c, r) /\ {o, b} \subseteq {<<>>, <<Output(k, c)>>}

SettingsInv ==
    /\ kind \in Kinds /\ range \in RangeData \cup {NoRange} /\ edits \in 0..MaxEdits
    /\ Good(kind, conf, range)
    /\ excused \in BOOLEAN
    /\ kind \in NeverCache => own = <<>>
    /\ ~excused => left = <<>> /\ Fresh(kind, conf, range, own, below)
    /\ kind = "voxelise" /\ own # <<>> /\ ~excused => conf.representation # "slice"

LEMMA KindsAndRanges ==
    /\ Kinds \subseteq AllKinds /\ MaxEdits \in Nat
    /\ \A r \in RangeData \cup {NoRange} : r \in RangeForms
BY KindsAssumption, RangeDataAssumption DEF RangeForms

LEMMA SettingsInvInit ==
    SettingsInit => SettingsInv
<1> SUFFICES ASSUME SettingsInit PROVE SettingsInv OBVIOUS
<1>1. kind \in AllKinds /\ NoRange \in RangeForms BY KindsAndRanges DEF SettingsInit, RangeForms
<1>2. Usable(kind, New(kind), NoRange) BY <1>1, NewRaw, UsableForms
<1>3. Good(kind, conf, range) BY <1>1, <1>2, Initialised DEF SettingsInit
<1>4. own = <<>> /\ below = <<>> /\ left = <<>> /\ excused = FALSE
  BY DEF SettingsInit, NoCaches
<1>5. kind \in Kinds /\ range = NoRange /\ edits \in 0..MaxEdits
  BY KindsAndRanges DEF SettingsInit
<1> QED BY <1>3, <1>4, <1>5 DEF SettingsInv, Fresh

\* One edit more.
LEMMA OneEdit ==
    ASSUME SettingsInv, edits < MaxEdits, edits' = edits + 1
    PROVE  edits' \in 0..MaxEdits
BY KindsAndRanges DEF SettingsInv

\* With nothing kept, all that has to be right are the settings.
LEMMA NothingKept ==
    ASSUME SettingsInv, NoCaches(own', below', left', excused'), kind' = kind,
           range' \in RangeData \cup {NoRange}, edits' \in 0..MaxEdits,
           Good(kind, conf', range')
    PROVE  SettingsInv'
<1>1. own' = <<>> /\ below' = <<>> /\ left' = <<>> /\ excused' = FALSE BY DEF NoCaches
<1>2. kind' \in Kinds /\ Good(kind', conf', range') BY DEF SettingsInv
<1> QED BY <1>1, <1>2 DEF SettingsInv, Fresh

\* One plot that is changed in place is one plot.
LEMMA OnePatched ==
    ASSUME NEW x, NEW y
    PROVE  [i \in DOMAIN <<x>> |-> y] = <<y>>
<1>1. DOMAIN <<x>> = 1..1 /\ DOMAIN <<y>> = 1..1 /\ <<y>> = [i \in 1..1 |-> <<y>>[i]]
  OBVIOUS
<1>2. \A i \in 1..1 : <<y>>[i] = y OBVIOUS
<1> QED BY <1>1, <1>2

\* Nothing is left where nothing is excused.
LEMMA NothingLeft ==
    ASSUME SettingsInv, NEW a, a.cache = "dropped" => a.misfit, left' = LeftAfter(a),
           Excused(a) = FALSE
    PROVE  left' = <<>>
<1>1. CASE excused \/ a.misfit BY <1>1 DEF Excused
<1>2. CASE ~excused /\ ~a.misfit BY <1>2 DEF SettingsInv, LeftAfter
<1> QED BY <1>1, <1>2

\* An answer that goes with what was kept: its caches are fresh.
LEMMA AnswerFresh ==
    ASSUME SettingsInv, NEW stored \in BOOLEAN, NEW a,
           Goes(kind, conf, stored, range, a), stored = FALSE => own = <<>> \/ excused,
           own' = CacheAfter(a), below' \in {<<>>, below}, a.update => below' = <<>>,
           Excused(a) = FALSE
    PROVE  Fresh(kind, a.conf, range, own', below')
<1>1. SUFFICES ASSUME own' # <<>> \/ below' # <<>>
               PROVE  Fresh(kind, a.conf, range, own', below')
  BY DEF Fresh
<1>2. ~excused /\ ~a.misfit BY <1>1 DEF Excused
<1>3. Fresh(kind, conf, range, own, below) BY <1>2 DEF SettingsInv
<1>4. stored = FALSE => own = <<>> BY <1>2
<1>5. CASE a.cache = "cleared" /\ a.update
  <2>1. own' = <<>> BY <1>5 DEF CacheAfter
  <2> QED BY <1>1, <1>5, <2>1
<1>6. CASE a.cache = "kept" /\ a.update /\ ~stored
  <2>1. own' = <<>> BY <1>4, <1>6 DEF CacheAfter
  <2> QED BY <1>1, <1>6, <2>1
<1>7. CASE /\ a.cache = "patched" /\ a.update
           /\ Steady(kind, conf, range) => Steady(kind, a.conf, range)
  <2>1. own # <<>>
    <3>1. below' = <<>> BY <1>7
    <3>2. own = <<>> => CacheAfter(a) = <<>> BY DEF CacheAfter
    <3> QED BY <1>1, <3>1, <3>2
  <2>2. own' = <<Output(kind, a.conf)>> /\ below' = <<>>
    <3>1. own = <<Output(kind, conf)>> BY <1>3, <2>1 DEF Fresh
    <3>2. own' = [i \in DOMAIN own |-> Output(kind, a.conf)] BY <1>7, <2>1 DEF CacheAfter
    <3> QED BY <1>7, <3>1, <3>2, OnePatched
  <2>3. Steady(kind, a.conf, range) BY <1>3, <1>7, <2>1 DEF Fresh
  <2> QED BY <2>2, <2>3 DEF Fresh
<1>8. CASE /\ a.cache \in {"kept", "cleared"} /\ Output(kind, a.conf) = Output(kind, conf)
           /\ Steady(kind, conf, range) => Steady(kind, a.conf, range)
  <2>1. own' \in {<<>>, own} BY <1>8 DEF CacheAfter
  <2>2. own # <<>> \/ below # <<>> BY <1>1, <2>1
  <2>3. Steady(kind, a.conf, range) BY <1>3, <1>8, <2>2 DEF Fresh
  <2>4. {own, below} \subseteq {<<>>, <<Output(kind, a.conf)>>} BY <1>3, <1>8, <2>2 DEF Fresh
  <2> QED BY <2>1, <2>3, <2>4 DEF Fresh
<1> QED BY <1>2, <1>5, <1>6, <1>7, <1>8 DEF Goes

LEMMA InvAfterSetProperty ==
    ASSUME SettingsInv, SetProperty
    PROVE  SettingsInv'
<1> DEFINE stored == own # <<>>
<1>1. /\ kind \in Kinds /\ kind \in AllKinds /\ range \in RangeData \cup {NoRange}
      /\ range \in RangeForms /\ Good(kind, conf, range)
      /\ excused \in BOOLEAN /\ (kind \in NeverCache => own = <<>>)
  BY KindsAndRanges DEF SettingsInv
<1>2. PICK a \in Answers(kind, conf, stored) :
         /\ conf' = InitFilter(kind, a.conf, range)
         /\ own' = CacheAfter(a) /\ left' = LeftAfter(a)
         /\ below' = (IF a.update THEN <<>> ELSE below) /\ excused' = Excused(a)
  BY DEF SetProperty
<1>3. kind' = kind /\ range' = range /\ edits' \in 0..MaxEdits BY OneEdit DEF SetProperty
<1>4. stored \in BOOLEAN /\ (kind \in NeverCache => ~stored) BY <1>1
<1>5. /\ Goes(kind, conf, stored, range, a) /\ Usable(kind, a.conf, range)
      /\ kind = "voxelise" =>
            /\ VoxSound(a.conf, range)
            /\ stored /\ a.conf.representation = "slice" =>
                  conf.representation = "slice" \/ a.misfit
  <2> HIDE DEF stored
  <2> QED BY <1>1, <1>2, <1>4, AnswersGo
<1>6. Good(kind, conf', range) BY <1>1, <1>2, <1>5, Initialised
<1>7. excused' \in BOOLEAN BY <1>2 DEF Excused
<1>8. own = <<>> => own' = <<>> BY <1>2 DEF CacheAfter
<1>9. ~excused' => left' = <<>> /\ Fresh(kind, conf', range, own', below')
  <2> SUFFICES ASSUME ~excused'
               PROVE  left' = <<>> /\ Fresh(kind, conf', range, own', below')
    OBVIOUS
  <2>1. Excused(a) = FALSE BY <1>2 DEF Excused
  <2>2. stored = FALSE => own = <<>> OBVIOUS
  <2>3. Fresh(kind, a.conf, range, own', below')
    <3> HIDE DEF stored
    <3> QED BY <1>2, <1>4, <1>5, <2>1, <2>2, AnswerFresh
  <2>4. own' # <<>> \/ below' # <<>> => InitFilter(kind, a.conf, range) = a.conf
    BY <2>3 DEF Fresh, Steady
  <2>5. left' = <<>> BY <1>2, <1>5, <2>1, NothingLeft DEF Goes
  <2> QED BY <1>2, <2>3, <2>4, <2>5 DEF Fresh
<1>10. ASSUME kind = "voxelise", own' # <<>>, ~excused' PROVE conf'.representation # "slice"
  <2>1. stored /\ ~excused /\ ~a.misfit BY <1>2, <1>8, <1>10 DEF Excused
  <2>2. conf.representation # "slice" BY <1>10, <2>1 DEF SettingsInv
  <2>3. a.conf.representation # "slice" BY <1>5, <1>10, <2>1, <2>2
  <2>4. Whole(kind, a.conf) /\ VoxSound(a.conf, range) BY <1>5, <1>10 DEF Usable
  <2>5. conf' = a.conf BY <1>2, <1>10, <2>4, VoxelSteady
  <2> QED BY <2>3, <2>5
<1> QED BY <1>1, <1>3, <1>6, <1>7, <1>8, <1>9, <1>10 DEF SettingsInv

LEMMA InvAfterDrag ==
    ASSUME SettingsInv, Drag
    PROVE  SettingsInv'
<1>1. /\ kind \in Kinds /\ kind \in AllKinds /\ range \in RangeData \cup {NoRange}
      /\ Good(kind, conf, range)
      /\ excused \in BOOLEAN /\ (kind \in NeverCache => own = <<>>)
  BY KindsAndRanges DEF SettingsInv
<1>2. PICK a \in Drags(kind, conf) :
         /\ conf' = a.conf /\ own' = CacheAfter(a) /\ left' = LeftAfter(a)
         /\ excused' = Excused(a)
  BY DEF Drag
<1>3. kind' = kind /\ range' = range /\ below' = <<>> /\ edits' \in 0..MaxEdits
  BY OneEdit DEF Drag
<1> DEFINE stored == kind \notin NeverCache \cup {"voxelise"} /\ own # <<>>
<1>4. stored \in BOOLEAN /\ (kind \in NeverCache \cup {"voxelise"} => stored = FALSE) OBVIOUS
<1>5. /\ Goes(kind, conf, stored, range, a) /\ Good(kind, a.conf, range)
      /\ kind = "voxelise" => conf.representation = "slice"
  <2> HIDE DEF stored
  <2> QED BY <1>1, <1>2, <1>4, DragsGo
<1>6. stored = FALSE => own = <<>> \/ excused
  <2>1. kind = "voxelise" => own = <<>> \/ excused BY <1>5 DEF SettingsInv
  <2> QED BY <1>1, <2>1
<1>7. excused' \in BOOLEAN BY <1>2 DEF Excused
<1>8. own = <<>> => own' = <<>> BY <1>2 DEF CacheAfter
<1>9. ~excused' => left' = <<>> /\ Fresh(kind, conf', range, own', below')
  <2> SUFFICES ASSUME ~excused'
               PROVE  left' = <<>> /\ Fresh(kind, conf', range, own', below')
    OBVIOUS
  <2>1. Excused(a) = FALSE BY <1>2 DEF Excused
  <2> HIDE DEF stored
  <2>2. Fresh(kind, a.conf, range, own', below')
    BY <1>2, <1>3, <1>4, <1>5, <1>6, <2>1, AnswerFresh
  <2>3. left' = <<>> BY <1>2, <1>5, <2>1, NothingLeft DEF Goes
  <2> QED BY <1>2, <2>2, <2>3
<1>10. ASSUME kind = "voxelise", own' # <<>>, ~excused' PROVE FALSE
  <2>1. own # <<>> /\ ~excused BY <1>2, <1>8, <1>10 DEF Excused
  <2> QED BY <1>5, <1>10, <2>1 DEF SettingsInv
<1> QED BY <1>1, <1>2, <1>3, <1>5, <1>7, <1>8, <1>9, <1>10 DEF SettingsInv

\* What a refresh makes of good settings: initFilter's, and refresh's if nothing
\* is kept.
LEMMA RefreshMakes ==
    ASSUME SettingsInv, NEW again \in BOOLEAN
    PROVE  LET ready == InitFilter(kind, conf, range)
               done == IF again THEN Refreshed(kind, ready, range) ELSE ready
           IN  /\ Good(kind, done, range)
               /\ again => Steady(kind, done, range)
               /\ Steady(kind, conf, range) => done = conf
<1> DEFINE ready == InitFilter(kind, conf, range)
           done == IF again THEN Refreshed(kind, ready, range) ELSE ready
<1>1. kind \in AllKinds /\ range \in RangeForms /\ Good(kind, conf, range)
  BY KindsAndRanges DEF SettingsInv
<1>2. Good(kind, ready, range) /\ InitFilter(kind, ready, range) = ready
  BY <1>1, UsableForms, Initialised
<1>3. Good(kind, Refreshed(kind, ready, range), range)
      /\ Steady(kind, Refreshed(kind, ready, range), range)
  <2> HIDE DEF ready
  <2> QED BY <1>1, <1>2, RefreshedGood
<1>4. Steady(kind, conf, range) => ready = conf /\ Refreshed(kind, ready, range) = conf
  BY DEF Steady
<1> HIDE DEF ready
<1>5. Good(kind, done, range) /\ (again => Steady(kind, done, range))
      /\ (Steady(kind, conf, range) => done = conf)
  BY <1>2, <1>3, <1>4
<1> QED BY <1>5 DEF ready

LEMMA InvAfterRefresh ==
    ASSUME SettingsInv, Refresh
    PROVE  SettingsInv'
<1> DEFINE ready == InitFilter(kind, conf, range)
           again == own = <<>>
           done == IF again THEN Refreshed(kind, ready, range) ELSE ready
           out == IF own # <<>> THEN own ELSE <<Output(kind, done)>>
<1>1. /\ Good(kind, done, range) /\ (again => Steady(kind, done, range))
      /\ Steady(kind, conf, range) => done = conf
  <2>1. again \in BOOLEAN OBVIOUS
  <2> QED BY <2>1, RefreshMakes
<1>2. /\ conf' = done
      /\ \/ own' = own /\ left' = left
         \/ own' = left \o out /\ left' = <<>> /\ MayCache(kind, done)
      /\ below' = (IF below = <<>> THEN out ELSE below)
      /\ kind' = kind /\ range' = range /\ excused' = excused /\ edits' = edits
  BY DEF Refresh
<1> HIDE DEF ready, done
<1>3. /\ kind \in Kinds /\ range \in RangeData \cup {NoRange} /\ edits \in 0..MaxEdits
      /\ excused \in BOOLEAN
      /\ (kind \in NeverCache => own = <<>>)
  BY DEF SettingsInv
<1>6. kind \in NeverCache => own' = <<>>
  <2>1. kind \in NeverCache => ~MayCache(kind, done)
    BY DEF MayCache, NeverCache
  <2> QED BY <1>2, <1>3, <2>1
<1>7. ~excused => left' = <<>> /\ Fresh(kind, done, range, own', below')
  <2> SUFFICES ASSUME ~excused
               PROVE  left' = <<>> /\ Fresh(kind, done, range, own', below')
    OBVIOUS
  <2>1. left = <<>> /\ Fresh(kind, conf, range, own, below) BY DEF SettingsInv
  <2>2. \A x : <<>> \o <<x>> = <<x>> OBVIOUS
  <2>3. CASE own # <<>> \/ below # <<>>
    <3>1. Steady(kind, conf, range) /\ done = conf BY <1>1, <2>1, <2>3 DEF Fresh
    <3>2. {own, below} \subseteq {<<>>, <<Output(kind, done)>>} BY <2>1, <2>3, <3>1 DEF Fresh
    <3>3. out = <<Output(kind, done)>> BY <3>2
    <3> HIDE DEF out
    <3>4. left' = <<>> /\ own' \in {own, out} BY <1>2, <2>1, <2>2, <3>3
    <3> QED BY <1>2, <3>1, <3>2, <3>3, <3>4 DEF Fresh
  <2>4. CASE own = <<>> /\ below = <<>>
    <3>1. Steady(kind, done, range) /\ out = <<Output(kind, done)>> BY <1>1, <2>4
    <3> HIDE DEF out
    <3>2. left' = <<>> /\ own' \in {own, out} BY <1>2, <2>1, <2>2, <3>1
    <3> QED BY <1>2, <2>4, <3>1, <3>2 DEF Fresh
  <2> QED BY <2>3, <2>4
<1>8. ASSUME kind = "voxelise", own' # <<>>, ~excused PROVE done.representation # "slice"
  <2>1. CASE own = <<>>
    <3>1. MayCache(kind, done) BY <1>2, <1>8, <2>1
    <3>2. Voxel!MayCache(done) BY <1>8, <3>1 DEF MayCache
    <3> QED BY <3>2 DEF Voxel!MayCache
  <2>2. CASE own # <<>>
    <3>1. Fresh(kind, conf, range, own, below) BY <1>8 DEF SettingsInv
    <3>2. done = conf BY <1>1, <2>2, <3>1 DEF Fresh
    <3> QED BY <1>8, <2>2, <3>2 DEF SettingsInv
  <2> QED BY <2>1, <2>2
<1> QED BY <1>1, <1>2, <1>3, <1>6, <1>7, <1>8 DEF SettingsInv

LEMMA InvAfterRest ==
    ASSUME SettingsInv, Copy \/ Reload \/ Upstream
    PROVE  SettingsInv'
<1>1. /\ kind \in AllKinds /\ range \in RangeData \cup {NoRange} /\ range \in RangeForms
      /\ Good(kind, conf, range)
  BY KindsAndRanges DEF SettingsInv
<1>2. Whole(kind, conf) /\ Sane(kind, conf) /\ Sound(kind, conf) /\ Settled(kind, conf, range)
  BY <1>1 DEF Good
<1>3. CASE Copy
  <2>1. Good(kind, conf', range) BY <1>1, <1>3, CloneGood DEF Copy
  <2>2. NoCaches(own', below', left', excused') /\ kind' = kind /\ range' = range BY <1>3 DEF Copy
  <2>3. edits' \in 0..MaxEdits BY <1>3, OneEdit DEF Copy
  <2> QED BY <1>1, <2>1, <2>2, <2>3, NothingKept
<1>4. CASE Reload
  <2> DEFINE r == ReadState(kind, conf)
  <2>1. r.ok /\ conf' = InitFilter(kind, r.conf, range) BY <1>4 DEF Reload
  <2>2. Raw(kind, r.conf) BY <1>1, <1>2, <2>1, ReadRaw
  <2>3. Good(kind, conf', range) BY <1>1, <2>1, <2>2, UsableForms, Initialised
  <2>4. NoCaches(own', below', left', excused') /\ kind' = kind /\ range' = range BY <1>4 DEF Reload
  <2>5. edits' \in 0..MaxEdits BY <1>4, OneEdit DEF Reload
  <2> QED BY <1>1, <2>3, <2>4, <2>5, NothingKept
<1>5. CASE Upstream
  <2> DEFINE c == ClearCache(kind, conf)
  <2>1. PICK r \in RangeData \ {range} : range' = r /\ conf' = InitFilter(kind, c, r)
    BY <1>5 DEF Upstream
  <2>2. r \in RangeForms BY KindsAndRanges
  <2>3. Usable(kind, c, r)
    <3>1. CASE kind # "voxelise"
      <4>1. c = conf BY <3>1 DEF ClearCache
      <4> QED BY <1>2, <3>1, <4>1 DEF Usable
    <3>2. CASE kind = "voxelise"
      <4>1. c = [conf EXCEPT !.voxelCache = <<>>]
        BY <3>2 DEF ClearCache, Voxel!ClearCache
      <4>2. {"voxelCache", "vdbCache", "representation"} \subseteq DOMAIN conf
        BY <1>2, <3>2 DEF Whole, Kin, New, Voxel!New
      <4> HIDE DEF c
      <4>3. c.voxelCache = <<>> /\ c.vdbCache = conf.vdbCache
            /\ c.representation = conf.representation
        BY <4>1, <4>2
      <4>4. Whole(kind, c) BY <1>2, <4>1, MixedExcept
      <4>5. Unmade(c) BY <1>2, <3>2, <4>3 DEF Settled, VoxSound, Unmade
      <4> QED BY <1>2, <3>2, <4>3, <4>4, <4>5 DEF Usable, Sane, Sound
    <3> QED BY <3>1, <3>2
  <2> HIDE DEF c
  <2>4. Good(kind, conf', range') BY <1>1, <2>1, <2>2, <2>3, Initialised
  <2>5. NoCaches(own', below', left', excused') /\ kind' = kind BY <1>5 DEF Upstream
  <2>6. edits' \in 0..MaxEdits BY <1>5, OneEdit DEF Upstream
  <2>7. range' \in RangeData \cup {NoRange} BY <2>1
  <2> QED BY <2>4, <2>5, <2>6, <2>7, NothingKept
<1> QED BY <1>3, <1>4, <1>5

\* For every kind of filter and any range data, whatever is set, dragged, copied,
\* read back and refreshed: the settings are those of the kind with values that its
\* code takes for granted, a filter that never caches has no cache, and what is
\* cached is made of the settings as they are, unless a misfit is excused
\* (setProperty, setPropFromBinding, initFilter and refresh of all filters).
THEOREM SettingsStayGood == SettingsSpec => []SettingsInv
<1>1. SettingsInit => SettingsInv BY SettingsInvInit
<1>2. SettingsInv /\ [SettingsNext]_settingsVars => SettingsInv'
  <2> SUFFICES ASSUME SettingsInv, [SettingsNext]_settingsVars PROVE SettingsInv' OBVIOUS
  <2>1. CASE SetProperty BY <2>1, InvAfterSetProperty
  <2>2. CASE Drag BY <2>2, InvAfterDrag
  <2>3. CASE Refresh BY <2>3, InvAfterRefresh
  <2>4. CASE Copy \/ Reload \/ Upstream BY <2>4, InvAfterRest
  <2>5. CASE UNCHANGED settingsVars
    BY <2>5 DEF settingsVars, SettingsInv
  <2> QED BY <2>1, <2>2, <2>3, <2>4, <2>5 DEF SettingsNext
<1> QED BY <1>1, <1>2, PTL DEF SettingsSpec

-----------------------------------------------------------------------------
(* What refresh lets through.                                              *)

Fits(s, except, in) ==
    /\ (s.block \ except) \cap in = in \ (s.passes \cup except)
    /\ s.makes \subseteq s.emit

LEMMA OtherMasks ==
    ASSUME NEW k \in AllKinds \ {"spatialAnalysis"}, NEW c,
           k = "voxelise" => c.representation \in {"cloud", "surface", "slice"},
           NEW in \in SUBSET StreamTypes, NEW stored \in BOOLEAN
    PROVE  Fits(FilterStreams(k, c, in, stored), Unmasked(k, c, in), in)
<1>0. k = "voxelise" => c.representation \in {"cloud", "surface", "slice"} OBVIOUS
<1>1. CASE k = "ionClip"
  <2>1. FilterStreams(k, c, in, stored) = Clip!Streams(c, in, stored)
        /\ Unmasked(k, c, in) = {}
    BY <1>1 DEF FilterStreams, Unmasked
  <2>2. Fits(Clip!Streams(c, in, stored), {}, in)
    BY DEF Fits, StreamTypes, Clip!Streams, Clip!StreamsOf, Clip!Makes, Clip!Passes,
           Clip!BlockMask, Clip!EmitMask, Clip!StreamTypes
  <2> QED BY <2>1, <2>2
<1>2. CASE k = "ionColour"
  <2>1. FilterStreams(k, c, in, stored) = Colour!Streams(c, in, stored)
        /\ Unmasked(k, c, in) = {}
    BY <1>2 DEF FilterStreams, Unmasked
  <2>2. Fits(Colour!Streams(c, in, stored), {}, in)
    BY DEF Fits, StreamTypes, Colour!Streams, Colour!StreamsOf, Colour!Makes,
           Colour!Passes, Colour!BlockMask, Colour!EmitMask, Colour!StreamTypes
  <2> QED BY <2>1, <2>2
<1>3. CASE k = "ionDownsample"
  <2>1. FilterStreams(k, c, in, stored) = Downsample!Streams(c, in, stored)
        /\ Unmasked(k, c, in) = {}
    BY <1>3 DEF FilterStreams, Unmasked
  <2>2. Fits(Downsample!Streams(c, in, stored), {}, in)
    BY DEF Fits, StreamTypes, Downsample!Streams, Downsample!StreamsOf,
           Downsample!Makes, Downsample!Passes, Downsample!BlockMask,
           Downsample!EmitMask, Downsample!StreamTypes
  <2> QED BY <2>1, <2>2
<1>4. CASE k = "rangeFile"
  <2>1. FilterStreams(k, c, in, stored) = RangeFile!Streams(c, in, stored)
        /\ Unmasked(k, c, in) = IF RangeFile!Nothing(c) THEN StreamTypes ELSE {"range"}
    BY <1>4 DEF FilterStreams, Unmasked
  <2>2. Fits(RangeFile!Streams(c, in, stored), IF RangeFile!Nothing(c) THEN StreamTypes ELSE {"range"}, in)
    BY DEF Fits, StreamTypes, RangeFile!Streams, RangeFile!StreamsOf, RangeFile!Makes,
           RangeFile!Passes, RangeFile!BlockMask, RangeFile!EmitMask,
           RangeFile!StreamTypes
  <2> QED BY <2>1, <2>2
<1>5. CASE k = "transform"
  <2>1. FilterStreams(k, c, in, stored) = Transf!Streams(c, in, stored)
        /\ Unmasked(k, c, in) = IF c.transformMode = "crop" THEN StreamTypes ELSE {}
    BY <1>5 DEF FilterStreams, Unmasked
  <2>2. Fits(Transf!Streams(c, in, stored), IF c.transformMode = "crop" THEN StreamTypes ELSE {}, in)
    BY DEF Fits, StreamTypes, Transf!Streams, Transf!StreamsOf, Transf!Makes,
           Transf!Passes, Transf!BlockMask, Transf!EmitMask, Transf!StreamTypes
  <2> QED BY <2>1, <2>2
<1>6. CASE k = "boundingBox"
  <2>1. FilterStreams(k, c, in, stored) = Box!Streams(c, in, stored)
        /\ Unmasked(k, c, in) = {}
    BY <1>6 DEF FilterStreams, Unmasked
  <2>2. Fits(Box!Streams(c, in, stored), {}, in)
    BY DEF Fits, StreamTypes, Box!Streams, Box!StreamsOf, Box!Makes, Box!Passes,
           Box!BlockMask, Box!EmitMask, Box!StreamTypes
  <2> QED BY <2>1, <2>2
<1>7. CASE k = "profile"
  <2>1. FilterStreams(k, c, in, stored) = Prof!Streams(c, in, stored)
        /\ Unmasked(k, c, in) = {"ions"}
    BY <1>7 DEF FilterStreams, Unmasked
  <2>2. Fits(Prof!Streams(c, in, stored), {"ions"}, in)
    BY DEF Fits, StreamTypes, Prof!Streams, Prof!StreamsOf, Prof!Makes, Prof!Passes,
           Prof!BlockMask, Prof!EmitMask, Prof!StreamTypes
  <2> QED BY <2>1, <2>2
<1>8. CASE k = "clusterAnalysis"
  <2>1. FilterStreams(k, c, in, stored) = Cluster!Streams(c, in, stored)
        /\ Unmasked(k, c, in) = {"range"}
    BY <1>8 DEF FilterStreams, Unmasked
  <2>2. Fits(Cluster!Streams(c, in, stored), {"range"}, in)
    BY DEF Fits, StreamTypes, Cluster!Streams, Cluster!StreamsOf, Cluster!Makes,
           Cluster!Passes, Cluster!BlockMask, Cluster!EmitMask, Cluster!StreamTypes
  <2> QED BY <2>1, <2>2
<1>9. CASE k = "ionInfo"
  <2>1. FilterStreams(k, c, in, stored) = Info!Streams(c, in, stored)
        /\ Unmasked(k, c, in) = {}
    BY <1>9 DEF FilterStreams, Unmasked
  <2>2. Fits(Info!Streams(c, in, stored), {}, in)
    BY DEF Fits, StreamTypes, Info!Streams, Info!StreamsOf, Info!StreamTypes
  <2> QED BY <2>1, <2>2
<1>10. CASE k = "spectrumPlot"
  <2>1. FilterStreams(k, c, in, stored) = Spectrum!Streams(c, in, stored)
        /\ Unmasked(k, c, in) = {}
    BY <1>10 DEF FilterStreams, Unmasked
  <2>2. Fits(Spectrum!Streams(c, in, stored), {}, in)
    BY DEF Fits, StreamTypes, Spectrum!Streams, Spectrum!StreamsOf,
           Spectrum!StreamTypes
  <2> QED BY <2>1, <2>2
<1>11. CASE k = "dataLoad"
  <2>1. FilterStreams(k, c, in, stored) = Data!Streams(c, in, stored)
        /\ Unmasked(k, c, in) = {}
    BY <1>11 DEF FilterStreams, Unmasked
  <2>2. Fits(Data!Streams(c, in, stored), {}, in)
    BY DEF Fits, StreamTypes, Data!Streams, Data!StreamsOf, Data!Makes,
           Data!StreamTypes
  <2> QED BY <2>1, <2>2
<1>12. CASE k = "externalProgram"
  <2>1. FilterStreams(k, c, in, stored) = Program!Streams(c, in, stored)
        /\ Unmasked(k, c, in) = StreamTypes
    BY <1>12 DEF FilterStreams, Unmasked
  <2>2. Fits(Program!Streams(c, in, stored), StreamTypes, in)
    BY DEF Fits, StreamTypes, Program!Streams, Program!StreamsOf, Program!Makes,
           Program!BlockMask, Program!EmitMask, Program!StreamTypes
  <2> QED BY <2>1, <2>2
<1>13. CASE k = "proxigram"
  <2>1. FilterStreams(k, c, in, stored) = Proxi!Streams(c, in, stored)
        /\ Unmasked(k, c, in) = {}
    BY <1>13 DEF FilterStreams, Unmasked
  <2>2. Fits(Proxi!Streams(c, in, stored), {}, in)
    BY DEF Fits, StreamTypes, Proxi!Streams, Proxi!StreamsOf, Proxi!Passes,
           Proxi!BlockMask, Proxi!EmitMask, Proxi!StreamTypes
  <2> QED BY <2>1, <2>2
<1>14. CASE k = "voxelise"
  <2>1. FilterStreams(k, c, in, stored) = Voxel!Streams(c, in, stored)
        /\ Unmasked(k, c, in) = {}
    BY <1>14 DEF FilterStreams, Unmasked
  <2>2. Fits(Voxel!Streams(c, in, stored), {}, in)
    BY <1>0, <1>14 DEF Fits, StreamTypes, Voxel!Streams, Voxel!StreamsOf, Voxel!Makes,
           Voxel!Passes, Voxel!BlockMask, Voxel!EmitMask, Voxel!StreamTypes
  <2> QED BY <2>1, <2>2
<1>15. CASE k = "annotation"
  <2>1. FilterStreams(k, c, in, stored) = Notes!Streams(c, in, stored)
        /\ Unmasked(k, c, in) = {}
    BY <1>15 DEF FilterStreams, Unmasked
  <2>2. Fits(Notes!Streams(c, in, stored), {}, in)
    BY DEF Fits, StreamTypes, Notes!Streams, Notes!StreamsOf, Notes!Makes,
           Notes!StreamTypes
  <2> QED BY <2>1, <2>2
<1> QED BY <1>1, <1>2, <1>3, <1>4, <1>5, <1>6, <1>7, <1>8, <1>9, <1>10, <1>11, <1>12, <1>13, <1>14, <1>15 DEF AllKinds

LEMMA SpatialMasks ==
    ASSUME NEW c, c.algorithm \in Spatial!Algorithms, NEW in \in SUBSET StreamTypes, NEW stored \in BOOLEAN
    PROVE  Fits(Spatial!Streams(c, in, stored), Unmasked("spatialAnalysis", c, in), in)
<1> DEFINE A == Spatial!Algorithm(c)
           pass == Spatial!PassNothing(c)
<1>1. A.makes \subseteq Spatial!EmitMask(c)
  BY DEF Spatial!Algorithm, Spatial!EmitMask, Spatial!Algorithms, Spatial!Result,
         Spatial!OfDensity, Spatial!OfAxial, Spatial!OfBinomial, Spatial!OfDensityFilter,
         Spatial!OfRDF, Spatial!OfReplace, Spatial!OfConcentration
<1>2. Spatial!BlockMask(c) \subseteq {"ions", "range"} /\ "ions" \in Spatial!BlockMask(c)
  BY DEF Spatial!BlockMask
<1>3. Spatial!Makes(c, in) \subseteq Spatial!EmitMask(c)
  <2> HIDE DEF A
  <2> QED BY <1>1 DEF Spatial!Makes, A
<1>5. Unmasked("spatialAnalysis", c, in) = IF "ions" \notin in \/ pass THEN StreamTypes ELSE {}
  BY DEF Unmasked
<1>6. pass \in BOOLEAN BY DEF Spatial!PassNothing
<1> HIDE DEF pass
<1>4. LET e == Unmasked("spatialAnalysis", c, in) IN
      (Spatial!BlockMask(c) \ e) \cap in = in \ (Spatial!Passes(c, in, stored) \cup e)
  <2>1. CASE "ions" \notin in \/ pass BY <2>1, <1>5
  <2>2. CASE ~("ions" \notin in \/ pass)
    <3>1. Spatial!Passes(c, in, stored) = StreamTypes \ Spatial!BlockMask(c)
      BY <2>2, Zenon DEF Spatial!Passes, pass, Spatial!StreamTypes, StreamTypes
    <3> QED BY <3>1, <2>2, <1>5
  <2> QED BY <2>1, <2>2
<1> QED BY <1>3, <1>4 DEF Fits, Spatial!Streams, Spatial!StreamsOf

\* What is said of a filter's streams is a record.
Formed(s) ==
    s = [makes |-> s.makes, passes |-> s.passes, block |-> s.block, emit |-> s.emit]

LEMMA StreamsFormed ==
    ASSUME NEW k \in AllKinds, NEW c, NEW in, NEW stored
    PROVE  Formed(FilterStreams(k, c, in, stored))
<1>1. \A m, p, b, e : Formed([makes |-> m, passes |-> p, block |-> b, emit |-> e])
  BY DEF Formed
<1>2. CASE k = "ionClip" BY <1>1, <1>2 DEF FilterStreams, Clip!Streams, Clip!StreamsOf
<1>3. CASE k = "ionColour" BY <1>1, <1>3 DEF FilterStreams, Colour!Streams, Colour!StreamsOf
<1>4. CASE k = "ionDownsample" BY <1>1, <1>4 DEF FilterStreams, Downsample!Streams, Downsample!StreamsOf
<1>5. CASE k = "rangeFile" BY <1>1, <1>5 DEF FilterStreams, RangeFile!Streams, RangeFile!StreamsOf
<1>6. CASE k = "transform" BY <1>1, <1>6 DEF FilterStreams, Transf!Streams, Transf!StreamsOf
<1>7. CASE k = "boundingBox" BY <1>1, <1>7 DEF FilterStreams, Box!Streams, Box!StreamsOf
<1>8. CASE k = "profile" BY <1>1, <1>8 DEF FilterStreams, Prof!Streams, Prof!StreamsOf
<1>9. CASE k = "clusterAnalysis" BY <1>1, <1>9 DEF FilterStreams, Cluster!Streams, Cluster!StreamsOf
<1>10. CASE k = "ionInfo" BY <1>1, <1>10 DEF FilterStreams, Info!Streams, Info!StreamsOf
<1>11. CASE k = "spectrumPlot" BY <1>1, <1>11 DEF FilterStreams, Spectrum!Streams, Spectrum!StreamsOf
<1>12. CASE k = "dataLoad" BY <1>1, <1>12 DEF FilterStreams, Data!Streams, Data!StreamsOf
<1>13. CASE k = "externalProgram" BY <1>1, <1>13 DEF FilterStreams, Program!Streams, Program!StreamsOf
<1>14. CASE k = "proxigram" BY <1>1, <1>14 DEF FilterStreams, Proxi!Streams, Proxi!StreamsOf
<1>15. CASE k = "voxelise" BY <1>1, <1>15 DEF FilterStreams, Voxel!Streams, Voxel!StreamsOf
<1>16. CASE k = "spatialAnalysis" BY <1>1, <1>16 DEF FilterStreams, Spatial!Streams, Spatial!StreamsOf
<1>17. CASE k = "annotation" BY <1>1, <1>17 DEF FilterStreams, Notes!Streams, Notes!StreamsOf
<1> QED BY <1>2, <1>3, <1>4, <1>5, <1>6, <1>7, <1>8, <1>9, <1>10, <1>11, <1>12, <1>13,
       <1>14, <1>15, <1>16, <1>17 DEF AllKinds

-----------------------------------------------------------------------------
(* The properties of the settings.                                         *)

\* The properties of the settings.
LEMMA OneAtMost ==
    ASSUME NEW o, NEW x, o = <<>> \/ o = <<x>>
    PROVE  Len(o) <= 1
<1>1. Len(<<>>) = 0 /\ Len(<<x>>) = 1 OBVIOUS
<1>2. CASE o = <<>> BY <1>1, <1>2
<1>3. CASE o = <<x>> BY <1>1, <1>3
<1> QED BY <1>2, <1>3

LEMMA InvTypeOK ==
    SettingsInv => SettingsTypeOK
<1> SUFFICES ASSUME SettingsInv PROVE SettingsTypeOK OBVIOUS
<1>1. ASSUME ~excused PROVE Len(own) <= 1 /\ Len(below) <= 1 /\ left = <<>>
  <2>1. left = <<>> /\ Fresh(kind, conf, range, own, below) BY <1>1 DEF SettingsInv
  <2>2. {own, below} \subseteq {<<>>, <<Output(kind, conf)>>} BY <2>1 DEF Fresh
  <2>3. own = <<>> \/ own = <<Output(kind, conf)>> BY <2>2
  <2>4. below = <<>> \/ below = <<Output(kind, conf)>> BY <2>2
  <2>5. Len(own) <= 1 BY <2>3, OneAtMost
  <2>6. Len(below) <= 1 BY <2>4, OneAtMost
  <2> QED BY <2>1, <2>5, <2>6
<1>2. DOMAIN conf = DOMAIN New(kind) BY DEF SettingsInv, Good, Whole, Kin
<1> QED BY <1>1, <1>2 DEF SettingsInv, SettingsTypeOK

LEMMA InvCachesRight ==
    SettingsInv => CachesRight
<1> SUFFICES ASSUME SettingsInv, ~excused, ~KnownStale, own # <<>> \/ below # <<>>
             PROVE  {own, below} \subseteq {<<>>, <<Output(kind, Afresh(kind, conf, range))>>}
  BY InvTypeOK DEF CachesRight
<1>1. Steady(kind, conf, range) /\ {own, below} \subseteq {<<>>, <<Output(kind, conf)>>}
  BY DEF SettingsInv, Fresh
<1>2. Output(kind, Afresh(kind, conf, range)) = Output(kind, conf)
  <2>1. CASE kind # "voxelise" BY <2>1 DEF Afresh
  <2>2. CASE kind = "voxelise"
    <3>1. /\ Whole("voxelise", conf) /\ Sane("voxelise", conf) /\ VoxSound(conf, range)
          /\ Steady("voxelise", conf, range)
      BY <1>1, <2>2 DEF SettingsInv, Good, Settled
    <3>2. ~Voxel!GridIsOld(conf, range) BY <2>2 DEF KnownStale
    <3> QED BY <2>2, <3>1, <3>2, VoxelAfresh
  <2> QED BY <2>1, <2>2
<1> QED BY <1>1, <1>2

LEMMA InvMasksMatch ==
    SettingsInv => MasksMatch
<1> SUFFICES ASSUME SettingsInv,
                    NEW in \in {StreamTypes} \cup {StreamTypes \ {t} : t \in StreamTypes},
                    NEW stored \in BOOLEAN
             PROVE  LET s == FilterStreams(kind, conf, in, stored)
                        except == Unmasked(kind, conf, in)
                    IN  MasksFit([s EXCEPT !.block = @ \ except, !.passes = @ \cup except], in)
  BY DEF MasksMatch
<1> DEFINE s == FilterStreams(kind, conf, in, stored)
           except == Unmasked(kind, conf, in)
<1>1. kind \in AllKinds /\ Sane(kind, conf) BY KindsAndRanges DEF SettingsInv, Good
<1>2. in \in SUBSET StreamTypes OBVIOUS
<1>3. Fits(s, except, in)
  <2>1. CASE kind # "spatialAnalysis"
    <3>1. kind = "voxelise" => conf.representation \in {"cloud", "surface", "slice"}
      BY <1>1 DEF Sane
    <3> QED BY <1>1, <1>2, <2>1, <3>1, OtherMasks
  <2>2. CASE kind = "spatialAnalysis"
    <3>1. conf.algorithm \in Spatial!Algorithms BY <1>1, <2>2 DEF Sane
    <3> QED BY <1>2, <2>2, <3>1, SpatialMasks DEF FilterStreams
  <2> QED BY <2>1, <2>2
<1>4. Formed(s) BY <1>1, StreamsFormed
<1> HIDE DEF s, except
<1>5. LET t == [s EXCEPT !.block = @ \ except, !.passes = @ \cup except]
      IN  /\ t.block = s.block \ except /\ t.passes = s.passes \cup except
          /\ t.makes = s.makes /\ t.emit = s.emit
  BY <1>4 DEF Formed
<1> QED BY <1>3, <1>5 DEF Fits, MasksFit, s, except

LEMMA InvCopyKeeps ==
    SettingsInv => CopyKeepsSettings
BY KindsAndRanges, CloneAlike DEF SettingsInv, Good, CopyKeepsSettings

\* What initFilter makes of settings that it has made for these ranges is what they
\* were, but for what SetByRefresh has of cluster analysis and spatial analysis.
LEMMA TransientSet ==
    ASSUME NEW c, NEW v
    PROVE  /\ Alike([c EXCEPT !.haveRangeParent = v], c, {})
           /\ Alike([c EXCEPT !.incoming = v], c, {})
BY DEF Alike, Transient

LEMMA AlikeForms ==
    ASSUME NEW c
    PROVE  /\ \A s : Alike(c, c, s)
           /\ \A d, s, t : Alike(d, c, s) /\ s \subseteq t => Alike(d, c, t)
BY DEF Alike

LEMMA ClusterNamesKept ==
    ASSUME NEW c, Whole("clusterAnalysis", c), NEW r, Settled("clusterAnalysis", c, r)
    PROVE  Alike(Cluster!InitFilter(c, r), c, {"ionCoreEnabled", "ionBulkEnabled"})
<1> DEFINE names == Cluster!EnabledNames(r)
           found == [c EXCEPT !.haveRangeParent = TRUE, !.ionNames = names]
           d == Cluster!InitFilter(c, r)
<1>1. Cluster!NoRange = NoRange BY DEF Cluster!NoRange, NoRange
<1>2. r # NoRange => c.ionNames = names BY DEF Settled
<1>3. CASE r = NoRange
  <2>1. d = [c EXCEPT !.haveRangeParent = FALSE] BY <1>1, <1>3 DEF Cluster!InitFilter
  <2> QED BY <2>1 DEF Alike, Transient
<1>4. CASE r # NoRange
  <2>1. \E x, y : d \in {found, [found EXCEPT !.ionCoreEnabled = x, !.ionBulkEnabled = y]}
    BY <1>1, <1>4, Zenon DEF Cluster!InitFilter
  <2> HIDE DEF names, d
  <2>2. found = [c EXCEPT !.haveRangeParent = TRUE] BY <1>2, <1>4 DEF Whole, Kin
  <2> QED BY <2>1, <2>2 DEF Alike, Transient, d
<1> QED BY <1>3, <1>4

LEMMA RefreshAlike ==
    ASSUME SettingsInv, Refresh
    PROVE  Alike(conf', conf, SetByRefresh)
<1> DEFINE ready == InitFilter(kind, conf, range)
           done == IF own # <<>> THEN ready ELSE Refreshed(kind, ready, range)
<1>1. conf' = done BY DEF Refresh
<1>2. /\ kind \in AllKinds /\ range \in RangeForms /\ range \in RangeData \cup {NoRange}
      /\ Whole(kind, conf) /\ Sane(kind, conf) /\ Sound(kind, conf)
      /\ Settled(kind, conf, range)
  BY KindsAndRanges DEF SettingsInv, Good
<1>3. CASE kind \in {"ionClip", "ionColour", "rangeFile", "boundingBox", "dataLoad",
                     "externalProgram", "annotation", "ionDownsample", "proxigram"}
  <2>1. ready = conf BY <1>2, <1>3 DEF InitFilter, Settled
  <2>2. done = conf BY <1>3, <2>1 DEF Refreshed
  <2> QED BY <1>1, <2>2, AlikeForms
<1>4. CASE kind = "profile"
  <2>1. done = Prof!InitFilter(conf, range) BY <1>4 DEF InitFilter, Refreshed
  <2>2. done = [conf EXCEPT !.haveRangeParent = range # Prof!NoRange]
    BY <2>1 DEF Prof!InitFilter
  <2> HIDE DEF done
  <2>3. Alike(done, conf, {}) BY <2>2, TransientSet
  <2> QED BY <1>1, <2>3, AlikeForms
<1>5. CASE kind = "ionInfo"
  <2>1. done = Info!InitFilter(conf, range) BY <1>5 DEF InitFilter, Refreshed
  <2>2. done = conf \/ done = [conf EXCEPT !.incoming = range] BY <2>1 DEF Info!InitFilter
  <2> HIDE DEF done
  <2>3. Alike([conf EXCEPT !.incoming = range], conf, {}) /\ Alike(conf, conf, {})
    BY TransientSet, AlikeForms
  <2>4. Alike(done, conf, {}) BY <2>2, <2>3
  <2> QED BY <1>1, <2>4, AlikeForms
<1>6. CASE kind = "clusterAnalysis"
  <2>1. done = Cluster!InitFilter(conf, range) BY <1>6 DEF InitFilter, Refreshed
  <2>2. CASE DOMAIN conf.ionCoreEnabled = DOMAIN conf.ionNames
    <3>1. range # NoRange => LET names == Cluster!EnabledNames(range)
                             IN  names \in Seq(STRING) /\ Distinct(names)
      BY <1>2, RangeDataAssumption DEF Distinct
    <3>2. Alike(done, conf, {}) BY <1>2, <1>6, <2>1, <2>2, <3>1, ClusterKeeps
    <3> QED BY <1>1, <3>2, AlikeForms
  <2>3. CASE DOMAIN conf.ionCoreEnabled # DOMAIN conf.ionNames
    <3>1. Alike(done, conf, {"ionCoreEnabled", "ionBulkEnabled"})
      BY <1>2, <1>6, <2>1, ClusterNamesKept
    <3>2. SetByRefresh = {"ionCoreEnabled", "ionBulkEnabled"}
      BY <1>6, <2>3 DEF SetByRefresh
    <3> QED BY <1>1, <3>1, <3>2
  <2> QED BY <2>2, <2>3
<1>7. CASE kind = "spatialAnalysis"
  <2>1. done = Spatial!InitFilter(conf, range) BY <1>7 DEF InitFilter, Refreshed
  <2>2. Alike(done, conf, {"ionNames"}) BY <1>2, <1>7, <2>1, SpatialInit
  <2>3. SetByRefresh = {"ionNames"} BY <1>7 DEF SetByRefresh
  <2> QED BY <1>1, <2>2, <2>3
<1>8. CASE kind = "transform"
  <2>1. done \in {conf, Transf!Refreshed(conf)} BY <1>8 DEF InitFilter, Refreshed
  <2>2. Alike(Transf!Refreshed(conf), conf,
              IF conf.originMode # "select" THEN {"vectorParams"} ELSE {})
    BY <1>2, <1>8, TransformRefreshed
  <2>3. SetByRefresh = IF conf.originMode # "select" THEN {"vectorParams"} ELSE {}
    BY <1>8 DEF SetByRefresh
  <2> QED BY <1>1, <2>1, <2>2, <2>3, AlikeForms
<1>9. CASE kind = "spectrumPlot"
  <2>1. done \in {conf, Spectrum!Refreshed(conf, range)} BY <1>9 DEF InitFilter, Refreshed
  <2> DEFINE set == IF conf.autoExtrema THEN {"minPlot", "maxPlot", "binWidth"}
                    ELSE IF conf.binWidth > conf.maxPlot - conf.minPlot THEN {"binWidth"}
                    ELSE {}
  <2>2. Alike(Spectrum!Refreshed(conf, range), conf, set)
    BY <1>2, <1>9, SpectrumRefreshed
  <2>3. set = SetByRefresh
    <3>1. CASE conf.autoExtrema BY <1>9, <3>1 DEF SetByRefresh
    <3>2. CASE ~conf.autoExtrema /\ conf.binWidth > conf.maxPlot - conf.minPlot
      BY <1>9, <3>2 DEF SetByRefresh
    <3>3. CASE ~conf.autoExtrema /\ ~(conf.binWidth > conf.maxPlot - conf.minPlot)
      BY <1>9, <3>3 DEF SetByRefresh
    <3> QED BY <3>1, <3>2, <3>3
  <2> HIDE DEF set
  <2> QED BY <1>1, <2>1, <2>2, <2>3, AlikeForms
<1>10. CASE kind = "voxelise"
  <2>1. VoxSound(conf, range) BY <1>2, <1>10 DEF Settled
  <2>2. ready = conf BY <1>2, <1>10, <2>1, VoxelSteady
  <2>3. Alike(Refreshed("voxelise", conf, range), conf,
              {"bc", IF conf.fixedWidth THEN "nBins" ELSE "binWidth"})
    BY <1>2, <1>10, <2>1, VoxelRefreshed
  <2>4. SetByRefresh = {"bc", IF conf.fixedWidth THEN "nBins" ELSE "binWidth"}
    BY <1>10 DEF SetByRefresh
  <2>5. done \in {conf, Refreshed("voxelise", conf, range)} BY <1>10, <2>2
  <2> QED BY <1>1, <2>3, <2>4, <2>5, AlikeForms
<1> QED BY <1>2, <1>3, <1>4, <1>5, <1>6, <1>7, <1>8, <1>9, <1>10 DEF AllKinds

\* For every kind: a refresh changes no setting but those that SetByRefresh names
\* (refresh of all filters).
THEOREM SettingsRefreshKeeps == SettingsSpec => RefreshKeepsSettings
<1>1. SettingsInv /\ [SettingsNext]_settingsVars =>
         [edits' = edits => Alike(conf', conf, SetByRefresh)]_settingsVars
  <2> SUFFICES ASSUME SettingsInv, SettingsNext, edits' = edits
               PROVE  Alike(conf', conf, SetByRefresh)
    OBVIOUS
  <2>1. edits \in Nat BY KindsAndRanges DEF SettingsInv
  <2>2. Refresh
    BY <2>1 DEF SettingsNext, SetProperty, Drag, Copy, Reload, Upstream
  <2> QED BY <2>2, RefreshAlike
<1> QED BY <1>1, SettingsStayGood, PTL DEF SettingsSpec, RefreshKeepsSettings

\* The types of the settings and caches: at most one result is kept unless a misfit
\* is excused (cacheAsNeeded).
THEOREM SettingsTyped == SettingsSpec => []SettingsTypeOK
BY SettingsStayGood, InvTypeOK, PTL

\* For every kind: the cache of a filter and those below are what they would be if
\* made anew, but for the misfits and KnownStale (setProperty of all filters).
THEOREM SettingsCachesRight == SettingsSpec => []CachesRight
BY SettingsStayGood, InvCachesRight, PTL

\* For every kind: what is passed on and made is what the masks say, from the
\* cache as well, but for Unmasked.
THEOREM SettingsMasksMatch == SettingsSpec => []MasksMatch
BY SettingsStayGood, InvMasksMatch, PTL

\* For every kind: a copy has the settings, but for those of LostByCopy
\* (cloneUncached of all filters).
THEOREM SettingsCopied == SettingsSpec => []CopyKeepsSettings
BY SettingsStayGood, InvCopyKeeps, PTL
=============================================================================
