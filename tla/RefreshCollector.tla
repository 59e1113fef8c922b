--------------------------- MODULE RefreshCollector ---------------------------
(***************************************************************************)
(* Who owns a data stream while the tree is refreshed: the walk of         *)
(* FilterTree::refreshFilterTree over the filters, its stack of inputs,    *)
(* and FilterRefreshCollector (backend/filtertree.cpp), which deletes the  *)
(* streams that no filter keeps and that are not part of the output.       *)
(*                                                                         *)
(* A filter's refresh may pass on any of its inputs and may add a stream   *)
(* of its own, which belongs to the filter if it is cached and to the      *)
(* caller if not.  One stream of its own is enough to tell who deletes     *)
(* what; it is named after the position of its filter.  The vectors of     *)
(* streams are sets: the order in them does not matter to the collector.   *)
(***************************************************************************)
EXTENDS Containers

CONSTANTS Trees  \* the shapes of tree, and where the refresh starts in each:
                 \* records [shape, starts], as FilterRefreshStarts gives them

\* There is something to refresh (TreeState::refresh returns early if not).
TreesAssumption ==
    \A t \in Trees :
        /\ t = [shape |-> t.shape, starts |-> t.starts]
        /\ t.shape \in Seq([depth : Nat]) /\ t.shape # <<>> /\ IsForest(t.shape)
        /\ t.starts \in Seq(DOMAIN t.shape)
ASSUME TreesAssumption

\* No start is the same as another, or below it: what getFilterRefreshStarts
\* asserts of its result.  They come in pre-order: its "breadth first" loop
\* walks with a tree::iterator, which is the pre-order one.
StartsAssumption ==
    \A t \in Trees : \A i, j \in DOMAIN t.starts :
        i < j => /\ t.starts[i] < t.starts[j]
                 /\ t.starts[j] \notin Branch(t.shape, t.starts[i])
ASSUME StartsAssumption

VARIABLES filters,    \* the depths of the filters, in pre-order
          starts,     \* baseTreeNodes
          itPos,      \* the start whose branch is being refreshed
          filtIt,     \* the filter to refresh next, NoFilter between branches
          inDataStack,\* inputs, the last is the top
          nodes,      \* the collector's levels of tracked streams
          forgotten,  \* the collector's forgottenNodes
          outData,    \* what the leaves have put out: a function of those
                      \* that put out something, in the order of the walk
          cached,     \* the streams that their filter keeps
          made,       \* the streams that have been allocated
          deletions,  \* how often each has been deleted
          status      \* "running", or what refreshFilterTree has returned
tree == <<filters, starts>>
vars == <<filters, starts, itPos, filtIt, inDataStack, nodes, forgotten,
          outData, cached, made, deletions, status>>

NoFilter == 0
Streams == DOMAIN filters
Level(p) == (filters[p].depth - filters[starts[itPos]].depth) + 1

\* What the collector tracks, and what the output holds.
Tracked == UNION {nodes[i] : i \in DOMAIN nodes}
InOutput == UNION {outData[p] : p \in DOMAIN outData}

Delete(S) == [s \in Streams |-> deletions[s] + (IF s \in S THEN 1 ELSE 0)]

-----------------------------------------------------------------------------
(* FilterRefreshCollector, with the levels of nodes counted from 1.        *)

\* Mutant of DoomedAbove: one more level is left out.
DoomedAbove_Late(level) == UNION {nodes[i] : i \in (level + 3)..Len(nodes)}

\* collectToLevel(level): what it deletes ...
DoomedAbove(level) == UNION {nodes[i] : i \in (level + 2)..Len(nodes)}

\* ... and the levels that it leaves.
CollectToLevel(level) == SubSeq(nodes, 1, level)

\* trackPointers: which of S make the new level.
Untracked(levels, S) ==
    {s \in S \ cached' :
        s \notin forgotten /\ \A i \in DOMAIN levels : s \notin levels[i]}

\* Mutant of Forget: the stream stays with the collector.
Forget_Kept(levels, S) ==
    /\ nodes' = levels
    /\ forgotten' = forgotten \cup (S \cap UNION {levels[i] : i \in DOMAIN levels})

\* forgetPointers.
Forget(levels, S) ==
    /\ nodes' = [i \in DOMAIN levels |-> levels[i] \ S]
    /\ forgotten' = forgotten \cup (S \cap UNION {levels[i] : i \in DOMAIN levels})

-----------------------------------------------------------------------------
Init ==
    /\ \E t \in Trees : filters = t.shape /\ starts = t.starts
    /\ itPos = 1 /\ filtIt = NoFilter
    /\ inDataStack = <<{}>>
    /\ nodes = <<>> /\ forgotten = {} /\ outData = [p \in {} |-> {}]
    /\ cached = {} /\ made = {}
    /\ deletions = [s \in Streams |-> 0]
    /\ status = "running"

\* The walk turns to the branch at the next start.
NextStart ==
    /\ status = "running" /\ filtIt = NoFilter /\ itPos <= Len(starts)
    /\ deletions' = Delete(Tracked)
    /\ nodes' = <<{}>>
    /\ filtIt' = starts[itPos]
    /\ UNCHANGED <<tree, itPos, inDataStack, forgotten, outData, cached, made, status>>

\* The input of the filter at hand.
InputOf(p) == inDataStack[Level(p)]

\* The filter at hand runs, passes some of its inputs on, and may add its own
\* stream, kept in its cache or not.
Runs(passed, own, kept) ==
    /\ passed \subseteq InputOf(filtIt)
    /\ own \subseteq {filtIt} /\ kept \subseteq own
    /\ made' = made \cup own
    /\ cached' = cached \cup kept

\* To the next filter of the branch, or on to the next start.
Advance ==
    IF filtIt + 1 \in Branch(filters, starts[itPos])
    THEN filtIt' = filtIt + 1 /\ UNCHANGED itPos
    ELSE filtIt' = NoFilter /\ itPos' = itPos + 1

\* A filter that has children: its output is tracked, and is their input.
RefreshInner(passed, own, kept) ==
    LET level == Level(filtIt) IN
    /\ ~Leaf(filters, filtIt)
    /\ Runs(passed, own, kept)
    /\ deletions' = Delete(DoomedAbove(level))
    /\ nodes' = Append(CollectToLevel(level),
                       Untracked(CollectToLevel(level), passed \cup own))
    /\ inDataStack' = Append(SubSeq(inDataStack, 1, level), passed \cup own)
    /\ Advance
    /\ UNCHANGED <<tree, forgotten, outData, status>>

\* A leaf: its output becomes part of the output of the refresh.
RefreshLeaf(passed, own, kept) ==
    LET level == Level(filtIt)
        data == passed \cup own IN
    /\ Leaf(filters, filtIt)
    /\ Runs(passed, own, kept)
    /\ deletions' = Delete(DoomedAbove(level))
    /\ Forget(CollectToLevel(level), data)
    /\ outData' = IF data = {} THEN outData
                  ELSE [p \in DOMAIN outData \cup {filtIt} |->
                           IF p = filtIt THEN data ELSE outData[p]]
    /\ inDataStack' = SubSeq(inDataStack, 1, level)
    /\ Advance
    /\ UNCHANGED <<tree, status>>

\* Mutant of RefreshFails: the output is deleted entry by entry and not as one
\* set, so a stream that two leaves put out is deleted twice.
RefreshFails_PerLeaf(passed, own, kept) ==
    LET level == Level(filtIt)
        left == UNION {CollectToLevel(level)[i] : i \in 1..level} IN
    /\ Runs(passed, own, kept)
    /\ deletions' = [s \in Streams |->
           Delete(DoomedAbove(level))[s] + (IF s \in left THEN 1 ELSE 0)
           + Cardinality({p \in DOMAIN outData : s \in outData[p] \ cached'})]
    /\ inDataStack' = <<>> /\ nodes' = <<>>
    /\ status' = "failed"
    /\ UNCHANGED <<tree, itPos, filtIt, forgotten, outData>>

\* A filter that returns an error, or after which the abort flag is set: the
\* output so far is deleted, and the collector's destructor deletes what it
\* tracks.  What the filter itself has put out is dropped.
RefreshFails(passed, own, kept) ==
    LET level == Level(filtIt)
        left == UNION {CollectToLevel(level)[i] : i \in 1..level} IN
    /\ Runs(passed, own, kept)
    /\ deletions' = [s \in Streams |->
           Delete(DoomedAbove(level))[s] + (IF s \in left THEN 1 ELSE 0)
           + (IF s \in InOutput \ cached' THEN 1 ELSE 0)]
    /\ inDataStack' = <<>> /\ nodes' = <<>>
    /\ status' = "failed"
    /\ UNCHANGED <<tree, itPos, filtIt, forgotten, outData>>

RefreshFilter ==
    /\ status = "running" /\ filtIt # NoFilter
    /\ \E passed \in SUBSET InputOf(filtIt) :
       \E own \in SUBSET {filtIt} : \E kept \in SUBSET own :
          \/ RefreshInner(passed, own, kept)
          \/ RefreshLeaf(passed, own, kept)
          \/ RefreshFails(passed, own, kept)

\* What leaves before p in the walk have put out.
Earlier(p) == UNION {outData[q] : q \in {r \in DOMAIN outData : r < p}}

\* The output with every stream in the first entry only that has it, and no
\* entry left empty.
Scrubbed ==
    [p \in {q \in DOMAIN outData : ~(outData[q] \subseteq Earlier(q))} |->
        outData[p] \ Earlier(p)]

\* All starts are done: the rest is collected and the output is scrubbed.
Finish ==
    /\ status = "running" /\ filtIt = NoFilter /\ itPos > Len(starts)
    /\ deletions' = Delete(Tracked)
    /\ inDataStack' = <<>> /\ nodes' = <<>>
    /\ outData' = Scrubbed
    /\ status' = "done"
    /\ UNCHANGED <<tree, itPos, filtIt, forgotten, cached, made>>

Next == NextStart \/ RefreshFilter \/ Finish

Spec == Init /\ [][Next]_vars

-----------------------------------------------------------------------------
\* The stack of inputs and the collector's levels are never more than the
\* levels of the tree.
TypeOK ==
    /\ [shape |-> filters, starts |-> starts] \in Trees
    /\ itPos \in 1..(Len(starts) + 1)
    /\ filtIt \in DOMAIN filters \cup {NoFilter}
    /\ inDataStack \in Seq(SUBSET Streams)
    /\ nodes \in Seq(SUBSET Streams)
    /\ \E p \in DOMAIN filters :
          filters[p].depth + 1 >= Len(nodes) /\ filters[p].depth + 1 >= Len(inDataStack)
    /\ forgotten \subseteq made /\ cached \subseteq made /\ made \subseteq Streams
    /\ DOMAIN outData \subseteq DOMAIN filters
    /\ \A p \in DOMAIN outData : outData[p] \subseteq Streams
    /\ deletions \in [Streams -> Nat]
    /\ status \in {"running", "failed", "done"}

\* checkSanity, and the ASSERT of initFilterTree on the levels: no stream is
\* tracked twice, or although a filter keeps it, or after it was forgotten, and
\* a branch's levels go with the stack of inputs.
CollectorSane ==
    /\ \A i, j \in DOMAIN nodes : i # j => nodes[i] \cap nodes[j] = {}
    /\ Tracked \cap (cached \cup forgotten) = {}
    /\ status = "running" /\ filtIt # NoFilter =>
          Len(nodes) >= Level(filtIt) /\ Len(inDataStack) >= Level(filtIt)

\* However the refresh ends, no stream is deleted twice, and none is that its
\* filter keeps in its cache: the collector, the error path and the filters
\* share the streams, and a leaf may put out what an ancestor made.  An aborted
\* or failed refresh deletes all it had put out that no cache keeps.
DeletedAtMostOnce ==
    /\ TypeOK /\ CollectorSane
    /\ \A s \in made : deletions[s] <= (IF s \in cached THEN 0 ELSE 1)
    /\ status = "failed" => \A s \in InOutput \ cached : deletions[s] = 1

\* A filter is only ever given streams that still exist, although the collector
\* deletes streams of branches that have been left, and what leaves have put out
\* exists until the refresh fails, and is handed to the scene alive and once.
StreamsAlive ==
    LET alive == {s \in made : deletions[s] = 0} IN
    /\ status = "running" /\ filtIt # NoFilter => InputOf(filtIt) \subseteq alive
    /\ status # "failed" => InOutput \subseteq alive
    /\ status = "done" =>
          \A p, q \in DOMAIN outData : p # q => outData[p] \cap outData[q] = {}

\* Streams that nobody can delete any more.
Lost == {s \in made : deletions[s] = 0} \ (cached \cup Tracked \cup InOutput)

HasLaterSibling(p) ==
    LET next == BranchEnd(filters, p) + 1
    IN  next \in DOMAIN filters /\ filters[next].depth = filters[p].depth

\* What a successful refresh loses are streams of filters that have children
\* and another filter next to them, and of no others.
LostBeforeSiblingOnly ==
    status # "failed" =>
        \A s \in Lost : ~Leaf(filters, s) /\ HasLaterSibling(s)
=============================================================================
