---------------------------- MODULE FilterRefresh ----------------------------
(***************************************************************************)
(* The caches of the filters, and the refresh that relies on them: from    *)
(* which filters FilterTree::refreshFilterTree has to start, given what is *)
(* cached (getAccumulatedPropagationMaps, getFilterRefreshStarts), what    *)
(* each filter then takes from its cache or computes anew, and how edits,  *)
(* a watched data file and aborted refreshes leave the caches.             *)
(*                                                                         *)
(* What a filter computes is represented by its provenance: a stream has   *)
(* the trails of settings that its ions went through, from the version of  *)
(* the data file onwards.  Five kinds of filter are enough for the cases   *)
(* that the masks distinguish:                                             *)
(*   data   DataLoadFilter, with its file watched (wantMonitor)            *)
(*   clip   IonDownsampleFilter, IonClipFilter, TransformFilter: one ion   *)
(*          stream for each that comes in                                  *)
(*   range  RangeFileFilter: all ions sorted anew, and a range stream      *)
(*   plot   SpectrumPlotFilter: lets nothing through                       *)
(*   box    BoundingBoxFilter: lets all through, never cached              *)
(* The walk's stack is here the function put; RefreshCollector has it.     *)
(***************************************************************************)
EXTENDS Containers

CONSTANTS Trees,    \* trees a run begins with, no filter of them cached
          Settings, \* values of the property that the user changes
          NewKinds, \* kinds of filter that the user adds
          Files,    \* versions of the data file: records [time, size]
          MaxSize   \* no filter is added to a tree of this size

VARIABLES tree,   \* the filters, with their caches
          file,   \* the data file on the disk
          phase,  \* "idle", "walking", or "done" until the next change
          starts, \* where this refresh starts
          todo,   \* the filters it has yet to refresh, in order
          put,    \* what each filter has put out in this refresh
          plotUpdates, \* a range was dragged, and the timer is to take it up
          moved   \* history: the file has changed during this refresh
vars == <<tree, file, phase, starts, todo, put, plotUpdates, moved>>
walk == <<starts, todo, put>>

Kinds == {"data", "clip", "range", "plot", "box"}
NotLoaded == [time |-> 0, size |-> 0]
Versions == Files \cup {NotLoaded}

\* A trail begins with a version of the file, or with the filter that made its
\* own range stream, and goes on with the filters that it went through.
Marks == ({f.time : f \in Versions} \X Settings) \cup (Settings \X {1, 2})
Trails == Seq(Marks)
AllTypes == {"ion", "range", "plot", "draw"}
Streams == [type : AllTypes, trails : SUBSET Trails]
Nodes == [depth : Nat, kind : Kinds, setting : Settings, ok : BOOLEAN,
          own : SUBSET Streams, loaded : Versions,
          note : {"plain", "aborted", "raced", "inherited"}]

\* A node of the tree: its cache (cacheOK, filterOutputs), the version of the
\* file that a data source has noted (monitorTimestamp, monitorSize), and a
\* note of how the cache came about, for the properties only.
NewFilter(kind, setting, depth) ==
    [depth |-> depth, kind |-> kind, setting |-> setting,
     ok |-> FALSE, own |-> {}, loaded |-> NotLoaded, note |-> "plain"]

Cleared(n) == [n EXCEPT !.ok = FALSE, !.own = {}, !.note = "plain"]

ASSUME TreesAssumption ==
    /\ NewKinds \subseteq Kinds
    /\ \A t \in Trees :
          /\ t \in Seq(Nodes) /\ IsForest(t)
          /\ \A p \in DOMAIN t : t[p] = Cleared(t[p])

\* Mutant of ClearedBelow: only the filter itself is cleared.
ClearedBelow_SelfOnly(t, p) == [t EXCEPT ![p] = Cleared(@)]

\* Clear the cache of the filter at p and of all below it: setProperty and
\* setFilterProperty, applyBindings, modifyRangeFiles, clearCacheByType.
ClearedBelow(t, p) ==
    [q \in DOMAIN t |-> IF q \in Branch(t, p) THEN Cleared(t[q]) ELSE t[q]]

-----------------------------------------------------------------------------
(* Filters.                                                                *)

\* getRefreshEmitMask of each kind (a range filter without its legend).
Emit(kind) ==
    CASE kind \in {"data", "clip"} -> {"ion"}
      [] kind = "range" -> {"ion", "range"}
      [] kind = "plot" -> {"plot"}
      [] kind = "box" -> {"draw"}

\* getRefreshBlockMask.
Block(kind) ==
    CASE kind \in {"clip", "range"} -> {"ion"}
      [] kind = "plot" -> AllTypes
      [] kind \in {"data", "box"} -> {}

Ions(input) == {s \in input : s.type = "ion"}

\* A stream that a filter with this setting makes of some ions; the two ion
\* streams of a range filter differ in the ions they select.
Stream(type, setting, part, ions) ==
    [type |-> type,
     trails |-> {Append(t, <<setting, part>>) : t \in UNION {i.trails : i \in ions}}]

\* The streams a filter makes itself.
Own(n, input) ==
    CASE n.kind = "data" ->
            {[type |-> "ion", trails |-> {<<<<n.loaded.time, n.setting>>>>}]}
      [] n.kind = "clip" -> {Stream("ion", n.setting, 1, {i}) : i \in Ions(input)}
      [] n.kind = "range" ->
            {[type |-> "range", trails |-> {<<<<n.setting, 1>>>>}]} \cup
            (IF Ions(input) = {} THEN {} ELSE
                {Stream("ion", n.setting, k, Ions(input)) : k \in {1, 2}})
      [] n.kind = "plot" -> {Stream("plot", n.setting, 1, Ions(input))}
      [] n.kind = "box" -> {Stream("draw", n.setting, 1, Ions(input))}

\* The streams it passes on when it computes, and when it uses its cache: only
\* then does a range filter pass on the range stream of another.
Passed(kind, input) ==
    {s \in input : s.type \notin Block(kind) \cup
                   (IF kind = "range" THEN {"range"} ELSE {})}
PassedFromCache(kind, input) == {s \in input : s.type \notin Block(kind)}

\* What refreshing the whole tree, with no cache, would put out for each
\* filter, its data sources keeping the versions that they have loaded.
Recomputed(t) ==
    LET out[p \in DOMAIN t] ==
            LET input == IF t[p].depth = 0 THEN {} ELSE out[Parent(t, p)]
            IN  Own(t[p], input) \cup Passed(t[p].kind, input)
    IN  out

-----------------------------------------------------------------------------
(* Where a refresh has to start.                                           *)

\* getAccumulatedPropagationMaps, emitTypes: what can come out of a filter.
Emitted(t) ==
    LET e[p \in DOMAIN t] ==
            (IF t[p].depth = 0 THEN {} ELSE e[Parent(t, p)] \ Block(t[p].kind))
            \cup Emit(t[p].kind)
    IN  e

\* Mutant of Blocked: a filter that has to compute is counted as a blocker.
Blocked_Uncached(t, p) == Block(t[p].kind)

\* Its blockTypes: only a cached filter blocks.  What its children block is
\* collected with & from a mask that is zero at first, and adds nothing.
Blocked(t, p) == IF t[p].ok THEN Block(t[p].kind) ELSE {}

BlockedByAll(t, S) == {type \in AllTypes : \A q \in S : type \in Blocked(t, q)}

\* Mutant of RefreshStarts: leaves are treated like the other filters.
RefreshStarts_NoLeaves(t) ==
    LET start[p \in DOMAIN t] ==
            /\ \A q \in 1..(p-1) : IsChild(t, q, p) => ~start[q]
            /\ ~(Emitted(t)[p] \subseteq BlockedByAll(t, Children(t, p)))
    IN  {p \in DOMAIN t : start[p]}

\* getFilterRefreshStarts: not below another start; and a leaf, or a filter
\* some of whose output gets past its children.
RefreshStarts(t) ==
    LET start[p \in DOMAIN t] ==
            /\ \A q \in 1..(p-1) : IsChild(t, q, p) => ~start[q]
            /\ \/ Leaf(t, p)
               \/ ~(Emitted(t)[p] \subseteq BlockedByAll(t, Children(t, p)))
    IN  {p \in DOMAIN t : start[p]}

-----------------------------------------------------------------------------
Init ==
    /\ tree \in Trees
    /\ file \in Files
    /\ phase = "idle"
    /\ starts = {} /\ todo = <<>> /\ put = <<>>
    /\ plotUpdates = FALSE /\ moved = FALSE

\* An edit: only while no refresh is under way (RefreshProtocol).
Edit(newTree) ==
    /\ phase # "walking"
    /\ tree' = newTree
    /\ phase' = "idle"
    /\ starts' = {} /\ todo' = <<>> /\ put' = <<>> /\ moved' = FALSE
    /\ UNCHANGED file

\* FilterTree::addFilter, with a filter of a setting that is in use.
AddFilter(p, kind) ==
    /\ Len(tree) < MaxSize
    /\ Edit(AppendChild(tree, p, <<NewFilter(kind, tree[p].setting, 0)>>))

\* setFilterProperty with needUpdate; the other ways to change a setting also
\* clear the filter's cache and those below.
SetProperty(p, setting) ==
    /\ setting # tree[p].setting
    /\ Edit([ClearedBelow(tree, p) EXCEPT ![p].setting = setting])

\* removeSubtree, of a filter that is not the data source.
Remove(p) == Len(tree) > 1 /\ tree[p].depth > 0 /\ Edit(EraseBranch(tree, p))

\* reparentFilter clears the branch before it moves it; its loop does not end
\* with the branch, and spares only filters of the same depth.
ClearedForMove(p) ==
    [q \in DOMAIN tree |-> IF q = p \/ (q > p /\ tree[q].depth # tree[p].depth)
                           THEN Cleared(tree[q]) ELSE tree[q]]

\* reparentFilter: the branch is copied below another filter, and the original,
\* which that may have shifted, is erased.
Move(p, to) ==
    /\ to \notin Branch(tree, p) /\ tree[p].depth > 0
    /\ LET branch == SubTree(ClearedForMove(p), p)
           inserted == AppendChild(ClearedForMove(p), to, branch)
       IN  Edit(EraseBranch(inserted,
                            IF BranchEnd(tree, to) < p THEN p + Len(branch) ELSE p))

\* Undo and Redo bring in a tree whose filters are uncached clones.
SwapIn == Edit([p \in DOMAIN tree |-> NewFilter(tree[p].kind, tree[p].setting, tree[p].depth)])

\* The user drags a range in the plot: setPropFromRegion clears the cache of the
\* range filter, and onPanelSpectraUpdate leaves the rest to the timer.
DragRegion(p, setting) ==
    /\ tree[p].kind = "range" /\ setting # tree[p].setting
    /\ Edit([tree EXCEPT ![p] = [Cleared(@) EXCEPT !.setting = setting]])
    /\ plotUpdates' = TRUE

\* OnUpdateTimer after that: clearCacheByType.
ClearRanges ==
    /\ plotUpdates
    /\ Edit([q \in DOMAIN tree |->
             IF \E p \in DOMAIN tree : tree[p].kind = "range" /\ q \in Branch(tree, p)
             THEN Cleared(tree[q]) ELSE tree[q]])
    /\ plotUpdates' = FALSE

\* Some other program writes the data file, at any time.
FileChanges ==
    /\ \E f \in Files : f.time > file.time /\ file' = f
    /\ moved' = (phase = "walking")
    /\ UNCHANGED <<tree, phase, walk, plotUpdates>>

-----------------------------------------------------------------------------
NeedsRefresh(n) == n.kind = "data" /\ n.loaded # file

\* The tree once the caches below watched files that have changed are cleared.
Monitored ==
    [q \in DOMAIN tree |->
        IF \E p \in DOMAIN tree : q \in Branch(tree, p) /\ NeedsRefresh(tree[p])
        THEN Cleared(tree[q]) ELSE tree[q]]

\* The walk refreshes, below each start, the filters in the order of the tree.
Walk(t, S) == {p \in DOMAIN t : \E s \in S : p \in Branch(t, s)}

StartRefresh ==
    /\ phase # "walking" /\ tree # <<>>
    /\ tree' = Monitored
    /\ starts' = RefreshStarts(tree')
    /\ todo' = Only([p \in DOMAIN tree |-> p], Walk(tree, starts'))
    /\ put' = [p \in DOMAIN tree |-> {}]
    /\ phase' = "walking"
    /\ moved' = FALSE
    /\ UNCHANGED <<file, plotUpdates>>

Current == todo[1]
Input(p) == IF p \in starts THEN {} ELSE put[Parent(tree, p)]

\* The filter at hand has put this out; the walk goes on.
PutOut(streams) ==
    /\ put' = [put EXCEPT ![Current] = streams]
    /\ todo' = Tail(todo)
    /\ phase' = IF Len(todo) = 1 THEN "done" ELSE phase
    /\ UNCHANGED <<file, starts, plotUpdates, moved>>

\* A data source trusts its cache while the file's time is not the one noted,
\* and its size is.
MayUseCache(n) ==
    n.kind = "data" => n.loaded.time # file.time /\ n.loaded.size = file.size

UseCache ==
    LET n == tree[Current] IN
    /\ n.ok /\ MayUseCache(n)
    /\ PutOut(n.own \cup PassedFromCache(n.kind, Input(Current)))
    /\ UNCHANGED tree

\* The filter with the cache that its refresh leaves.
Filled(n, own, note) == [n EXCEPT !.ok = TRUE, !.own = own, !.note = note]
Keeps(n, caching) == caching /\ n.kind # "box"

\* A cache filled below one that is not what it should be is no better, and
\* stays so when that one is cleared: the note is passed on.
Inherited(p) ==
    IF \E q \in DOMAIN tree : IsChild(tree, q, p) /\ tree[q].note # "plain"
    THEN "inherited" ELSE "plain"

\* A data source notes the file's version before it reads it.  The caches below
\* it are then of an older version if the file has changed since the start.
Loading(p) ==
    [q \in DOMAIN tree |->
        IF q = p THEN [Cleared(tree[p]) EXCEPT !.loaded = file]
        ELSE IF q \in Branch(tree, p) /\ tree[q].ok /\ tree[p].loaded # file /\ moved
             THEN [tree[q] EXCEPT !.note = "raced"] ELSE tree[q]]

\* The tree as the filter at hand finds it when it has to compute.
Computing == IF tree[Current].kind = "data" THEN Loading(Current) ELSE tree

Compute(caching) ==
    LET p == Current
        own == Own(Computing[p], Input(p))
    IN  /\ ~(tree[p].ok /\ MayUseCache(tree[p]))
        /\ tree' = IF Keeps(tree[p], caching) /\ own # {}
                   THEN [Computing EXCEPT ![p] = Filled(@, own, Inherited(p))]
                   ELSE Computing
        /\ PutOut(own \cup Passed(tree[p].kind, Input(p)))

\* The refresh ends before the filter at hand is done, by the abort flag or an
\* error.  The streams that a clip filter had finished are in its cache, and
\* cacheOK was set with the first.
AbortedRefresh(caching) ==
    LET p == Current
        own == Own(Computing[p], Input(p))
    IN  /\ ~(tree[p].ok /\ MayUseCache(tree[p]))
        /\ \/ tree' = Computing
           \/ /\ tree[p].kind = "clip" /\ caching
              /\ \E some \in (SUBSET own) \ {{}, own} :
                    tree' = [Computing EXCEPT ![p] = Filled(@, some, "aborted")]
        /\ phase' = "idle"
        /\ starts' = {} /\ todo' = <<>> /\ put' = <<>> /\ moved' = FALSE
        /\ UNCHANGED <<file, plotUpdates>>

\* The abort flag is seen when a filter is done, and with it what it cached.
AbortAfterFilter ==
    /\ phase = "walking" /\ todo # <<>>
    /\ phase' = "idle"
    /\ starts' = {} /\ todo' = <<>> /\ put' = <<>> /\ moved' = FALSE
    /\ UNCHANGED <<tree, file, plotUpdates>>

RefreshFilter ==
    /\ phase = "walking"
    /\ \/ UseCache
       \/ \E caching \in BOOLEAN : Compute(caching) \/ AbortedRefresh(caching)

EditFilters ==
    /\ UNCHANGED plotUpdates
    /\ \/ \E p \in DOMAIN tree :
             \/ \E kind \in NewKinds : AddFilter(p, kind)
             \/ \E setting \in Settings : SetProperty(p, setting)
             \/ Remove(p)
             \/ \E to \in DOMAIN tree : Move(p, to)
       \/ SwapIn

Next ==
    \/ EditFilters
    \/ \E p \in DOMAIN tree, setting \in Settings : DragRegion(p, setting)
    \/ ClearRanges
    \/ FileChanges
    \/ StartRefresh
    \/ RefreshFilter
    \/ AbortAfterFilter

Spec == Init /\ [][Next]_vars

-----------------------------------------------------------------------------
\* Every tree is a forest, a cache that is not OK is empty, and a walk has put
\* something out for each filter it has been at.
TypeOK ==
    /\ tree \in Seq(Nodes) /\ IsForest(tree)
    /\ \A p \in DOMAIN tree : /\ tree[p].ok <=> tree[p].own # {}
                              /\ tree[p].note # "plain" => tree[p].ok
    /\ file \in Files
    /\ phase \in {"idle", "walking", "done"}
    /\ starts \subseteq DOMAIN tree
    /\ todo \in Seq(DOMAIN tree)
    /\ phase = "walking" <=> todo # <<>>
    /\ IF phase = "idle" THEN put = <<>> ELSE put \in [DOMAIN tree -> SUBSET Streams]
    /\ plotUpdates \in BOOLEAN /\ moved \in BOOLEAN

\* The filters whose output depends on the one at p, and p.
On(p, q) == p \in Branch(tree, q)

\* Two deviations that are the subject of properties of their own are set
\* aside here: what an aborted refresh has cached, and caches below a data
\* source that was read again after its file changed during a refresh; and what
\* was then computed from either.
Noteworthy(p) == \E q \in DOMAIN tree : On(p, q) /\ tree[q].note # "plain"

\* A third: a range filter below another passes on that one's range stream,
\* but only when it uses its cache.
RangeBelowRange(p) ==
    \E q, r \in DOMAIN tree :
        /\ tree[q].kind = "range" /\ tree[r].kind = "range"
        /\ IsChild(tree, q, r) /\ On(p, r)

\* Below a range filter that was dragged the caches are out of date until the
\* timer clears them: a refresh that begins before shows old data meanwhile.
RegionPending(p) ==
    plotUpdates /\ \E q \in DOMAIN tree : tree[q].kind = "range" /\ IsChild(tree, q, p)

\* The cache of the filter at p holds what the filters above would have it be.
RightCache(p) ==
    tree[p].ok =>
        tree[p].own = Own(tree[p], IF tree[p].depth = 0 THEN {}
                                   ELSE Recomputed(tree)[Parent(tree, p)])

\* Whatever edits, refreshes and aborts went before: a cache that counts as
\* valid holds what its filter would make of the filters above it as they are
\* now.
CachesRight ==
    /\ TypeOK
    /\ \A p \in DOMAIN tree :
          tree[p].note # "plain" \/ RegionPending(p) \/ RightCache(p)

\* A refresh that starts below the roots and takes what it can from caches
\* puts out for every leaf what a refresh of the whole tree would.
OutputRight ==
    phase = "done" =>
        \A p \in DOMAIN tree :
            Leaf(tree, p) =>
                \/ Noteworthy(p) \/ RangeBelowRange(p) \/ RegionPending(p)
                \/ put[p] = Recomputed(tree)[p]

\* Every leaf is refreshed, and none twice: the starts are not above one
\* another, and each branch that leads to a leaf has one.
StartsCoverLeaves ==
    phase = "walking" =>
        /\ \A p \in DOMAIN tree : Leaf(tree, p) =>
              Cardinality({s \in starts : On(p, s)}) = 1
        /\ \A s, r \in starts : ~IsChild(tree, s, r)
=============================================================================
