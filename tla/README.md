# 3Depict: specifications of what is between the user and the ions

3Depict shows atom-probe data. The user builds a tree of *filters*: data sources at the
roots, below them filters that sample, range, cluster or plot what comes from above. A
*refresh* walks the tree in a thread and turns it into streams, which the main window then
turns into a scene and plots. Around that are sessions with state files, autosaves and
cameras, range files with an editor, plots with regions that can be dragged, and animations.

Paths in comments are relative to `src/src`: `state.cpp`, `filtertree.cpp`, `filter.cpp`
are in `backend/`, the filters in `backend/filters/`, `mainFrame.cpp` in `gui/`, dialogs in
`gui/dialogs/`. `PROJECT.json` lists, for each definition, the lines it stands for.

## The system and its parts

| Part | State | Operations | Talks to | What is hard | What makes it correct |
|---|---|---|---|---|---|
| `TreeState` (state.cpp) | the tree, `filterMap` (item of the tree control to filter), undo and redo stacks | add, copy, move, remove, set a property, apply bindings, push and pop of the stacks | called by the window's handlers, holds a `FilterTree` | operations that push and then fail; changes without a push; the menu that lags behind the stacks | it is an undo history; the control shows the tree; stacks are bounded |
| `FilterTree` (filtertree.cpp) | `tree<Filter *>` | edits of branches, state files, clearing of caches, `refreshFilterTree` | owned by `TreeState`, walked by the thread | copies that shift what is to be erased; caches below an edit; files as a list of elements with depths | edits lose no filter, files keep the tree, caches are right |
| `FilterRefreshCollector` (filtertree.cpp) | for each level of the walk the streams to delete | track, forget, collect | used by `refreshFilterTree` only | streams are passed on by pointer, some are cached and must never be deleted | nothing is deleted twice or used later, losses are bounded |
| caches (`Filter`, the filters) | `cacheOK`, `filterOutputs`; the data source's noted file | use, fill, clear | masks tell the tree what blocks what | partial and stale caches, refreshes that skip filters | output is what a full refresh would put out |
| the sixteen kinds of filter | settings; arrays for the ions of the range data that came in | set a property, drag, copy, write, read, `initFilter`, `refresh` | the tree, through masks and `setProperty`'s `needUpdate` | each setting has to be named in copying, writing, reading, masks and caching, apart from each other | caches fit the settings; copies and files keep them; masks agree with `refresh`; indices stay in range |
| clustering (clusterAnalysis.cpp, K3DTree-mk2.cpp) | tags in search trees, lists of clusters | classify, link, envelop, erode, crop | the search tree, OpenMP threads | pruned searches, tags set and reset, two croppings, aborts | clusters are what the distances define |
| `MainWindowFrame`, `RefreshThread` (mainFrame.cpp) | `currentlyUpdatingScene`, `haveAborted`, `requireFirstUpdate`, timers, the posted event | some sixty handlers | shares the tree, the selection devices and two flags with the thread | no locks but widgets that are disabled; timers during modal dialogs; an abort flag that the thread resets | one refresh at a time, nobody changes the tree under it, it ends, the scene follows the tree |
| `AnalysisState`, the window's session | cameras, stashes, modification level, file name; autosaves of each process | load, save, merge, autosave, restore, close | the disk, `TreeState` | what counts as a change; crashes between two steps; indices of cameras | nothing is lost unasked, files read back, cameras fit |
| `RangeFile`, its filter and editor | table of ions and ranges; copies, grids, incomplete rows | read, write, move, add, erase, edit | range filters, plots | four formats; rows that stand for positions; checks that are off in copies | ranges stay apart, edits hit what is shown, files read back |
| `PlotWrapper`, `MathGLPane`, `VisController` | plots, their visibility, bounds, regions; what the mouse does | refresh, select, zoom, pan, drag a region | filters by address, the range table | all plots are replaced by each refresh | list, pane and grid agree; a region is the range it stands for |
| `PropertyAnimator`, its dialog, the export | key frames; who holds the tree | add, remove, view a frame, export, cancel | takes the tree out of the window | ramps and steps that overlap; leaving by several ways | frames show what was asked for, the tree comes back |
| `Scene`'s devices | bindings | drag | the thread, the timer | cleared by the thread | drags are taken up |
| `FilterTreeAnalyse`, `ConfigFile`, crop panels, rendering, other formats, statistics, helpers | none or their own | - | - | floating point, I/O | not modelled, see below |

How they interact: a handler edits through `TreeState` and calls `doSceneUpdate`, which
locks widgets, stops the update timer and starts the thread. The thread calls
`TreeState::refresh`, which resets the devices and flags and calls `refreshFilterTree`; when
that returns it posts an event and exits. `OnFinishRefreshThread` shows the result, unlocks
and restarts the timer. Every 50 ms the timer looks for drags of objects in the scene, for
ranges dragged in the plot, and for watched files that have changed, and starts a refresh.

## Modules

The tree and its refreshes:

- `Containers`: ordered trees as sequences of nodes with depths, in pre-order, as `tree.hh`
  iterates them, and the elements of a sequence that are at some positions, in order
  (`vectorMultiErase` and loops that skip). With them the lemmas on what their operations
  leave: branches and parents, what an edit of a branch keeps of the tree around it, what
  picking elements keeps of the list. `TreeState`, `FilterRefresh`, `RefreshCollector`,
  `Session`, `RangeFile` and `PlotPane` are built from it.
- `UndoHistory` (abstract): a line of versions with a cursor. An edit throws away what is
  ahead and adds a version; undo and redo move the cursor; the oldest version may be
  dropped; a refused edit only throws away what is ahead.
- `TreeState`: the handlers that edit, each with the `TreeState` and `FilterTree` calls
  it makes, and the rebuilding of the tree control and of the menu. It implements
  `UndoHistory` (`ImplementsUndoHistory`): the undo stack, the tree and the redo stack read
  backwards are the versions, the tree is at the cursor. Two places of undefined behaviour
  (redo with an empty stack, an item whose filter is freed) end a behaviour in `fault`.
  At its end are `saveXML`, `loadXML` and `stripHazardousContents` as operators on sequences
  of elements, and that each tree that is reached survives them.
- `RefreshCollector`: one call of `refreshFilterTree`. Streams are named by the filter that
  makes them; which filters are cached, what they pass on and which fails is free. The
  variables are the code's locals: `inDataStack`, the collector's levels `nodes`,
  `outData`, here by level and filter; `deletions` counts.
- `FilterRefresh`: trees over many refreshes. A stream is represented by its provenance,
  the settings its ions went through, so that a cache that is out of date differs from what
  would be computed. Five kinds of filter cover the cases that the masks distinguish. A cache
  that a named deviation spoils carries a `note`, and so does what is computed from it.
- `RefreshProtocol`: the window, its dialogs and timer, and the thread. A handler that the
  thread can come between (`OnUpdateTimer`, `Scene::applyDevice`, everything around a modal
  dialog) is several actions. The tree is reduced to two questions: is the walk of the tree
  as it is now, is the scene? `raced` and `restarted` record which handlers changed the tree
  under the thread and which started a refresh during a refresh.

The filters:

- `FilterBase`: how a setting is written down, answered and refused, and the order in which
  a state file is read (forward only).
- One module for each kind, of operators over a record of settings: `IonClip`, `IonColour`,
  `IonDownsample`, `RangeFileFilter`, `Transform`, `BoundingBox`, `Profile`,
  `ClusterAnalysis`, `IonInfo`, `SpectrumPlot`, `DataLoad`, `ExternalProgram`, `Proxigram`,
  `Voxelise`, `SpatialAnalysis`, `Annotation`. Each has what `setProperty` accepts and
  clears, which bindings can be dragged, what a copy and a file keep, what `initFilter` does
  to the settings, of which settings the result is made, which types of stream are made and
  passed on, what the masks claim, and which indices and divisors are used. Numbers that
  are computed of ions are represented by the settings they are computed of.
- `FilterSettings` is the state machine over one filter of any kind: its settings, its own
  cache, the caches below, and the ranges above it. A filter can also hold what is no longer
  taken for its cache (`left`): `SpectrumPlot` drops `cacheOK` for a bound of the
  normalisation, though it is the same, asks for no update and keeps its plots
  (spectrumPlot.cpp:1002), so the cache made next has both.
- `LinkClustering`: `K3DTreeMk2` with its splits, the search in a sphere and for the nearest
  untagged point, and upon it `refreshLinkClustering` step by step, where threads collect
  ions in any order and an abort may come in the croppings. What comes out is compared with
  what distances alone define (`EnoughNear`, `Reach`, `Reached`, `Erodes`), which uses neither
  the trees nor the loops over them.

What is around them:

- `Session`: first the operations of `AnalysisState` (state.cpp) on a record of cameras,
  stashes, modification level and file name, and what a file keeps of it; then the window
  from start to end or crash and the next start. A close that cannot be refused and files
  dropped on the window are actions of their own; at a start the folder for old autosaves may
  not come about and a copy may fail.
- `RangeFile`: the table with its changes and its test of consistency, the readers of four
  formats, the guess of a format, the three writers, which print limits in six digits
  (`Printed`). `RangeEditor`: range filters with what is set of their ions and ranges, and the
  dialog over copies of their tables.
- `PlotPane`: the plots (plot.cpp), the pane, the list and the grid, over the filters that
  make plots and the range table.
- `Animation`: key frames and their interpolation (animator.cpp), the dialog, the export.

`Containers` and `*_proofs` hold the lemmas and theorems, `MC*` are instances for TLC. The
theorems about `Animation` are in the second part of `RefreshProtocol_proofs`, which extends
both: the tree that an export takes out of the window and brings back is the one the protocol
is about.

## Runs

| Run | Distinct states | Shows |
|---|---|---|
| `tree_state` | 40 thousand | types; Undo offered only with an entry; the control shows the tree; moves keep the filters; files and stashes bring trees back; `UndoHistory` is implemented |
| `collector` | 17 thousand | no stream is deleted twice, none is used after its deletion, a failure frees the output, the scrub keeps each stream once, and losses are only those named |
| `filter_refresh` | 530 thousand | caches that count as valid are right; a partial refresh puts out what a full one would; starts reach each leaf once |
| `protocol` | 370 thousand | the lock follows the refresh; the scene follows the tree; which handlers break the protocol; refreshes end; drags are taken up |
| `abort_reaches_walk`* | | an abort just after the start is lost |
| `filters` | 65 thousand | for each of sixteen kinds: caches fit the settings, copies and files keep them, masks say what a refresh does, indices are in range, a refresh changes no setting |
| `session` | 950 thousand | what is not saved is not lost unasked, autosaves survive crashes, cameras fit, files read back |
| `merge_keeps`* | | File, Merge replaces the analysis |
| `ranges` | 3.0 million | ranges stay sound, edits change the row that is shown, OK needs consistent tables, written files read back but for what six digits cut |
| `plots` | 840 thousand | list, pane and grid agree, visibility survives refreshes, a held region is its range, which goes where the pane shows it |
| `clusters` | 1.1 million | clusters are what distances define, for all arrangements, options and orders of threads |
| `animation` | 520 thousand | frames show what was asked for, the dialog's view is the frame, the tree comes back |

Runs with * find a violation of what the code says of itself; `PROJECT.json` quotes it under
"findings". All other deviations that were met are *named exceptions* of the passing
properties, listed below, so the passing runs say that nothing else is wrong. Where it can
be, the property does not pass over an exception but asserts what then happens instead: with
the program's searches or its count of neighbours corrected in `LinkClustering`, or its map of
rows in `RangeEditor`, the run fails.

Bounds, and why they are enough:

- `tree_state`: trees of at most three filters, so that a move has a source, a target and a
  bystander; `MaxUndo` is 1 where the code has 10 (the two stacks are cut at different
  lengths, which shows with any value); a stash of a data source with its child, or of the
  child alone. A behaviour may stop after a `fault`.
- `collector`: seven trees of four to six filters that make the levels go up and down:
  leaves side by side, branches side by side, a return past two levels, several starts below
  the root. Each filter has at most one stream of its own. The run stops when the one call
  of `refreshFilterTree` returns.
- `filter_refresh`: a tree of four with a branch of two and a sibling, or three in a chain;
  two settings; three versions of the file, of which two have the same size, as the code's
  test looks at both; filters of four kinds are added to trees of less than `MaxSize`. The
  data source is never removed.
- `protocol`: two filters in the walk, so that an abort can come before, between and after.
- `filters`: three changes (`MaxEdits`), so that a setting can be changed, used and changed
  back; range data of two files, with an ion more, less or switched off.
- `session`: three starts of the program, two acts of the user that change something and
  two autosaves: two processes can crash and the third finds both autosaves. The file that
  is there at first has a stash already, so that both acts can go into what is merged or
  loaded over. One branch stands for a tree, two names for cameras, one for a stash; two
  paths, as only one of them ends in `.xml`.
- `ranges`: ten files, one or two of each format (composite ions, unused and touching ranges,
  two tables, too few rows, a flipped range), two filters, masses 1, 2 and 4 besides those in
  the files, four acts: enough to open, begin a row, finish it and give OK. One mass is
  printed as its neighbour, which makes ranges come back changed, touching or empty.
- `plots`: two places for filters, two kinds of plot, two acts besides refreshes and the mouse;
  the press is at one position in x, over four tables in which it is in a region's middle,
  beside it, at an edge or outside, and the release anywhere;
  a refresh is its start and its end. The pane is painted before the user's next step.
- `clusters`: six places on which ions of the core, of the bulk or none may lie; distances
  around those between the places; each option on and off; a cluster may have two or three
  ions when clusters are cropped. Two points do not coincide.
- `animation`: two filters with a real, a Boolean, a colour and a text property; frames 0 to
  3; at most two entries, which can overlap, follow one another or be about one property; a
  value that the real property refuses.

Where a run does not check for deadlock the system it models does end: the one call returns,
the acts are used up, or the process is closed.

## Deviations that are named and set aside

The tree, its refreshes and the window:

- `fault` (`TreeState`): Redo can be chosen with nothing to redo (state.cpp:1545); an item
  of the control whose filter was freed. A stash becomes a base filter where state.h:431 says
  child (state.cpp:1160).
- `Lost` (`RefreshCollector`): a filter with children and a next sibling leaks its streams
  (filtertree.cpp:205).
- `note` (`FilterRefresh`): a filter that was aborted keeps part of a cache
  (ionDownsample.cpp:274), "aborted"; a file that changes during its refresh never reaches the
  caches below (dataLoad.cpp:266), "raced". What is computed from such a cache is noted too,
  "inherited", and outlives it: when a filter is moved, `reparentFilter` passes over filters of
  the moved one's depth as it clears caches (filtertree.cpp:1881), so the aborted cache can be
  cleared while what was computed from it stays and counts as valid.
- `RangeBelowRange`, `RegionPending` (`FilterRefresh`): a range filter below another passes its
  range stream on only from the cache (rangeFile.cpp:114); caches below a dragged range are
  old until the timer's next tick.
- `raced`, `restarted` (`RefreshProtocol`): the handlers that change the tree under the thread
  or start a second refresh. After that nothing is modelled.

The filters (`FilterSettings`, all by name of the setting):

- `LostByCopy`: range file `showLegend`; bounding box `lineColour`; profile `minEvents`;
  clusters `enableCoreClassify`, `coreKNN`, `enableBulkLink`, `enableErosion`,
  `wantClusterID`; data `valueLabel`, `endianMode`; voxels `fixedWidth`; spatial `ionNames`.
- `LostByFile`: colour `alpha` (written at one level, read at another); edits of a range
  table; transform `originMode`, `noiseType`, `showOrigin` (transform.cpp:1623); four settings
  of profile, five of clusters; data `endianMode`; four of proxigram; five of annotation;
  spatial `ionNames`, `vectorParams`, `replaceMass`, `showGridOverlay`.
- `Unreadable`: what is written is refused when read, always so for voxels (voxelise.cpp:2042
  looks for an element after one that is written later).
- `KnownStale`: the grid of a voxel filter is never made anew for new ranges
  (voxelise.cpp:300). `Unmasked`, `KnownOverrun`, `SetByRefresh`: masks that differ from what
  is put out, indices past an array, and settings that a refresh narrows, each by kind.

Clusters (`LinkClustering`):

- Points at exactly the distance may or may not be found: `containedInSphere` is inclusive,
  the test of single points is not.
- `Overlooks`: `ptsInSphere` tests the cube of the whole tree with the radius in place of its
  square (K3DTree-mk2.cpp:306), so a core ion away from the bulk finds none of it, against
  K3DTree-mk2.h:138 and manual.tex:976.
- `Miscounts`: for k above 1 the classification looks at the neighbour before the k-th
  (clusterAnalysis.cpp:2369). A comment there (2361), the help text (976) and manual.tex:973
  all say the k-th.
- `TakenByCropped`: a bulk ion that two clusters reach goes to the first and is lost with it
  when that one is cropped. `cropCut`: what `stripClusterBySize` returns is ignored
  (clusterAnalysis.cpp:570), an abort there leaves the clusters not yet looked at uncropped,
  and cached, and no others.
- `NoChance` holds only for bulk distances below half the link distance; the comment at
  clusterAnalysis.cpp:1887 says below it.

Sessions (`Session`):

- Edits of the tree never raise the modification level, so closing does not ask about them
  (`unsaved` counts the rest). An autosave counts as a save (mainFrame.cpp:4147), after which
  closing does not ask and deletes it (`counted`).
- A close that cannot be refused asks nothing and erases the autosave all the same
  (`Close(FALSE)`, mainFrame.cpp:4972); a state file dropped with the command key held replaces
  the analysis unasked (`DropToReplace`, mainFrame.cpp:1248). Without the key it is merged, while
  the tip says to use the key to merge (1257).
- `mishap`: of several autosaves, the one that is restored is erased and its path kept as
  the file's name; one is erased although the folder it was to go to could not be made
  (mainFrame.cpp:5694) or the copy failed (5716), or it could not be read; a file named on the
  command line, merged or dropped replaces a restored autosave; the dialog of an animation
  holds the tree while the autosave is written; files are written in place.
- `cameraNote`: removing a camera leaves the index of the active one (state.cpp:1011); the
  stored camera's name is overwritten; names that clash.
- Save As asks about the name as typed, but writes to that name with `.xml` added, unasked
  (mainFrame.cpp:2513).

Ranges (`RangeEditor`):

- `noted`: a file that was not sound (flipped ranges are read from RRNG, shared ends pass
  `isSelfConsistent`); an ion's number one past the last (rangeFile.cpp:971); an ion that is
  given the name of another (rangeFile.cpp:879), where nobody asks
  `isSelfConsistent`; the dialog's copies do not look after consistency, and OK
  hands that to the filters.
- `known` in `hit`: another plot chosen does not refill the grids; plots that share a filter
  keep old regions; an edge dragged onto the other one.
- `past` in `hit`: `generateRangeEntries` puts the numbers of incomplete rows over those of the
  first rows (rangeEditDialog.cpp:755), against rangeEditDialog.h:120. As many rows as there are
  incomplete ones stand for places past the table's end, where an edit is written (1078) and for
  which a removal takes the last range (1316). The property asserts that it is those rows, and
  that all others are right.
- `unsure`: OK is enabled when the dialog opens; incomplete rows that are put in do not have
  it looked at again.
- Limits are written with the stream's six digits (APTRanges.cpp:407, 490): what is read back is
  the table as printed (`AsPrinted`), of which a range that has become empty is not read.
- A written ENV file cannot be read; a written RRNG file has colours by range, not
  by ion, and with more ranges than ions any colour (`stray`, APTRanges.cpp:477 reads past them).

Plots (`PlotPane`): `odd` names a click in the list while a refresh runs (shown, not done),
a refresh while a region is held, a zoom or reset when no plot is visible (bounds of
nothing), a reset of an axis with data below zero. `since`: visibility is restored by the
parent's address, which an undo changes. `outdated`: regions are not made anew until the next
refresh. A single plot is always shown. `HeldInMiddle`: for a range that is moved as a whole
the pane also draws bars "to outline where the translation result will be"
(mathglPane.cpp:1549), at the limits moved as far as the mouse; the release puts the range's
middle under the mouse instead (rangeFile.cpp:1324), which is the same only if it was pressed
there.

Animation (`Animation`): `odd` names "backwards" (a ramp whose end is not after its start,
which the dialogs do not look at when the kind of transition changes), "removed" (too many
rows are deleted from the view, animateFilterDialog.cpp:471) and "refused" (a filter that
refuses a value ends the loop with the tree swapped out, mainFrame.cpp:1964, and it is lost).
The last frame is never exported, against manual.tex:549 (`getNumFrames` is the last frame's
number); entries of a file opened again are dropped before they are shown; a state file's
reader takes only the first key frame of each entry (animator.cpp:348).

## Fairness

Liveness is in `RefreshProtocol` only. `WF(Thread)`: the scheduler runs the thread and each
filter's refresh returns. `WF(RestOfHandler)`: a handler that has begun goes on. The event
loop serves timers and posted events whatever the user does, but each of his events may come
first and disable it for a while (a handler is running), so `FirstUpdate` (the timer) and
`OnFinishRefreshThread` (the posted event) are strongly fair. Nothing is assumed of the user:
dialogs may stay open for ever, which is where timers and events are served by the dialog's
own loop. The other modules are sequential or in the user's hands: nothing in them has to
happen by itself.

## What is proved

For all values of the constants (any values, kinds and stashes, any `MaxUndo` and `MaxSize`,
a walk of any length), with TLAPS:

`TreeState`: `TypeCorrect`, `StacksBounded`, `UndoAlwaysPossible`, `ControlShowsTree`,
`UndoIsALine`, `MovesLoseNothing`, `FilesBringTreesBack`.

- The types need that each edit of a sequence of depths yields a forest again: `Containers`
  proves it for insertion, appending and erasing of branches and for subtrees, from what
  `BranchEnd` and `Parent` return. The next three are each inductive
  together with the types. `UndoRedoBound` bounds the two stacks by their *sum*, which an undo
  or a redo keeps; a bound on each alone is not inductive, since either may be refilled from
  the other. `UndoMenuHasEntry` rests on the refused edit, which pops no more than it has
  pushed although the push may have dropped the oldest entry. `MapExact` splits the handlers
  into those that rebuild the map and those that change filters in place.
- `UndoIsALine` is the refinement `ImplementsUndoHistory`, step by step: each handler is an
  edit, a refused edit, a move of the cursor or a stutter of `UndoHistory`.
- `MovesLoseNothing` rests on the check of `reparentFilter` that the new parent is not in the
  branch: copy and original lie outside of each other (`WhereCopyGoes`), so that erasing the
  original leaves the copy (`OriginalKept`).
- `FilesBringTreesBack` is about every forest, not only those reached. Forests grow by one filter
  at the end, which starts a branch (`NewBase`) or goes into the last (`NewBelow`); what was
  written grows by the levels between and the filter (`SavedMore`), and the reader, which is then
  at the branch it read last and at the height of the filter before (`ReadSaved`), does the
  same to the branches in their turned order (`ReadMore`). The induction is over the set of the
  forests for which that holds (`AllForests`, from `LeastNumber`), and so needs no operator
  for a parameter. The reader is a recursive function: `ReadIs` says what it makes of one more
  element, `FlattenIs` the same of the community modules' `FlattenSeq`.

`FilterRefresh`: `ValidCachesAreRight`, `RefreshPutsOutRight`, `EveryLeafOnce`, for trees of any
size and shape, by one invariant, `IInv`:

- `GoodCaches` is what `CachesRight` says. It compares a cache with `Recomputed`, a function
  that goes up the parents, so two trees have to be compared by it: where an edit leaves the
  ancestors of a filter and their settings as they are (`Kept`), it leaves what `Recomputed`
  says, as the topmost filter at which it did not would have a parent at which it did not
  (`ParentRecursion`, `KeptRecomputed`). `SameShapes`, `GapFilled` and their corollaries in
  `Containers` say for each edit which ancestors those are; for a move the caches that
  `reparentFilter` clears are just those of the others (`KeptAround`, `ErasedSound`).
- It is not inductive without the notes being passed on: the attempt ended at a tree of data,
  range, two boxes and two clips in which an aborted clip is cleared by a move and the clip
  below it is not. `Inherited` was added to the model for it.
- `StartsHold`: a start that is not a root still has the cache for which
  `getFilterRefreshStarts` chose it, which takes all its parent could give it; every leaf has a
  start, and starts are not above one another. `Ordered`: the walk is in the order of the
  tree, so what a filter's input was put out for is settled before it (`InputRight`).
- `PutRight`: each filter refreshed so far has put out what a full refresh would. Below two
  range filters that holds of ions only, which is why it is said of both apart: ions are all
  that is computed from (`SameIons`).
- `UnreadAhead`: a data source whose file changed is still ahead and nothing below it is
  cached, unless the file changed after the start, which is when caches are noted.

`RefreshProtocol`: `ProtocolTyped`, `LockHolds`, `RestartsKnown`, `RacesKnown`, `SceneShown`.

- `LockFollowsRefresh` is inductive as it stands and is what the guards of locked widgets
  rest on: with it, a handler that waits for the lock finds no thread at the tree. The
  handlers in `RacesKnown` are the ones for which that argument fails. The types need that a
  walk that goes on has a filter left (`WalkHasNext`).
- `SceneShown` (`SceneIsCurrent`) is about the end of a refresh and the window at rest; what
  carries it through a refresh is `WalkIsCurrent`: as long as nobody raced, the walk in the
  thread is of the tree as it is.

`RefreshCollector` (`Filters_proofs`): `NeverDeletedTwice`, `InputsAlive`, `OnlyTheseAreLost`, for all trees and
all choices of caches, failures and of what is passed on. The first two are not inductive.
The invariant `Owned` adds the order of the walk (`Walked`: what was made so far comes before
the filter that is next), where a stream may be (`Accounted`: the levels of the collector and
the output are apart, and only what they hold is ever deleted), and what a level is for
(`Layered`: an input is cached, forgotten or tracked at a level not below that of the filter
it is for, and what a level tracks is of the filter above it whose branch is being walked).
`PutOutOnce` says that the scrub leaves each stream in one entry of the output.

`FilterSettings` (`Filters_proofs`): `SettingsStayGood`, `SettingsTyped`, `SettingsCachesRight`,
`SettingsMasksMatch`, `SettingsCopied`, `SettingsRefreshKeeps`, for all sixteen kinds, any range data
and any number of changes, by one invariant, `SettingsInv`:

- `Fresh`: what is cached, by the filter and below it, was made of the settings as they are. A
  change that clears nothing must leave all that `Makes` looks at, and one that patches the
  cache must patch what it changes: for each kind a lemma `...Same` says what a result is made
  of and a lemma `...Answers` goes through its settings; `...Drags` through its bindings.
- This is not inductive: `refresh` and `initFilter` change settings too, so a second of either
  could change what the first had cached. `Settled` says which they have fixed already (the
  flags for the ions of the ranges, the bins of a spectrum, the grid of voxels), and the
  lemmas `...Steady` that they leave those as they are.
- `Sane` and `Sound` are what the code takes for granted of values and of arrays that belong
  together; a copy keeps them (`CloneGood`), and what a file brings back gets them from
  `initFilter` (`ReadRaw`, `Initialised`).
- `InvMasksMatch` and `RefreshAlike` then go by kind. Indices (`IndicesInBounds`) and files
  (`StateFileKeepsSettings`) are left to the run.

`Session`: `AutosaveKept`, `CamerasAgree`, `FilesComeBack`, `NothingLostUnasked`, by one
invariant, `IInv`:

- `SoundEverywhere`: an analysis has a camera, stashes with names of their own and none that is
  empty, in memory and in each file that was written to its end. It has to speak of files, as
  reading brings their contents back. `BoxFits`: the box of cameras has an entry for each.
- `CamerasKnown`: what `CamerasRight` says, and also while a passing view is shown.
- `KeptSomewhere` sharpens `AutosaveSurvives`: it says of which process the autosave is, as
  the next start reads some and erases others. `Raised`: what is unsaved has raised the
  modification level, unless an autosave counted as a save; the closing of a window looks
  at the level only. `NothingLostUnasked` is about a close that can be refused and the
  opening of a file; the two ways out that ask nothing are not part of what it says.
- The lemmas on which it rests say what picking elements out of a list leaves (`OnlyIs` and
  `OnlyAll` of `Containers`) and that reading what was written gives the same analysis (`LoadedIs`,
  `MergedIs`).

`RangeEditor`: `RangesStaySound`, `EditsHit`, `OkNeedsConsistency`, by one invariant, `IInv`:

- `SoundWhereNothingNoted` says of the filters' tables, the dialog's copies and what a reader
  returns that they are sound where no exception is noted. What carries it through a move of a
  range is `PutBetween`: the tests of `moveRange` against all other limits leave a range
  between the same neighbours. Names are unique until one is given twice, which is noted
  (`IonNamesSound`).
- `Shown`: each grid shows the copy it was filled from as it is now (`RangesShown`,
  `IonsShown`), and a plot that shares its copy with no other shows the beginning of its
  copy's ranges unless an edge was dragged onto the other (`RegionsShown`). From that follows
  which rows stand for their ranges, and that the others stand for none (`RangeRowHit`).
- `Checked`: while OK is enabled and nothing is left unlooked at, the copies are consistent.

`PlotPane`: `PaneAgrees`, `HeldIsRange`, `VisibleStays`, `MovedAsShown`, by one invariant:

- `BoundsRight` adds to `BoundsProper` the bounds that are drawn and those a shift began from:
  a drag takes its ends from the former, and the next painting makes the user's of the latter.
  It rests on `ScanIs`, what the scan of the visible plots' data leaves of a float's limits.
- `HeldShown`: a region that is held is where it was when it was pressed, and no region is
  held on through a refresh once the mouse has moved. `RegionsShown`: while nothing is
  outdated, a plot has all regions of the table or none. Together they give `HeldIsRange`.
- `VisibleStays` needs that no two new plots have one parent and index (`StreamsAre`, from
  filters being in different places), as only the first of plots that are alike is shown.
- `MovedAsShown` needs that the table is sound (`TableSound`): then whatever `moveRange` or
  `moveBothRanges` lets pass is not stopped by `findRegionLimit` (`RegionMoves`, `LimitShown`).
  Without soundness a range inside another can move where the pane does not draw it. Both
  are about one place of the mouse, that of the release (`MoveShown`); for the bars `MovedWhole`
  needs that the press was in the range's middle.

`Animation`: `TreeReturns`, from who holds the tree in each phase (`HolderFollowsPhase`), and
`FramesShown` and `ViewShown`, by one invariant, `AnimationInv`; all for any properties, entries
and frames:

- `getModifiedTree` does not set every property that an entry is about: of a filter whose
  entries have all ended it takes the one that ended last, and of a filter with an active entry
  none that has ended. That the others are right all the same rests on the frames before: the
  tree before a frame is as was wanted of the frame before it (`ExportRight`), and a property that is
  not set is wanted as it was (`WantedStays`).
- What was asked for goes by the entry that began last, the program by the one that is active,
  or else by the one that ended last. They are the same as entries about a property are apart
  in time (`Apart`, from `checkSelfConsistent`; `LastBegunIs`, `WantedIs`), and a ramp at its last
  frame has its last value (`RampEnds`, `AskedIs`).
- `ViewRight`: the view shows the entries as they are at the frame it is about; without
  removals it has no more rows than there are entries, which is what the number of rows that
  are deleted before it is filled again relies on (`GridIs`).

The assumptions are those named in the modules: sets of values with a kind for each, non-empty
stashes that are forests of such values, a positive `MaxUndo`, at least one filter in a walk;
trees that are pre-orders with starts that do not contain one another (`TreesAssumption`,
`StartsAssumption`, of the collector); trees to begin with that are forests of filters without a
cache (`TreesAssumption` of `FilterRefresh`: a file or a new filter brings none); cameras with a name that is not empty, which mainFrame.cpp:3616 asks for;
that the file which is there at first was written by the program; for the range editor, at
least one plot, each of a filter (`PlotsAssumption`, rangeEditDialog.cpp:407), and that what
the readers return is a table that looks after its consistency (`FilesAssumption`: not that
it is sound; readers are folds over a file's lines in five formats, and TLC evaluates it for
the files of the run); for the pane, data with a
lower and an upper end on each axis, filters in different places and tables that are sound
when they look after their consistency (`ExtentsAssumption`, `FiltersAssumption`: what
`RangeEditor` proves of tables but for its exceptions); for animations, frames that are natural
numbers and values that are integers (`AnimationAssumption`). The bounds on counters are assumed to
be natural numbers only.

Only model-checked: liveness and everything with `ENABLED`, which are outside the prover's
reach; the filters' arrays and files (`IndicesInBounds`, `StateFileKeepsSettings`), which are
about each element of sixteen formats; and the files of ranges (`WrittenRangesReadBack`), whose five formats cut numbers
short and leave names out in ways that the run goes through one by one.
`LinkClustering` declares RECURSIVE operators and stays with TLC for good.

## Not modelled

- After a failed assertion (`restarted`, `fault`) nothing is modelled; what a build without
  assertions does then is not described.
- The in-place editor of a tree label (mainFrame.cpp:3230) calls `doSceneUpdate` unasked;
  whether it can be open when the timer starts a refresh is up to the platform's widget.
- The scene reads its selection devices while the thread replaces them (scene.cpp:987).
- After an aborted refresh a change of a watched file or a drag starts the next at once
  (mainFrame.cpp:4189); the flag of a dragged range can be dropped while a refresh runs
  (4211). Both need the protocol and the caches at once.
- Crop panels: `OnUpdateTimer` clears the first one's flag twice and the second's never
  (mainFrame.cpp:4183). Recent files: `addRecentFile` lists a file as often as it is opened.
- `FilterTreeAnalyse` reads the tree and reports; nothing depends on its reports.
- What is computed of ions in floating point: spectra, profiles, distributions of distances,
  voxel grids, meshes, deconvolution, and the drawing of all that. Filters' results are
  represented by the settings they are made of, which shows a stale or a mixed-up result, and
  not a wrong one; clusters are the exception.
- File formats of ions and of isotopes, and text: reading them keeps no state.
- Effects, background colour and start-up plots in state files: the window never sets them.
- Status texts, layout, and the dialogs that only fill a copy.

## Plan

1. Composition of the protocol with the caches, for the dropped flag above.
2. `FilterTreeAnalyse` as operators over `Containers`, recent files and crop panels, if a
   property can be found that more than restates them.
