----------------------------- MODULE TreeState ------------------------------
(***************************************************************************)
(* class TreeState (backend/state.cpp): the filter tree in use, the undo   *)
(* and redo stacks, and filterMap, which gives the filters behind the      *)
(* items of the wx tree control; with the handlers of MainWindowFrame      *)
(* (gui/mainFrame.cpp) that edit the tree, each with all it calls.         *)
(*                                                                         *)
(* The handlers run on the user interface's thread, one at a time and to   *)
(* the end, so each is one action.  doSceneUpdate is here what it does to  *)
(* the Undo and Redo menu items: setLockUI disables them, and when the     *)
(* refresh has finished enables them for the stacks that are not empty.    *)
(* The refresh itself is in RefreshProtocol and FilterRefresh.  What the   *)
(* tree is in a file comes after the handlers.                             *)
(*                                                                         *)
(* Filters are not given identities.  A clone in a stack is reached by     *)
(* nobody before it is swapped in; a Filter* of filterMap is the position  *)
(* of the filter in the tree, or Freed once the filter has been deleted.   *)
(***************************************************************************)
EXTENDS Containers, SequencesExt

CONSTANTS Values,      \* settings of a filter (type, properties, label)
          Kind,        \* the filter type that a setting belongs to
          DataSources, \* the types for which isPureDataSource() holds
          Invalid,     \* settings that setProperty refuses
          Stashes,     \* trees that a stash or a state file can hold
          MaxUndo,     \* MAX_UNDO_SIZE
          MaxSize      \* bound on the number of filters in the tree

ASSUME KindAssumption == \A v \in Values : Kind[v] \in STRING
ASSUME MaxUndoAssumption == MaxUndo \in Nat \ {0}
ASSUME StashesAssumption == \A s \in Stashes : s \in Forests(Values) /\ s # <<>>

VARIABLES tree,      \* filterTree
          undo,      \* undoFilterStack, the back is the last element
          redo,      \* redoFilterStack
          filterMap, \* filter id (1, 2, ...) to the position of the filter
          undoItem,  \* the Edit menu's Undo can be chosen
          redoItem,  \* the Edit menu's Redo can be chosen
          fault      \* the undefined behaviour a handler ran into
vars == <<tree, undo, redo, filterMap, undoItem, redoItem, fault>>
menu == <<undoItem, redoItem>>

Freed == 0
Faults == {"none", "empty_redo", "freed_filter"}

NewNode(v) == <<[depth |-> 0, val |-> v]>>
SameKind(v) == {w \in Values : Kind[w] = Kind[v]}

-----------------------------------------------------------------------------
(* Helpers of the handlers.                                                *)

\* upWxTreeCtrl: the control and the map are built afresh, in pre-order.
UpdateWxTreeCtrl == filterMap' = [p \in 1..Len(tree') |-> p]

\* doSceneUpdate, to the setLockUI(false) of finishSceneUpdate.
DoSceneUpdate == undoItem' = (undo' # <<>>) /\ redoItem' = (redo' # <<>>)

\* Many handlers refresh only while "Auto Refresh" is ticked; the user can
\* tick or clear it before any of them.
AutoUpdate == DoSceneUpdate \/ UNCHANGED menu

\* The undo stack after pushUndoStack: it is cut down to MAX_UNDO_SIZE when
\* it is above, and then grows by one.
Pushed == Append(IF Len(undo) > MaxUndo THEN Tail(undo) ELSE undo, tree)

\* Mutant of PushUndoStack: an edit leaves the redo stack alone.
PushUndoStack_KeepsRedo == undo' = Pushed /\ UNCHANGED redo

PushUndoStack == undo' = Pushed /\ redo' = <<>>

\* pushUndoStack and popUndoStack(false), when an edit was refused: the push
\* has cleared the redo stack, and the pop leaves the tree in use there.
PushThenDiscard ==
    /\ undo' = SubSeq(Pushed, 1, Len(Pushed) - 1)
    /\ redo' = <<tree>>

\* The filter an item of the tree control stands for can be used.
Usable(id) == filterMap[id] # Freed
Selected == {id \in DOMAIN filterMap : Usable(id)}

-----------------------------------------------------------------------------
Init ==
    /\ tree = <<>> /\ undo = <<>> /\ redo = <<>> /\ filterMap = <<>>
    /\ undoItem = FALSE /\ redoItem = FALSE /\ fault = "none"

\* OnComboFilter, or a range file dropped on the window (OnDropFiles, which
\* always refreshes): TreeState::addFilter below the selected filter.
AddFilter(id, v) ==
    /\ PushUndoStack
    /\ tree' = AppendChild(tree, filterMap[id], NewNode(v))
    /\ UpdateWxTreeCtrl
    /\ AutoUpdate

\* OnComboStash: AnalysisState::addStashedToFilters.  The parent's pointer is
\* passed for the flag isBase, so the first branch of the stash becomes a base
\* filter, whatever is selected.
AddStash(s) ==
    /\ PushUndoStack
    /\ tree' = InsertBase(tree, SubTree(s, 1))
    /\ UpdateWxTreeCtrl
    /\ AutoUpdate

\* loadFile with a file of ion data: addFilterTree, with no push.
LoadData(v) ==
    /\ tree' = InsertBase(tree, NewNode(v))
    /\ UpdateWxTreeCtrl
    /\ UNCHANGED <<undo, redo>>
    /\ DoSceneUpdate

\* loadFile with a state file: AnalysisState::load copies a state that was
\* loaded on its own, stacks included, over the one in use.
LoadState(s) ==
    /\ tree' = s /\ undo' = <<>> /\ redo' = <<>>
    /\ UpdateWxTreeCtrl
    /\ DoSceneUpdate

\* OnTreeEndDrag with Ctrl: TreeState::copyFilter onto another item.  A copy
\* onto the filter's own branch is refused after the push.
CopyOnto(id, pid) ==
    LET from == filterMap[id]  to == filterMap[pid] IN
    /\ PushUndoStack
    /\ \/ /\ IsChild(tree, from, to)
          /\ UNCHANGED <<tree, filterMap, menu>>
       \/ /\ ~IsChild(tree, from, to)
          /\ tree' = AppendChild(tree, to, SubTree(tree, from))
          /\ UpdateWxTreeCtrl
          /\ AutoUpdate

\* The same, dropped beside the tree: only a data source may become a base.
CopyToBase(id) ==
    /\ Kind[tree[filterMap[id]].val] \in DataSources
    /\ PushUndoStack
    /\ tree' = InsertBase(tree, SubTree(tree, filterMap[id]))
    /\ UpdateWxTreeCtrl
    /\ AutoUpdate

\* FilterTree::reparentFilter: the branch has been copied behind the node at q, and
\* the original is erased.  An iterator finds it there; its position here is behind
\* the copy's if that went in before it.
Moved(inserted, from, q) ==
    EraseBranch(inserted,
                IF q < from THEN from + Len(SubTree(tree, from)) ELSE from)

\* Mutant of MoveOnto: does not look whether the new parent is in the branch.
MoveOnto_IntoItself(id, pid) ==
    LET from == filterMap[id]  to == filterMap[pid] IN
    /\ PushUndoStack
    /\ tree' = Moved(AppendChild(tree, to, SubTree(tree, from)), from, BranchEnd(tree, to))
    /\ UpdateWxTreeCtrl
    /\ AutoUpdate

\* OnTreeEndDrag without Ctrl: TreeState::reparentFilter.
MoveOnto(id, pid) ==
    LET from == filterMap[id]  to == filterMap[pid] IN
    \/ /\ IsChild(tree, from, to)
       /\ PushThenDiscard
       /\ UNCHANGED <<tree, filterMap, menu>>
    \/ /\ ~IsChild(tree, from, to)
       /\ PushUndoStack
       /\ tree' = Moved(AppendChild(tree, to, SubTree(tree, from)),
                        from, BranchEnd(tree, to))
       /\ UpdateWxTreeCtrl
       /\ AutoUpdate

MoveToBase(id) ==
    LET from == filterMap[id] IN
    /\ Kind[tree[from].val] \in DataSources
    /\ PushUndoStack
    /\ tree' = Moved(InsertBase(tree, SubTree(tree, from)),
                     from, BranchEnd(tree, 1))
    /\ UpdateWxTreeCtrl
    /\ AutoUpdate

\* Mutant of RemoveSubtree: the tree control is not rebuilt.
RemoveSubtree_MapKept(id) ==
    /\ PushUndoStack
    /\ tree' = EraseBranch(tree, filterMap[id])
    /\ UNCHANGED filterMap
    /\ DoSceneUpdate

\* OnTreeKeyDown, Delete: TreeState::removeFilterSubtree; always refreshes.
RemoveSubtree(id) ==
    /\ PushUndoStack
    /\ tree' = EraseBranch(tree, filterMap[id])
    /\ UpdateWxTreeCtrl
    /\ DoSceneUpdate

\* OnGridFilterPropertyChange: TreeState::setFilterProperty.  Only a value
\* that changes the filter asks for an update.
SetFilterProperty(id, v) ==
    LET p == filterMap[id] IN
    /\ UNCHANGED filterMap
    /\ \/ /\ v \in Invalid
          /\ PushThenDiscard
          /\ UNCHANGED <<tree, menu>>
       \/ /\ v \in SameKind(tree[p].val) \ Invalid
          /\ PushUndoStack
          /\ tree' = [tree EXCEPT ![p].val = v]
          /\ IF v = tree[p].val THEN UNCHANGED menu ELSE AutoUpdate

\* OnUpdateTimer after a drag in the scene: TreeState::applyBindingsToTree.
ApplyBindings(p, v) ==
    /\ PushUndoStack
    /\ tree' = [tree EXCEPT ![p].val = v]
    /\ UNCHANGED filterMap
    /\ DoSceneUpdate

\* Changes that are made to the filters in place, with no push: OnEditRange
\* (modifyRangeFiles), OnTreeEndLabelEdit (setFilterString), a range dragged in
\* the plot (setPropFromRegion), and the last frame of an animation, which
\* OnFileExportFilterVideo leaves in the tree.
ChangeInPlace(p, v) ==
    /\ tree' = [tree EXCEPT ![p].val = v]
    /\ UNCHANGED <<undo, redo, filterMap>>
    /\ DoSceneUpdate

\* OnFileExportFilterVideo when a frame's property is refused: the loop is
\* left while the local variable treeWithCache holds the filters, and they are
\* deleted with it.  The tree control is not rebuilt.
ExportLosesTree ==
    /\ tree # <<>>
    /\ tree' = <<>>
    /\ filterMap' = [id \in DOMAIN filterMap |-> Freed]
    /\ UNCHANGED <<undo, redo>>
    /\ DoSceneUpdate

\* Mutant of EditUndo: no doSceneUpdate, the menu keeps its items.
EditUndo_MenuKept ==
    /\ undoItem
    /\ undo # <<>>
    /\ redo' = LET r == Append(redo, tree)
               IN  IF Len(r) > MaxUndo THEN Tail(r) ELSE r
    /\ tree' = undo[Len(undo)]
    /\ undo' = SubSeq(undo, 1, Len(undo) - 1)
    /\ UpdateWxTreeCtrl
    /\ UNCHANGED menu

\* OnEditUndo: popUndoStack(true).
EditUndo ==
    /\ undoItem
    /\ undo # <<>>
    /\ redo' = LET r == Append(redo, tree)
               IN  IF Len(r) > MaxUndo THEN Tail(r) ELSE r
    /\ tree' = undo[Len(undo)]
    /\ undo' = SubSeq(undo, 1, Len(undo) - 1)
    /\ UpdateWxTreeCtrl
    /\ DoSceneUpdate

\* OnEditRedo: popRedoStack.
EditRedo ==
    /\ redoItem
    /\ redo # <<>>
    /\ undo' = Append(undo, tree)
    /\ tree' = redo[Len(redo)]
    /\ redo' = SubSeq(redo, 1, Len(redo) - 1)
    /\ UpdateWxTreeCtrl
    /\ DoSceneUpdate

\* popRedoStack does not test the stack: with none of it left, back() and
\* pop_back() are undefined.
EditRedoEmpty ==
    /\ redoItem
    /\ redo = <<>>
    /\ fault' = "empty_redo"
    /\ UNCHANGED <<tree, undo, redo, filterMap, menu>>

\* Any handler that takes the selected item's filter from filterMap.
UseFreed(id) ==
    /\ ~Usable(id)
    /\ fault' = "freed_filter"
    /\ UNCHANGED <<tree, undo, redo, filterMap, menu>>

-----------------------------------------------------------------------------
\* An edit of the filters behind the items of the tree control.
SelectedEdit ==
    \E id \in Selected :
        \/ \E v \in Values \ Invalid : AddFilter(id, v)
        \/ \E v \in Values : SetFilterProperty(id, v)
        \/ \E s \in Stashes : AddStash(s)
        \/ \E pid \in Selected \ {id} : CopyOnto(id, pid) \/ MoveOnto(id, pid)
        \/ CopyToBase(id)
        \/ MoveToBase(id)
        \/ RemoveSubtree(id)

\* A change of a filter's settings that the program makes itself.
SceneEdit ==
    \E p \in DOMAIN tree : \E v \in SameKind(tree[p].val) \ Invalid :
        ApplyBindings(p, v) \/ ChangeInPlace(p, v)

Load ==
    \/ \E v \in {w \in Values : Kind[w] \in DataSources} : LoadData(v)
    \/ \E s \in Stashes : LoadState(s)

Step ==
    \/ SelectedEdit
    \/ SceneEdit
    \/ Load
    \/ ExportLosesTree
    \/ EditUndo
    \/ EditRedo

Fault == EditRedoEmpty \/ \E id \in DOMAIN filterMap : UseFreed(id)

\* MaxSize bounds the trees that are looked at, nothing else.
Next ==
    /\ fault = "none"
    /\ \/ Step /\ UNCHANGED fault /\ Len(tree') <= MaxSize
       \/ Fault

Spec == Init /\ [][Next]_vars

-----------------------------------------------------------------------------
(* saveXML, loadXML and stripHazardousContents: the tree as it goes into a  *)
(* state file and comes out of one. A file is its elements in order: a      *)
(* filter, or the start or end of the "children" that follow a filter. What *)
(* a filter writes of its own is in FilterSettings.                         *)
Open == [tag |-> "children"]
Close == [tag |-> "/children"]
Element(v) == [tag |-> "filter", val |-> v]
Times(n, x) == [i \in 1..n |-> x]

\* Mutant of Nesting: one level too few is left.
Nesting_OneLess(from, to) ==
    IF to >= from THEN Times(to - from, Open) ELSE Times(from - to - 1, Close)

(* What is written between filters of these depths. *)
Nesting(from, to) ==
    IF to > from THEN Times(to - from, Open) ELSE Times(from - to, Close)

DepthBefore(t, p) == IF p = 1 THEN 0 ELSE t[p - 1].depth

saveXML(t) ==
    FlattenSeq([p \in DOMAIN t |->
                   Append(Nesting(DepthBefore(t, p), t[p].depth), Element(t[p].val))])
        \o (IF t = <<>> THEN <<>> ELSE Nesting(t[Len(t)].depth, 0))

(* The reader keeps the branches it has made and where the next base filter *)
(* is inserted: before the one that was inserted last (lastTop), but at the *)
(* end while there is one only. A filter within children is the last child  *)
(* of the one at the top of the stack, of which only the height counts:     *)
(* that one is on the way to the filter read last.                          *)
Reader == [branches |-> <<>>, lastTop |-> 1, stack |-> 0]

ReadElement(r, e) ==
    CASE e.tag = "children" -> [r EXCEPT !.stack = @ + 1]
      [] e.tag = "/children" -> [r EXCEPT !.stack = @ - 1]
      [] e.tag = "filter" /\ r.stack > 0 ->
            [r EXCEPT !.branches[r.lastTop] =
                Append(@, [depth |-> r.stack, val |-> e.val])]
      [] OTHER ->
            LET at == IF Len(r.branches) = 1 THEN 2 ELSE r.lastTop
            IN  [r EXCEPT !.branches = InsertAt(@, at, NewNode(e.val)), !.lastTop = at]

(* What the reader has made of a file.                                      *)
Read(file) ==
    LET r[n \in 0..Len(file)] == IF n = 0 THEN Reader ELSE ReadElement(r[n - 1], file[n])
    IN  r[Len(file)]

loadXML(file) == FlattenSeq(Read(file).branches)

(* From a hazardous filter to the end of the tree all are deleted, but only *)
(* its branch is taken out; nothing says what the walk then makes of the    *)
(* deleted ones that are left.                                              *)
Deleted == [deleted |-> TRUE]
hasHazardousContents(t, hazardous) == \E p \in DOMAIN t : Kind[t[p].val] = hazardous
stripHazardousContents(t, hazardous) ==
    LET found == {p \in DOMAIN t : Kind[t[p].val] = hazardous}
        first == CHOOSE p \in found : \A q \in found : p <= q
    IN  IF ~hasHazardousContents(t, hazardous) THEN t
        ELSE SubSeq(t, 1, first - 1) \o Times(Len(t) - BranchEnd(t, first), Deleted)

(* A stash is a tree of its own: a copy of the branch of a filter. Of a tree *)
(* that is put into another only the first branch is, behind the first.     *)
cloneSubtree(t, p) == AtDepth(SubTree(t, p), 0)
addFilterTree(t, f) == IF f = <<>> THEN t ELSE InsertBase(t, SubTree(f, 1))

-----------------------------------------------------------------------------
\* Every tree is a forest, and the map of ids leads into the tree.
TypeOK ==
    /\ tree \in Forests(Values)
    /\ undo \in Seq(Forests(Values))
    /\ redo \in Seq(Forests(Values))
    /\ filterMap \in Seq(0..Len(tree))
    /\ undoItem \in BOOLEAN /\ redoItem \in BOOLEAN
    /\ fault \in Faults

\* The two stacks together never hold more than MAX_UNDO_SIZE + 1 trees: what
\* popRedoStack asserts of the undo stack it is about to extend
\* (state.cpp:1541) holds whenever there is something to redo.
UndoRedoBound ==
    /\ Len(undo) + Len(redo) <= MaxUndo + 1
    /\ redo # <<>> => Len(undo) <= MaxUndo

\* When Undo can be chosen there is something to undo: what popUndoStack
\* asserts (state.cpp:1517), although edits change the stack long before the
\* menu is brought up to date.
UndoMenuHasEntry == undoItem => undo # <<>>

\* Between two handlers the tree control shows the filters of the tree, each
\* item its own: after every edit, however it was made, filterMap has been
\* rebuilt.  An export that fails takes the whole tree with it.
MapExact == tree # <<>> => filterMap = [p \in 1..Len(tree) |-> p]

\* The stacks are a line of versions with a cursor.
Backwards(s) == [i \in 1..Len(s) |-> s[(Len(s) + 1) - i]]

History == INSTANCE UndoHistory
    WITH Limit <- MaxUndo + 2,
         timeline <- (undo \o <<tree>>) \o Backwards(redo),
         cursor <- Len(undo) + 1

\* An edit keeps the tree it replaces for Undo, Redo returns to where Undo
\* came from, and only the oldest versions are ever given up.
ImplementsUndoHistory == History!Spec

\* A filter that is dragged to another place takes its branch along, and no filter
\* is lost or doubled, wherever it is dropped: reparentFilter copies the branch and
\* erases the original, with the copy if that was put below a filter of the branch.
Count(t, v) == Cardinality({p \in DOMAIN t : t[p].val = v})
MoveKeepsFilters ==
    [][\A id \in Selected :
          (MoveToBase(id) \/ \E pid \in Selected \ {id} : MoveOnto(id, pid))
             => \A v \in Values : Count(tree', v) = Count(tree, v)]_vars

\* The branches of the base filters, in order.
Bases(t) == {p \in DOMAIN t : t[p].depth = 0}
BaseBranches(t) == [i \in 1..Cardinality(Bases(t)) |-> SubTree(t, Nth(Bases(t), i))]

\* Branches in the order in which they are read: each behind the first, and so
\* before those that were read between.
Turned(branches) ==
    IF branches = <<>> THEN <<>> ELSE <<Head(branches)>> \o Reverse(Tail(branches))

(* Reading a state file gives back every branch of the tree that was saved, *)
(* the first in its place and the others in reverse order, so that the file *)
(* of what was read gives back the order that was saved first. A stash of   *)
(* any branch that was read back and put in is the second, beside the       *)
(* others. Stripping the tree of what may run programs leaves what came     *)
(* before as it was, and deleted filters in it only where a branch followed. *)
FilesKeepTree ==
    LET back == loadXML(saveXML(tree))
        branches == BaseBranches(tree)
    IN  /\ IsForest(back)
        /\ BaseBranches(back) = Turned(branches)
        /\ loadXML(saveXML(back)) = tree
        /\ \A p \in DOMAIN tree :
              LET stash == cloneSubtree(tree, p)
                  more == addFilterTree(tree, loadXML(saveXML(stash)))
              IN  /\ BaseBranches(more)[2] = stash
                  /\ RemoveAt(BaseBranches(more), 2) = branches
        /\ \A k \in {Kind[v] : v \in Values} :
              LET safe == stripHazardousContents(back, k) IN
              /\ \A p \in DOMAIN safe :
                    safe[p] # Deleted => safe[p] = back[p] /\ Kind[safe[p].val] # k
              /\ (\E p \in DOMAIN safe : safe[p] = Deleted) =>
                    \E p \in DOMAIN back : Kind[back[p].val] = k /\ BranchEnd(back, p) < Len(back)
=============================================================================
