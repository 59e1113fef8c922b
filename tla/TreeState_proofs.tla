-------------------------- MODULE TreeState_proofs --------------------------
(***************************************************************************)
(* Proofs about TreeState, for any filters, stashes and stack size.        *)
(***************************************************************************)
EXTENDS TreeState

-----------------------------------------------------------------------------
(* The operations of FilterTree, for nodes of a depth and a value.         *)

Branches(V) == {s \in Seq([depth : Nat, val : V]) : IsBranch(s)}

LEMMA DepthsAreNat == \A V : \A n \in [depth : Nat, val : V] : n.depth \in Nat
OBVIOUS

LEMMA NodesHang == \A V : Hangs([depth : Nat, val : V])
BY DEF Hangs

\* FilterTree::addFilter, copyFilter and the first half of reparentFilter,
\* below a filter.
LEMMA AppendChildForest ==
    ASSUME NEW V, NEW t \in Forests(V), NEW p \in 1..Len(t), NEW s \in Branches(V)
    PROVE  /\ AppendChild(t, p, s) \in Forests(V)
           /\ Len(AppendChild(t, p, s)) = Len(t) + Len(s)
<1> DEFINE N == [depth : Nat, val : V]
<1>1. /\ Hangs(N)
      /\ t \in Seq(N) /\ IsForest(t) /\ s \in Seq(N) /\ IsBranch(s)
  BY NodesHang DEF Forests, Branches
<1> HIDE DEF N
<1>2. /\ AppendChild(t, p, s) \in Seq(N) /\ IsForest(AppendChild(t, p, s))
      /\ Len(AppendChild(t, p, s)) = Len(t) + Len(s)
  BY <1>1, Appended
<1> QED
  BY <1>2 DEF Forests, N

\* The same at the base of the tree.
LEMMA InsertBaseForest ==
    ASSUME NEW V, NEW t \in Forests(V), NEW s \in Branches(V)
    PROVE  /\ InsertBase(t, s) \in Forests(V)
           /\ Len(InsertBase(t, s)) = Len(t) + Len(s)
<1> DEFINE N == [depth : Nat, val : V]
           q == BranchEnd(t, 1)
           b == AtDepth(s, 0)
           r == InsertAfter(t, q, b)
<1>1. /\ \A n \in N : n.depth \in Nat
      /\ t \in Seq(N) /\ IsForest(t) /\ s \in Seq(N) /\ IsBranch(s)
  BY DepthsAreNat DEF Forests, Branches
<1>2. b \in Seq(N) /\ Len(b) = Len(s) /\ IsBranch(b) /\ b[1].depth = 0
  <2> DEFINE d == 0
  <2>1. Hangs(N)
    BY NodesHang
  <2>2. d \in Nat /\ b = AtDepth(s, d)
    OBVIOUS
  <2> HIDE DEF N, d, q, b
  <2>3. b \in Seq(N) /\ Len(b) = Len(s) /\ IsBranch(b) /\ b[1].depth = d
    BY ONLY <1>1, <2>1, <2>2, AtDepthBranch
  <2> QED
    BY <2>3 DEF d
<1> HIDE DEF N, b
<1>3. CASE t = <<>>
  <2>1. InsertBase(t, s) = b
    BY <1>3 DEF InsertBase, b
  <2>2. IsForest(b)
    <3> SUFFICES ASSUME NEW i \in 1..Len(b)
                 PROVE  b[i].depth <= (IF i = 1 THEN 0 ELSE b[i-1].depth + 1)
      BY DEF IsForest
    <3>1. CASE i = 1
      BY <3>1, <1>2
    <3>2. CASE i # 1
      BY <3>2, <1>2 DEF IsBranch
    <3> QED
      BY <3>1, <3>2
  <2>3. Len(t) = 0 /\ Len(s) \in Nat
    BY <1>1, <1>3
  <2> QED
    BY <2>1, <2>2, <2>3, <1>2 DEF Forests, N
<1>4. CASE t # <<>>
  <2>1. 1 \in 1..Len(t)
    BY <1>1, <1>4
  <2>2. t[1].depth = 0
    <3>1. t[1] \in N
      BY <2>1, <1>1
    <3>2. t[1].depth \in Nat /\ t[1].depth <= 0
      BY <2>1, <3>1, <1>1 DEF IsForest
    <3> QED
      BY <3>2
  <2>3. q \in 1..Len(t) /\ (q < Len(t) => t[q+1].depth <= t[1].depth)
    BY <2>1, <1>1, BranchEndStops
  <2> HIDE DEF q
  <2>4. t[q] \in N /\ t[q].depth \in Nat
    BY <2>3, <1>1
  <2>5. b[1].depth <= (IF q = 0 THEN 0 ELSE t[q].depth + 1)
    BY <2>4, <2>3, <1>2
  <2>6. ASSUME q < Len(t) PROVE t[q+1].depth <= b[1].depth + 1
    <3>1. q + 1 \in 1..Len(t)
      BY <2>3, <2>6
    <3>2. t[q+1] \in N
      BY <3>1, <1>1
    <3>3. t[q+1].depth \in Nat
      BY <3>2, <1>1
    <3> QED
      BY <3>3, <2>2, <2>3, <2>6, <1>2
  <2>7. q \in 0..Len(t)
    BY <2>3
  <2>8. r \in Seq(N) /\ IsForest(r) /\ Len(r) = Len(t) + Len(b)
    BY <2>5, <2>6, <2>7, <1>1, <1>2, InsertForest, SMTT(30)
  <2>9. InsertBase(t, s) = r
    BY <1>4 DEF InsertBase, b, q
  <2> QED
    BY <2>8, <2>9, <1>2 DEF Forests, N
<1> QED
  BY <1>3, <1>4

\* FilterTree::removeSubtree, and the second half of reparentFilter: what
\* follows the branch is not deeper than the branch's root was.
LEMMA EraseBranchForest ==
    ASSUME NEW V, NEW t \in Forests(V), NEW p \in 1..Len(t)
    PROVE  EraseBranch(t, p) \in Forests(V)
<1> DEFINE N == [depth : Nat, val : V]
<1>1. (\A n \in N : n.depth \in Nat) /\ t \in Seq(N) /\ IsForest(t)
  BY DepthsAreNat DEF Forests
<1> HIDE DEF N
<1>2. EraseBranch(t, p) \in Seq(N) /\ IsForest(EraseBranch(t, p))
  BY <1>1, Erased
<1> QED
  BY <1>2 DEF Forests, N

\* FilterTree::copyFilter: what is cloned.
LEMMA SubTreeBranches ==
    ASSUME NEW V, NEW t \in Forests(V), NEW p \in 1..Len(t)
    PROVE  SubTree(t, p) \in Branches(V)
<1> DEFINE N == [depth : Nat, val : V]
<1>1. (\A n \in N : n.depth \in Nat) /\ t \in Seq(N) /\ IsForest(t)
  BY DepthsAreNat DEF Forests
<1> HIDE DEF N
<1>2. SubTree(t, p) \in Seq(N) /\ IsBranch(SubTree(t, p))
  BY <1>1, SubTreeBranch
<1> QED
  BY <1>2 DEF Branches, N

\* Positions of a forest.
LEMMA ForestPositions ==
    ASSUME NEW V, NEW t \in Forests(V)
    PROVE  /\ Len(t) \in Nat
           /\ t # <<>> => 1 \in 1..Len(t)
           /\ \A p \in 1..Len(t) : BranchEnd(t, p) \in 1..Len(t)
<1> DEFINE N == [depth : Nat, val : V]
<1>1. (\A n \in N : n.depth \in Nat) /\ t \in Seq(N)
  BY DepthsAreNat DEF Forests
<1> HIDE DEF N
<1>2. Len(t) \in Nat /\ (t # <<>> => 1 \in 1..Len(t))
  BY <1>1
<1>3. ASSUME NEW p \in 1..Len(t) PROVE BranchEnd(t, p) \in 1..Len(t)
  <2>1. BranchEnd(t, p) \in p..Len(t)
    BY <1>1, BranchEndStops
  <2> QED
    BY <2>1, <1>2
<1> QED
  BY <1>2, <1>3

-----------------------------------------------------------------------------
(* The state.                                                               *)

F == Forests(Values)

USE DEF Freed

-----------------------------------------------------------------------------
(* The stacks.                                                             *)

LEMMA FrontFacts ==
    ASSUME NEW S, NEW s \in Seq(S), s # <<>>
    PROVE  /\ SubSeq(s, 1, Len(s) - 1) \in Seq(S)
           /\ Len(SubSeq(s, 1, Len(s) - 1)) = Len(s) - 1
           /\ s[Len(s)] \in S
           /\ Len(s) \in Nat \ {0}
<1>1. Len(s) \in Nat \ {0} /\ s[Len(s)] \in S
  OBVIOUS
<1>2. SubSeq(s, 1, Len(s) - 1) \in Seq(S) /\ Len(SubSeq(s, 1, Len(s) - 1)) = Len(s) - 1
  <2> DEFINE n == Len(s) - 1
  <2>1. n \in 0..Len(s) /\ 1 <= n + 1 /\ (n - 1) + 1 = n
    BY <1>1
  <2> HIDE DEF n
  <2>2. SubSeq(s, 1, n) \in Seq(S) /\ Len(SubSeq(s, 1, n)) = n
    BY <2>1, SubSeqElements
  <2> QED
    BY <2>2 DEF n
<1> QED
  BY <1>1, <1>2

\* What pushUndoStack leaves in the undo stack.
LEMMA PushedFacts ==
    ASSUME undo \in Seq(F), tree \in F
    PROVE  /\ Pushed \in Seq(F)
           /\ Len(Pushed) = (IF Len(undo) > MaxUndo THEN Len(undo) ELSE Len(undo) + 1)
<1>1. CASE Len(undo) > MaxUndo
  <2>1. Tail(undo) \in Seq(F) /\ Len(Tail(undo)) = Len(undo) - 1
    BY <1>1, MaxUndoAssumption
  <2>2. Pushed = Append(Tail(undo), tree)
    BY <1>1 DEF Pushed
  <2> QED
    BY <2>1, <2>2, <1>1
<1>2. CASE ~(Len(undo) > MaxUndo)
  BY <1>2 DEF Pushed
<1> QED
  BY <1>1, <1>2

\* What the push and the pop of a refused edit leave there.
LEMMA DiscardFacts ==
    ASSUME undo \in Seq(F), tree \in F
    PROVE  /\ SubSeq(Pushed, 1, Len(Pushed) - 1) \in Seq(F)
           /\ Len(SubSeq(Pushed, 1, Len(Pushed) - 1)) = Len(Pushed) - 1
<1>1. Pushed \in Seq(F) /\ Len(Pushed) \in Nat \ {0}
  BY PushedFacts, MaxUndoAssumption
<1>2. Pushed # <<>>
  BY <1>1
<1> QED
  BY <1>1, <1>2, FrontFacts

\* How a step may change the stacks and the two menu items.
StackStep ==
    /\ \/ PushUndoStack
       \/ PushThenDiscard /\ UNCHANGED tree
       \/ UNCHANGED <<undo, redo>>
       \/ undo' = <<>> /\ redo' = <<>> /\ DoSceneUpdate
       \/ EditUndo
       \/ EditRedo
    /\ AutoUpdate

LEMMA StepStacks ==
    ASSUME [Next]_vars PROVE StackStep
<1>1. CASE SelectedEdit
  BY <1>1 DEF SelectedEdit, AddFilter, SetFilterProperty, AddStash, CopyOnto,
     MoveOnto, CopyToBase, MoveToBase, RemoveSubtree, StackStep, AutoUpdate
<1>2. CASE SceneEdit
  BY <1>2 DEF SceneEdit, ApplyBindings, ChangeInPlace, StackStep, AutoUpdate
<1>3. CASE Load
  BY <1>3 DEF Load, LoadData, LoadState, StackStep, AutoUpdate
<1>4. CASE ExportLosesTree
  BY <1>4 DEF ExportLosesTree, StackStep, AutoUpdate
<1>5. CASE EditUndo
  BY <1>5 DEF EditUndo, StackStep, AutoUpdate
<1>6. CASE EditRedo
  BY <1>6 DEF EditRedo, StackStep, AutoUpdate
<1>7. CASE Fault
  BY <1>7 DEF Fault, EditRedoEmpty, UseFreed, StackStep, AutoUpdate
<1>8. CASE UNCHANGED vars
  BY <1>8 DEF vars, menu, StackStep, AutoUpdate
<1> QED
  BY <1>1, <1>2, <1>3, <1>4, <1>5, <1>6, <1>7, <1>8 DEF Next, Step

\* The stacks keep holding forests, if the tree in use is one.
LEMMA StackTypes ==
    ASSUME TypeOK, [Next]_vars
    PROVE  /\ undo' \in Seq(F) /\ redo' \in Seq(F)
           /\ undoItem' \in BOOLEAN /\ redoItem' \in BOOLEAN
<1>1. undo \in Seq(F) /\ redo \in Seq(F) /\ tree \in F
  BY DEF TypeOK, F
<1>2. undoItem' \in BOOLEAN /\ redoItem' \in BOOLEAN
  BY StepStacks DEF StackStep, AutoUpdate, DoSceneUpdate, menu, TypeOK
<1>3. <<>> \in Seq(F) /\ <<tree>> \in Seq(F)
  BY <1>1
<1>4. CASE PushUndoStack
  BY <1>1, <1>2, <1>3, <1>4, PushedFacts DEF PushUndoStack
<1>5. CASE PushThenDiscard
  BY <1>1, <1>2, <1>3, <1>5, DiscardFacts DEF PushThenDiscard
<1>6. CASE UNCHANGED <<undo, redo>>
  BY <1>1, <1>2, <1>6
<1>7. CASE undo' = <<>> /\ redo' = <<>>
  BY <1>2, <1>3, <1>7
<1>8. CASE EditUndo
  <2>1. undo' \in Seq(F)
    BY <1>1, <1>8, FrontFacts DEF EditUndo
  <2>2. Append(redo, tree) \in Seq(F) /\ Tail(Append(redo, tree)) \in Seq(F)
    BY <1>1
  <2>3. redo' \in Seq(F)
    BY <2>2, <1>8 DEF EditUndo
  <2> QED
    BY <2>1, <2>3, <1>2
<1>9. CASE EditRedo
  <2>1. redo' \in Seq(F)
    BY <1>1, <1>9, FrontFacts DEF EditRedo
  <2>2. undo' \in Seq(F)
    BY <1>1, <1>9 DEF EditRedo
  <2> QED
    BY <2>1, <2>2, <1>2
<1>10. undo' \in Seq(F) /\ redo' \in Seq(F)
  BY <1>4, <1>5, <1>6, <1>7, <1>8, <1>9, StepStacks DEF StackStep
<1> QED
  BY <1>2, <1>10

-----------------------------------------------------------------------------
(* The tree and the map.                                                   *)

\* A setting of a filter is changed in place.
LEMMA SetValueForest ==
    ASSUME NEW t \in F, NEW p \in 1..Len(t), NEW v \in Values
    PROVE  /\ [t EXCEPT ![p].val = v] \in F
           /\ Len([t EXCEPT ![p].val = v]) = Len(t)
<1> DEFINE N == [depth : Nat, val : Values]
           r == [t EXCEPT ![p].val = v]
<1>1. t \in Seq(N) /\ IsForest(t)
  BY DEF F, Forests
<1>2. t[p] \in N
  <2> HIDE DEF N
  <2> QED
    BY <1>1
<1>3. [t[p] EXCEPT !.val = v] \in N /\ [t[p] EXCEPT !.val = v].depth = t[p].depth
  BY <1>2
<1> HIDE DEF N
<1>4. r \in Seq(N) /\ Len(r) = Len(t)
  BY <1>1, <1>3
<1>5. \A i \in 1..Len(t) : r[i].depth = t[i].depth
  BY <1>1, <1>3
<1> HIDE DEF r
<1>6. IsForest(r)
  <2> SUFFICES ASSUME NEW i \in 1..Len(r)
               PROVE  r[i].depth <= (IF i = 1 THEN 0 ELSE r[i-1].depth + 1)
    BY DEF IsForest
  <2>1. i \in 1..Len(t) /\ (i # 1 => i - 1 \in 1..Len(t))
    BY <1>1, <1>4
  <2> QED
    BY <2>1, <1>1, <1>5 DEF IsForest
<1> QED
  BY <1>4, <1>6 DEF F, Forests, N, r

LEMMA NewNodeBranch ==
    ASSUME NEW v \in Values PROVE NewNode(v) \in Branches(Values)
BY DEF NewNode, Branches, IsBranch

\* FilterTree::reparentFilter, wherever the copy has gone.
LEMMA MovedForest ==
    ASSUME NEW t \in F, t = tree, NEW from \in 1..Len(t), NEW q \in Nat, NEW r \in F,
           Len(r) = Len(t) + Len(SubTree(t, from))
    PROVE  Moved(r, from, q) \in F
<1>1. Len(SubTree(t, from)) \in Nat
  BY SubTreeBranches DEF Branches, F
<1>2. Len(t) \in Nat
  BY DEF F, Forests
<1>3. from \in 1..Len(r) /\ from + Len(SubTree(t, from)) \in 1..Len(r)
  BY <1>1, <1>2
<1> QED
  BY <1>3, EraseBranchForest DEF Moved, F

LEMMA SelectedInTree ==
    ASSUME TypeOK, NEW id \in Selected
    PROVE  filterMap[id] \in 1..Len(tree)
BY DEF TypeOK, Selected, Usable, Forests

LEMMA RebuiltMap ==
    ASSUME tree' \in F, UpdateWxTreeCtrl
    PROVE  filterMap' \in Seq(0..Len(tree'))
<1>1. Len(tree') \in Nat
  BY DEF F, Forests
<1>2. filterMap' \in [1..Len(tree') -> 0..Len(tree')]
  BY <1>1 DEF UpdateWxTreeCtrl
<1> QED
  BY <1>1, <1>2

\* Each handler leaves a forest and a map that leads into it.
LEMMA StepTree ==
    ASSUME TypeOK, Step
    PROVE  tree' \in F /\ filterMap' \in Seq(0..Len(tree'))
<1> USE DEF F
<1>1. tree \in F /\ undo \in Seq(F) /\ redo \in Seq(F) /\ filterMap \in Seq(0..Len(tree))
  BY DEF TypeOK
<1>2. ASSUME NEW id \in Selected, SelectedEdit,
             \/ \E v \in Values \ Invalid : AddFilter(id, v)
             \/ \E v \in Values : SetFilterProperty(id, v)
             \/ \E s \in Stashes : AddStash(s)
             \/ \E pid \in Selected \ {id} : CopyOnto(id, pid) \/ MoveOnto(id, pid)
             \/ CopyToBase(id)
             \/ MoveToBase(id)
             \/ RemoveSubtree(id)
      PROVE  tree' \in F /\ filterMap' \in Seq(0..Len(tree'))
  <2> DEFINE from == filterMap[id]
             sub == SubTree(tree, from)
  <2>1. from \in 1..Len(tree)
    BY SelectedInTree
  <2>2. sub \in Branches(Values)
    BY <2>1, <1>1, SubTreeBranches
  <2> HIDE DEF from
  <2>3. ASSUME NEW v \in Values, AddFilter(id, v)
        PROVE  tree' \in F /\ UpdateWxTreeCtrl
    <3>1. tree' = AppendChild(tree, from, NewNode(v)) /\ UpdateWxTreeCtrl
      BY <2>3 DEF AddFilter, from
    <3> QED
      BY <3>1, <2>1, <1>1, NewNodeBranch, AppendChildForest
  <2>4. ASSUME NEW v \in Values, SetFilterProperty(id, v)
        PROVE  tree' \in F /\ filterMap' \in Seq(0..Len(tree'))
    <3>1. filterMap' = filterMap
          /\ (tree' = tree \/ tree' = [tree EXCEPT ![from].val = v])
      BY <2>4 DEF SetFilterProperty, from
    <3>2. CASE tree' = tree
      BY <3>1, <3>2, <1>1
    <3>3. CASE tree' = [tree EXCEPT ![from].val = v]
      <4>1. tree' \in F /\ Len(tree') = Len(tree)
        BY <3>3, <2>1, <1>1, SetValueForest
      <4> QED
        BY <4>1, <3>1, <1>1
    <3> QED
      BY <3>1, <3>2, <3>3
  <2>5. ASSUME NEW s \in Stashes, AddStash(s)
        PROVE  tree' \in F /\ UpdateWxTreeCtrl
    <3>1. tree' = InsertBase(tree, SubTree(s, 1)) /\ UpdateWxTreeCtrl
      BY <2>5 DEF AddStash
    <3>2. s \in F /\ 1 \in 1..Len(s)
      BY StashesAssumption, ForestPositions
    <3>3. SubTree(s, 1) \in Branches(Values)
      BY <3>2, SubTreeBranches
    <3> QED
      BY <3>1, <3>3, <1>1, InsertBaseForest
  <2>6. ASSUME NEW pid \in Selected, CopyOnto(id, pid)
        PROVE  tree' \in F /\ filterMap' \in Seq(0..Len(tree'))
    <3> DEFINE to == filterMap[pid]
    <3>1. to \in 1..Len(tree)
      BY SelectedInTree
    <3> HIDE DEF to
    <3>2. \/ tree' = tree /\ filterMap' = filterMap
          \/ tree' = AppendChild(tree, to, sub) /\ UpdateWxTreeCtrl
      BY <2>6 DEF CopyOnto, from, to
    <3>3. AppendChild(tree, to, sub) \in F
      BY <3>1, <2>2, <1>1, AppendChildForest
    <3> QED
      BY <3>2, <3>3, <1>1, RebuiltMap
  <2>7. ASSUME NEW pid \in Selected, MoveOnto(id, pid)
        PROVE  tree' \in F /\ filterMap' \in Seq(0..Len(tree'))
    <3> DEFINE to == filterMap[pid]
               ins == AppendChild(tree, to, sub)
               q == BranchEnd(tree, to)
    <3>1. to \in 1..Len(tree)
      BY SelectedInTree
    <3>2. \/ tree' = tree /\ filterMap' = filterMap
          \/ tree' = Moved(ins, from, q) /\ UpdateWxTreeCtrl
      BY <2>7 DEF MoveOnto, from
    <3> HIDE DEF to
    <3>3. ins \in F /\ Len(ins) = Len(tree) + Len(sub)
      BY <3>1, <2>2, <1>1, AppendChildForest
    <3>4. q \in Nat
      BY <3>1, <1>1, ForestPositions
    <3>5. Moved(ins, from, q) \in F
      <4> HIDE DEF ins, q
      <4> QED
        BY <3>3, <3>4, <2>1, <1>1, MovedForest
    <3> QED
      BY <3>2, <3>5, <1>1, RebuiltMap
  <2>8. ASSUME CopyToBase(id)
        PROVE  tree' \in F /\ UpdateWxTreeCtrl
    <3>1. tree' = InsertBase(tree, sub) /\ UpdateWxTreeCtrl
      BY <2>8 DEF CopyToBase, from
    <3> QED
      BY <3>1, <2>2, <1>1, InsertBaseForest
  <2>9. ASSUME MoveToBase(id)
        PROVE  tree' \in F /\ UpdateWxTreeCtrl
    <3> DEFINE ins == InsertBase(tree, sub)
               q == BranchEnd(tree, 1)
    <3>1. tree' = Moved(ins, from, q) /\ UpdateWxTreeCtrl
      BY <2>9 DEF MoveToBase, from
    <3>2. ins \in F /\ Len(ins) = Len(tree) + Len(sub)
      BY <2>2, <1>1, InsertBaseForest
    <3>3. q \in Nat
      <4>1. tree # <<>>
        BY <2>1
      <4> QED
        BY <4>1, <1>1, ForestPositions
    <3> HIDE DEF ins, q
    <3> QED
      BY <3>1, <3>2, <3>3, <2>1, <1>1, MovedForest
  <2>10. ASSUME RemoveSubtree(id)
         PROVE  tree' \in F /\ UpdateWxTreeCtrl
    <3>1. tree' = EraseBranch(tree, from) /\ UpdateWxTreeCtrl
      BY <2>10 DEF RemoveSubtree, from
    <3> QED
      BY <3>1, <2>1, <1>1, EraseBranchForest
  <2> QED
    BY <1>2, <2>3, <2>4, <2>5, <2>6, <2>7, <2>8, <2>9, <2>10, RebuiltMap
<1>3. ASSUME SceneEdit
      PROVE  tree' \in F /\ filterMap' \in Seq(0..Len(tree'))
  <2>1. PICK p \in DOMAIN tree, v \in Values :
            tree' = [tree EXCEPT ![p].val = v] /\ filterMap' = filterMap
    BY <1>3 DEF SceneEdit, SameKind, ApplyBindings, ChangeInPlace
  <2>2. p \in 1..Len(tree)
    BY <1>1 DEF Forests
  <2> QED
    BY <2>1, <2>2, <1>1, SetValueForest
<1>4. ASSUME Load
      PROVE  tree' \in F /\ UpdateWxTreeCtrl
  <2>1. CASE \E v \in Values : LoadData(v)
    <3>1. PICK v \in Values : tree' = InsertBase(tree, NewNode(v)) /\ UpdateWxTreeCtrl
      BY <2>1 DEF LoadData
    <3> QED
      BY <3>1, <1>1, NewNodeBranch, InsertBaseForest
  <2>2. CASE \E s \in Stashes : LoadState(s)
    BY <2>2, StashesAssumption DEF LoadState
  <2> QED
    BY <2>1, <2>2, <1>4 DEF Load
<1>5. ASSUME ExportLosesTree
      PROVE  tree' \in F /\ filterMap' \in Seq(0..Len(tree'))
  <2>1. tree' = <<>> /\ filterMap' = [id \in DOMAIN filterMap |-> 0]
    BY <1>5 DEF ExportLosesTree
  <2>2. tree' \in F
    BY <2>1 DEF Forests, IsForest
  <2>3. filterMap' \in Seq(0..0) /\ Len(tree') = 0
    BY <2>1, <1>1
  <2> QED
    BY <2>2, <2>3
<1>6. ASSUME EditUndo
      PROVE  tree' \in F /\ UpdateWxTreeCtrl
  BY <1>6, <1>1, FrontFacts DEF EditUndo
<1>7. ASSUME EditRedo
      PROVE  tree' \in F /\ UpdateWxTreeCtrl
  BY <1>7, <1>1, FrontFacts DEF EditRedo
<1> QED
  BY <1>2, <1>3, <1>4, <1>5, <1>6, <1>7, RebuiltMap DEF Step, SelectedEdit

-----------------------------------------------------------------------------
\* Whatever the handlers do to the tree control, the tree and the stacks, they
\* hold forests, and the ids of the tree control lead into the tree.
THEOREM TypeCorrect == Spec => []TypeOK
<1>1. Init => TypeOK
  <2>1. <<>> \in F
    BY DEF F, Forests, IsForest
  <2>2. <<>> \in Seq(F) /\ <<>> \in Seq(0..Len(<<>>))
    OBVIOUS
  <2> QED
    BY <2>1, <2>2 DEF Init, TypeOK, F, Faults
<1>2. ASSUME TypeOK, [Next]_vars PROVE TypeOK'
  <2>1. /\ undo' \in Seq(F) /\ redo' \in Seq(F)
        /\ undoItem' \in BOOLEAN /\ redoItem' \in BOOLEAN
    BY <1>2, StackTypes
  <2>2. fault' \in Faults
    BY <1>2 DEF Next, Fault, EditRedoEmpty, UseFreed, TypeOK, Faults, vars
  <2>3. tree' \in F /\ filterMap' \in Seq(0..Len(tree'))
    <3>1. CASE Step
      BY <3>1, <1>2, StepTree
    <3>2. CASE UNCHANGED <<tree, filterMap>>
      BY <3>2, <1>2 DEF TypeOK, F
    <3> QED
      BY <3>1, <3>2, <1>2 DEF Next, Fault, EditRedoEmpty, UseFreed, vars
  <2> QED
    BY <2>1, <2>2, <2>3 DEF TypeOK, F
<1> QED
  BY <1>1, <1>2, PTL DEF Spec

\* The stacks together stay within MAX_UNDO_SIZE + 1 trees, so that
\* popRedoStack finds room in the undo stack (its ASSERT, state.cpp:1541).
THEOREM StacksBounded == Spec => []UndoRedoBound
<1>1. Init => UndoRedoBound
  BY MaxUndoAssumption DEF Init, UndoRedoBound
<1>2. ASSUME TypeOK, UndoRedoBound, [Next]_vars PROVE UndoRedoBound'
  <2>1. undo \in Seq(F) /\ redo \in Seq(F) /\ tree \in F /\ MaxUndo \in Nat \ {0}
    BY <1>2, MaxUndoAssumption DEF TypeOK, F
  <2>2. /\ undo' \in Seq(F) /\ redo' \in Seq(F)
        /\ Len(undo) \in Nat /\ Len(redo) \in Nat
        /\ Len(undo') \in Nat /\ Len(redo') \in Nat
    BY <1>2, <2>1, StackTypes
  <2>3. Len(undo) + Len(redo) <= MaxUndo + 1
    BY <1>2 DEF UndoRedoBound
  <2>4. redo' # <<>> => Len(redo') > 0
    BY <2>2
  <2>5. Len(undo') + Len(redo') <= MaxUndo + 1
    <3>1. CASE PushUndoStack
      <4>1. undo' = Pushed /\ Len(redo') = 0
        BY <3>1 DEF PushUndoStack
      <4> QED
        BY <4>1, <2>1, <2>2, <2>3, PushedFacts
    <3>2. CASE PushThenDiscard
      <4>1. Len(undo') = Len(Pushed) - 1 /\ Len(redo') = 1
        BY <3>2, <2>1, DiscardFacts DEF PushThenDiscard
      <4> QED
        BY <4>1, <2>1, <2>2, <2>3, PushedFacts
    <3>3. CASE UNCHANGED <<undo, redo>>
      BY <3>3, <2>3
    <3>4. CASE undo' = <<>> /\ redo' = <<>>
      BY <3>4, <2>1
    <3>5. CASE EditUndo
      <4>1. Len(undo') = Len(undo) - 1
        BY <3>5, <2>1, FrontFacts DEF EditUndo
      <4>2. Len(redo') <= Len(redo) + 1
        <5>1. /\ Len(Append(redo, tree)) = Len(redo) + 1
              /\ Len(Tail(Append(redo, tree))) = Len(redo)
          BY <2>1
        <5> QED
          BY <5>1, <2>2, <3>5 DEF EditUndo
      <4> QED
        BY <4>1, <4>2, <2>1, <2>2, <2>3
    <3>6. CASE EditRedo
      <4>1. Len(redo') = Len(redo) - 1
        BY <3>6, <2>1, FrontFacts DEF EditRedo
      <4>2. Len(undo') = Len(undo) + 1
        BY <3>6, <2>1 DEF EditRedo
      <4> QED
        BY <4>1, <4>2, <2>1, <2>2, <2>3
    <3> QED
      BY <3>1, <3>2, <3>3, <3>4, <3>5, <3>6, <1>2, StepStacks DEF StackStep
  <2> QED
    BY <2>1, <2>2, <2>4, <2>5 DEF UndoRedoBound
<1> QED
  BY <1>1, <1>2, TypeCorrect, PTL DEF Spec

\* Undo can only be chosen when there is something to undo: a refused edit,
\* which pops what it pushed and leaves the menu alone, never empties the
\* stack (the ASSERT of popUndoStack, state.cpp:1517).
THEOREM UndoAlwaysPossible == Spec => []UndoMenuHasEntry
<1>1. Init => UndoMenuHasEntry
  BY DEF Init, UndoMenuHasEntry
<1>2. ASSUME TypeOK, UndoMenuHasEntry, [Next]_vars PROVE UndoMenuHasEntry'
  <2>1. undo \in Seq(F) /\ tree \in F /\ MaxUndo \in Nat \ {0}
    BY <1>2, MaxUndoAssumption DEF TypeOK, F
  <2>2. CASE DoSceneUpdate
    BY <2>2 DEF DoSceneUpdate, UndoMenuHasEntry
  <2>3. CASE UNCHANGED menu /\ ~DoSceneUpdate
    <3> SUFFICES ASSUME undoItem PROVE undo' # <<>>
      BY <2>3 DEF menu, UndoMenuHasEntry
    <3>1. undo # <<>> /\ Len(undo) \in Nat \ {0}
      BY <1>2, <2>1 DEF UndoMenuHasEntry
    <3>2. Len(Pushed) \in Nat /\ Len(Pushed) >= 2
      BY <2>1, <3>1, PushedFacts
    <3>3. CASE PushUndoStack
      BY <3>2, <3>3 DEF PushUndoStack
    <3>4. CASE PushThenDiscard
      <4>1. Len(undo') = Len(Pushed) - 1
        BY <3>4, <2>1, DiscardFacts DEF PushThenDiscard
      <4> QED
        BY <4>1, <3>2
    <3>5. CASE UNCHANGED <<undo, redo>>
      BY <3>1, <3>5
    <3>6. ~EditUndo /\ ~EditRedo
      BY <2>3 DEF EditUndo, EditRedo
    <3> QED
      BY <3>3, <3>4, <3>5, <3>6, <2>3, <1>2, StepStacks DEF StackStep
  <2> QED
    BY <2>2, <2>3, <1>2, StepStacks DEF StackStep, AutoUpdate
<1> QED
  BY <1>1, <1>2, TypeCorrect, PTL DEF Spec

\* Between two handlers each item of the tree control stands for the filter it
\* shows: the handlers that change the shape of the tree all rebuild the map,
\* and those that do not keep its size.
THEOREM ControlShowsTree == Spec => []MapExact
<1>1. Init => MapExact
  BY DEF Init, MapExact
<1>2. ASSUME TypeOK, MapExact, [Next]_vars PROVE MapExact'
  <2>1. CASE UpdateWxTreeCtrl
    BY <2>1 DEF UpdateWxTreeCtrl, MapExact
  <2>2. CASE tree' = <<>>
    BY <2>2 DEF MapExact
  <2>3. CASE UNCHANGED <<tree, filterMap>>
    BY <2>3, <1>2 DEF MapExact
  <2>4. ASSUME NEW p, NEW v \in Values, filterMap' = filterMap,
               tree' = [tree EXCEPT ![p].val = v]
        PROVE  MapExact'
    <3>1. tree \in F
      BY <1>2 DEF TypeOK, F
    <3>2. DOMAIN tree' = DOMAIN tree /\ DOMAIN tree = 1..Len(tree) /\ Len(tree) \in Nat
      BY <2>4, <3>1 DEF F, Forests
    <3>3. Len(tree') = Len(tree) /\ (tree' # <<>> => tree # <<>>)
      BY <3>2, <2>4, <3>1 DEF F, Forests
    <3> QED
      BY <3>3, <2>4, <1>2 DEF MapExact
  <2>5. CASE SelectedEdit
    <3>1. PICK id \in Selected :
             \/ UpdateWxTreeCtrl
             \/ UNCHANGED <<tree, filterMap>>
             \/ \E v \in Values : filterMap' = filterMap
                   /\ tree' = [tree EXCEPT ![filterMap[id]].val = v]
      BY <2>5 DEF SelectedEdit, AddFilter, SetFilterProperty, AddStash, CopyOnto,
         MoveOnto, CopyToBase, MoveToBase, RemoveSubtree
    <3> QED
      BY <3>1, <2>1, <2>3, <2>4
  <2>6. CASE SceneEdit
    BY <2>6, <2>4 DEF SceneEdit, SameKind, ApplyBindings, ChangeInPlace
  <2>7. CASE Load \/ ExportLosesTree \/ EditUndo \/ EditRedo
    BY <2>7, <2>1, <2>2 DEF Load, LoadData, LoadState, ExportLosesTree, EditUndo, EditRedo
  <2> QED
    BY <2>3, <2>5, <2>6, <2>7, <1>2
       DEF Next, Step, Fault, EditRedoEmpty, UseFreed, vars
<1> QED
  BY <1>1, <1>2, TypeCorrect, PTL DEF Spec

-----------------------------------------------------------------------------
(* The line of versions that UndoHistory speaks of.                        *)

Line(u, t, r) == (u \o <<t>>) \o Backwards(r)

\* The versions that can be undone, the one in use, and those that can be
\* redone, the nearest first.
LEMMA LineElements ==
    ASSUME NEW S, NEW u \in Seq(S), NEW t \in S, NEW r \in Seq(S)
    PROVE  /\ Line(u, t, r) \in Seq(S)
           /\ Len(Line(u, t, r)) = (Len(u) + 1) + Len(r)
           /\ \A i \in 1..Len(u) : Line(u, t, r)[i] = u[i]
           /\ Line(u, t, r)[Len(u) + 1] = t
           /\ \A j \in 1..Len(r) : Line(u, t, r)[(Len(u) + 1) + j] = r[(Len(r) + 1) - j]
<1> DEFINE a == u \o <<t>>
           b == Backwards(r)
<1>1. <<t>> \in Seq(S) /\ Len(<<t>>) = 1 /\ <<t>>[1] = t
  OBVIOUS
<1>2. /\ a \in Seq(S) /\ Len(a) = Len(u) + 1
      /\ \A i \in 1..Len(u) : a[i] = u[i]
      /\ a[Len(u) + 1] = t
  BY <1>1, ConcatElements
<1>3. /\ b \in Seq(S) /\ Len(b) = Len(r)
      /\ \A j \in 1..Len(r) : b[j] = r[(Len(r) + 1) - j]
  <2>1. \A j \in 1..Len(r) : (Len(r) + 1) - j \in 1..Len(r)
    OBVIOUS
  <2>2. b = [j \in 1..Len(r) |-> r[(Len(r) + 1) - j]]
    BY DEF Backwards
  <2>3. b \in [1..Len(r) -> S]
    BY <2>1, <2>2
  <2> QED
    BY <2>2, <2>3
<1> HIDE DEF a, b
<1>4. /\ a \o b \in Seq(S) /\ Len(a \o b) = Len(a) + Len(b)
      /\ \A i \in 1..Len(a) : (a \o b)[i] = a[i]
      /\ \A j \in 1..Len(b) : (a \o b)[Len(a) + j] = b[j]
  <2>1. a \in Seq(S) /\ b \in Seq(S)
    BY <1>2, <1>3
  <2> QED
    BY <2>1, ConcatElements
<1>5. Line(u, t, r) = a \o b
  BY DEF Line, a, b
<1>6. \A i \in 1..Len(u) : i \in 1..Len(a)
  BY <1>2
<1>7. Len(u) + 1 \in 1..Len(a)
  BY <1>2
<1> QED
  BY <1>2, <1>3, <1>4, <1>5, <1>6, <1>7

LEMMA SameElements ==
    ASSUME NEW S, NEW a \in Seq(S), NEW b \in Seq(S), Len(a) = Len(b),
           \A i \in 1..Len(a) : a[i] = b[i]
    PROVE  a = b
OBVIOUS

\* What the undo stack becomes under a push is what is left of the line up to
\* the tree in use.
LEMMA PastIsPushed ==
    ASSUME TypeOK, UndoRedoBound
    PROVE  History!Past = Pushed /\ Pushed \in Seq(F) /\ Len(Pushed) \in Nat \ {0}
           /\ Pushed[Len(Pushed)] = tree
<1> DEFINE L == Line(undo, tree, redo)
           c == Len(undo) + 1
<1>1. undo \in Seq(F) /\ redo \in Seq(F) /\ tree \in F /\ MaxUndo \in Nat \ {0}
  BY MaxUndoAssumption DEF TypeOK, F
<1>2. Pushed \in Seq(F)
      /\ Len(Pushed) = (IF Len(undo) > MaxUndo THEN Len(undo) ELSE Len(undo) + 1)
  BY <1>1, PushedFacts
<1>3. Len(undo) \in Nat /\ Len(redo) \in Nat /\ Len(undo) <= MaxUndo + 1
  BY <1>1 DEF UndoRedoBound
<1>4. /\ L \in Seq(F) /\ Len(L) = c + Len(redo)
      /\ \A i \in 1..Len(undo) : L[i] = undo[i]
      /\ L[c] = tree
  BY <1>1, LineElements
<1>5. History!Past = IF c = MaxUndo + 2 THEN SubSeq(L, 2, c) ELSE SubSeq(L, 1, c)
  BY DEF History!Past, Line
<1> HIDE DEF L
<1>6. c \in 0..Len(L)
  BY <1>3, <1>4
<1>7. CASE Len(undo) > MaxUndo
  <2>1. Len(undo) = MaxUndo + 1 /\ c = MaxUndo + 2
    BY <1>1, <1>3, <1>7
  <2>2. /\ SubSeq(L, 2, c) \in Seq(F)
        /\ Len(SubSeq(L, 2, c)) = (c - 2) + 1
        /\ \A i \in 2..c : SubSeq(L, 2, c)[(i - 2) + 1] = L[i]
    BY <2>1, <1>1, <1>4, <1>6, SubSeqElements
  <2>3. Pushed = Append(Tail(undo), tree)
    BY <1>7 DEF Pushed
  <2>4. /\ Len(Tail(undo)) = Len(undo) - 1
        /\ \A i \in 1..(Len(undo) - 1) : Pushed[i] = undo[i + 1]
        /\ Pushed[Len(undo)] = tree
    BY <2>1, <2>3, <1>1
  <2>5. \A i \in 1..Len(undo) : SubSeq(L, 2, c)[i] = Pushed[i]
    <3> SUFFICES ASSUME NEW i \in 1..Len(undo)
                 PROVE  SubSeq(L, 2, c)[i] = Pushed[i]
      OBVIOUS
    <3>1. i + 1 \in 2..c /\ ((i + 1) - 2) + 1 = i
      BY <1>3
    <3>2. SubSeq(L, 2, c)[i] = L[i + 1]
      BY <2>2, <3>1
    <3>3. CASE i = Len(undo)
      BY <3>2, <3>3, <2>4, <1>4
    <3>4. CASE i # Len(undo)
      <4>1. i \in 1..(Len(undo) - 1) /\ i + 1 \in 1..Len(undo)
        BY <3>4, <1>3
      <4> QED
        BY <4>1, <3>2, <2>4, <1>4
    <3> QED
      BY <3>3, <3>4
  <2>6. SubSeq(L, 2, c) = Pushed
    <3>1. Len(SubSeq(L, 2, c)) = Len(Pushed) /\ Len(Pushed) = Len(undo)
      BY <2>2, <1>2, <1>3, <1>7
    <3> QED
      BY <3>1, <2>2, <2>5, <1>2, SameElements
  <2> QED
    BY <2>1, <2>4, <2>6, <1>2, <1>3, <1>5, <1>7
<1>8. CASE ~(Len(undo) > MaxUndo)
  <2>1. c # MaxUndo + 2
    BY <1>1, <1>3, <1>8
  <2>2. /\ SubSeq(L, 1, c) \in Seq(F)
        /\ Len(SubSeq(L, 1, c)) = (c - 1) + 1
        /\ \A i \in 1..c : SubSeq(L, 1, c)[(i - 1) + 1] = L[i]
    BY <1>3, <1>4, <1>6, SubSeqElements
  <2>3. Pushed = Append(undo, tree)
    BY <1>8 DEF Pushed
  <2>4. (\A i \in 1..Len(undo) : Pushed[i] = undo[i]) /\ Pushed[c] = tree
    BY <2>3, <1>1
  <2>5. \A i \in 1..c : SubSeq(L, 1, c)[i] = Pushed[i]
    <3> SUFFICES ASSUME NEW i \in 1..c
                 PROVE  SubSeq(L, 1, c)[i] = Pushed[i]
      OBVIOUS
    <3>1. (i - 1) + 1 = i /\ (i # c => i \in 1..Len(undo))
      BY <1>3
    <3> QED
      BY <3>1, <2>2, <2>4, <1>4
  <2>6. SubSeq(L, 1, c) = Pushed
    <3>1. Len(SubSeq(L, 1, c)) = Len(Pushed) /\ Len(Pushed) = c
      BY <2>2, <1>2, <1>3, <1>8
    <3> QED
      BY <3>1, <2>2, <2>5, <1>2, SameElements
  <2> QED
    BY <2>1, <2>4, <2>6, <1>2, <1>3, <1>5, <1>8
<1> QED
  BY <1>7, <1>8

LEMMA FrontElements ==
    ASSUME NEW S, NEW s \in Seq(S), s # <<>>, NEW r, r = SubSeq(s, 1, Len(s) - 1)
    PROVE  /\ Len(s) > 0 /\ Len(r) = Len(s) - 1
           /\ \A i \in 1..(Len(s) - 1) : r[i] = s[i]
<1> DEFINE n == Len(s) - 1
<1>1. Len(s) > 0 /\ n \in 0..Len(s) /\ (n - 1) + 1 = n
  OBVIOUS
<1> HIDE DEF n
<1>2. /\ Len(SubSeq(s, 1, n)) = (n - 1) + 1
      /\ \A i \in 1..n : SubSeq(s, 1, n)[(i - 1) + 1] = s[i]
  BY <1>1, SubSeqElements
<1>3. \A i \in 1..n : (i - 1) + 1 = i
  BY <1>1
<1>4. Len(SubSeq(s, 1, n)) = n /\ \A i \in 1..n : SubSeq(s, 1, n)[i] = s[i]
  BY <1>1, <1>2, <1>3
<1> QED
  BY <1>1, <1>4 DEF n

\* Every handler is a step of the line of versions, or leaves it alone.
LEMMA HistoryStep ==
    ASSUME TypeOK, UndoRedoBound, [Next]_vars, TypeOK'
    PROVE  History!Next \/ UNCHANGED <<undo, tree, redo>>
<1> DEFINE L == Line(undo, tree, redo)
           M == Line(undo', tree', redo')
           c == Len(undo) + 1
           d == Len(undo') + 1
<1>1. /\ undo \in Seq(F) /\ redo \in Seq(F) /\ tree \in F
      /\ undo' \in Seq(F) /\ redo' \in Seq(F) /\ tree' \in F
      /\ MaxUndo \in Nat \ {0}
  BY MaxUndoAssumption DEF TypeOK, F
<1>2. /\ Len(undo) \in Nat /\ Len(redo) \in Nat
      /\ Len(undo) + Len(redo) <= MaxUndo + 1
  BY <1>1 DEF UndoRedoBound
<1>3. /\ L \in Seq(F) /\ Len(L) = c + Len(redo)
      /\ \A i \in 1..Len(undo) : L[i] = undo[i]
      /\ L[c] = tree
      /\ \A j \in 1..Len(redo) : L[c + j] = redo[(Len(redo) + 1) - j]
  <2>1. undo \in Seq(F) /\ redo \in Seq(F) /\ tree \in F
    BY <1>1
  <2>2. /\ L \in Seq(F)
        /\ Len(L) = (Len(undo) + 1) + Len(redo)
    BY <2>1, LineElements
  <2>3. /\ \A i \in 1..Len(undo) : L[i] = undo[i]
        /\ L[Len(undo) + 1] = tree
    BY <2>1, LineElements
  <2>4. \A j \in 1..Len(redo) :
           L[(Len(undo) + 1) + j] = redo[(Len(redo) + 1) - j]
    BY <2>1, LineElements
  <2> HIDE DEF L
  <2> QED
    BY <2>2, <2>3, <2>4
<1>4. /\ M \in Seq(F) /\ Len(M) = d + Len(redo')
      /\ \A i \in 1..Len(undo') : M[i] = undo'[i]
      /\ M[d] = tree'
      /\ \A j \in 1..Len(redo') : M[d + j] = redo'[(Len(redo') + 1) - j]
  <2>1. undo' \in Seq(F) /\ redo' \in Seq(F) /\ tree' \in F
    BY <1>1
  <2>2. /\ M \in Seq(F)
        /\ Len(M) = (Len(undo') + 1) + Len(redo')
    BY <2>1, LineElements
  <2>3. /\ \A i \in 1..Len(undo') : M[i] = undo'[i]
        /\ M[Len(undo') + 1] = tree'
    BY <2>1, LineElements
  <2>4. \A j \in 1..Len(redo') :
           M[(Len(undo') + 1) + j] = redo'[(Len(redo') + 1) - j]
    BY <2>1, LineElements
  <2> HIDE DEF M
  <2> QED
    BY <2>2, <2>3, <2>4
<1>5. /\ History!Past = Pushed /\ Pushed \in Seq(F) /\ Len(Pushed) \in Nat \ {0}
      /\ Pushed[Len(Pushed)] = tree
  BY PastIsPushed
<1>6. /\ History!Record <=> (d = Len(Pushed) + 1 /\ M = Append(Pushed, M[d]))
      /\ History!Refuse <=> (M = Append(Pushed, L[c]) /\ d = Len(Pushed))
      /\ History!Amend <=> (d = c /\ M = [L EXCEPT ![c] = M[c]])
      /\ History!Back <=>
            /\ c > 1 /\ d = c - 1
            /\ M = IF c = 2 /\ Len(L) = MaxUndo + 2
                   THEN SubSeq(L, 1, (MaxUndo + 2) - 1) ELSE L
      /\ History!Forward <=> (c < Len(L) /\ d = c + 1 /\ M = L)
      /\ History!Reset <=> (M = <<M[1]>> /\ d = 1)
  BY <1>5 DEF Line, History!Record, History!Refuse, History!Amend, History!Back,
     History!Forward, History!Reset
<1> HIDE DEF L, M
<1>7. CASE PushUndoStack
  <2>1. undo' = Pushed /\ Len(redo') = 0
    BY <1>7 DEF PushUndoStack
  <2>2. Append(Pushed, M[d]) \in Seq(F) /\ Len(Append(Pushed, M[d])) = Len(Pushed) + 1
        /\ \A i \in 1..Len(M) : M[i] = Append(Pushed, M[d])[i]
    BY <2>1, <1>1, <1>4, <1>5
  <2>3. M = Append(Pushed, M[d])
    <3>1. Len(M) = Len(Append(Pushed, M[d]))
      BY <2>1, <2>2, <1>4, <1>5
    <3> QED
      BY <3>1, <2>2, <1>4, SameElements
  <2> QED
    BY <2>1, <2>3, <1>6 DEF History!Next
<1>8. CASE PushThenDiscard /\ UNCHANGED tree
  <2>1. undo' = SubSeq(Pushed, 1, Len(Pushed) - 1) /\ redo' = <<tree>> /\ tree' = tree
    BY <1>8 DEF PushThenDiscard
  <2>2. Len(undo') = Len(Pushed) - 1
        /\ \A i \in 1..(Len(Pushed) - 1) : undo'[i] = Pushed[i]
    BY <2>1, <1>5
  <2>3. Append(Pushed, tree) \in Seq(F) /\ Len(Append(Pushed, tree)) = Len(Pushed) + 1
        /\ Append(Pushed, tree)[Len(Pushed) + 1] = tree
        /\ \A i \in 1..Len(Pushed) : Append(Pushed, tree)[i] = Pushed[i]
    BY <1>1, <1>5
  <2>4. d = Len(Pushed) /\ Len(redo') = 1 /\ redo'[1] = tree /\ M[d + 1] = tree
    BY <2>1, <2>2, <1>4, <1>5
  <2>5. \A i \in 1..Len(M) : M[i] = Append(Pushed, tree)[i]
    <3> SUFFICES ASSUME NEW i \in 1..Len(M) PROVE M[i] = Append(Pushed, tree)[i]
      OBVIOUS
    <3>1. i \in 1..(Len(Pushed) - 1) \/ i = d \/ i = d + 1
      BY <2>4, <1>4, <1>5
    <3> QED
      BY <3>1, <2>1, <2>2, <2>3, <2>4, <1>4, <1>5
  <2>6. M = Append(Pushed, tree)
    <3>1. Len(M) = Len(Append(Pushed, tree))
      BY <2>3, <2>4, <1>4, <1>5
    <3> QED
      BY <3>1, <2>3, <2>5, <1>4, SameElements
  <2> QED
    BY <2>4, <2>6, <1>3, <1>6 DEF History!Next
<1>9. CASE UNCHANGED <<undo, redo>>
  <2>1. d = c /\ Len(M) = Len(L) /\ c \in 1..Len(L)
    BY <1>9, <1>2, <1>3, <1>4
  <2>2. M[c] \in F
    BY <2>1, <1>1, <1>4
  <2>3. [L EXCEPT ![c] = M[c]] \in Seq(F) /\ Len([L EXCEPT ![c] = M[c]]) = Len(L)
        /\ \A i \in 1..Len(L) : [L EXCEPT ![c] = M[c]][i] = IF i = c THEN M[c] ELSE L[i]
    BY <2>1, <2>2, <1>3
  <2>4. \A i \in 1..Len(M) : i # c => M[i] = L[i]
    <3> SUFFICES ASSUME NEW i \in 1..Len(M), i # c PROVE M[i] = L[i]
      OBVIOUS
    <3>1. CASE i < c
      <4>1. i \in 1..Len(undo) /\ undo' = undo
        BY <3>1, <1>9, <1>2, <1>4
      <4> QED
        BY <4>1, <1>3, <1>4
    <3>2. CASE i > c
      <4>1. i - c \in 1..Len(redo) /\ c + (i - c) = i
        BY <3>2, <2>1, <1>2, <1>3
      <4>2. redo' = redo /\ i - c \in 1..Len(redo')
        BY <4>1, <1>9
      <4>3. M[c + (i - c)] = redo'[(Len(redo') + 1) - (i - c)]
        BY <4>2, <2>1, <1>4
      <4>4. L[c + (i - c)] = redo[(Len(redo) + 1) - (i - c)]
        BY <4>1, <1>3
      <4> QED
        BY ONLY <4>1, <4>2, <4>3, <4>4
    <3> QED
      BY <3>1, <3>2, <1>2, <2>1, <1>4
  <2>5. M = [L EXCEPT ![c] = M[c]]
    BY <2>1, <2>3, <2>4, <1>4, SameElements
  <2> QED
    BY <2>1, <2>5, <1>6 DEF History!Next
<1>10. CASE undo' = <<>> /\ redo' = <<>>
  <2>1. d = 1 /\ Len(M) = 1
    BY <1>10, <1>4
  <2>2. M = <<M[1]>>
    BY <2>1, <1>4
  <2> QED
    BY <2>1, <2>2, <1>6 DEF History!Next
<1>11. CASE EditUndo
  <2> DEFINE r == Append(redo, tree)
  <2>1. undo # <<>> /\ undo' = SubSeq(undo, 1, Len(undo) - 1) /\ tree' = undo[Len(undo)]
        /\ redo' = IF Len(r) > MaxUndo THEN Tail(r) ELSE r
    BY <1>11 DEF EditUndo
  <2>2. Len(undo) > 0 /\ Len(undo') = Len(undo) - 1 /\ d = c - 1 /\ c > 1
        /\ \A i \in 1..(Len(undo) - 1) : undo'[i] = undo[i]
    <3>1. /\ Len(undo) > 0 /\ Len(undo') = Len(undo) - 1
          /\ \A i \in 1..(Len(undo) - 1) : undo'[i] = undo[i]
      BY <2>1, <1>1, FrontElements
    <3> QED
      BY <3>1, <1>2
  <2>3. r \in Seq(F) /\ Len(r) = Len(redo) + 1 /\ r[Len(redo) + 1] = tree
        /\ \A j \in 1..Len(redo) : r[j] = redo[j]
    BY <1>1
  <2>4. \A i \in 1..d : M[i] = L[i]
    <3> SUFFICES ASSUME NEW i \in 1..d PROVE M[i] = L[i]
      OBVIOUS
    <3>1. CASE i = d
      <4>1. d = Len(undo) /\ d \in 1..Len(undo)
        BY <2>2, <1>2
      <4> QED
        BY <3>1, <4>1, <2>1, <1>3, <1>4
    <3>2. CASE i # d
      <4>1. i \in 1..(Len(undo) - 1) /\ i \in 1..Len(undo) /\ i \in 1..Len(undo')
        BY <3>2, <2>2, <1>2
      <4> QED
        BY <4>1, <2>2, <1>3, <1>4
    <3> QED
      BY <3>1, <3>2
  <2> HIDE DEF r
  <2>5. CASE Len(r) > MaxUndo
    <3>1. Len(redo) = MaxUndo /\ c = 2 /\ Len(L) = MaxUndo + 2 /\ d = 1
      BY <2>2, <2>3, <2>5, <1>1, <1>2, <1>3
    <3>2. redo' = Tail(r) /\ Len(redo') = Len(redo)
          /\ \A j \in 1..Len(redo) : redo'[j] = r[j + 1]
      BY <2>1, <2>3, <2>5
    <3>3. SubSeq(L, 1, (MaxUndo + 2) - 1) \in Seq(F)
          /\ Len(SubSeq(L, 1, (MaxUndo + 2) - 1)) = MaxUndo + 1
          /\ \A i \in 1..(MaxUndo + 1) : SubSeq(L, 1, (MaxUndo + 2) - 1)[i] = L[i]
      BY <3>1, <1>1, <1>3
    <3>4. \A i \in 1..Len(M) : M[i] = L[i]
      <4> SUFFICES ASSUME NEW i \in 1..Len(M), i > d PROVE M[i] = L[i]
        BY <2>4, <3>1
      <4> DEFINE j == i - 1
                 k == (Len(redo) + 1) - j
      <4>1. j \in 1..Len(redo) /\ k \in 1..Len(redo) /\ d + j = i
        BY <3>1, <3>2, <1>2, <1>4
      <4>2. M[i] = r[k + 1]
        BY <4>1, <3>2, <1>4
      <4>3. CASE j = 1
        <5>1. k = Len(redo) /\ i = c
          BY <4>3, <3>1, <1>2
        <5> QED
          BY <5>1, <4>2, <2>3, <1>3
      <4>4. CASE j # 1
        <5>1. j - 1 \in 1..Len(redo) /\ c + (j - 1) = i
              /\ (Len(redo) + 1) - (j - 1) = k + 1 /\ k + 1 \in 1..Len(redo)
          BY <4>1, <4>4, <3>1, <1>2
        <5>2. L[i] = redo[k + 1]
          BY <5>1, <1>3
        <5> QED
          BY <5>1, <5>2, <4>2, <2>3
      <4> QED
        BY <4>3, <4>4
    <3>5. Len(M) = MaxUndo + 1
      BY <3>1, <3>2, <1>1, <1>4
    <3>6. M = SubSeq(L, 1, (MaxUndo + 2) - 1)
      BY <3>3, <3>4, <3>5, <1>4, SameElements
    <3> QED
      BY <3>1, <3>6, <2>2, <1>6 DEF History!Next
  <2>6. CASE ~(Len(r) > MaxUndo)
    <3>1. ~(c = 2 /\ Len(L) = MaxUndo + 2)
      BY <2>3, <2>6, <1>1, <1>2, <1>3
    <3>2. redo' = r /\ Len(M) = Len(L)
      <4>1. redo' = r
        BY <2>1, <2>6
      <4>2. Len(M) = d + (Len(redo) + 1) /\ Len(L) = c + Len(redo) /\ d = c - 1
        BY <4>1, <2>2, <2>3, <1>3, <1>4
      <4> QED
        BY <4>1, <4>2, <1>2
    <3>3. \A i \in 1..Len(M) : M[i] = L[i]
      <4> SUFFICES ASSUME NEW i \in 1..Len(M), i > d PROVE M[i] = L[i]
        BY <2>4, <2>2, <1>2, <1>4
      <4> DEFINE j == i - d
                 k == (Len(redo') + 1) - j
      <4>1. j \in 1..Len(redo') /\ k \in 1..Len(redo') /\ d + j = i
            /\ Len(redo') = Len(redo) + 1
        BY <3>2, <2>2, <2>3, <1>2, <1>4
      <4>2. M[i] = r[k]
        BY <4>1, <3>2, <1>4
      <4>3. CASE j = 1
        <5>1. k = Len(redo) + 1 /\ i = c
          BY <4>1, <4>3, <2>2, <1>2
        <5> QED
          BY <5>1, <4>2, <2>3, <1>3
      <4>4. CASE j # 1
        <5>1. j - 1 \in 1..Len(redo) /\ c + (j - 1) = i
              /\ (Len(redo) + 1) - (j - 1) = k /\ k \in 1..Len(redo)
          BY <4>1, <4>4, <2>2, <1>2
        <5>2. L[i] = redo[k]
          BY <5>1, <1>3
        <5> QED
          BY <5>1, <5>2, <4>2, <2>3
      <4> QED
        BY <4>3, <4>4
    <3>4. M = L
      BY <3>2, <3>3, <1>3, <1>4, SameElements
    <3> QED
      BY <3>1, <3>4, <2>2, <1>6 DEF History!Next
  <2> QED
    BY <2>5, <2>6
<1>12. CASE EditRedo
  <2>1. redo # <<>> /\ undo' = Append(undo, tree) /\ tree' = redo[Len(redo)]
        /\ redo' = SubSeq(redo, 1, Len(redo) - 1)
    BY <1>12 DEF EditRedo
  <2>2. Len(redo) > 0 /\ Len(redo') = Len(redo) - 1 /\ d = c + 1
        /\ \A i \in 1..(Len(redo) - 1) : redo'[i] = redo[i]
    <3>1. /\ Len(redo) > 0 /\ Len(redo') = Len(redo) - 1
          /\ \A i \in 1..(Len(redo) - 1) : redo'[i] = redo[i]
      BY <2>1, <1>1, FrontElements
    <3>2. d = c + 1
      BY <2>1, <1>1
    <3> QED
      BY <3>1, <3>2, <1>2
  <2>3. \A i \in 1..Len(undo) : undo'[i] = undo[i]
    BY <2>1, <1>1
  <2>4. undo'[Len(undo) + 1] = tree /\ Len(undo') = Len(undo) + 1
    BY <2>1, <1>1
  <2>5. Len(M) = Len(L) /\ c < Len(L)
    <3>1. Len(M) = d + Len(redo') /\ Len(L) = c + Len(redo)
      BY <1>3, <1>4
    <3>2. Len(redo) > 0 /\ Len(redo') = Len(redo) - 1 /\ d = c + 1
      BY <2>2
    <3> QED
      BY <3>1, <3>2, <1>2
  <2>6. \A i \in 1..Len(M) : M[i] = L[i]
    <3> SUFFICES ASSUME NEW i \in 1..Len(M) PROVE M[i] = L[i]
      OBVIOUS
    <3>1. CASE i \in 1..Len(undo)
      BY <3>1, <2>3, <2>4, <1>2, <1>3, <1>4
    <3>2. CASE i = c
      BY <3>2, <2>4, <1>2, <1>3, <1>4
    <3>3. CASE i = d
      <4>1. 1 \in 1..Len(redo) /\ c + 1 = d /\ (Len(redo) + 1) - 1 = Len(redo)
        BY <2>2, <1>2
      <4> QED
        BY <4>1, <3>3, <2>1, <1>3, <1>4
    <3>4. CASE i > d
      <4> DEFINE n == Len(redo)
                 j == i - d
                 k == n - j
      <4>1. /\ c \in Nat /\ d = c + 1 /\ n \in Nat /\ Len(redo') = n - 1
            /\ i \in Nat /\ i > d /\ i <= c + n
        BY <3>4, <2>2, <2>5, <1>2, <1>3
      <4> HIDE DEF c, d, n
      <4>2. j \in 1..(n - 1) /\ j + 1 \in 1..n /\ d + j = i /\ c + (j + 1) = i
        BY <4>1
      <4>3. k \in 1..(n - 1) /\ ((n - 1) + 1) - j = k /\ (n + 1) - (j + 1) = k
        BY <4>1, <4>2
      <4> HIDE DEF j, k
      <4>4. M[i] = redo'[k]
        BY <4>1, <4>2, <4>3, <1>4 DEF d
      <4>5. L[i] = redo[k]
        BY <4>1, <4>2, <4>3, <1>3 DEF c, n
      <4> QED
        BY <4>3, <4>4, <4>5, <2>2 DEF n
    <3>5. i \in 1..Len(undo) \/ i = c \/ i = d \/ i > d
      <4>1. i \in Nat /\ i > 0 /\ d = c + 1 /\ c = Len(undo) + 1 /\ Len(undo) \in Nat
        BY <2>2, <1>2, <1>4
      <4> HIDE DEF c, d
      <4> QED
        BY <4>1
    <3> QED
      BY <3>1, <3>2, <3>3, <3>4, <3>5
  <2>7. M = L
    BY <2>5, <2>6, <1>3, <1>4, SameElements
  <2> QED
    BY <2>2, <2>5, <2>7, <1>6 DEF History!Next
<1> QED
  BY <1>7, <1>8, <1>9, <1>10, <1>11, <1>12, StepStacks DEF StackStep

\* The undo and redo stacks implement the line of versions: an edit keeps the
\* tree it replaces, a refused edit and a change in place are the steps they
\* are said to be, Redo returns to where Undo came from, and a version is only
\* given up at the far end of a full line (pushUndoStack, popUndoStack,
\* popRedoStack and the handlers that call them).
THEOREM UndoIsALine == Spec => ImplementsUndoHistory
<1>1. Init => History!Init
  <2> SUFFICES ASSUME Init PROVE History!Init
    OBVIOUS
  <2>1. <<>> \in Seq(F) /\ <<>> \in F /\ Len(<<>>) = 0
    BY DEF F, Forests, IsForest
  <2>2. undo \in Seq(F) /\ redo \in Seq(F) /\ tree \in F
    BY <2>1 DEF Init
  <2>3. Len(Line(undo, tree, redo)) = (Len(undo) + 1) + Len(redo)
    BY <2>2, LineElements
  <2>4. Len(undo) = 0 /\ Len(redo) = 0
    BY DEF Init
  <2> QED
    BY <2>3, <2>4 DEF History!Init, Line
<1>2. ASSUME TypeOK, UndoRedoBound, [Next]_vars, TypeOK'
      PROVE  [History!Next]_(History!hvars)
  BY <1>2, HistoryStep DEF History!hvars
<1> QED
  BY <1>1, <1>2, TypeCorrect, StacksBounded, PTL DEF Spec, ImplementsUndoHistory, History!Spec

-----------------------------------------------------------------------------
(* Filters that are moved.                                                 *)

\* The filters of two pieces of a tree are those of the one and of the other.
LEMMA CountConcat ==
    ASSUME NEW S, NEW a \in Seq(S), NEW b \in Seq(S), NEW v
    PROVE  /\ Count(a, v) \in Nat /\ Count(b, v) \in Nat
           /\ Count(a \o b, v) = Count(a, v) + Count(b, v)
<1> DEFINE c == a \o b
           A == {p \in 1..Len(a) : a[p].val = v}
           B == {p \in 1..Len(b) : b[p].val = v}
           D == {p \in (Len(a) + 1)..(Len(a) + Len(b)) : c[p].val = v}
           C == {p \in 1..Len(c) : c[p].val = v}
           f == [p \in B |-> Len(a) + p]
<1>1. /\ c \in Seq(S) /\ Len(c) = Len(a) + Len(b)
      /\ \A i \in 1..Len(a) : c[i] = a[i]
      /\ \A i \in 1..Len(b) : c[Len(a) + i] = b[i]
  BY ConcatElements
<1>2. Len(a) \in Nat /\ Len(b) \in Nat
  OBVIOUS
<1>3. Count(a, v) = Cardinality(A) /\ Count(b, v) = Cardinality(B)
      /\ Count(c, v) = Cardinality(C)
  <2>1. DOMAIN a = 1..Len(a) /\ DOMAIN b = 1..Len(b)
    OBVIOUS
  <2>2. DOMAIN c = 1..Len(c)
    BY <1>1
  <2> QED
    BY <2>1, <2>2, Zenon DEF Count
<1> HIDE DEF c
<1>4. IsFiniteSet(A) /\ IsFiniteSet(B)
  <2>1. IsFiniteSet(1..Len(a)) /\ IsFiniteSet(1..Len(b))
    BY <1>2, FS_Interval
  <2>2. A \in SUBSET (1..Len(a)) /\ B \in SUBSET (1..Len(b))
    OBVIOUS
  <2> HIDE DEF A, B
  <2> QED
    BY <2>1, <2>2, FS_Subset
<1>5. IsFiniteSet(D) /\ Cardinality(D) = Cardinality(B)
  <2>1. f \in Bijection(B, D)
    <3>1. f \in [B -> D]
      BY <1>1, <1>2
    <3>2. \A p, q \in B : f[p] = f[q] => p = q
      BY <1>2
    <3>3. \A p \in D : p - Len(a) \in B /\ f[p - Len(a)] = p
      <4> SUFFICES ASSUME NEW p \in D PROVE p - Len(a) \in B /\ f[p - Len(a)] = p
        OBVIOUS
      <4>1. p - Len(a) \in 1..Len(b) /\ Len(a) + (p - Len(a)) = p
        BY <1>2
      <4>2. b[p - Len(a)] = c[p]
        BY <4>1, <1>1
      <4>3. p - Len(a) \in B
        BY <4>1, <4>2
      <4> QED
        BY <4>1, <4>3
    <3> HIDE DEF f, B, D
    <3> QED
      BY <3>1, <3>2, <3>3 DEF Bijection, Injection, Surjection, IsInjective
  <2>2. ExistsBijection(B, D)
    BY <2>1 DEF ExistsBijection
  <2> HIDE DEF B, D
  <2> QED
    BY <2>2, <1>4, FS_Bijection
<1>6. C = A \cup D /\ A \cap D = {}
  <2>1. A \cap D = {}
    BY <1>2
  <2>2. \A p : p \in C <=> p \in A \/ p \in D
    BY <1>1, <1>2
  <2> QED
    BY <2>1, <2>2
<1> HIDE DEF A, B, C, D
<1>7. Cardinality(C) = Cardinality(A) + (Cardinality(D) - Cardinality({}))
  <2>1. Cardinality(A \cup D) = Cardinality(A) + (Cardinality(D) - Cardinality(A \cap D))
    BY <1>4, <1>5, FS_Union
  <2> QED
    BY <2>1, <1>6
<1>8. Cardinality({}) = 0 /\ Cardinality(A) \in Nat /\ Cardinality(B) \in Nat
  BY <1>4, FS_EmptySet, FS_CardinalityType
<1> QED
  BY <1>3, <1>5, <1>7, <1>8 DEF c

LEMMA CountAtDepth ==
    ASSUME NEW s \in Branches(Values), NEW d \in Nat, NEW v
    PROVE  Count(AtDepth(s, d), v) = Count(s, v)
<1> DEFINE r == AtDepth(s, d)
<1>1. s \in Seq([depth : Nat, val : Values])
  BY DEF Branches
<1>2. DOMAIN r = DOMAIN s
  BY <1>1 DEF AtDepth
<1>3. \A p \in DOMAIN s : r[p].val = s[p].val
  <2> SUFFICES ASSUME NEW p \in DOMAIN s PROVE r[p].val = s[p].val
    OBVIOUS
  <2>1. r[p] = [s[p] EXCEPT !.depth = (s[p].depth + d) - s[1].depth]
    BY <1>1 DEF AtDepth
  <2>2. s[p] \in [depth : Nat, val : Values]
    <3> DEFINE N == [depth : Nat, val : Values]
    <3>1. s \in Seq(N)
      BY <1>1
    <3> HIDE DEF N
    <3>2. s[p] \in N
      BY <3>1
    <3> QED
      BY <3>2 DEF N
  <2> QED
    BY <2>1, <2>2
<1> HIDE DEF r
<1>4. {p \in DOMAIN r : r[p].val = v} = {p \in DOMAIN s : s[p].val = v}
  BY <1>2, <1>3
<1> QED
  BY <1>4 DEF Count, r

\* A tree is what comes up to a place in it and what comes after.
LEMMA CutAt ==
    ASSUME NEW S, NEW t \in Seq(S), NEW q \in 0..Len(t)
    PROVE  /\ SubSeq(t, 1, q) \in Seq(S) /\ SubSeq(t, q + 1, Len(t)) \in Seq(S)
           /\ t = SubSeq(t, 1, q) \o SubSeq(t, q + 1, Len(t))
<1> DEFINE a == SubSeq(t, 1, q)
           b == SubSeq(t, q + 1, Len(t))
<1>1. /\ a \in Seq(S) /\ Len(a) = (q - 1) + 1
      /\ \A i \in 1..q : a[(i - 1) + 1] = t[i]
  BY SubSeqElements
<1>2. /\ b \in Seq(S) /\ Len(b) = (Len(t) - (q + 1)) + 1
      /\ \A i \in (q + 1)..Len(t) : b[(i - (q + 1)) + 1] = t[i]
  <2>1. q + 1 \in Nat \ {0} /\ Len(t) \in 0..Len(t) /\ q + 1 <= Len(t) + 1
    OBVIOUS
  <2> QED
    BY <2>1, SubSeqElements
<1> HIDE DEF a, b
<1>3. /\ a \o b \in Seq(S) /\ Len(a \o b) = Len(a) + Len(b)
      /\ \A i \in 1..Len(a) : (a \o b)[i] = a[i]
      /\ \A i \in 1..Len(b) : (a \o b)[Len(a) + i] = b[i]
  <2>1. a \in Seq(S) /\ b \in Seq(S)
    BY <1>1, <1>2
  <2> QED
    BY <2>1, ConcatElements
<1>4. Len(a) = q /\ Len(b) = Len(t) - q /\ Len(t) \in Nat
  BY <1>1, <1>2
<1>5. \A i \in 1..Len(t) : t[i] = (a \o b)[i]
  <2> SUFFICES ASSUME NEW i \in 1..Len(t) PROVE t[i] = (a \o b)[i]
    OBVIOUS
  <2>1. CASE i <= q
    <3>1. i \in 1..q /\ (i - 1) + 1 = i
      BY <2>1
    <3> QED
      BY <3>1, <1>1, <1>3, <1>4
  <2>2. CASE i > q
    <3>1. /\ i \in (q + 1)..Len(t) /\ (i - (q + 1)) + 1 = i - q
          /\ i - q \in 1..(Len(t) - q) /\ q + (i - q) = i
      BY <2>2, <1>4
    <3> QED
      BY <3>1, <1>2, <1>3, <1>4
  <2>3. i <= q \/ i > q
    BY <1>4
  <2> QED
    BY <2>1, <2>2, <2>3
<1>6. t = a \o b
  <2>1. Len(t) = Len(a \o b) /\ a \o b \in Seq(S)
    BY <1>3, <1>4
  <2> QED
    BY <2>1, <1>5, SameElements
<1> QED
  BY <1>1, <1>2, <1>6 DEF a, b

LEMMA CountInsert ==
    ASSUME NEW S, NEW t \in Seq(S), NEW s \in Seq(S), NEW q \in 0..Len(t), NEW v
    PROVE  Count(InsertAfter(t, q, s), v) = Count(t, v) + Count(s, v)
<1> DEFINE a == SubSeq(t, 1, q)
           b == SubSeq(t, q + 1, Len(t))
<1>1. a \in Seq(S) /\ b \in Seq(S) /\ t = a \o b
  BY CutAt
<1> HIDE DEF a, b
<1>2. a \o s \in Seq(S)
  BY <1>1
<1>3. /\ Count(a, v) \in Nat /\ Count(s, v) \in Nat
      /\ Count(a \o s, v) = Count(a, v) + Count(s, v)
  BY <1>1, CountConcat
<1>4. /\ Count(b, v) \in Nat
      /\ Count((a \o s) \o b, v) = Count(a \o s, v) + Count(b, v)
  BY <1>1, <1>2, CountConcat
<1>5. Count(t, v) = Count(a, v) + Count(b, v)
  BY <1>1, CountConcat
<1>6. InsertAfter(t, q, s) = (a \o s) \o b
  BY DEF InsertAfter, a, b
<1> QED
  BY <1>3, <1>4, <1>5, <1>6

\* An erased branch takes its own filters and no others.
LEMMA CountErase ==
    ASSUME NEW t \in F, NEW p \in 1..Len(t), NEW v
    PROVE  /\ Count(EraseBranch(t, p), v) \in Nat /\ Count(SubTree(t, p), v) \in Nat
           /\ Count(t, v) = Count(EraseBranch(t, p), v) + Count(SubTree(t, p), v)
<1> DEFINE N == [depth : Nat, val : Values]
           e == BranchEnd(t, p)
           a == SubSeq(t, 1, p - 1)
           b == SubSeq(t, p, e)
           c == SubSeq(t, e + 1, Len(t))
           ab == SubSeq(t, 1, e)
<1>1. (\A n \in N : n.depth \in Nat) /\ t \in Seq(N)
  BY DepthsAreNat DEF F, Forests
<1> HIDE DEF N
<1>2. e \in p..Len(t)
  BY <1>1, BranchInterval
<1>3. Len(t) \in Nat /\ p - 1 \in 0..e /\ e \in 0..Len(t) /\ p - 1 \in 0..Len(t)
  BY <1>1, <1>2
<1> HIDE DEF e
<1>4. ab \in Seq(N) /\ c \in Seq(N) /\ t = ab \o c
  BY <1>1, <1>3, CutAt
<1>5. ab \in Seq(N) /\ Len(ab) = e /\ \A i \in 1..e : ab[i] = t[i]
  BY <1>1, <1>3
<1>6. a = SubSeq(ab, 1, p - 1) /\ b = SubSeq(ab, (p - 1) + 1, Len(ab))
      /\ a \in Seq(N) /\ b \in Seq(N)
  <2>1. a \in Seq(N) /\ Len(a) = p - 1 /\ \A i \in 1..(p - 1) : a[i] = t[i]
    BY <1>1, <1>3
  <2>2. b \in Seq(N) /\ Len(b) = (e - p) + 1
        /\ \A i \in 1..((e - p) + 1) : b[i] = t[(p + i) - 1]
    BY <1>1, <1>2, <1>3
  <2> DEFINE a2 == SubSeq(ab, 1, p - 1)
             b2 == SubSeq(ab, (p - 1) + 1, Len(ab))
  <2>3. a2 \in Seq(N) /\ Len(a2) = p - 1 /\ \A i \in 1..(p - 1) : a2[i] = ab[i]
    BY <1>3, <1>5
  <2>4. b2 \in Seq(N) /\ Len(b2) = (e - p) + 1
        /\ \A i \in 1..((e - p) + 1) : b2[i] = ab[(p + i) - 1]
    BY <1>2, <1>3, <1>5
  <2> HIDE DEF a, b, a2, b2, ab
  <2>5. \A i \in 1..(p - 1) : a[i] = a2[i]
    BY <2>1, <2>3, <1>3, <1>5
  <2>6. \A i \in 1..((e - p) + 1) : b[i] = b2[i]
    <3>1. \A i \in 1..((e - p) + 1) : (p + i) - 1 \in 1..e
      BY <1>2, <1>3
    <3> QED
      BY <3>1, <2>2, <2>4, <1>5
  <2>7. a = a2
    BY <2>1, <2>3, <2>5, SameElements
  <2>8. b = b2
    BY <2>2, <2>4, <2>6, SameElements
  <2> QED
    BY <2>1, <2>2, <2>7, <2>8 DEF a2, b2
<1>7. ab = a \o b
  <2> DEFINE q == p - 1
  <2>1. q \in 0..Len(ab) /\ ab \in Seq(N)
    BY <1>3, <1>5
  <2>2. a = SubSeq(ab, 1, q) /\ b = SubSeq(ab, q + 1, Len(ab))
    BY <1>6
  <2> HIDE DEF q, a, b, ab
  <2>3. ab = SubSeq(ab, 1, q) \o SubSeq(ab, q + 1, Len(ab))
    BY ONLY <2>1, CutAt
  <2> QED
    BY <2>2, <2>3
<1> HIDE DEF a, b, c, ab
<1>8. /\ Count(ab, v) = Count(a, v) + Count(b, v)
      /\ Count(a, v) \in Nat /\ Count(b, v) \in Nat
  <2>1. /\ Count(a \o b, v) = Count(a, v) + Count(b, v)
        /\ Count(a, v) \in Nat /\ Count(b, v) \in Nat
    BY <1>6, CountConcat
  <2> QED
    BY <2>1, <1>7
<1>9. Count(t, v) = Count(ab, v) + Count(c, v) /\ Count(c, v) \in Nat
  BY <1>4, CountConcat
<1>10. Count(a \o c, v) = Count(a, v) + Count(c, v)
  BY <1>4, <1>6, CountConcat
<1>11. EraseBranch(t, p) = a \o c /\ SubTree(t, p) = b
  BY DEF EraseBranch, SubTree, a, b, c, e
<1> QED
  BY <1>8, <1>9, <1>10, <1>11

\* Where a branch ends is told by the depths alone.
LEMMA BranchEndIs ==
    ASSUME NEW S, \A n \in S : n.depth \in Nat, NEW t \in Seq(S),
           NEW p \in 1..Len(t), NEW k \in p..Len(t),
           \A i \in (p + 1)..k : t[i].depth > t[p].depth,
           k < Len(t) => t[k + 1].depth <= t[p].depth
    PROVE  BranchEnd(t, p) = k
<1> DEFINE e == BranchEnd(t, p)
<1>1. /\ e \in p..Len(t)
      /\ \A i \in (p + 1)..e : t[i].depth > t[p].depth
      /\ e < Len(t) => t[e + 1].depth <= t[p].depth
  BY BranchEndStops
<1> HIDE DEF e
<1>2. Len(t) \in Nat /\ \A i \in 1..Len(t) : t[i].depth \in Nat
  BY SeqElements
<1>3. ~(e < k)
  <2> SUFFICES ASSUME e < k PROVE FALSE
    OBVIOUS
  <2>1. e + 1 \in (p + 1)..k /\ e < Len(t) /\ e + 1 \in 1..Len(t)
    BY <1>1, <1>2
  <2> QED
    BY <2>1, <1>1, <1>2
<1>4. ~(k < e)
  <2> SUFFICES ASSUME k < e PROVE FALSE
    OBVIOUS
  <2>1. k + 1 \in (p + 1)..e /\ k < Len(t) /\ k + 1 \in 1..Len(t)
    BY <1>1, <1>2
  <2> QED
    BY <2>1, <1>1, <1>2
<1>5. e = k
  BY <1>1, <1>2, <1>3, <1>4
<1> QED
  BY <1>5 DEF e

\* A branch that stands m places further back in another tree is the same.
LEMMA ShiftedBranch ==
    ASSUME NEW S, \A n \in S : n.depth \in Nat, NEW t \in Seq(S), NEW r \in Seq(S),
           NEW p \in 1..Len(t), NEW m \in Nat, BranchEnd(t, p) + m <= Len(r),
           \A i \in p..BranchEnd(t, p) : r[i + m] = t[i],
           BranchEnd(t, p) + m < Len(r)
             => r[(BranchEnd(t, p) + m) + 1].depth <= t[p].depth
    PROVE  p + m \in 1..Len(r) /\ SubTree(r, p + m) = SubTree(t, p)
<1> DEFINE e == BranchEnd(t, p)
<1>1. /\ e \in p..Len(t)
      /\ \A i \in (p + 1)..e : t[i].depth > t[p].depth
  BY BranchEndStops
<1>2. \A i \in p..e : r[i + m] = t[i]
  OBVIOUS
<1>3. e + m < Len(r) => r[(e + m) + 1].depth <= t[p].depth
  OBVIOUS
<1>4. e + m <= Len(r) /\ Len(r) \in Nat /\ Len(t) \in Nat
  OBVIOUS
<1> HIDE DEF e
<1>5. p + m \in 1..Len(r) /\ e + m \in (p + m)..Len(r)
  BY <1>1, <1>4
<1>6. r[p + m] = t[p]
  BY <1>1, <1>2
<1>7. \A i \in ((p + m) + 1)..(e + m) : r[i].depth > r[p + m].depth
  <2> SUFFICES ASSUME NEW i \in ((p + m) + 1)..(e + m) PROVE r[i].depth > r[p + m].depth
    OBVIOUS
  <2>1. i - m \in (p + 1)..e /\ i - m \in p..e /\ (i - m) + m = i
    BY <1>1
  <2> QED
    BY <2>1, <1>1, <1>2, <1>6
<1>8. BranchEnd(r, p + m) = e + m
  BY <1>3, <1>5, <1>6, <1>7, BranchEndIs
<1>9. SubSeq(r, p + m, e + m) = SubSeq(t, p, e)
  <2> DEFINE a == SubSeq(r, p + m, e + m)
             b == SubSeq(t, p, e)
  <2>1. /\ a \in Seq(S) /\ Len(a) = ((e + m) - (p + m)) + 1
        /\ \A i \in (p + m)..(e + m) : a[(i - (p + m)) + 1] = r[i]
    <3>1. p + m \in Nat \ {0} /\ e + m \in 0..Len(r) /\ p + m <= (e + m) + 1
      BY <1>1, <1>4, <1>5
    <3> QED
      BY <3>1, SubSeqElements
  <2>2. /\ b \in Seq(S) /\ Len(b) = (e - p) + 1
        /\ \A i \in p..e : b[(i - p) + 1] = t[i]
    <3>1. p \in Nat \ {0} /\ e \in 0..Len(t) /\ p <= e + 1
      BY <1>1, <1>4
    <3> QED
      BY <3>1, SubSeqElements
  <2> HIDE DEF a, b
  <2>3. Len(a) = Len(b) /\ Len(b) = (e - p) + 1
    BY <2>1, <2>2, <1>1
  <2>4. \A i \in 1..Len(a) : a[i] = b[i]
    <3> SUFFICES ASSUME NEW i \in 1..((e - p) + 1) PROVE a[i] = b[i]
      BY <2>3
    <3> DEFINE j == (p + i) - 1
    <3>1. j \in p..e /\ (j - p) + 1 = i
      BY <1>1
    <3>2. j + m \in (p + m)..(e + m) /\ ((j + m) - (p + m)) + 1 = i
      BY <1>1
    <3> HIDE DEF j
    <3>3. b[i] = t[j]
      BY <3>1, <2>2
    <3>4. a[i] = r[j + m]
      BY <3>2, <2>1
    <3> QED
      BY <3>1, <3>3, <3>4, <1>2
  <2>5. a = b
    BY <2>1, <2>2, <2>3, <2>4, SameElements
  <2> QED
    BY <2>5 DEF a, b
<1> QED
  BY <1>5, <1>8, <1>9 DEF SubTree, e

\* A branch that is copied behind the node at q, outside itself, is still
\* there, further back by the copy when that went in before it.
LEMMA OriginalKept ==
    ASSUME NEW V, NEW t \in Forests(V), NEW from \in 1..Len(t), NEW q \in 1..Len(t),
           NEW s \in Seq([depth : Nat, val : V]), s # <<>>,
           q < from \/ q > BranchEnd(t, from)
             \/ (q = BranchEnd(t, from) /\ s[1].depth <= t[from].depth),
           NEW r, r = InsertAfter(t, q, s),
           NEW at, at = IF q < from THEN from + Len(s) ELSE from
    PROVE  at \in 1..Len(r) /\ SubTree(r, at) = SubTree(t, from)
<1> DEFINE N == [depth : Nat, val : V]
           e == BranchEnd(t, from)
<1>1. (\A n \in N : n.depth \in Nat) /\ t \in Seq(N) /\ s \in Seq(N)
  BY DepthsAreNat DEF Forests
<1> HIDE DEF N
<1>2. /\ e \in from..Len(t)
      /\ e < Len(t) => t[e + 1].depth <= t[from].depth
  BY <1>1, BranchEndStops
<1>3. r \in Seq(N) /\ Spliced(r, t, q, s)
  BY <1>1, InsertAfterElements
<1>4. /\ Len(r) = Len(t) + Len(s)
      /\ \A i \in 1..q : r[i] = t[i]
      /\ \A i \in 1..Len(s) : r[q + i] = s[i]
      /\ \A i \in (q + 1)..Len(t) : r[Len(s) + i] = t[i]
  BY <1>3 DEF Spliced
<1>5. /\ Len(s) \in Nat \ {0} /\ Len(t) \in Nat
      /\ q < from \/ q > e \/ (q = e /\ s[1].depth <= t[from].depth)
  BY <1>1
<1> HIDE DEF e
<1>6. CASE q < from
  <2>1. \A i \in from..e : r[i + Len(s)] = t[i]
    <3> SUFFICES ASSUME NEW i \in from..e PROVE r[i + Len(s)] = t[i]
      OBVIOUS
    <3>1. i \in (q + 1)..Len(t) /\ i + Len(s) = Len(s) + i
      BY <1>2, <1>5, <1>6
    <3> QED
      BY <3>1, <1>4
  <2>2. e + Len(s) <= Len(r)
    BY <1>2, <1>4, <1>5
  <2>3. e + Len(s) < Len(r) => r[(e + Len(s)) + 1].depth <= t[from].depth
    <3> SUFFICES ASSUME e + Len(s) < Len(r)
                 PROVE  r[(e + Len(s)) + 1].depth <= t[from].depth
      OBVIOUS
    <3>1. e + 1 \in (q + 1)..Len(t) /\ (e + Len(s)) + 1 = Len(s) + (e + 1) /\ e < Len(t)
      BY <1>2, <1>4, <1>5, <1>6
    <3> QED
      BY <3>1, <1>2, <1>4
  <2>4. from + Len(s) \in 1..Len(r) /\ SubTree(r, from + Len(s)) = SubTree(t, from)
    <3>1. Len(s) \in Nat
      BY <1>5
    <3> QED
      BY <3>1, <1>1, <1>3, <2>1, <2>2, <2>3, ShiftedBranch DEF e
  <2> QED
    BY <2>4, <1>6
<1>7. CASE ~(q < from)
  <2>1. \A i \in from..e : r[i + 0] = t[i]
    <3> SUFFICES ASSUME NEW i \in from..e PROVE r[i + 0] = t[i]
      OBVIOUS
    <3>1. i \in 1..q /\ i + 0 = i
      BY <1>2, <1>5, <1>7
    <3> QED
      BY <3>1, <1>4
  <2>2. e + 0 <= Len(r)
    BY <1>2, <1>4, <1>5
  <2>3. r[(e + 0) + 1].depth <= t[from].depth
    <3>1. CASE q > e
      <4>1. (e + 0) + 1 \in 1..q /\ e < Len(t) /\ (e + 0) + 1 = e + 1
        BY <3>1, <1>2, <1>5
      <4> QED
        BY <4>1, <1>2, <1>4
    <3>2. CASE q = e /\ s[1].depth <= t[from].depth
      <4>1. (e + 0) + 1 = q + 1 /\ 1 \in 1..Len(s)
        BY <3>2, <1>2, <1>5
      <4> QED
        BY <4>1, <3>2, <1>4
    <3> QED
      BY <3>1, <3>2, <1>5, <1>7
  <2>4. from + 0 \in 1..Len(r) /\ SubTree(r, from + 0) = SubTree(t, from)
    BY <1>1, <1>3, <2>1, <2>2, <2>3, ShiftedBranch DEF e
  <2> QED
    BY <2>4, <1>7
<1> QED
  BY <1>6, <1>7

\* reparentFilter, with the copy outside the branch that is moved.
LEMMA MovedKeepsCount ==
    ASSUME NEW from \in 1..Len(tree), NEW q \in 1..Len(tree), NEW d \in Nat, NEW v,
           q < from \/ q > BranchEnd(tree, from)
             \/ (q = BranchEnd(tree, from) /\ d <= tree[from].depth),
           NEW r, r = InsertAfter(tree, q, AtDepth(SubTree(tree, from), d)),
           tree \in F, r \in F
    PROVE  Count(Moved(r, from, q), v) = Count(tree, v)
<1> DEFINE N == [depth : Nat, val : Values]
           sub == SubTree(tree, from)
           s == AtDepth(sub, d)
           at == IF q < from THEN from + Len(s) ELSE from
<1>1. sub \in Branches(Values)
  BY SubTreeBranches DEF F
<1>2. sub \in Seq(N) /\ IsBranch(sub)
  BY <1>1 DEF Branches
<1>3. s \in Seq(N) /\ Len(s) = Len(sub) /\ s # <<>> /\ s[1].depth = d
  <2>1. s \in Seq(N) /\ Len(s) = Len(sub) /\ IsBranch(s) /\ s[1].depth = d
    <3>1. Hangs(N)
      BY NodesHang
    <3> HIDE DEF N
    <3> QED
      BY <1>2, <3>1, AtDepthBranch
  <2> QED
    BY <2>1 DEF IsBranch
<1>4. tree \in Seq(N)
  BY DEF F, Forests
<1>5. Count(s, v) = Count(sub, v)
  BY <1>1, CountAtDepth
<1>6. r = InsertAfter(tree, q, s)
  OBVIOUS
<1>7. Moved(r, from, q) = EraseBranch(r, at)
  BY <1>3 DEF Moved
<1> HIDE DEF s
<1>8. at \in 1..Len(r) /\ SubTree(r, at) = sub
  <2>1. tree \in Forests(Values) /\ s \in Seq([depth : Nat, val : Values]) /\ s # <<>>
    BY <1>3 DEF F
  <2>2. q < from \/ q > BranchEnd(tree, from)
          \/ (q = BranchEnd(tree, from) /\ s[1].depth <= tree[from].depth)
    BY <1>3
  <2> HIDE DEF N
  <2> QED
    BY <2>1, <2>2, <1>6, OriginalKept
<1> HIDE DEF N, sub
<1>9. Count(r, v) = Count(tree, v) + Count(s, v)
  <2>1. q \in 0..Len(tree)
    OBVIOUS
  <2> QED
    BY <2>1, <1>3, <1>4, <1>6, CountInsert
<1> HIDE DEF at
<1>10. /\ Count(EraseBranch(r, at), v) \in Nat /\ Count(SubTree(r, at), v) \in Nat
       /\ Count(r, v) = Count(EraseBranch(r, at), v) + Count(SubTree(r, at), v)
  BY <1>8, CountErase
<1>11. Count(tree, v) \in Nat
  BY <1>4, CountConcat
<1> QED
  BY <1>5, <1>7, <1>8, <1>9, <1>10, <1>11

\* The place behind the branch at "to", when that is not in the branch that is
\* moved.
LEMMA WhereCopyGoes ==
    ASSUME NEW t \in F, NEW from \in 1..Len(t), NEW to \in 1..Len(t), to # from,
           ~IsChild(t, from, to)
    PROVE  \/ BranchEnd(t, to) < from
           \/ BranchEnd(t, to) > BranchEnd(t, from)
           \/ /\ BranchEnd(t, to) = BranchEnd(t, from)
              /\ t[to].depth + 1 <= t[from].depth
<1> DEFINE N == [depth : Nat, val : Values]
           e == BranchEnd(t, from)
           q == BranchEnd(t, to)
<1>1. (\A n \in N : n.depth \in Nat) /\ t \in Seq(N)
  BY DepthsAreNat DEF F, Forests
<1> HIDE DEF N
<1>2. /\ e \in from..Len(t)
      /\ \A i \in (from + 1)..e : t[i].depth > t[from].depth
  BY <1>1, BranchEndStops
<1>3. /\ q \in to..Len(t)
      /\ \A i \in (to + 1)..q : t[i].depth > t[to].depth
      /\ q < Len(t) => t[q + 1].depth <= t[to].depth
  BY <1>1, BranchEndStops
<1>4. Branch(t, from) = from..e
  BY <1>1, BranchInterval
<1>5. to < from \/ to > e
  <2>1. to \notin from..e
    BY <1>4 DEF IsChild
  <2> QED
    BY <2>1, <1>2
<1>6. \A i \in 1..Len(t) : t[i].depth \in Nat
  <2>1. t # <<>>
    BY <1>1
  <2> QED
    BY <2>1, <1>1, SeqElements
<1> HIDE DEF e, q
<1>7. CASE to > e
  BY <1>2, <1>3, <1>7 DEF e, q
<1>8. CASE to < from /\ ~(q < from)
  <2>1. from \in (to + 1)..q
    BY <1>2, <1>3, <1>8
  <2>2. t[from].depth > t[to].depth
    BY <2>1, <1>3
  <2>3. ~(q < e)
    <3> SUFFICES ASSUME q < e PROVE FALSE
      OBVIOUS
    <3>1. q + 1 \in (from + 1)..e /\ q < Len(t) /\ q + 1 \in 1..Len(t)
      BY <1>1, <1>2, <1>3, <1>8
    <3>2. t[q + 1].depth > t[from].depth /\ t[q + 1].depth <= t[to].depth
      BY <3>1, <1>2, <1>3
    <3> QED
      BY <3>1, <3>2, <2>2, <1>6
  <2>4. t[to].depth + 1 <= t[from].depth
    BY <2>2, <1>6
  <2> QED
    BY <2>3, <2>4, <1>2, <1>3 DEF e, q
<1> QED
  BY <1>5, <1>7, <1>8 DEF e, q

\* A filter that is dragged elsewhere takes its branch along and leaves all
\* the others where they are: reparentFilter refuses a parent in the branch itself, so
\* the original that is erased has no part of the copy.
THEOREM MovesLoseNothing == Spec => MoveKeepsFilters
<1>1. ASSUME TypeOK, MapExact, NEW id \in Selected, MoveToBase(id), NEW v
      PROVE  Count(tree', v) = Count(tree, v)
  <2> DEFINE from == filterMap[id]
             q == BranchEnd(tree, 1)
             r == InsertBase(tree, SubTree(tree, from))
  <2>1. from \in 1..Len(tree) /\ tree \in F
    BY <1>1, SelectedInTree DEF TypeOK, F
  <2>2. tree # <<>> /\ 1 \in 1..Len(tree) /\ q \in 1..Len(tree)
    BY <2>1, ForestPositions DEF F
  <2>3. tree' = Moved(r, from, q)
    BY <1>1 DEF MoveToBase
  <2> HIDE DEF from
  <2>4. r \in F
    BY <2>1, SubTreeBranches, InsertBaseForest DEF F
  <2>5. r = InsertAfter(tree, q, AtDepth(SubTree(tree, from), 0))
    BY <2>2 DEF InsertBase
  <2>6. tree[from].depth \in Nat
    <3> DEFINE N == [depth : Nat, val : Values]
    <3>1. (\A n \in N : n.depth \in Nat) /\ tree \in Seq(N)
      BY <2>1, DepthsAreNat DEF F, Forests
    <3> HIDE DEF N
    <3> QED
      BY <3>1, <2>1
  <2>7. q < from \/ q > BranchEnd(tree, from)
          \/ (q = BranchEnd(tree, from) /\ 0 <= tree[from].depth)
    <3>1. CASE from = 1
      BY <3>1, <2>6
    <3>2. CASE from # 1
      <4>1. ~IsChild(tree, from, 1)
        BY <3>2, <2>1 DEF IsChild, Branch
      <4> QED
        BY <4>1, <3>2, <2>1, <2>2, <2>6, WhereCopyGoes
    <3> QED
      BY <3>1, <3>2
  <2> HIDE DEF r, q
  <2> QED
    BY <2>1, <2>2, <2>3, <2>4, <2>5, <2>7, MovedKeepsCount
<1>2. ASSUME TypeOK, MapExact, NEW id \in Selected, NEW pid \in Selected \ {id},
             MoveOnto(id, pid), NEW v
      PROVE  Count(tree', v) = Count(tree, v)
  <2> DEFINE from == filterMap[id]
             to == filterMap[pid]
             q == BranchEnd(tree, to)
             sub == SubTree(tree, from)
             r == AppendChild(tree, to, sub)
  <2>1. from \in 1..Len(tree) /\ to \in 1..Len(tree) /\ tree \in F
    BY <1>2, SelectedInTree DEF TypeOK, F
  <2>2. from # to
    <3>1. tree # <<>> /\ id \in DOMAIN filterMap /\ pid \in DOMAIN filterMap
      BY <2>1 DEF Selected
    <3>2. filterMap = [p \in 1..Len(tree) |-> p]
      BY <3>1, <1>2 DEF MapExact
    <3> QED
      BY <3>1, <3>2, <1>2
  <2>3. tree' = tree \/ (~IsChild(tree, from, to) /\ tree' = Moved(r, from, q))
    BY <1>2 DEF MoveOnto
  <2> HIDE DEF from, to
  <2>4. r \in F
    BY <2>1, SubTreeBranches, AppendChildForest DEF F
  <2>5. r = InsertAfter(tree, q, AtDepth(sub, tree[to].depth + 1))
    BY DEF AppendChild
  <2>6. q \in 1..Len(tree) /\ tree[to].depth + 1 \in Nat
    <3> DEFINE N == [depth : Nat, val : Values]
    <3>1. (\A n \in N : n.depth \in Nat) /\ tree \in Seq(N)
      BY <2>1, DepthsAreNat DEF F, Forests
    <3> HIDE DEF N
    <3>2. tree[to].depth \in Nat
      BY <3>1, <2>1
    <3>3. q \in 1..Len(tree)
      BY <2>1, ForestPositions DEF F
    <3> QED
      BY <3>2, <3>3
  <2>7. ASSUME ~IsChild(tree, from, to)
        PROVE  q < from \/ q > BranchEnd(tree, from)
                 \/ (q = BranchEnd(tree, from) /\ tree[to].depth + 1 <= tree[from].depth)
    BY <2>1, <2>2, <2>7, WhereCopyGoes
  <2> HIDE DEF r, q
  <2>8. CASE ~IsChild(tree, from, to) /\ tree' = Moved(r, from, q)
    BY <2>1, <2>4, <2>5, <2>6, <2>7, <2>8, MovedKeepsCount DEF sub
  <2> QED
    BY <2>3, <2>8
<1>3. ASSUME TypeOK, MapExact, [Next]_vars
      PROVE  [\A id \in Selected :
                (MoveToBase(id) \/ \E pid \in Selected \ {id} : MoveOnto(id, pid))
                  => \A v \in Values : Count(tree', v) = Count(tree, v)]_vars
  BY <1>1, <1>2, <1>3
<1> QED
  BY <1>3, TypeCorrect, ControlShowsTree, PTL DEF Spec, MoveKeepsFilters

-----------------------------------------------------------------------------
(* Inductions, over sets in the place of predicates.                        *)

\* A sequence that is not empty is one with an element appended.
LEMMA LastTaken ==
    ASSUME NEW T, NEW s \in Seq(T), s # <<>>
    PROVE  /\ Front(s) \in Seq(T) /\ Len(Front(s)) = Len(s) - 1
           /\ s[Len(s)] \in T /\ s = Append(Front(s), s[Len(s)])
<1> DEFINE n == Len(s)
           f == SubSeq(s, 1, n - 1)
<1>1. n \in Nat \ {0} /\ \A i \in 1..n : s[i] \in T BY SeqElements
<1>2. Front(s) = f BY DEF Front
<1>3. f \in Seq(T) /\ Len(f) = n - 1 /\ \A i \in 1..(n-1) : f[i] = s[i]
  <2> DEFINE k == n - 1
  <2>1. k \in 0..Len(s) /\ 1 <= k + 1 /\ 1 \in Nat \ {0} BY <1>1
  <2>2. /\ SubSeq(s, 1, k) \in Seq(T) /\ Len(SubSeq(s, 1, k)) = (k - 1) + 1
        /\ \A i \in 1..k : SubSeq(s, 1, k)[(i - 1) + 1] = s[i]
    <3> HIDE DEF k
    <3> QED BY <2>1, SubSeqElements
  <2>3. \A i \in 1..k : (i - 1) + 1 = i BY <1>1
  <2> QED BY <2>2, <2>3, <1>1
<1> HIDE DEF f
<1>4. Append(f, s[n]) \in Seq(T) /\ Len(Append(f, s[n])) = n BY <1>1, <1>3
<1>5. \A i \in 1..n : Append(f, s[n])[i] = s[i] BY <1>1, <1>3
<1>6. s = Append(f, s[n]) BY <1>4, <1>5, <1>1
<1> QED BY <1>1, <1>2, <1>3, <1>6

\* A set that has the empty sequence and, with a sequence, all that are longer
\* by an element, has all sequences.
LEMMA AllSequences ==
    ASSUME NEW T, NEW S, <<>> \in S,
           \A s \in S \cap Seq(T) : \A x \in T : Append(s, x) \in S
    PROVE  Seq(T) \subseteq S
<1> DEFINE Done == {n \in Nat : \A s \in Seq(T) : Len(s) = n => s \in S}
<1>1. 0 \in Done
  <2>1. \A s \in Seq(T) : Len(s) = 0 => s = <<>> OBVIOUS
  <2> QED BY <2>1
<1>2. ASSUME NEW n \in Done \cap Nat PROVE n + 1 \in Done
  <2>1. ASSUME NEW s \in Seq(T), Len(s) = n + 1 PROVE s \in S
    <3>1. s # <<>> BY <2>1
    <3>2. /\ Front(s) \in Seq(T) /\ Len(Front(s)) = Len(s) - 1
          /\ s[Len(s)] \in T /\ s = Append(Front(s), s[Len(s)])
      BY <3>1, LastTaken
    <3>3. Len(Front(s)) = n BY <3>2, <2>1
    <3>4. Front(s) \in S \cap Seq(T) BY <3>2, <3>3
    <3> QED BY <3>2, <3>4
  <2> QED BY <2>1
<1> HIDE DEF Done
<1>3. Nat \subseteq Done BY <1>1, <1>2, AllNumbers
<1>4. ASSUME NEW s \in Seq(T) PROVE s \in S
  <2>1. Len(s) \in Nat OBVIOUS
  <2> QED BY <2>1, <1>3 DEF Done
<1> QED BY <1>4

-----------------------------------------------------------------------------
(* What FlattenSeq and Read, recursive along a sequence, come to.           *)

\* What is read of one element more.
LEMMA ReadIs ==
    ASSUME NEW E
    PROVE  /\ Read(<<>>) = Reader
           /\ \A f \in Seq(E) : \A e \in E : Read(Append(f, e)) = ReadElement(Read(f), e)
<1> DEFINE Round(f, r, n) == IF n = 0 THEN Reader ELSE ReadElement(r[n - 1], f[n])
           Def(f, m, r) == r = [n \in 0..m |-> Round(f, r, n)]
           R(f) == CHOOSE r : Def(f, Len(f), r)
<1>1. \A f : Read(f) = R(f)[Len(f)] BY DEF Read
<1>2. ASSUME NEW f \in Seq(E) PROVE Def(f, Len(f), R(f))
  <2> DEFINE S == {m \in Nat : \E r : Def(f, m, r)}
  <2>1. 0 \in S
    <3> DEFINE r == [n \in 0..0 |-> Reader]
    <3>1. Def(f, 0, r) OBVIOUS
    <3> HIDE DEF r
    <3> QED BY <3>1
  <2>2. ASSUME NEW m \in S \cap Nat PROVE m + 1 \in S
    <3>1. PICK r : Def(f, m, r) OBVIOUS
    <3> DEFINE q == [n \in 0..(m+1) |-> IF n = m + 1 THEN ReadElement(r[m], f[m + 1]) ELSE r[n]]
    <3>2. \A n \in 0..m : r[n] = Round(f, r, n) BY <3>1
    <3>3. \A n \in 0..m : q[n] = r[n] OBVIOUS
    <3>4. ASSUME NEW n \in 0..(m+1) PROVE q[n] = Round(f, q, n)
      <4>1. CASE n = m + 1
        <5>1. q[n] = ReadElement(r[m], f[n]) BY <4>1
        <5>2. n # 0 /\ n - 1 = m /\ m \in 0..m BY <4>1
        <5>3. q[n-1] = r[m] BY <5>2, <3>3
        <5> HIDE DEF q
        <5> QED BY <5>1, <5>2, <5>3
      <4>2. CASE n # m + 1
        <5>1. n \in 0..m /\ (n # 0 => n - 1 \in 0..m) BY <4>2
        <5>2. q[n] = r[n] /\ (n # 0 => q[n-1] = r[n-1]) BY <5>1, <3>3
        <5> HIDE DEF q
        <5> QED BY <5>1, <5>2, <3>2
      <4> QED BY <4>1, <4>2
    <3>5. q = [n \in 0..(m+1) |-> q[n]] OBVIOUS
    <3> HIDE DEF q
    <3>6. Def(f, m + 1, q)
      <4> HIDE DEF Round
      <4> QED BY <3>4, <3>5
    <3> HIDE DEF Def
    <3> QED BY <3>6
  <2> HIDE DEF Def
  <2>3. Len(f) \in S
    <3> HIDE DEF S
    <3>1. Nat \subseteq S BY <2>1, <2>2, AllNumbers
    <3> QED BY <3>1
  <2> QED BY <2>3
<1>3. \A f \in Seq(E) : \A n \in 0..Len(f) : R(f)[n] = Round(f, R(f), n)
  <2> SUFFICES ASSUME NEW f \in Seq(E) PROVE \A n \in 0..Len(f) : R(f)[n] = Round(f, R(f), n)
    OBVIOUS
  <2> DEFINE r == R(f)
  <2>1. Def(f, Len(f), r) BY <1>2
  <2> HIDE DEF r
  <2>2. \A n \in 0..Len(f) : r[n] = Round(f, r, n) BY <2>1
  <2> QED BY <2>2 DEF r
<1> HIDE DEF R
<1>4. Read(<<>>) = Reader
  <2>1. <<>> \in Seq(E) /\ Len(<<>>) = 0 OBVIOUS
  <2>2. 0 \in 0..Len(<<>>) BY <2>1
  <2>3. R(<<>>)[0] = Round(<<>>, R(<<>>), 0) BY <2>1, <2>2, <1>3
  <2> QED BY <2>1, <2>3, <1>1
<1>5. ASSUME NEW f \in Seq(E), NEW e \in E PROVE Read(Append(f, e)) = ReadElement(Read(f), e)
  <2> DEFINE g == Append(f, e)
             l == Len(f)
             S == {n \in Nat : n <= l => R(g)[n] = R(f)[n]}
  <2>1. g \in Seq(E) /\ Len(g) = l + 1 /\ l \in Nat /\ g[l+1] = e
        /\ \A n \in 1..l : g[n] = f[n]
    OBVIOUS
  <2> HIDE DEF g, l
  <2>2. 0 \in S
    <3>1. 0 \in 0..Len(g) /\ 0 \in 0..Len(f) BY <2>1 DEF l
    <3>2. R(g)[0] = Reader /\ R(f)[0] = Reader BY <3>1, <2>1, <1>3
    <3> QED BY <3>2
  <2>3. ASSUME NEW n \in S \cap Nat PROVE n + 1 \in S
    <3> SUFFICES ASSUME n + 1 <= l PROVE R(g)[n + 1] = R(f)[n + 1] BY <2>1
    <3>1. n + 1 \in 0..Len(g) /\ n + 1 \in 0..Len(f) /\ n + 1 \in 1..l /\ n <= l
          /\ n + 1 # 0 /\ (n + 1) - 1 = n
      BY <2>1 DEF l
    <3>2. R(g)[n + 1] = ReadElement(R(g)[n], g[n + 1]) BY <3>1, <2>1, <1>3
    <3>3. R(f)[n + 1] = ReadElement(R(f)[n], f[n + 1]) BY <3>1, <2>1, <1>3
    <3>4. R(g)[n] = R(f)[n] BY <3>1
    <3> QED BY <3>1, <3>2, <3>3, <3>4, <2>1
  <2>4. R(g)[l] = R(f)[l]
    <3> HIDE DEF S
    <3>1. Nat \subseteq S BY <2>2, <2>3, AllNumbers
    <3> QED BY <3>1, <2>1 DEF S
  <2>5. l + 1 \in 0..Len(g) /\ l + 1 # 0 /\ (l + 1) - 1 = l BY <2>1
  <2>6. R(g)[l + 1] = ReadElement(R(g)[l], g[l + 1]) BY <2>1, <2>5, <1>3
  <2> QED BY <2>1, <2>4, <2>6, <1>1 DEF g, l
<1> QED BY <1>4, <1>5

\* The elements of a sequence of sequences, one after another.
LEMMA FlattenIs ==
    ASSUME NEW T
    PROVE  /\ FlattenSeq(<<>>) = <<>>
           /\ \A ss \in Seq(Seq(T)) :
                 /\ FlattenSeq(ss) \in Seq(T)
                 /\ \A s \in Seq(T) : FlattenSeq(Append(ss, s)) = FlattenSeq(ss) \o s
<1> DEFINE Round(f, r, n) == IF n = 1 THEN f[n] ELSE r[n - 1] \o f[n]
           Def(f, m, r) == r = [n \in 1..m |-> Round(f, r, n)]
           R(f) == CHOOSE r : Def(f, Len(f), r)
           E == Seq(T)
<1>1. \A f : FlattenSeq(f) = IF Len(f) = 0 THEN f ELSE R(f)[Len(f)] BY DEF FlattenSeq
<1>2. ASSUME NEW f \in Seq(E) PROVE Def(f, Len(f), R(f))
  <2> DEFINE S == {m \in Nat : \E r : Def(f, m, r)}
  <2>1. 0 \in S
    <3> DEFINE r == [n \in 1..0 |-> 0]
    <3>1. Def(f, 0, r) OBVIOUS
    <3> HIDE DEF r
    <3> QED BY <3>1
  <2>2. ASSUME NEW m \in S \cap Nat PROVE m + 1 \in S
    <3>1. PICK r : Def(f, m, r) OBVIOUS
    <3> DEFINE q == [n \in 1..(m+1) |-> IF n = m + 1 THEN Round(f, r, n) ELSE r[n]]
    <3>2. \A n \in 1..m : r[n] = Round(f, r, n) BY <3>1
    <3>3. \A n \in 1..m : q[n] = r[n] OBVIOUS
    <3>4. ASSUME NEW n \in 1..(m+1) PROVE q[n] = Round(f, q, n)
      <4>1. n # 1 => n - 1 \in 1..m OBVIOUS
      <4>2. n # 1 => q[n-1] = r[n-1] BY <4>1, <3>3
      <4>3. q[n] = Round(f, r, n)
        <5>1. CASE n = m + 1 BY <5>1
        <5>2. CASE n # m + 1
          <6>1. n \in 1..m BY <5>2
          <6> QED BY <6>1, <3>2, <3>3
        <5> QED BY <5>1, <5>2
      <4> HIDE DEF q
      <4> QED BY <4>2, <4>3
    <3>5. q = [n \in 1..(m+1) |-> q[n]] OBVIOUS
    <3> HIDE DEF q
    <3>6. Def(f, m + 1, q)
      <4> HIDE DEF Round
      <4> QED BY <3>4, <3>5
    <3> HIDE DEF Def
    <3> QED BY <3>6
  <2> HIDE DEF Def
  <2>3. Len(f) \in S
    <3>1. Len(f) \in Nat OBVIOUS
    <3> HIDE DEF S
    <3>2. Nat \subseteq S BY <2>1, <2>2, AllNumbers
    <3> QED BY <3>1, <3>2
  <2> QED BY <2>3
<1>3. \A f \in Seq(E) : \A n \in 1..Len(f) : R(f)[n] = Round(f, R(f), n)
  <2> SUFFICES ASSUME NEW f \in Seq(E) PROVE \A n \in 1..Len(f) : R(f)[n] = Round(f, R(f), n)
    OBVIOUS
  <2> DEFINE r == R(f)
  <2>1. Def(f, Len(f), r) BY <1>2
  <2> HIDE DEF r
  <2>2. \A n \in 1..Len(f) : r[n] = Round(f, r, n) BY <2>1
  <2> QED BY <2>2 DEF r
<1> HIDE DEF R
<1>4. FlattenSeq(<<>>) = <<>> BY <1>1
<1>5. ASSUME NEW f \in Seq(E), NEW e \in E, FlattenSeq(f) \in E
      PROVE  FlattenSeq(Append(f, e)) = FlattenSeq(f) \o e
  <2> DEFINE g == Append(f, e)
             l == Len(f)
             S == {n \in Nat : n \in 1..l => R(g)[n] = R(f)[n]}
  <2>1. g \in Seq(E) /\ Len(g) = l + 1 /\ l \in Nat /\ g[l+1] = e
        /\ \A n \in 1..l : g[n] = f[n]
    <3> HIDE DEF E
    <3> QED OBVIOUS
  <2> HIDE DEF g, l
  <2>2. 0 \in S OBVIOUS
  <2>3. ASSUME NEW n \in S \cap Nat PROVE n + 1 \in S
    <3> SUFFICES ASSUME n + 1 \in 1..l PROVE R(g)[n + 1] = R(f)[n + 1] BY <2>1
    <3>1. n + 1 \in 1..Len(g) /\ n + 1 \in 1..Len(f) /\ n + 1 \in 1..l
          /\ (n + 1) - 1 = n /\ (n + 1 # 1 => n \in 1..l)
      BY <2>1 DEF l
    <3>2. R(g)[n + 1] = IF n + 1 = 1 THEN g[n+1] ELSE R(g)[n] \o g[n + 1] BY <3>1, <2>1, <1>3
    <3>3. R(f)[n + 1] = IF n + 1 = 1 THEN f[n+1] ELSE R(f)[n] \o f[n + 1] BY <3>1, <2>1, <1>3
    <3>4. n + 1 # 1 => R(g)[n] = R(f)[n] BY <3>1
    <3> QED BY <3>1, <3>2, <3>3, <3>4, <2>1
  <2>4. l \in 1..l => R(g)[l] = R(f)[l]
    <3> HIDE DEF S
    <3>1. Nat \subseteq S BY <2>2, <2>3, AllNumbers
    <3> QED BY <3>1, <2>1 DEF S
  <2>5. l + 1 \in 1..Len(g) /\ (l + 1) - 1 = l BY <2>1
  <2>6. R(g)[l + 1] = IF l + 1 = 1 THEN e ELSE R(g)[l] \o e BY <2>1, <2>5, <1>3
  <2>7. FlattenSeq(g) = R(g)[l + 1] BY <1>1, <2>1
  <2>8. CASE l = 0
    <3>1. f = <<>> BY <2>8 DEF l
    <3>2. <<>> \o e = e OBVIOUS
    <3> QED BY <2>6, <2>7, <2>8, <3>1, <3>2, <1>4 DEF g
  <2>9. CASE l # 0
    <3>1. l \in 1..l /\ l + 1 # 1 BY <2>9, <2>1
    <3>2. FlattenSeq(f) = R(f)[l] BY <2>9, <1>1 DEF l
    <3> QED BY <2>4, <2>6, <2>7, <3>1, <3>2 DEF g
  <2> QED BY <2>8, <2>9
<1> DEFINE S == {ss \in Seq(E) : FlattenSeq(ss) \in E}
<1>6. <<>> \in S
  <2>1. <<>> \in Seq(E) /\ <<>> \in E OBVIOUS
  <2> QED BY <2>1, <1>4
<1>7. ASSUME NEW ss \in S \cap Seq(E), NEW s \in E PROVE Append(ss, s) \in S
  <2>1. FlattenSeq(Append(ss, s)) = FlattenSeq(ss) \o s BY <1>5
  <2>2. FlattenSeq(ss) \o s \in E OBVIOUS
  <2>3. Append(ss, s) \in Seq(E)
    <3> HIDE DEF E
    <3> QED OBVIOUS
  <2> QED BY <2>1, <2>2, <2>3
<1>8. Seq(E) \subseteq S
  <2> HIDE DEF S, E
  <2> QED BY <1>6, <1>7, AllSequences
<1> QED BY <1>4, <1>5, <1>8

-----------------------------------------------------------------------------
(* The branches of the base filters.                                        *)

Filters(V) == [depth : Nat, val : V]

\* Branches of base filters.
Tops(V) == {b \in Branches(V) : b[1].depth = 0}

LastDepth(t) == IF t = <<>> THEN 0 ELSE t[Len(t)].depth

\* A filter can come behind the last one of a tree, and a tree is one from which
\* its last filter was taken.
LEMMA ForestGrows ==
    ASSUME NEW V, NEW u \in Seq(Filters(V)), NEW n \in Filters(V)
    PROVE  /\ Append(u, n) \in Seq(Filters(V)) /\ Len(Append(u, n)) = Len(u) + 1
           /\ Append(u, n)[Len(u) + 1] = n /\ \A i \in 1..Len(u) : Append(u, n)[i] = u[i]
           /\ IsForest(Append(u, n)) <=> IsForest(u) /\ n.depth <= LastDepth(u) + (IF u = <<>> THEN 0 ELSE 1)
<1> DEFINE N == Filters(V)
           t == Append(u, n)
           l == Len(u)
<1> HIDE DEF N
<1>1. /\ t \in Seq(N) /\ Len(t) = l + 1 /\ l \in Nat
      /\ t[l+1] = n /\ \A i \in 1..l : t[i] = u[i]
  BY DEF N
<1>2. (u = <<>>) <=> l = 0 BY <1>1
<1> HIDE DEF t, l
<1>3. IsForest(t) <=> /\ \A p \in 1..l : t[p].depth <= (IF p = 1 THEN 0 ELSE t[p-1].depth + 1)
                      /\ t[l+1].depth <= (IF l + 1 = 1 THEN 0 ELSE t[(l+1)-1].depth + 1)
  <2>1. \A p : p \in 1..(l+1) <=> p \in 1..l \/ p = l + 1 BY <1>1
  <2> QED BY <2>1, <1>1 DEF IsForest
<1>4. \A p \in 1..l : t[p] = u[p] /\ (p # 1 => t[p-1] = u[p-1])
  <2>1. \A p \in 1..l : p # 1 => p - 1 \in 1..l BY <1>1
  <2> QED BY <2>1, <1>1
<1>5. IsForest(u) <=> \A p \in 1..l : t[p].depth <= (IF p = 1 THEN 0 ELSE t[p-1].depth + 1)
  BY <1>4 DEF IsForest, l
<1>6. l # 0 => t[(l+1)-1] = u[l] /\ l + 1 # 1
  <2>1. l # 0 => l \in 1..l /\ (l + 1) - 1 = l BY <1>1
  <2> QED BY <2>1, <1>1
<1>7. CASE l = 0
  <2>1. u = <<>> BY <1>2, <1>7
  <2>2. LastDepth(u) + (IF u = <<>> THEN 0 ELSE 1) = 0 BY <2>1 DEF LastDepth
  <2>3. l + 1 = 1 BY <1>7
  <2> QED BY <1>1, <1>3, <1>5, <2>2, <2>3 DEF t, l, N
<1>8. CASE l # 0
  <2>1. u # <<>> BY <1>2, <1>8
  <2>2. LastDepth(u) + (IF u = <<>> THEN 0 ELSE 1) = u[l].depth + 1 BY <2>1 DEF LastDepth, l
  <2> QED BY <1>1, <1>3, <1>5, <1>6, <1>8, <2>2 DEF t, l, N
<1> QED BY <1>7, <1>8

\* A set that has the empty tree and, with a tree, all that have a filter more at
\* the end, has all trees.
LEMMA AllForests ==
    ASSUME NEW V, NEW S, <<>> \in S,
           \A u \in S \cap Forests(V) : \A n \in Filters(V) :
               Append(u, n) \in Forests(V) => Append(u, n) \in S
    PROVE  Forests(V) \subseteq S
<1> DEFINE N == Filters(V)
           Q == {s \in Seq(N) : IsForest(s) => s \in S}
<1>0. Forests(V) = {t \in Seq(N) : IsForest(t)} BY DEF Forests, Filters
<1>1. <<>> \in Q OBVIOUS
<1>2. ASSUME NEW s \in Q \cap Seq(N), NEW x \in N PROVE Append(s, x) \in Q
  <2>1. Append(s, x) \in Seq(N) /\ (IsForest(Append(s, x)) => IsForest(s)) BY ForestGrows
  <2>2. IsForest(Append(s, x)) => Append(s, x) \in S BY <2>1, <1>0
  <2> QED BY <2>1, <2>2
<1>3. Seq(N) \subseteq Q
  <2> HIDE DEF Q, N
  <2> QED BY <1>1, <1>2, AllSequences
<1> QED BY <1>0, <1>3

\* A filter put at the end goes into the branches that reach there, of filters
\* that are less deep.
LEMMA BranchGrows ==
    ASSUME NEW V, NEW u \in Forests(V), NEW n \in Filters(V),
           Append(u, n) \in Forests(V), NEW q \in 1..Len(u)
    PROVE  /\ SubTree(u, q) \in Seq(Filters(V))
           /\ SubTree(Append(u, n), q) =
                 IF BranchEnd(u, q) = Len(u) /\ n.depth > u[q].depth
                 THEN Append(SubTree(u, q), n) ELSE SubTree(u, q)
<1> DEFINE N == Filters(V)
           t == Append(u, n)
           l == Len(u)
           e == BranchEnd(u, q)
           f == BranchEnd(t, q)
<1>1. /\ u \in Seq(N) /\ t \in Seq(N) /\ \A k \in N : k.depth \in Nat
      /\ Len(t) = l + 1 /\ l \in Nat
      /\ t[l+1] = n /\ \A i \in 1..l : t[i] = u[i]
  <2>1. u \in Seq(Filters(V)) /\ \A k \in Filters(V) : k.depth \in Nat BY DEF Forests, Filters
  <2> QED BY <2>1, ForestGrows
<1> HIDE DEF N, t
<1>2. q \in 1..Len(t) BY <1>1
<1>3. /\ e \in q..l /\ Branch(u, q) = q..e
      /\ \A k \in (q+1)..e : u[k].depth > u[q].depth
      /\ e < l => u[e+1].depth <= u[q].depth
  BY <1>1, BranchEndStops, BranchInterval
<1>4. /\ f \in q..(l+1) /\ Branch(t, q) = q..f
      /\ \A k \in (q+1)..f : t[k].depth > t[q].depth
      /\ f < l + 1 => t[f+1].depth <= t[q].depth
  BY <1>1, <1>2, BranchEndStops, BranchInterval
<1> HIDE DEF e, f
<1>5. /\ \A k \in 1..l : u[k].depth \in Nat /\ t[k].depth = u[k].depth
      /\ t[l+1].depth = n.depth /\ n.depth \in Nat
  BY <1>1 DEF N
<1>6. f >= e
  <2> SUFFICES ASSUME f < e PROVE FALSE BY <1>3, <1>4
  <2>1. f + 1 \in (q+1)..e /\ f + 1 \in 1..l /\ f < l + 1 BY <1>3, <1>4
  <2>2. t[f+1].depth <= t[q].depth /\ u[f+1].depth > u[q].depth BY <2>1, <1>3, <1>4
  <2> QED BY <2>1, <2>2, <1>5
<1>7. e < l => f = e
  <2> SUFFICES ASSUME e < l, f > e PROVE FALSE BY <1>3, <1>4, <1>6
  <2>1. e + 1 \in (q+1)..f /\ e + 1 \in 1..l BY <1>3, <1>4
  <2>2. t[e+1].depth > t[q].depth /\ u[e+1].depth <= u[q].depth BY <2>1, <1>3, <1>4
  <2> QED BY <2>1, <2>2, <1>5
<1>8. e = l => f = IF n.depth > u[q].depth THEN l + 1 ELSE l
  <2> SUFFICES ASSUME e = l PROVE f = IF n.depth > u[q].depth THEN l + 1 ELSE l OBVIOUS
  <2>1. f = l \/ f = l + 1 BY <1>1, <1>3, <1>4, <1>6
  <2>2. f = l => n.depth <= u[q].depth
    <3>1. f = l => f < l + 1 /\ f + 1 = l + 1 BY <1>1
    <3> QED BY <3>1, <1>4, <1>5
  <2>3. f = l + 1 => n.depth > u[q].depth
    <3>1. f = l + 1 => l + 1 \in (q+1)..f BY <1>1
    <3> QED BY <3>1, <1>4, <1>5
  <2> QED BY <2>1, <2>2, <2>3, <1>5
<1> DEFINE a == SubSeq(u, q, e)
           b == SubSeq(t, q, f)
<1>9. /\ a \in Seq(N) /\ Len(a) = (e - q) + 1
      /\ \A i \in q..e : a[(i - q) + 1] = u[i]
  <2>1. q \in Nat \ {0} /\ e \in 0..Len(u) /\ q <= e + 1 BY <1>3
  <2> QED BY <2>1, <1>1, SubSeqElements
<1>10. /\ b \in Seq(N) /\ Len(b) = (f - q) + 1
       /\ \A i \in q..f : b[(i - q) + 1] = t[i]
  <2>1. q \in Nat \ {0} /\ f \in 0..Len(t) /\ q <= f + 1 BY <1>1, <1>4
  <2> QED BY <2>1, <1>1, SubSeqElements
<1> HIDE DEF a, b
<1>11. SubTree(u, q) = a /\ SubTree(t, q) = b BY DEF SubTree, a, b, e, f
<1>12. \A i \in 1..((e - q) + 1) : b[i] = a[i]
  <2> SUFFICES ASSUME NEW i \in 1..((e - q) + 1) PROVE b[i] = a[i] OBVIOUS
  <2> DEFINE k == (i + q) - 1
  <2>1. k \in q..e /\ k \in q..f /\ (k - q) + 1 = i /\ k \in 1..l BY <1>3, <1>4, <1>6
  <2> HIDE DEF k
  <2>2. a[(k - q) + 1] = u[k] /\ b[(k - q) + 1] = t[k] BY <2>1, <1>9, <1>10
  <2> QED BY <2>1, <2>2, <1>1
<1>13. CASE e = l /\ n.depth > u[q].depth
  <2>1. f = l + 1 /\ (f - q) + 1 = Len(a) + 1 BY <1>13, <1>8, <1>9, <1>3, <1>4
  <2>2. b[Len(a) + 1] = n
    <3>1. f \in q..f BY <1>4
    <3> QED BY <3>1, <2>1, <1>10, <1>1
  <2>3. Append(a, n) \in Seq(N) /\ Len(Append(a, n)) = Len(a) + 1
        /\ Append(a, n)[Len(a) + 1] = n /\ \A i \in 1..Len(a) : Append(a, n)[i] = a[i]
    BY <1>9 DEF N
  <2>4. \A i \in 1..(Len(a) + 1) : b[i] = Append(a, n)[i]
    <3>1. \A i \in 1..(Len(a) + 1) : i = Len(a) + 1 \/ i \in 1..Len(a) BY <1>9
    <3> QED BY <3>1, <2>2, <2>3, <1>9, <1>12
  <2>5. Len(b) = Len(a) + 1 BY <2>1, <1>10
  <2>6. b = Append(a, n)
    <3> DEFINE c == Append(a, n)
    <3> HIDE DEF c
    <3> QED BY <2>3, <2>4, <2>5, <1>10 DEF c
  <2> QED BY <2>6, <1>9, <1>11, <1>13 DEF e, N, t
<1>14. CASE ~(e = l /\ n.depth > u[q].depth)
  <2>1. f = e BY <1>14, <1>7, <1>8, <1>3
  <2>2. b = a BY <2>1, <1>9, <1>10, <1>12
  <2> QED BY <2>2, <1>9, <1>11, <1>14 DEF e, N, t
<1> QED BY <1>13, <1>14

\* Sequences with the same elements are the same.
LEMMA SameSequence ==
    ASSUME NEW T, NEW s \in Seq(T), NEW r \in Seq(T), Len(s) = Len(r),
           \A i \in 1..Len(s) : s[i] = r[i]
    PROVE  s = r
OBVIOUS

\* The elements of a sequence that has got one more.
LEMMA AppendElements ==
    ASSUME NEW T, NEW s \in Seq(T), NEW x \in T
    PROVE  /\ Append(s, x) \in Seq(T) /\ Len(Append(s, x)) = Len(s) + 1 /\ Len(s) \in Nat
           /\ Append(s, x)[Len(s) + 1] = x /\ \A i \in 1..Len(s) : Append(s, x)[i] = s[i]
OBVIOUS

\* A number behind all others of a set is its last.
LEMMA NthGrows ==
    ASSUME NEW S \in SUBSET Nat, IsFiniteSet(S), NEW k \in Nat, \A m \in S : m < k
    PROVE  /\ Cardinality(S) \in Nat
           /\ Cardinality(S \cup {k}) = Cardinality(S) + 1
           /\ \A i \in 1..Cardinality(S) : Nth(S \cup {k}, i) = Nth(S, i) /\ Nth(S, i) \in S
           /\ Nth(S \cup {k}, Cardinality(S) + 1) = k
<1> DEFINE T == S \cup {k}
           c == Cardinality(S)
<1>1. k \notin S OBVIOUS
<1>2. IsFiniteSet(T) /\ Cardinality(T) = c + 1 /\ c \in Nat
  BY <1>1, FS_AddElement, FS_CardinalityType
<1>3. T \in SUBSET Nat OBVIOUS
<1>4. ASSUME NEW i \in 1..c PROVE Nth(T, i) = Nth(S, i) /\ Nth(S, i) \in S
  <2> DEFINE n == Nth(S, i)
  <2>1. n \in S /\ Cardinality({m \in S : m <= n}) = i BY Places
  <2> HIDE DEF n
  <2>2. {m \in T : m <= n} = {m \in S : m <= n}
    <3>1. n < k /\ n \in Nat BY <2>1
    <3> QED BY <3>1
  <2>3. n \in T /\ i \in 1..Cardinality(T) BY <2>1, <1>2
  <2>4. Cardinality({m \in T : m <= n}) = i BY <2>1, <2>2
  <2> HIDE DEF T
  <2>5. Nth(T, i) = n BY <2>3, <2>4, <1>2, <1>3, PlaceIs
  <2> QED BY <2>1, <2>5 DEF n
<1>5. Nth(T, c + 1) = k
  <2>1. {m \in T : m <= k} = T
    <3>1. \A m \in T : m \in Nat /\ (m < k \/ m = k) OBVIOUS
    <3> HIDE DEF T
    <3>2. \A m \in T : m <= k BY <3>1
    <3> QED BY <3>2
  <2>2. k \in T /\ c + 1 \in 1..Cardinality(T) BY <1>2
  <2> HIDE DEF T
  <2> QED BY <2>1, <2>2, <1>2, <1>3, PlaceIs
<1> QED BY <1>2, <1>4, <1>5

\* The last number of a set is its greatest.
LEMMA LastNth ==
    ASSUME NEW S \in SUBSET Nat, IsFiniteSet(S), S # {}
    PROVE  LET c == Cardinality(S) IN
           /\ c \in Nat \ {0} /\ Nth(S, c) \in S
           /\ \A m \in S : m <= Nth(S, c)
           /\ \A i \in 1..(c-1) : Nth(S, i) \in S /\ Nth(S, i) < Nth(S, c)
<1> DEFINE c == Cardinality(S)
           z == Nth(S, c)
<1>1. c \in Nat \ {0} BY FS_CardinalityType, FS_EmptySet
<1>2. c \in 1..c BY <1>1
<1>3. z \in S /\ Cardinality({m \in S : m <= z}) = c BY <1>2, Places
<1> HIDE DEF z
<1>4. \A m \in S : m <= z
  <2> DEFINE B == {m \in S : m <= z}
  <2>1. B \in SUBSET S OBVIOUS
  <2> HIDE DEF B
  <2>2. B = S
    <3>1. Cardinality(B) = Cardinality(S) BY <1>3 DEF B
    <3> QED BY <2>1, <3>1, FS_Subset
  <2> QED BY <2>2 DEF B
<1>5. ASSUME NEW i \in 1..(c-1) PROVE Nth(S, i) \in S /\ Nth(S, i) < z
  <2>1. i \in 1..c /\ i # c BY <1>1
  <2>2. Nth(S, i) \in S BY <2>1, Places
  <2>3. Nth(S, i) # z BY <2>1, <1>2, DifferentPlaces DEF z
  <2>4. Nth(S, i) \in Nat /\ z \in Nat BY <2>2, <1>3
  <2> QED BY <2>2, <2>3, <2>4, <1>4
<1> QED BY <1>1, <1>3, <1>4, <1>5 DEF z

\* The base filters of a tree are some of its filters, the first of them all.
LEMMA BasesAre ==
    ASSUME NEW V, NEW t \in Forests(V)
    PROVE  /\ t \in Seq(Filters(V)) /\ IsForest(t) /\ Len(t) \in Nat
           /\ Bases(t) \in SUBSET Nat /\ IsFiniteSet(Bases(t)) /\ Bases(t) \subseteq 1..Len(t)
           /\ Cardinality(Bases(t)) \in Nat
           /\ \A p \in 1..Len(t) : t[p] \in Filters(V) /\ t[p].depth \in Nat
                                   /\ (p \in Bases(t) <=> t[p].depth = 0)
           /\ t # <<>> => 1 \in Bases(t)
<1>1. t \in Seq(Filters(V)) /\ IsForest(t) BY DEF Forests, Filters
<1> DEFINE N == Filters(V)
<1>2. \A n \in N : n.depth \in Nat BY DEF Filters
<1> HIDE DEF N
<1>3. Len(t) \in Nat /\ DOMAIN t = 1..Len(t) /\ \A p \in 1..Len(t) : t[p] \in N
  BY <1>1 DEF N
<1>4. Bases(t) \subseteq 1..Len(t) /\ Bases(t) \in SUBSET Nat BY <1>3 DEF Bases
<1>5. IsFiniteSet(1..Len(t)) BY <1>3, FS_Interval
<1>6. IsFiniteSet(Bases(t)) /\ Cardinality(Bases(t)) \in Nat
  BY <1>4, <1>5, FS_Subset, FS_CardinalityType
<1>7. \A p \in 1..Len(t) : p \in Bases(t) <=> t[p].depth = 0 BY <1>3 DEF Bases
<1>8. t # <<>> => 1 \in Bases(t)
  <2> SUFFICES ASSUME t # <<>> PROVE 1 \in Bases(t) OBVIOUS
  <2>1. 1 \in 1..Len(t) BY <1>1, <1>3
  <2>2. t[1].depth <= 0 /\ t[1].depth \in Nat BY <2>1, <1>1, <1>2, <1>3 DEF IsForest
  <2> QED BY <2>1, <2>2, <1>7
<1> QED BY <1>1, <1>2, <1>3, <1>4, <1>6, <1>7, <1>8 DEF N

\* The branches of the base filters are trees of one base filter each.
LEMMA BaseBranchesAre ==
    ASSUME NEW V, NEW t \in Forests(V)
    PROVE  /\ BaseBranches(t) \in Seq(Tops(V))
           /\ Len(BaseBranches(t)) = Cardinality(Bases(t))
           /\ DOMAIN BaseBranches(t) = 1..Cardinality(Bases(t))
           /\ \A i \in 1..Cardinality(Bases(t)) :
                 /\ Nth(Bases(t), i) \in Bases(t)
                 /\ BaseBranches(t)[i] = SubTree(t, Nth(Bases(t), i))
<1> DEFINE S == Bases(t)
           c == Cardinality(S)
           b(i) == SubTree(t, Nth(S, i))
<1>1. S \in SUBSET Nat /\ IsFiniteSet(S) /\ c \in Nat /\ S \subseteq 1..Len(t)
      /\ \A p \in 1..Len(t) : p \in S <=> t[p].depth = 0
  BY BasesAre
<1> HIDE DEF S
<1>2. \A i \in 1..c : Nth(S, i) \in S BY <1>1, Places
<1>3. ASSUME NEW q \in S PROVE SubTree(t, q) \in Tops(V)
  <2>1. q \in 1..Len(t) /\ t[q].depth = 0 BY <1>1
  <2>2. SubTree(t, q) \in Branches(V) BY <2>1, SubTreeBranches
  <2>3. SubTree(t, q)[1] = t[q]
    <3> DEFINE e == BranchEnd(t, q)
               N == Filters(V)
    <3>1. t \in Seq(N) BY BasesAre
    <3>2. \A n \in N : n.depth \in Nat BY DEF Filters
    <3> HIDE DEF N
    <3>3. e \in q..Len(t) BY <2>1, <3>1, <3>2, BranchInterval
    <3> HIDE DEF e
    <3>4. q \in Nat \ {0} /\ e \in 0..Len(t) /\ q <= e + 1 /\ q \in q..e BY <2>1, <3>3
    <3>5. SubSeq(t, q, e)[(q - q) + 1] = t[q] BY <3>1, <3>4, SubSeqElements
    <3>6. (q - q) + 1 = 1 BY <3>4
    <3> QED BY <3>5, <3>6 DEF SubTree, e
  <2> QED BY <2>1, <2>2, <2>3 DEF Tops
<1>4. \A i \in 1..c : b(i) \in Tops(V) BY <1>2, <1>3
<1>5. BaseBranches(t) = [i \in 1..c |-> b(i)] BY DEF BaseBranches, S
<1> HIDE DEF b
<1>6. BaseBranches(t) \in Seq(Tops(V)) /\ Len(BaseBranches(t)) = c
      /\ \A i \in 1..c : BaseBranches(t)[i] = b(i)
  BY <1>1, <1>4, <1>5
<1>7. DOMAIN BaseBranches(t) = 1..c BY <1>5
<1> QED BY <1>2, <1>6, <1>7 DEF S, b

\* A base filter put at the end is a branch of its own.
LEMMA NewBase ==
    ASSUME NEW V, NEW u \in Forests(V), NEW n \in Filters(V), n.depth = 0,
           Append(u, n) \in Forests(V)
    PROVE  BaseBranches(Append(u, n)) = Append(BaseBranches(u), <<n>>)
<1> DEFINE t == Append(u, n)
           l == Len(u)
           S == Bases(u)
           c == Cardinality(S)
           x == BaseBranches(u)
           y == BaseBranches(t)
           z == Append(x, <<n>>)
<1>1. /\ S \in SUBSET Nat /\ IsFiniteSet(S) /\ S \subseteq 1..l /\ c \in Nat /\ l \in Nat
      /\ \A p \in 1..l : p \in S <=> u[p].depth = 0
      /\ u \in Seq(Filters(V))
  BY BasesAre
<1>2. Len(t) = l + 1 /\ t[l+1] = n /\ \A i \in 1..l : t[i] = u[i]
  BY <1>1, ForestGrows
<1>3. /\ Bases(t) \subseteq 1..Len(t) /\ \A p \in 1..Len(t) : p \in Bases(t) <=> t[p].depth = 0
  BY BasesAre
<1> HIDE DEF t, l, S
<1>4. Bases(t) = S \cup {l+1}
  <2>1. \A p : p \in 1..(l+1) <=> p \in 1..l \/ p = l + 1 BY <1>1
  <2>2. \A p \in 1..l : p \in Bases(t) <=> p \in S BY <2>1, <1>1, <1>2, <1>3
  <2>3. l + 1 \in Bases(t) BY <2>1, <1>2, <1>3
  <2> QED BY <2>1, <2>2, <2>3, <1>1, <1>2, <1>3
<1>5. /\ Cardinality(Bases(t)) = c + 1
      /\ \A i \in 1..c : Nth(Bases(t), i) = Nth(S, i) /\ Nth(S, i) \in S
      /\ Nth(Bases(t), c + 1) = l + 1
  <2>1. l + 1 \in Nat /\ \A m \in S : m < l + 1 BY <1>1
  <2> DEFINE k == l + 1
  <2> HIDE DEF k
  <2>2. /\ Cardinality(S \cup {k}) = c + 1
        /\ \A i \in 1..c : Nth(S \cup {k}, i) = Nth(S, i) /\ Nth(S, i) \in S
        /\ Nth(S \cup {k}, c + 1) = k
    BY <2>1, <1>1, NthGrows DEF k
  <2> QED BY <2>2, <1>4 DEF k
<1>6. /\ x \in Seq(Tops(V)) /\ Len(x) = c
      /\ \A i \in 1..c : x[i] = SubTree(u, Nth(S, i))
  BY BaseBranchesAre DEF S
<1>7. /\ y \in Seq(Tops(V)) /\ Len(y) = c + 1
      /\ \A i \in 1..(c+1) : y[i] = SubTree(t, Nth(Bases(t), i))
  BY <1>5, BaseBranchesAre DEF t
<1>8. SubTree(t, l + 1) = <<n>>
  <2> DEFINE N == Filters(V)
  <2>1. t \in Seq(N) /\ \A k \in N : k.depth \in Nat BY BasesAre DEF Filters, t
  <2> HIDE DEF N
  <2>2. l + 1 \in 1..Len(t) BY <1>1, <1>2
  <2>3. BranchEnd(t, l + 1) \in (l+1)..Len(t) BY <2>1, <2>2, BranchInterval
  <2>4. BranchEnd(t, l + 1) = l + 1 BY <2>3, <1>1, <1>2
  <2>5. l + 1 \in Nat \ {0} /\ l + 1 \in 0..Len(t) /\ l + 1 <= (l + 1) + 1 BY <1>1, <1>2
  <2> DEFINE k == l + 1
  <2>6. k \in k..k /\ (k - k) + 1 = 1 BY <2>5
  <2> HIDE DEF k
  <2>7. SubSeq(t, k, k) \in Seq(N) /\ Len(SubSeq(t, k, k)) = 1 /\ SubSeq(t, k, k)[1] = t[k]
    BY <2>1, <2>5, <2>6, SubSeqElements DEF k
  <2>8. SubSeq(t, k, k) = <<n>>
    <3> DEFINE s == SubSeq(t, k, k)
    <3>1. <<n>> \in Seq(N) /\ Len(<<n>>) = 1 /\ <<n>>[1] = n BY DEF N
    <3>2. s \in Seq(N) /\ Len(s) = 1 /\ s[1] = n BY <2>7, <1>2 DEF k
    <3> HIDE DEF s
    <3>3. \A i \in 1..Len(s) : s[i] = <<n>>[i]
      <4>1. \A i \in 1..Len(s) : i = 1 BY <3>2
      <4> QED BY <3>1, <3>2, <4>1
    <3>4. s = <<n>> BY <3>1, <3>2, <3>3, SameSequence
    <3> QED BY <3>4 DEF s
  <2> QED BY <2>4, <2>8 DEF SubTree, k
<1>9. \A i \in 1..c : y[i] = x[i]
  <2> SUFFICES ASSUME NEW i \in 1..c PROVE y[i] = x[i] OBVIOUS
  <2> DEFINE q == Nth(S, i)
  <2>1. q \in S /\ q \in 1..l /\ u[q].depth = 0 BY <1>1, <1>5
  <2>2. ~(n.depth > u[q].depth) BY <2>1
  <2>3. SubTree(t, q) = SubTree(u, q) BY <2>1, <2>2, BranchGrows DEF t, l
  <2>4. i \in 1..(c+1) BY <1>1
  <2> QED BY <2>3, <2>4, <1>5, <1>6, <1>7
<1>10. y[c+1] = <<n>>
  <2>1. c + 1 \in 1..(c+1) BY <1>1
  <2> QED BY <2>1, <1>5, <1>7, <1>8
<1> DEFINE m == <<n>>
<1>11. m \in Tops(V)
  <2>1. c + 1 \in 1..Len(y) BY <1>1, <1>7
  <2> QED BY <2>1, <1>7, <1>10
<1> HIDE DEF x, y, c, m
<1>12. /\ Append(x, m) \in Seq(Tops(V)) /\ Len(Append(x, m)) = c + 1
       /\ Append(x, m)[c+1] = m /\ \A i \in 1..c : Append(x, m)[i] = x[i]
  BY <1>6, <1>11, AppendElements
<1>13. \A i \in 1..Len(y) : y[i] = Append(x, m)[i]
  <2>1. \A i \in 1..(c+1) : i \in 1..c \/ i = c + 1 BY <1>1 DEF c
  <2> QED BY <2>1, <1>7, <1>9, <1>10, <1>12 DEF m
<1>14. y = Append(x, m) BY <1>7, <1>12, <1>13, SameSequence
<1> QED BY <1>14 DEF y, x, m, t

\* The branches x have become y, by a filter n at the end of the last one.
LastGrew(V, x, y, n) ==
    \E f \in Seq(Tops(V)) : \E b \in Tops(V) :
        x = Append(f, b) /\ Append(b, n) \in Tops(V) /\ y = Append(f, Append(b, n))

\* Any other filter put at the end goes into the last branch.
LEMMA NewBelow ==
    ASSUME NEW V, NEW u \in Forests(V), NEW n \in Filters(V), n.depth > 0,
           Append(u, n) \in Forests(V)
    PROVE  LastGrew(V, BaseBranches(u), BaseBranches(Append(u, n)), n)
<1> DEFINE t == Append(u, n)
           l == Len(u)
           S == Bases(u)
           c == Cardinality(S)
           x == BaseBranches(u)
           y == BaseBranches(t)
<1>1. /\ S \in SUBSET Nat /\ IsFiniteSet(S) /\ S \subseteq 1..l /\ c \in Nat /\ l \in Nat
      /\ \A p \in 1..l : p \in S <=> u[p].depth = 0
      /\ u \in Seq(Filters(V)) /\ (u # <<>> => 1 \in S)
  BY BasesAre
<1>2. /\ Len(t) = l + 1 /\ t[l+1] = n /\ \A i \in 1..l : t[i] = u[i]
      /\ n.depth <= LastDepth(u) + (IF u = <<>> THEN 0 ELSE 1)
  <2>1. IsForest(t) BY DEF Forests
  <2> QED BY <1>1, <2>1, ForestGrows
<1>3. /\ Bases(t) \subseteq 1..Len(t) /\ \A p \in 1..Len(t) : p \in Bases(t) <=> t[p].depth = 0
  BY BasesAre
<1>4. S # {}
  <2>1. u # <<>>
    <3> SUFFICES ASSUME u = <<>> PROVE FALSE OBVIOUS
    <3>1. LastDepth(u) = 0 BY DEF LastDepth
    <3> DEFINE k == IF u = <<>> THEN 0 ELSE 1
    <3>0. k = 0 OBVIOUS
    <3>4. n.depth <= LastDepth(u) + k BY <1>2
    <3> HIDE DEF k
    <3>2. n.depth <= 0 + 0 BY <3>0, <3>1, <3>4
    <3>3. n.depth \in Nat BY DEF Filters
    <3> QED BY <3>2, <3>3
  <2> QED BY <2>1, <1>1
<1>5. n.depth \in Nat BY DEF Filters
<1> HIDE DEF t, l, S
<1>6. Bases(t) = S
  <2>1. \A p : p \in 1..(l+1) <=> p \in 1..l \/ p = l + 1 BY <1>1
  <2>2. \A p \in 1..l : p \in Bases(t) <=> p \in S BY <2>1, <1>1, <1>2, <1>3
  <2>3. l + 1 \notin Bases(t) BY <2>1, <1>2, <1>3
  <2> QED BY <2>1, <2>2, <2>3, <1>1, <1>2, <1>3
<1>7. /\ c \in Nat \ {0} /\ Nth(S, c) \in S
      /\ \A m \in S : m <= Nth(S, c)
      /\ \A i \in 1..(c-1) : Nth(S, i) \in S /\ Nth(S, i) < Nth(S, c)
  BY <1>1, <1>4, LastNth
<1>8. /\ x \in Seq(Tops(V)) /\ Len(x) = c /\ DOMAIN x = 1..c
      /\ \A i \in 1..c : x[i] = SubTree(u, Nth(S, i))
  BY BaseBranchesAre DEF S
<1>9. /\ y \in Seq(Tops(V)) /\ Len(y) = c /\ DOMAIN y = 1..c
      /\ \A i \in 1..c : y[i] = SubTree(t, Nth(S, i))
  BY <1>6, BaseBranchesAre DEF t
<1>10. ASSUME NEW q \in S
       PROVE  /\ q \in 1..l /\ u[q].depth = 0
              /\ BranchEnd(u, q) \in q..l
              /\ \A k \in (q+1)..BranchEnd(u, q) : u[k].depth > 0
              /\ BranchEnd(u, q) < l => u[BranchEnd(u, q) + 1].depth <= 0
              /\ SubTree(t, q) = IF BranchEnd(u, q) = l THEN Append(SubTree(u, q), n) ELSE SubTree(u, q)
  <2>1. q \in 1..l /\ u[q].depth = 0 BY <1>1
  <2> DEFINE N == Filters(V)
  <2>2. u \in Seq(N) /\ \A k \in N : k.depth \in Nat BY <1>1 DEF Filters
  <2> HIDE DEF N
  <2>3. /\ BranchEnd(u, q) \in q..l
        /\ \A k \in (q+1)..BranchEnd(u, q) : u[k].depth > u[q].depth
        /\ BranchEnd(u, q) < l => u[BranchEnd(u, q) + 1].depth <= u[q].depth
    BY <2>1, <2>2, BranchEndStops DEF l
  <2>4. SubTree(t, q) = IF BranchEnd(u, q) = l /\ n.depth > u[q].depth
                        THEN Append(SubTree(u, q), n) ELSE SubTree(u, q)
    BY <2>1, BranchGrows DEF t, l
  <2> QED BY <2>1, <2>3, <2>4
<1>11. y[c] = Append(x[c], n)
  <2> DEFINE q == Nth(S, c)
             e == BranchEnd(u, q)
  <2>1. e = l
    <3> SUFFICES ASSUME e # l PROVE FALSE OBVIOUS
    <3>0. q \in S BY <1>7
    <3>1. q \in S /\ e \in q..l /\ q \in 1..l /\ (e < l => u[e+1].depth <= 0)
      <4> HIDE DEF q
      <4> QED BY <3>0, <1>10
    <3> HIDE DEF e, q
    <3>2. e + 1 \in 1..l /\ e + 1 > q /\ e < l BY <3>1, <1>1
    <3>3. u[e+1].depth \in Nat BY <3>2, BasesAre DEF l
    <3>4. e + 1 \in S BY <3>1, <3>2, <3>3, <1>1
    <3> QED BY <3>1, <3>2, <3>4, <1>7 DEF q
  <2>2. c \in 1..c BY <1>7
  <2> QED BY <2>1, <2>2, <1>7, <1>8, <1>9, <1>10
<1>12. ASSUME NEW i \in 1..(c-1) PROVE y[i] = x[i]
  <2> DEFINE q == Nth(S, i)
             r == Nth(S, c)
             e == BranchEnd(u, q)
  <2>1. q \in S /\ r \in S /\ q < r BY <1>7
  <2>2. e # l
    <3> SUFFICES ASSUME e = l PROVE FALSE OBVIOUS
    <3>1. q \in 1..l /\ r \in 1..l /\ u[r].depth = 0 /\ \A k \in (q+1)..e : u[k].depth > 0
      BY <2>1, <1>10
    <3> HIDE DEF e, q, r
    <3>2. r \in (q+1)..e BY <3>1, <2>1
    <3> QED BY <3>1, <3>2
  <2>3. i \in 1..c BY <1>7
  <2> QED BY <2>1, <2>2, <2>3, <1>8, <1>9, <1>10
<1> HIDE DEF x, y, c
<1> DEFINE f == Front(x)
           a == Append(x[c], n)
           z == Append(f, a)
<1>13. /\ f \in Seq(Tops(V)) /\ Len(f) = c - 1 /\ x[c] \in Tops(V) /\ x = Append(f, x[c])
       /\ \A i \in 1..(c-1) : f[i] = x[i]
  <2>1. x # <<>> BY <1>7, <1>8
  <2>2. f \in Seq(Tops(V)) /\ Len(f) = c - 1 /\ x[c] \in Tops(V) /\ x = Append(f, x[c])
    BY <2>1, <1>8, LastTaken
  <2> HIDE DEF f
  <2>3. \A i \in 1..Len(f) : Append(f, x[c])[i] = f[i] BY <2>2, AppendElements
  <2> QED BY <2>2, <2>3
<1>14. a \in Tops(V)
  <2>1. c \in 1..Len(y) BY <1>7, <1>9
  <2>2. y[c] \in Tops(V) BY <2>1, <1>9
  <2> QED BY <2>2, <1>11
<1> HIDE DEF f, a
<1>15. /\ z \in Seq(Tops(V)) /\ Len(z) = c /\ z[c] = a /\ \A i \in 1..(c-1) : z[i] = f[i]
  <2>1. /\ z \in Seq(Tops(V)) /\ Len(z) = Len(f) + 1 /\ z[Len(f) + 1] = a
        /\ \A i \in 1..Len(f) : z[i] = f[i]
    BY <1>13, <1>14, AppendElements
  <2>2. Len(f) + 1 = c BY <1>7, <1>13
  <2> QED BY <2>1, <2>2, <1>13
<1> HIDE DEF z
<1>16. \A i \in 1..Len(y) : y[i] = z[i]
  <2>1. \A i \in 1..c : i = c \/ i \in 1..(c-1) BY <1>7
  <2> QED BY <2>1, <1>9, <1>11, <1>12, <1>13, <1>15 DEF a
<1>17. y = z BY <1>9, <1>15, <1>16, SameSequence
<1>18. x = Append(f, x[c]) /\ Append(x[c], n) \in Tops(V) /\ y = Append(f, Append(x[c], n))
  BY <1>13, <1>14, <1>17 DEF z, a
<1> HIDE DEF x, y
<1>19. LastGrew(V, x, y, n) BY <1>13, <1>18 DEF LastGrew
<1> QED BY <1>19 DEF x, y, t

\* To append at the end of a second sequence or of both is the same.
LEMMA ConcatAppend ==
    ASSUME NEW T, NEW a \in Seq(T), NEW b \in Seq(T), NEW x \in T
    PROVE  a \o Append(b, x) = Append(a \o b, x)
<1>1. /\ Append(b, x) \in Seq(T) /\ Len(Append(b, x)) = Len(b) + 1 /\ Len(b) \in Nat
      /\ Append(b, x)[Len(b) + 1] = x /\ \A i \in 1..Len(b) : Append(b, x)[i] = b[i]
  BY AppendElements
<1> DEFINE c == Append(b, x)
           d == a \o b
<1>2. /\ d \in Seq(T) /\ Len(d) = Len(a) + Len(b) /\ Len(a) \in Nat
      /\ \A i \in 1..Len(a) : d[i] = a[i]
      /\ \A i \in 1..Len(b) : d[Len(a) + i] = b[i]
  BY ConcatElements
<1> HIDE DEF c, d
<1>3. /\ a \o c \in Seq(T) /\ Len(a \o c) = Len(a) + Len(c)
      /\ \A i \in 1..Len(a) : (a \o c)[i] = a[i]
      /\ \A i \in 1..Len(c) : (a \o c)[Len(a) + i] = c[i]
  BY <1>1, ConcatElements DEF c
<1>4. /\ Append(d, x) \in Seq(T) /\ Len(Append(d, x)) = Len(d) + 1
      /\ Append(d, x)[Len(d) + 1] = x /\ \A i \in 1..Len(d) : Append(d, x)[i] = d[i]
  BY <1>2, AppendElements
<1> DEFINE p == a \o c
           q == Append(d, x)
<1> HIDE DEF p, q
<1>5. ASSUME NEW i \in 1..Len(p) PROVE p[i] = q[i]
  <2>1. Len(p) = Len(a) + Len(b) + 1 BY <1>1, <1>3 DEF c, p
  <2>2. CASE i \in 1..Len(a)
    <3>1. i \in 1..Len(d) BY <2>2, <1>2, <1>1
    <3> QED BY <2>2, <3>1, <1>2, <1>3, <1>4 DEF p, q
  <2>3. CASE i = Len(a) + Len(b) + 1
    <3>1. Len(b) + 1 \in 1..Len(c) /\ Len(a) + (Len(b) + 1) = i /\ i = Len(d) + 1
      BY <2>3, <1>1, <1>2 DEF c
    <3>2. p[i] = c[Len(b) + 1] BY <3>1, <1>3 DEF p
    <3> QED BY <3>1, <3>2, <1>1, <1>4 DEF c, q
  <2>4. CASE i \notin 1..Len(a) /\ i # Len(a) + Len(b) + 1
    <3> DEFINE k == i - Len(a)
    <3>1. k \in 1..Len(b) /\ k \in 1..Len(c) /\ Len(a) + k = i /\ i \in 1..Len(d)
      BY <2>1, <2>4, <1>1, <1>2 DEF c
    <3> HIDE DEF k
    <3>2. p[i] = c[k] /\ q[i] = d[i] /\ d[i] = b[k]
      BY <3>1, <1>2, <1>3, <1>4 DEF p, q
    <3> QED BY <3>1, <3>2, <1>1 DEF c
  <2> QED BY <2>2, <2>3, <2>4
<1>6. p \in Seq(T) /\ q \in Seq(T) /\ Len(p) = Len(q)
  BY <1>1, <1>2, <1>3, <1>4 DEF p, q, c
<1>7. p = q BY <1>5, <1>6, SameSequence
<1> QED BY <1>7 DEF p, q, c, d

\* Where the last element is cut off, the same is left.
LEMMA SameLast ==
    ASSUME NEW T, NEW s \in Seq(T), NEW r \in Seq(T), NEW x \in T, NEW y \in T,
           Append(s, x) = Append(r, y)
    PROVE  s = r /\ x = y
<1> DEFINE a == Append(s, x)
           b == Append(r, y)
<1>1. /\ Len(a) = Len(s) + 1 /\ Len(s) \in Nat
      /\ a[Len(s) + 1] = x /\ \A i \in 1..Len(s) : a[i] = s[i]
  BY AppendElements
<1>2. /\ Len(b) = Len(r) + 1 /\ Len(r) \in Nat
      /\ b[Len(r) + 1] = y /\ \A i \in 1..Len(r) : b[i] = r[i]
  BY AppendElements
<1>3. a = b OBVIOUS
<1> HIDE DEF a, b
<1>4. Len(s) = Len(r) BY <1>1, <1>2, <1>3
<1>5. \A i \in 1..Len(s) : s[i] = r[i] BY <1>1, <1>2, <1>3, <1>4
<1> QED BY <1>1, <1>2, <1>3, <1>4, <1>5, SameSequence

\* What is in Tops.
LEMMA TopIs ==
    ASSUME NEW V
    PROVE  /\ Forests(V) \subseteq Seq(Filters(V))
           /\ Tops(V) \subseteq Seq(Filters(V)) /\ Tops(V) \subseteq Forests(V)
           /\ \A n \in Filters(V) : n.depth \in Nat
           /\ \A s \in Seq(Filters(V)) : \A n \in Filters(V) :
                 Append(s, n) \in Tops(V) <=>
                    IF s = <<>> THEN n.depth = 0
                    ELSE s \in Tops(V) /\ n.depth > 0 /\ n.depth <= s[Len(s)].depth + 1
<1> DEFINE N == Filters(V)
<1>1. /\ Forests(V) = {t \in Seq(N) : IsForest(t)}
      /\ Tops(V) = {b \in Seq(N) : IsBranch(b) /\ b[1].depth = 0}
  BY DEF Forests, Tops, Branches, Filters
<1>2. \A n \in N : n.depth \in Nat BY DEF Filters
<1> HIDE DEF N
<1>3. ASSUME NEW b \in Tops(V) PROVE b \in Forests(V)
  <2>1. b \in Seq(N) /\ IsBranch(b) /\ b[1].depth = 0 BY <1>1
  <2>2. \A p \in 1..Len(b) : b[p].depth <= (IF p = 1 THEN 0 ELSE b[p-1].depth + 1)
    <3> SUFFICES ASSUME NEW p \in 1..Len(b)
                 PROVE  b[p].depth <= (IF p = 1 THEN 0 ELSE b[p-1].depth + 1)
      OBVIOUS
    <3>1. CASE p = 1 BY <3>1, <2>1
    <3>2. CASE p # 1
      <4>1. p \in 2..Len(b) BY <3>2
      <4> QED BY <4>1, <3>2, <2>1 DEF IsBranch
    <3> QED BY <3>1, <3>2
  <2> QED BY <2>1, <2>2, <1>1 DEF IsForest
<1>4. ASSUME NEW s \in Seq(N), NEW n \in N
      PROVE  Append(s, n) \in Tops(V) <=>
                    IF s = <<>> THEN n.depth = 0
                    ELSE s \in Tops(V) /\ n.depth > 0 /\ n.depth <= s[Len(s)].depth + 1
  <2> DEFINE t == Append(s, n)
             l == Len(s)
  <2>1. /\ t \in Seq(N) /\ Len(t) = l + 1 /\ l \in Nat
        /\ t[l + 1] = n /\ \A i \in 1..l : t[i] = s[i]
    BY AppendElements
  <2>2. (s = <<>>) <=> l = 0 OBVIOUS
  <2>3. t # <<>> BY <2>1
  <2> HIDE DEF t, l
  <2>4. CASE l = 0
    <3>1. t[1] = n /\ 2..Len(t) = {} BY <2>1, <2>4
    <3>2. IsBranch(t) BY <3>1, <2>3 DEF IsBranch
    <3> QED BY <3>1, <3>2, <2>1, <2>2, <2>4, <1>1 DEF t
  <2>5. CASE l # 0
    <3>1. 1 \in 1..l /\ l \in 1..l /\ l + 1 \in 2..Len(t) /\ (l + 1) - 1 = l BY <2>1, <2>5
    <3>2. t[1] = s[1] /\ t[l] = s[l] BY <3>1, <2>1
    <3>3. \A i \in 2..l : t[i] = s[i] /\ t[i-1] = s[i-1]
      <4>1. \A i \in 2..l : i \in 1..l /\ i - 1 \in 1..l BY <2>1
      <4> QED BY <4>1, <2>1
    <3>4. \A i : i \in 2..Len(t) <=> i \in 2..l \/ i = l + 1 BY <2>1, <2>5
    <3>5. s # <<>> BY <2>2, <2>5
    <3>6. IsBranch(t) <=> /\ IsBranch(s)
                          /\ n.depth > s[1].depth /\ n.depth <= s[l].depth + 1
      <4>1. IsBranch(t) <=> \A i \in 2..Len(t) :
                               t[i].depth > t[1].depth /\ t[i].depth <= t[i-1].depth + 1
        BY <2>3 DEF IsBranch
      <4>2. IsBranch(s) <=> \A i \in 2..l :
                               s[i].depth > s[1].depth /\ s[i].depth <= s[i-1].depth + 1
        BY <3>5 DEF IsBranch, l
      <4> QED BY <4>1, <4>2, <3>1, <3>2, <3>3, <3>4, <2>1
    <3>7. t \in Tops(V) <=> IsBranch(t) /\ s[1].depth = 0 BY <3>2, <2>1, <1>1
    <3>8. s \in Tops(V) <=> IsBranch(s) /\ s[1].depth = 0 BY <1>1
    <3> QED BY <3>5, <3>6, <3>7, <3>8 DEF t, l
  <2> QED BY <2>4, <2>5
<1> QED BY <1>1, <1>2, <1>3, <1>4 DEF N

\* A branch put behind a tree is its last one.
LEMMA BranchBehind ==
    ASSUME NEW V, NEW u \in Forests(V), NEW b \in Tops(V)
    PROVE  /\ u \o b \in Forests(V)
           /\ BaseBranches(u \o b) = Append(BaseBranches(u), b)
<1> DEFINE N == Filters(V)
           x == BaseBranches(u)
           Good(s) == s \in Tops(V) => u \o s \in Forests(V) /\ BaseBranches(u \o s) = Append(x, s)
           S == {s \in Seq(N) : Good(s)}
<1>1. u \in Seq(N) /\ \A n \in N : n.depth \in Nat BY TopIs
<1>2. x \in Seq(Tops(V)) BY BaseBranchesAre
<1> HIDE DEF x
<1>3. <<>> \in S
  <2>1. <<>> \notin Tops(V) BY DEF Tops, Branches, IsBranch
  <2> QED BY <2>1
<1>4. ASSUME NEW s \in S \cap Seq(N), NEW n \in N PROVE Append(s, n) \in S
  <2>0. Append(s, n) \in Seq(N) BY AppendElements
  <2> SUFFICES ASSUME Append(s, n) \in Tops(V) PROVE Good(Append(s, n)) BY <2>0
  <2>1. IF s = <<>> THEN n.depth = 0
        ELSE s \in Tops(V) /\ n.depth > 0 /\ n.depth <= s[Len(s)].depth + 1
    BY TopIs
  <2>2. CASE s = <<>>
    <3>1. n.depth = 0 BY <2>1, <2>2
    <3>2. Append(s, n) = <<n>> /\ u \o <<n>> = Append(u, n) BY <2>2, <1>1
    <3>3. Append(u, n) \in Forests(V)
      <4>1. LastDepth(u) \in Nat
        <5>1. CASE u = <<>> BY <5>1 DEF LastDepth
        <5>2. CASE u # <<>>
          <6>1. Len(u) \in 1..Len(u) BY <5>2, <1>1
          <6>2. u[Len(u)].depth \in Nat BY <6>1, <1>1
          <6> QED BY <6>2, <5>2 DEF LastDepth
        <5> QED BY <5>1, <5>2
      <4> DEFINE k == IF u = <<>> THEN 0 ELSE 1
      <4>2. k \in Nat OBVIOUS
      <4>3. IsForest(Append(u, n)) <=> IsForest(u) /\ n.depth <= LastDepth(u) + k
        BY <1>1, ForestGrows
      <4> HIDE DEF k
      <4>4. n.depth <= LastDepth(u) + k BY <4>1, <4>2, <3>1
      <4>5. IsForest(u) BY DEF Forests
      <4> QED BY <4>3, <4>4, <4>5, <1>1, AppendElements DEF Forests, Filters
    <3>4. BaseBranches(Append(u, n)) = Append(x, <<n>>) BY <3>1, <3>3, NewBase DEF x
    <3> QED BY <3>2, <3>3, <3>4
  <2>3. CASE s # <<>>
    <3>1. s \in Tops(V) /\ n.depth > 0 /\ n.depth <= s[Len(s)].depth + 1 BY <2>1, <2>3
    <3> DEFINE w == u \o s
    <3>2. w \in Forests(V) /\ BaseBranches(w) = Append(x, s) BY <3>1
    <3>3. u \o Append(s, n) = Append(w, n) BY <1>1, ConcatAppend
    <3>4. w # <<>> /\ LastDepth(w) = s[Len(s)].depth
      <4>1. w \in Seq(N) /\ Len(w) = Len(u) + Len(s) /\ Len(u) \in Nat /\ Len(s) \in Nat \ {0}
            /\ \A i \in 1..Len(s) : w[Len(u) + i] = s[i]
        BY <1>1, <2>3, ConcatElements
      <4> HIDE DEF w
      <4>2. Len(s) \in 1..Len(s) /\ Len(w) # 0 BY <4>1
      <4>3. w # <<>> BY <4>2
      <4> QED BY <4>1, <4>2, <4>3 DEF LastDepth
    <3> HIDE DEF w
    <3>5. Append(w, n) \in Forests(V)
      <4>1. w \in Seq(N) /\ IsForest(w) BY <3>2 DEF Forests, Filters
      <4>2. (IF w = <<>> THEN 0 ELSE 1) = 1 BY <3>4
      <4> DEFINE k == IF w = <<>> THEN 0 ELSE 1
      <4>3. /\ Append(w, n) \in Seq(N)
            /\ IsForest(Append(w, n)) <=> IsForest(w) /\ n.depth <= LastDepth(w) + k
        BY <4>1, ForestGrows
      <4>4. k = 1 BY <4>2
      <4> HIDE DEF k
      <4>5. IsForest(Append(w, n)) BY <4>1, <4>3, <4>4, <3>1, <3>4
      <4> QED BY <4>3, <4>5 DEF Forests, Filters
    <3>6. PICK f \in Seq(Tops(V)), c \in Tops(V) :
             /\ BaseBranches(w) = Append(f, c) /\ Append(c, n) \in Tops(V)
             /\ BaseBranches(Append(w, n)) = Append(f, Append(c, n))
      <4>1. w \in Forests(V) /\ n \in Filters(V) /\ n.depth > 0 BY <3>1, <3>2
      <4>2. LastGrew(V, BaseBranches(w), BaseBranches(Append(w, n)), n)
        BY <4>1, <3>5, NewBelow
      <4> QED BY <4>2 DEF LastGrew
    <3>7. f = x /\ c = s
      <4>1. Append(x, s) = Append(f, c) BY <3>2, <3>6
      <4> QED BY <1>2, <3>1, <4>1, SameLast
    <3> QED BY <3>3, <3>5, <3>6, <3>7
  <2> QED BY <2>2, <2>3
<1>5. Seq(N) \subseteq S
  <2> HIDE DEF S, N
  <2> QED BY <1>3, <1>4, AllSequences
<1>6. b \in Seq(N) BY TopIs
<1> QED BY <1>5, <1>6 DEF x

\* It does not matter which of three sequences are joined first.
LEMMA ConcatTwice ==
    ASSUME NEW T, NEW a \in Seq(T), NEW b \in Seq(T), NEW c \in Seq(T)
    PROVE  (a \o b) \o c = a \o (b \o c)
<1> DEFINE Good == {s \in Seq(T) : (a \o b) \o s = a \o (b \o s)}
<1>1. <<>> \in Good OBVIOUS
<1>2. ASSUME NEW s \in Good \cap Seq(T), NEW x \in T PROVE Append(s, x) \in Good
  <2>1. a \o b \in Seq(T) /\ b \o s \in Seq(T) /\ Append(s, x) \in Seq(T) OBVIOUS
  <2>2. (a \o b) \o Append(s, x) = Append((a \o b) \o s, x) BY <2>1, ConcatAppend
  <2>3. b \o Append(s, x) = Append(b \o s, x) BY <2>1, ConcatAppend
  <2>4. a \o Append(b \o s, x) = Append(a \o (b \o s), x) BY <2>1, ConcatAppend
  <2>5. (a \o b) \o s = a \o (b \o s) OBVIOUS
  <2> QED BY <2>1, <2>2, <2>3, <2>4, <2>5
<1> HIDE DEF Good
<1>3. Seq(T) \subseteq Good BY <1>1, <1>2, AllSequences
<1> QED BY <1>3 DEF Good

\* The first of several sequences can be joined last.
LEMMA FlattenFirst ==
    ASSUME NEW T, NEW b \in Seq(T), NEW bs \in Seq(Seq(T))
    PROVE  FlattenSeq(<<b>> \o bs) = b \o FlattenSeq(bs)
<1> DEFINE E == Seq(T)
           Good == {s \in Seq(E) : FlattenSeq(<<b>> \o s) = b \o FlattenSeq(s)}
<1>0. FlattenSeq(<<>>) = <<>> /\ <<>> \in Seq(E) BY FlattenIs
<1>1. <<>> \in Good
  <2>1. FlattenSeq(Append(<<>>, b)) = FlattenSeq(<<>>) \o b BY <1>0, FlattenIs
  <2>2. Append(<<>>, b) = <<b>> /\ <<b>> \o <<>> = <<b>>
    <3> DEFINE p == <<b>>
    <3>1. p \in Seq(E) /\ Append(<<>>, b) = p OBVIOUS
    <3> HIDE DEF p, E
    <3>2. p \o <<>> = p BY <3>1
    <3> QED BY <3>1, <3>2 DEF p
  <2>3. <<>> \o b = b /\ b \o <<>> = b OBVIOUS
  <2> QED BY <2>1, <2>2, <2>3, <1>0
<1>2. ASSUME NEW s \in Good \cap Seq(E), NEW x \in E PROVE Append(s, x) \in Good
  <2> DEFINE p == <<b>>
  <2>1. p \in Seq(E) OBVIOUS
  <2> HIDE DEF p
  <2>0. s \in Seq(E) /\ x \in E OBVIOUS
  <2>2. p \o s \in Seq(E) /\ Append(s, x) \in Seq(E)
    <3> HIDE DEF E
    <3>1. p \o s \in Seq(E) BY ONLY <2>0, <2>1, ConcatElements
    <3>2. Append(s, x) \in Seq(E) BY ONLY <2>0, AppendElements
    <3> QED BY <3>1, <3>2
  <2>3. p \o Append(s, x) = Append(p \o s, x)
    <3> HIDE DEF E
    <3> QED BY ONLY <2>0, <2>1, ConcatAppend
  <2>4. FlattenSeq(Append(p \o s, x)) = FlattenSeq(p \o s) \o x BY <2>2, FlattenIs
  <2>5. FlattenSeq(Append(s, x)) = FlattenSeq(s) \o x /\ FlattenSeq(s) \in E BY FlattenIs
  <2>6. FlattenSeq(p \o s) = b \o FlattenSeq(s) BY DEF p
  <2>7. (b \o FlattenSeq(s)) \o x = b \o (FlattenSeq(s) \o x) BY <2>5, ConcatTwice
  <2> QED BY <2>2, <2>3, <2>4, <2>5, <2>6, <2>7 DEF p
<1>3. Seq(E) \subseteq Good
  <2> HIDE DEF E, Good
  <2> QED BY <1>0, <1>1, <1>2, AllSequences
<1> QED BY <1>3

\* A tree is its base filters' branches one after another.
LEMMA BranchesMakeTree ==
    ASSUME NEW V, NEW t \in Forests(V)
    PROVE  FlattenSeq(BaseBranches(t)) = t
<1> DEFINE N == Filters(V)
           S == {u \in Forests(V) : FlattenSeq(BaseBranches(u)) = u}
<1>0. Tops(V) \subseteq Seq(N) /\ Forests(V) \subseteq Seq(N) BY TopIs
<1>1. <<>> \in S
  <2>1. <<>> \in Forests(V) BY DEF Forests, IsForest
  <2>2. Bases(<<>>) = {} BY DEF Bases
  <2>3. Len(BaseBranches(<<>>)) = 0 /\ BaseBranches(<<>>) \in Seq(Tops(V))
    BY <2>1, <2>2, BaseBranchesAre, FS_EmptySet
  <2>4. BaseBranches(<<>>) = <<>> BY <2>3
  <2> QED BY <2>1, <2>4, FlattenIs
<1>2. ASSUME NEW u \in S \cap Forests(V), NEW n \in N, Append(u, n) \in Forests(V)
      PROVE  Append(u, n) \in S
  <2>1. u \in Seq(N) /\ n.depth \in Nat BY <1>0, TopIs
  <2>2. FlattenSeq(BaseBranches(u)) = u OBVIOUS
  <2>3. CASE n.depth = 0
    <3> DEFINE x == BaseBranches(u)
               m == <<n>>
    <3>1. BaseBranches(Append(u, n)) = Append(x, m) BY <2>3, <1>2, NewBase
    <3>2. x \in Seq(Tops(V)) BY BaseBranchesAre
    <3>3. x \in Seq(Seq(N)) /\ m \in Seq(N)
      <4> HIDE DEF N, x
      <4> QED BY <3>2, <1>0
    <3> HIDE DEF x, m
    <3>4. FlattenSeq(Append(x, m)) = FlattenSeq(x) \o m BY <3>3, FlattenIs
    <3>5. u \o m = Append(u, n) BY <2>1 DEF m
    <3> QED BY <3>1, <3>4, <3>5, <2>2, <1>2 DEF x
  <2>4. CASE n.depth # 0
    <3>1. n.depth > 0 BY <2>1, <2>4
    <3>2. LastGrew(V, BaseBranches(u), BaseBranches(Append(u, n)), n)
      BY <3>1, <1>2, NewBelow
    <3>3. PICK f \in Seq(Tops(V)), b \in Tops(V) :
              /\ BaseBranches(u) = Append(f, b) /\ Append(b, n) \in Tops(V)
              /\ BaseBranches(Append(u, n)) = Append(f, Append(b, n))
      BY <3>2 DEF LastGrew
    <3>4. f \in Seq(Seq(N)) /\ b \in Seq(N) /\ Append(b, n) \in Seq(N)
      <4> HIDE DEF N
      <4> QED BY <3>3, <1>0
    <3> DEFINE a == FlattenSeq(f)
    <3>5. FlattenSeq(Append(f, b)) = a \o b /\ a \in Seq(N) BY <3>4, FlattenIs
    <3>6. FlattenSeq(Append(f, Append(b, n))) = a \o Append(b, n) BY <3>4, FlattenIs
    <3> HIDE DEF a
    <3>7. a \o Append(b, n) = Append(a \o b, n) BY <3>4, <3>5, ConcatAppend
    <3> QED BY <3>3, <3>5, <3>6, <3>7, <2>2, <1>2
  <2> QED BY <2>3, <2>4
<1>3. Forests(V) \subseteq S
  <2> HIDE DEF S
  <2> QED BY <1>1, <1>2, AllForests
<1> QED BY <1>3

\* And any such branches one after another are a tree with just these.
LEMMA TreeOfBranches ==
    ASSUME NEW V, NEW bs \in Seq(Tops(V))
    PROVE  FlattenSeq(bs) \in Forests(V) /\ BaseBranches(FlattenSeq(bs)) = bs
<1> DEFINE N == Filters(V)
           S == {s \in Seq(Tops(V)) :
                   FlattenSeq(s) \in Forests(V) /\ BaseBranches(FlattenSeq(s)) = s}
<1>0. Tops(V) \subseteq Seq(N) BY TopIs
<1>1. <<>> \in S
  <2>1. <<>> \in Forests(V) BY DEF Forests, IsForest
  <2>2. Bases(<<>>) = {} BY DEF Bases
  <2>3. Len(BaseBranches(<<>>)) = 0 /\ BaseBranches(<<>>) \in Seq(Tops(V))
    BY <2>1, <2>2, BaseBranchesAre, FS_EmptySet
  <2>4. BaseBranches(<<>>) = <<>> BY <2>3
  <2> QED BY <2>1, <2>4, FlattenIs
<1>2. ASSUME NEW s \in S \cap Seq(Tops(V)), NEW b \in Tops(V) PROVE Append(s, b) \in S
  <2> DEFINE u == FlattenSeq(s)
  <2>1. u \in Forests(V) /\ BaseBranches(u) = s OBVIOUS
  <2>2. FlattenSeq(Append(s, b)) = u \o b
    <3>1. s \in Seq(Seq(N)) /\ b \in Seq(N)
      <4> HIDE DEF N
      <4> QED BY <1>0
    <3> QED BY <3>1, FlattenIs
  <2> HIDE DEF u
  <2>3. u \o b \in Forests(V) /\ BaseBranches(u \o b) = Append(BaseBranches(u), b)
    BY <2>1, BranchBehind
  <2>4. Append(s, b) \in Seq(Tops(V)) BY AppendElements
  <2> QED BY <2>1, <2>2, <2>3, <2>4
<1>3. Seq(Tops(V)) \subseteq S
  <2> HIDE DEF S
  <2> QED BY <1>1, <1>2, AllSequences
<1> QED BY <1>3

-----------------------------------------------------------------------------
(* The order in which branches are read.                                    *)

\* The elements of a turned sequence.
LEMMA TurnedIs ==
    ASSUME NEW T, NEW s \in Seq(T)
    PROVE  /\ Turned(s) \in Seq(T) /\ Len(Turned(s)) = Len(s) /\ Len(s) \in Nat
           /\ s # <<>> => Turned(s)[1] = s[1]
           /\ \A i \in 2..Len(s) : Turned(s)[i] = s[(Len(s) + 2) - i]
<1>1. CASE s = <<>>
  <2>1. Turned(s) = s BY <1>1 DEF Turned
  <2>2. Len(s) = 0 /\ 2..Len(s) = {} BY <1>1
  <2> QED BY <1>1, <2>1, <2>2
<1>2. CASE s # <<>>
  <2> DEFINE l == Len(s)
             a == <<Head(s)>>
             r == Tail(s)
             b == Reverse(r)
  <2>1. l \in Nat \ {0} /\ \A i \in 1..l : s[i] \in T BY <1>2, SeqElements
  <2>2. a \in Seq(T) /\ Len(a) = 1 /\ a[1] = s[1] BY <1>2, <2>1
  <2>3. r \in Seq(T) /\ Len(r) = l - 1 /\ \A i \in 1..(l-1) : r[i] = s[i+1] BY <1>2, <2>1
  <2> HIDE DEF a, r, l
  <2>4. /\ b \in Seq(T) /\ Len(b) = l - 1
        /\ \A i \in 1..(l-1) : b[i] = s[(l + 1) - i]
    <3>1. b = [i \in 1..Len(r) |-> r[(Len(r) - i) + 1]] BY DEF Reverse
    <3>2. \A i \in 1..Len(r) : (Len(r) - i) + 1 \in 1..(l-1) /\ ((Len(r) - i) + 1) + 1 = (l + 1) - i
      BY <2>1, <2>3
    <3>3. \A i \in 1..Len(r) : r[(Len(r) - i) + 1] \in T /\ r[(Len(r) - i) + 1] = s[(l + 1) - i]
      <4>1. \A k \in 1..(l-1) : r[k] \in T BY <2>3
      <4> QED BY <4>1, <3>2, <2>3
    <3>4. l - 1 \in Nat BY <2>1
    <3> HIDE DEF b
    <3>5. \A i \in 1..(l-1) : b[i] = s[(l + 1) - i] /\ b[i] \in T BY <3>1, <3>3, <2>3
    <3>6. b = [i \in 1..(l-1) |-> b[i]] BY <3>1, <2>3
    <3>7. b \in Seq(T) /\ Len(b) = l - 1 BY <3>4, <3>5, <3>6
    <3> QED BY <3>5, <3>7
  <2> HIDE DEF b
  <2>5. Turned(s) = a \o b BY <1>2 DEF Turned, a, b, r
  <2>6. /\ a \o b \in Seq(T) /\ Len(a \o b) = Len(a) + Len(b)
        /\ \A i \in 1..Len(a) : (a \o b)[i] = a[i]
        /\ \A i \in 1..Len(b) : (a \o b)[Len(a) + i] = b[i]
    <3>1. a \in Seq(T) /\ b \in Seq(T) BY <2>2, <2>4
    <3> QED BY <3>1, ConcatElements
  <2>7. Len(a \o b) = l BY <2>1, <2>2, <2>4, <2>6
  <2>8. (a \o b)[1] = s[1] BY <2>2, <2>6
  <2>9. \A i \in 2..l : (a \o b)[i] = s[(l + 2) - i]
    <3> SUFFICES ASSUME NEW i \in 2..l PROVE (a \o b)[i] = s[(l + 2) - i] OBVIOUS
    <3> DEFINE k == i - 1
    <3>1. k \in 1..(l-1) /\ 1 + k = i /\ (l + 1) - k = (l + 2) - i BY <2>1
    <3> HIDE DEF k
    <3>2. (a \o b)[1 + k] = b[k] BY <3>1, <2>2, <2>4, <2>6
    <3> QED BY <3>1, <3>2, <2>4
  <2> QED BY <2>1, <2>5, <2>6, <2>7, <2>8, <2>9 DEF l
<1> QED BY <1>1, <1>2

\* What was read in one order is read back in the other.
LEMMA TurnedBack ==
    ASSUME NEW T, NEW s \in Seq(T)
    PROVE  Turned(Turned(s)) = s
<1> DEFINE r == Turned(s)
           q == Turned(r)
           l == Len(s)
<1>1. /\ r \in Seq(T) /\ Len(r) = l /\ l \in Nat
      /\ s # <<>> => r[1] = s[1]
      /\ \A i \in 2..l : r[i] = s[(l + 2) - i]
  BY TurnedIs
<1> HIDE DEF r
<1>2. /\ q \in Seq(T) /\ Len(q) = l
      /\ r # <<>> => q[1] = r[1]
      /\ \A i \in 2..l : q[i] = r[(l + 2) - i]
  BY <1>1, TurnedIs
<1> HIDE DEF q
<1>3. ASSUME NEW i \in 1..Len(q) PROVE q[i] = s[i]
  <2>1. i \in 1..l /\ s # <<>> /\ r # <<>> BY <1>1, <1>2
  <2>2. CASE i = 1 BY <2>1, <2>2, <1>1, <1>2
  <2>3. CASE i # 1
    <3> DEFINE k == (l + 2) - i
    <3>1. i \in 2..l /\ k \in 2..l /\ (l + 2) - k = i BY <2>1, <2>3, <1>1
    <3>2. q[i] = r[k] BY <3>1, <1>2
    <3> HIDE DEF k
    <3>3. r[k] = s[(l + 2) - k] BY <3>1, <1>1
    <3> QED BY <3>1, <3>2, <3>3
  <2> QED BY <2>2, <2>3
<1>4. q = s BY <1>1, <1>2, <1>3, SameSequence
<1> QED BY <1>4 DEF q, r

\* The elements of a sequence into which one was put.
LEMMA InsertAtIs ==
    ASSUME NEW T, NEW s \in Seq(T), NEW i \in 1..(Len(s) + 1), NEW x \in T
    PROVE  /\ InsertAt(s, i, x) \in Seq(T) /\ Len(InsertAt(s, i, x)) = Len(s) + 1
           /\ InsertAt(s, i, x)[i] = x
           /\ \A k \in 1..(i-1) : InsertAt(s, i, x)[k] = s[k]
           /\ \A k \in i..Len(s) : InsertAt(s, i, x)[k + 1] = s[k]
<1> DEFINE p == i - 1
           m == <<x>>
           r == InsertAfter(s, p, m)
<1>1. p \in 0..Len(s) /\ p + 1 = i /\ Len(s) \in Nat OBVIOUS
<1>2. m \in Seq(T) /\ Len(m) = 1 /\ m[1] = x OBVIOUS
<1>3. InsertAt(s, i, x) = r BY <1>1 DEF InsertAt, InsertAfter
<1> HIDE DEF p, m, r
<1>4. r \in Seq(T) /\ Spliced(r, s, p, m) BY <1>1, <1>2, InsertAfterElements DEF r
<1>5. /\ Len(r) = Len(s) + 1
      /\ \A k \in 1..p : r[k] = s[k]
      /\ \A k \in 1..1 : r[p + k] = m[k]
      /\ \A k \in (p+1)..Len(s) : r[1 + k] = s[k]
  BY <1>2, <1>4 DEF Spliced
<1>6. r[i] = x BY <1>1, <1>2, <1>5
<1>7. \A k \in i..Len(s) : r[k + 1] = s[k]
  <2>1. \A k \in i..Len(s) : k \in (p+1)..Len(s) /\ 1 + k = k + 1 BY <1>1
  <2> QED BY <2>1, <1>5
<1> QED BY <1>3, <1>4, <1>5, <1>6, <1>7 DEF p

\* A branch more is read behind the first.
LEMMA TurnedMore ==
    ASSUME NEW T, NEW s \in Seq(T), NEW x \in T
    PROVE  Turned(Append(s, x)) = InsertAt(Turned(s), IF s = <<>> THEN 1 ELSE 2, x)
<1> DEFINE l == Len(s)
           t == Append(s, x)
           a == Turned(t)
           b == Turned(s)
           at == IF s = <<>> THEN 1 ELSE 2
           c == InsertAt(b, at, x)
<1>1. /\ t \in Seq(T) /\ Len(t) = l + 1 /\ l \in Nat
      /\ t[l + 1] = x /\ \A i \in 1..l : t[i] = s[i]
  BY AppendElements
<1>2. /\ b \in Seq(T) /\ Len(b) = l
      /\ s # <<>> => b[1] = s[1]
      /\ \A i \in 2..l : b[i] = s[(l + 2) - i]
  BY TurnedIs
<1>3. t # <<>> BY <1>1
<1> HIDE DEF t, b
<1>4. /\ a \in Seq(T) /\ Len(a) = l + 1 /\ a[1] = t[1]
      /\ \A i \in 2..(l+1) : a[i] = t[((l+1) + 2) - i]
  BY <1>1, <1>3, TurnedIs
<1> HIDE DEF a
<1>5. (s = <<>>) <=> l = 0 OBVIOUS
<1>6. at = (IF l = 0 THEN 1 ELSE 2) BY <1>5
<1> HIDE DEF at
<1>7. at \in 1..(Len(b) + 1) BY <1>1, <1>2, <1>6
<1>8. /\ c \in Seq(T) /\ Len(c) = l + 1 /\ c[at] = x
      /\ \A k \in 1..(at-1) : c[k] = b[k]
      /\ \A k \in at..l : c[k + 1] = b[k]
  BY <1>2, <1>7, InsertAtIs
<1> HIDE DEF c, l
<1>9. ASSUME NEW i \in 1..Len(a) PROVE a[i] = c[i]
  <2>1. CASE l = 0
    <3>1. i = 1 /\ at = 1 /\ l + 1 = 1 BY <2>1, <1>4, <1>6
    <3> QED BY <3>1, <1>1, <1>4, <1>8
  <2>2. CASE l # 0 /\ i = 1
    <3>1. at = 2 /\ 1 \in 1..(at-1) /\ 1 \in 1..l BY <2>2, <1>1, <1>6
    <3>2. s # <<>> BY <2>2, <1>5
    <3> QED BY <2>2, <3>1, <3>2, <1>1, <1>2, <1>4, <1>8
  <2>3. CASE l # 0 /\ i = 2
    <3>1. at = 2 /\ 2 \in 2..(l+1) /\ ((l+1) + 2) - 2 = l + 1 BY <2>3, <1>1, <1>6
    <3> QED BY <2>3, <3>1, <1>1, <1>4, <1>8
  <2>4. CASE l # 0 /\ i > 2
    <3> DEFINE k == i - 1
    <3>1. at = 2 BY <2>4, <1>6
    <3>2. k \in at..l /\ k \in 2..l /\ k + 1 = i /\ i \in 2..(l+1)
          /\ (l + 2) - k = ((l+1) + 2) - i /\ (l + 2) - k \in 1..l
      BY <2>4, <3>1, <1>1, <1>4
    <3> HIDE DEF k
    <3>3. c[k + 1] = b[k] /\ b[k] = s[(l + 2) - k] BY <3>2, <1>2, <1>8
    <3>4. a[i] = t[((l+1) + 2) - i] BY <3>2, <1>4
    <3> QED BY <3>2, <3>3, <3>4, <1>1
  <2> QED BY <2>1, <2>2, <2>3, <2>4, <1>1, <1>4
<1>10. a = c BY <1>4, <1>8, <1>9, SameSequence
<1> QED BY <1>10 DEF a, c, t, b, at

\* The branch that is read last is the first or behind it.
LEMMA TurnedLast ==
    ASSUME NEW T, NEW s \in Seq(T), NEW x \in T, NEW y \in T, NEW top, NEW b,
           top = (IF s = <<>> THEN 1 ELSE 2), b = Turned(Append(s, x))
    PROVE  /\ b \in Seq(T) /\ top \in 1..Len(b) /\ Len(b) = Len(s) + 1 /\ b[top] = x
           /\ [b EXCEPT ![top] = y] = Turned(Append(s, y))
<1> DEFINE a == Turned(s)
           c == Turned(Append(s, y))
<1>1. a \in Seq(T) /\ Len(a) = Len(s) /\ Len(s) \in Nat BY TurnedIs
<1>2. b = InsertAt(a, top, x) /\ c = InsertAt(a, top, y) BY TurnedMore
<1>3. top \in 1..(Len(a) + 1)
  <2>1. (s = <<>>) <=> Len(s) = 0 OBVIOUS
  <2> QED BY <2>1, <1>1
<1> HIDE DEF a, c
<1>4. /\ b \in Seq(T) /\ Len(b) = Len(a) + 1 /\ b[top] = x
      /\ \A k \in 1..(top-1) : b[k] = a[k]
      /\ \A k \in top..Len(a) : b[k + 1] = a[k]
  <2> DEFINE p == InsertAt(a, top, x)
  <2>1. a \in Seq(T) /\ top \in 1..(Len(a) + 1) /\ x \in T BY <1>1, <1>3
  <2>2. /\ p \in Seq(T) /\ Len(p) = Len(a) + 1 /\ p[top] = x
        /\ \A k \in 1..(top-1) : p[k] = a[k]
        /\ \A k \in top..Len(a) : p[k + 1] = a[k]
    BY ONLY <2>1, InsertAtIs
  <2>3. b = p BY <1>2
  <2> HIDE DEF p
  <2> QED BY <2>2, <2>3
<1>5. /\ c \in Seq(T) /\ Len(c) = Len(a) + 1 /\ c[top] = y
      /\ \A k \in 1..(top-1) : c[k] = a[k]
      /\ \A k \in top..Len(a) : c[k + 1] = a[k]
  <2> DEFINE p == InsertAt(a, top, y)
  <2>1. a \in Seq(T) /\ top \in 1..(Len(a) + 1) /\ y \in T BY <1>1, <1>3
  <2>2. /\ p \in Seq(T) /\ Len(p) = Len(a) + 1 /\ p[top] = y
        /\ \A k \in 1..(top-1) : p[k] = a[k]
        /\ \A k \in top..Len(a) : p[k + 1] = a[k]
    BY ONLY <2>1, InsertAtIs
  <2>3. c = p BY <1>2
  <2> HIDE DEF p
  <2> QED BY <2>2, <2>3
<1> DEFINE d == [b EXCEPT ![top] = y]
<1>6. /\ d \in Seq(T) /\ Len(d) = Len(b) /\ d[top] = y
      /\ \A k \in 1..Len(b) : k # top => d[k] = b[k]
  BY <1>3, <1>4
<1> HIDE DEF d
<1>7. ASSUME NEW k \in 1..Len(d) PROVE d[k] = c[k]
  <2>1. k \in 1..Len(b) BY <1>6
  <2>2. CASE k = top BY <2>2, <1>5, <1>6
  <2>3. CASE k < top
    <3>1. k \in 1..(top-1) /\ k # top BY <2>1, <2>3, <1>3
    <3> QED BY <2>1, <3>1, <1>4, <1>5, <1>6
  <2>4. CASE k > top
    <3> DEFINE j == k - 1
    <3>1. j \in top..Len(a) /\ j + 1 = k /\ k # top BY <2>1, <2>4, <1>1, <1>3, <1>4
    <3> HIDE DEF j
    <3>2. b[j + 1] = a[j] /\ c[j + 1] = a[j] BY <3>1, <1>4, <1>5
    <3> QED BY <2>1, <3>1, <3>2, <1>6
  <2> QED BY <2>2, <2>3, <2>4, <2>1, <1>3
<1>8. d = c BY <1>4, <1>5, <1>6, <1>7, SameSequence
<1>9. top \in 1..Len(b) BY <1>3, <1>4
<1> QED BY <1>1, <1>4, <1>8, <1>9 DEF d, c

-----------------------------------------------------------------------------
(* What is read of a file that was written.                                 *)

Elements(V) == {Open, Close} \cup {Element(v) : v \in V}

At(branches, top, stack) == [branches |-> branches, lastTop |-> top, stack |-> stack]

\* Which branch was read last.
Top(branches) == IF Len(branches) <= 1 THEN 1 ELSE 2

\* The start or end of children changes the height of the stack only.
LEMMA TagsAreRead ==
    ASSUME NEW b, NEW l, NEW s \in Int
    PROVE  /\ ReadElement(At(b, l, s), Open) = At(b, l, s + 1)
           /\ ReadElement(At(b, l, s), Close) = At(b, l, s - 1)
<1> DEFINE r == At(b, l, s)
<1>1. Open.tag = "children" /\ Close.tag = "/children" BY DEF Open, Close
<1>2. [r EXCEPT !.stack = @ + 1] = At(b, l, s + 1)
      /\ [r EXCEPT !.stack = @ - 1] = At(b, l, s - 1)
  BY DEF At
<1> HIDE DEF r
<1>3. ReadElement(r, Open) = At(b, l, s + 1) BY <1>1, <1>2 DEF ReadElement
<1>4. ReadElement(r, Close) = At(b, l, s - 1) BY <1>1, <1>2 DEF ReadElement
<1> QED BY <1>3, <1>4 DEF r

\* A filter within children goes to the end of the branch that is read.
LEMMA ChildIsRead ==
    ASSUME NEW b, NEW l, NEW s \in Int, s > 0, NEW v
    PROVE  ReadElement(At(b, l, s), Element(v)) =
              At([b EXCEPT ![l] = Append(@, [depth |-> s, val |-> v])], l, s)
<1> DEFINE r == At(b, l, s)
<1>1. Element(v).tag = "filter" /\ Element(v).val = v BY DEF Element
<1>2. r.branches = b /\ r.lastTop = l /\ r.stack = s BY DEF At
<1>3. ASSUME NEW x PROVE [r EXCEPT !.branches = x] = At(x, l, s)
  BY DEF At
<1> HIDE DEF r
<1> DEFINE x == [b EXCEPT ![l] = Append(@, [depth |-> s, val |-> v])]
<1>4. ReadElement(r, Element(v)) =
         [r EXCEPT !.branches[r.lastTop] = Append(@, [depth |-> r.stack, val |-> v])]
  BY <1>1, <1>2 DEF ReadElement
<1>5. [r EXCEPT !.branches[r.lastTop] = Append(@, [depth |-> r.stack, val |-> v])]
      = [r EXCEPT !.branches = x]
  BY <1>2
<1> HIDE DEF x
<1>6. ReadElement(r, Element(v)) = At(x, l, s) BY <1>3, <1>4, <1>5
<1> QED BY <1>6 DEF r, x

\* A filter outside of all children starts a branch.
LEMMA BaseIsRead ==
    ASSUME NEW b, NEW l, NEW v, NEW at, at = (IF Len(b) = 1 THEN 2 ELSE l)
    PROVE  ReadElement(At(b, l, 0), Element(v)) = At(InsertAt(b, at, NewNode(v)), at, 0)
<1> DEFINE r == At(b, l, 0)
           x == InsertAt(b, at, NewNode(v))
           q == [r EXCEPT !.branches = x, !.lastTop = at]
           z == At(x, at, 0)
<1>1. Element(v).tag = "filter" /\ Element(v).val = v BY DEF Element
<1>2. r.branches = b /\ r.lastTop = l /\ r.stack = 0 BY DEF At
<1> HIDE DEF x
<1>3. q = z
  <2> DEFINE D == {"branches", "lastTop", "stack"}
  <2>1. q = [f \in D |-> q[f]] /\ z = [f \in D |-> z[f]] BY DEF At
  <2>2. q["branches"] = x  /\ q["lastTop"] = at /\ q["stack"] = 0 BY DEF At
  <2>3. z["branches"] = x  /\ z["lastTop"] = at /\ z["stack"] = 0 BY DEF At
  <2> HIDE DEF q, z
  <2>4. \A f \in D : q[f] = z[f] BY <2>2, <2>3
  <2> QED BY <2>1, <2>4
<1> HIDE DEF r, z
<1>4. ReadElement(r, Element(v)) =
         [r EXCEPT !.branches = InsertAt(r.branches, at, NewNode(v)), !.lastTop = at]
  BY <1>1, <1>2 DEF ReadElement
<1>5. InsertAt(r.branches, at, NewNode(v)) = x BY <1>2 DEF x
<1>6. ReadElement(r, Element(v)) = q BY <1>4, <1>5
<1> QED BY <1>3, <1>6 DEF r, z, x

\* An element repeated once more.
LEMMA TimesMore ==
    ASSUME NEW T, NEW x \in T, NEW n \in Nat
    PROVE  /\ Times(n, x) \in Seq(T) /\ Times(0, x) = <<>>
           /\ Times(n + 1, x) = Append(Times(n, x), x)
<1> DEFINE a == Times(n, x)
           b == Times(n + 1, x)
<1>1. a \in Seq(T) /\ Len(a) = n /\ \A i \in 1..n : a[i] = x BY DEF Times
<1>2. b \in Seq(T) /\ Len(b) = n + 1 /\ \A i \in 1..(n+1) : b[i] = x BY DEF Times
<1> HIDE DEF a, b
<1>3. /\ Append(a, x) \in Seq(T) /\ Len(Append(a, x)) = n + 1
      /\ Append(a, x)[n + 1] = x /\ \A i \in 1..n : Append(a, x)[i] = a[i]
  BY <1>1, AppendElements
<1>4. \A i \in 1..Len(b) : b[i] = Append(a, x)[i]
  <2>1. \A i \in 1..(n+1) : i = n + 1 \/ i \in 1..n OBVIOUS
  <2> QED BY <2>1, <1>1, <1>2, <1>3
<1>5. b = Append(a, x) BY <1>2, <1>3, <1>4, SameSequence
<1>6. Times(0, x) = <<>> BY DEF Times
<1> QED BY <1>1, <1>5, <1>6 DEF a, b

\* What is read of as many starts or ends of children.
LEMMA TimesRead ==
    ASSUME NEW V, NEW f \in Seq(Elements(V)), NEW b, NEW l, NEW s \in Int,
           Read(f) = At(b, l, s), NEW n \in Nat
    PROVE  /\ f \o Times(n, Open) \in Seq(Elements(V))
           /\ f \o Times(n, Close) \in Seq(Elements(V))
           /\ Read(f \o Times(n, Open)) = At(b, l, s + n)
           /\ Read(f \o Times(n, Close)) = At(b, l, s - n)
<1> DEFINE E == Elements(V)
           Good(x, k, m) == f \o Times(k, x) \in Seq(E) /\ Read(f \o Times(k, x)) = At(b, l, m)
           S == {k \in Nat : Good(Open, k, s + k) /\ Good(Close, k, s - k)}
<1>1. Open \in E /\ Close \in E BY DEF Elements
<1> HIDE DEF E
<1>2. 0 \in S
  <2>1. Times(0, Open) = <<>> /\ Times(0, Close) = <<>> BY <1>1, TimesMore
  <2>2. f \o <<>> = f /\ s + 0 = s /\ s - 0 = s OBVIOUS
  <2>3. f \in Seq(E) BY DEF E
  <2> QED BY <2>1, <2>2, <2>3
<1>3. ASSUME NEW k \in S \cap Nat PROVE k + 1 \in S
  <2>0. f \in Seq(E) BY DEF E
  <2>1. ASSUME NEW x \in E, NEW m, Good(x, k, m)
        PROVE  /\ f \o Times(k + 1, x) \in Seq(E)
               /\ Read(f \o Times(k + 1, x)) = ReadElement(At(b, l, m), x)
    <3> DEFINE g == f \o Times(k, x)
    <3>1. Times(k, x) \in Seq(E) /\ Times(k + 1, x) = Append(Times(k, x), x) BY TimesMore
    <3> DEFINE w == Times(k, x)
    <3> HIDE DEF w
    <3>6. w \in Seq(E) /\ f \in Seq(E) /\ x \in E BY <2>0, <3>1 DEF w
    <3>7. f \o Append(w, x) = Append(f \o w, x) BY ONLY <3>6, ConcatAppend
    <3>2. f \o Times(k + 1, x) = Append(g, x) BY <3>1, <3>7 DEF w
    <3>3. g \in Seq(E) /\ Read(g) = At(b, l, m) BY <2>1
    <3> HIDE DEF g
    <3>4. Append(g, x) \in Seq(E) BY <3>3, AppendElements
    <3>5. Read(Append(g, x)) = ReadElement(Read(g), x) BY <3>3, ReadIs
    <3> QED BY <3>2, <3>3, <3>4, <3>5
  <2>2. Good(Open, k, s + k) /\ Good(Close, k, s - k) OBVIOUS
  <2> HIDE DEF Good
  <2>3. /\ f \o Times(k + 1, Open) \in Seq(E)
        /\ Read(f \o Times(k + 1, Open)) = ReadElement(At(b, l, s + k), Open)
    BY <2>1, <2>2, <1>1
  <2>4. /\ f \o Times(k + 1, Close) \in Seq(E)
        /\ Read(f \o Times(k + 1, Close)) = ReadElement(At(b, l, s - k), Close)
    BY <2>1, <2>2, <1>1
  <2>5. s + k \in Int /\ s - k \in Int /\ (s + k) + 1 = s + (k + 1) /\ (s - k) - 1 = s - (k + 1)
        /\ k + 1 \in Nat
    OBVIOUS
  <2>6. ReadElement(At(b, l, s + k), Open) = At(b, l, s + (k + 1))
    <3> DEFINE m == s + k
    <3>1. m \in Int /\ m + 1 = s + (k + 1) BY <2>5
    <3> HIDE DEF m
    <3>2. ReadElement(At(b, l, m), Open) = At(b, l, m + 1) BY <3>1, TagsAreRead
    <3> QED BY <3>1, <3>2 DEF m
  <2>7. ReadElement(At(b, l, s - k), Close) = At(b, l, s - (k + 1))
    <3> DEFINE m == s - k
    <3>1. m \in Int /\ m - 1 = s - (k + 1) BY <2>5
    <3> HIDE DEF m
    <3>2. ReadElement(At(b, l, m), Close) = At(b, l, m - 1) BY <3>1, TagsAreRead
    <3> QED BY <3>1, <3>2 DEF m
  <2> QED BY <2>3, <2>4, <2>5, <2>6, <2>7 DEF Good
<1>4. Nat \subseteq S
  <2> HIDE DEF S
  <2> QED BY <1>2, <1>3, AllNumbers
<1> QED BY <1>4 DEF E

\* Between two filters the stack reaches the height that the second needs.
LEMMA NestingRead ==
    ASSUME NEW V, NEW f \in Seq(Elements(V)), NEW b, NEW l, NEW from \in Nat,
           Read(f) = At(b, l, from), NEW to \in Nat
    PROVE  /\ Nesting(from, to) \in Seq(Elements(V))
           /\ f \o Nesting(from, to) \in Seq(Elements(V))
           /\ Read(f \o Nesting(from, to)) = At(b, l, to)
<1>1. Open \in Elements(V) /\ Close \in Elements(V) BY DEF Elements
<1>2. from \in Int OBVIOUS
<1>3. ASSUME NEW n \in Nat
      PROVE  /\ f \o Times(n, Open) \in Seq(Elements(V))
             /\ f \o Times(n, Close) \in Seq(Elements(V))
             /\ Read(f \o Times(n, Open)) = At(b, l, from + n)
             /\ Read(f \o Times(n, Close)) = At(b, l, from - n)
             /\ Times(n, Open) \in Seq(Elements(V))
             /\ Times(n, Close) \in Seq(Elements(V))
  <2> DEFINE E == Elements(V)
  <2>0. Open \in E /\ Close \in E /\ f \in Seq(E) BY <1>1
  <2> HIDE DEF E
  <2>4. Times(n, Open) \in Seq(E) /\ Times(n, Close) \in Seq(E) BY <2>0, TimesMore
  <2>5. f \o Times(n, Open) \in Seq(E) /\ f \o Times(n, Close) \in Seq(E)
    BY <2>0, <2>4, ConcatElements
  <2>1. /\ f \o Times(n, Open) \in Seq(Elements(V))
        /\ f \o Times(n, Close) \in Seq(Elements(V))
        /\ Times(n, Open) \in Seq(Elements(V)) /\ Times(n, Close) \in Seq(Elements(V))
    BY <2>4, <2>5 DEF E
  <2>2. Read(f \o Times(n, Open)) = At(b, l, from + n) BY <1>2, TimesRead
  <2>3. Read(f \o Times(n, Close)) = At(b, l, from - n) BY <1>2, TimesRead
  <2> QED BY <2>1, <2>2, <2>3
<1>4. CASE to > from
  <2>1. Nesting(from, to) = Times(to - from, Open) BY <1>4 DEF Nesting
  <2>2. to - from \in Nat /\ from + (to - from) = to BY <1>4
  <2> QED BY <2>1, <2>2, <1>3
<1>5. CASE ~(to > from)
  <2>1. Nesting(from, to) = Times(from - to, Close) BY <1>5 DEF Nesting
  <2>2. from - to \in Nat /\ from - (from - to) = to BY <1>5
  <2> QED BY <2>1, <2>2, <1>3
<1> QED BY <1>4, <1>5

Piece(t, p) == Append(Nesting(DepthBefore(t, p), t[p].depth), Element(t[p].val))

\* A file without the ends of the children of its last filter.
Saved(t) == FlattenSeq([p \in DOMAIN t |-> Piece(t, p)])

\* The depth of the last filter is a number.
LEMMA LastDepthIs ==
    ASSUME NEW V, NEW u \in Seq(Filters(V))
    PROVE  LastDepth(u) \in Nat
<1>1. CASE u = <<>> BY <1>1 DEF LastDepth
<1>2. CASE u # <<>>
  <2>1. Len(u) \in 1..Len(u) /\ u[Len(u)] \in Filters(V) BY <1>2
  <2>2. u[Len(u)].depth \in Nat BY <2>1, TopIs
  <2> QED BY <2>2, <1>2 DEF LastDepth
<1> QED BY <1>1, <1>2

\* One more filter adds its element to the file, behind the levels between.
LEMMA SavedMore ==
    ASSUME NEW V, NEW u \in Forests(V), NEW n \in Filters(V), Append(u, n) \in Forests(V)
    PROVE  Saved(Append(u, n)) =
              Saved(u) \o Append(Nesting(LastDepth(u), n.depth), Element(n.val))
<1> DEFINE N == Filters(V)
           t == Append(u, n)
           l == Len(u)
           E == Elements(V)
           a == [p \in DOMAIN u |-> Piece(u, p)]
           b == [p \in DOMAIN t |-> Piece(t, p)]
           z == Append(Nesting(LastDepth(u), n.depth), Element(n.val))
<1>1. u \in Seq(N) /\ t \in Seq(N) BY TopIs
<1>2. Len(t) = l + 1 /\ l \in Nat /\ t[l+1] = n /\ \A i \in 1..l : t[i] = u[i]
  BY <1>1, AppendElements
<1>3. /\ \A w \in N : w.depth \in Nat /\ w.val \in V
      /\ Open \in E /\ Close \in E /\ \A v \in V : Element(v) \in E
  BY DEF Filters, Elements
<1> HIDE DEF N, t, E
<1>4. ASSUME NEW from \in Nat, NEW w \in N
      PROVE  Append(Nesting(from, w.depth), Element(w.val)) \in Seq(E)
  <2>1. w.depth \in Nat /\ Element(w.val) \in E BY <1>3
  <2>2. Nesting(from, w.depth) \in Seq(E)
    <3> DEFINE to == w.depth
    <3>0. to \in Nat BY <2>1
    <3> HIDE DEF to
    <3>1. CASE to > from
      <4>1. to - from \in Nat BY <3>0, <3>1
      <4> QED BY <3>1, <4>1, <1>3, TimesMore DEF Nesting, to
    <3>2. CASE ~(to > from)
      <4>1. from - to \in Nat BY <3>0, <3>2
      <4> QED BY <3>2, <4>1, <1>3, TimesMore DEF Nesting, to
    <3> QED BY <3>1, <3>2
  <2> QED BY <2>1, <2>2, AppendElements
<1>5. ASSUME NEW s \in Seq(N), NEW p \in 1..Len(s) PROVE DepthBefore(s, p) \in Nat
  <2>1. CASE p = 1 BY <2>1 DEF DepthBefore
  <2>2. CASE p # 1
    <3>1. p - 1 \in 1..Len(s) BY <2>2
    <3>2. s[p-1] \in N BY <3>1
    <3> QED BY <2>2, <3>2, <1>3 DEF DepthBefore
  <2> QED BY <2>1, <2>2
<1>6. ASSUME NEW s \in Seq(N), NEW p \in 1..Len(s) PROVE Piece(s, p) \in Seq(E)
  <2>1. s[p] \in N OBVIOUS
  <2> QED BY <2>1, <1>4, <1>5 DEF Piece
<1>7. a \in Seq(Seq(E)) /\ Len(a) = l /\ \A p \in 1..l : a[p] = Piece(u, p)
  <2>1. DOMAIN u = 1..l BY <1>1
  <2>2. \A p \in 1..l : Piece(u, p) \in Seq(E) BY <1>1, <1>6
  <2> QED BY <2>1, <2>2, <1>2
<1>8. b \in Seq(Seq(E)) /\ Len(b) = l + 1 /\ \A p \in 1..(l+1) : b[p] = Piece(t, p)
  <2>1. DOMAIN t = 1..(l+1) BY <1>1, <1>2
  <2>2. \A p \in 1..(l+1) : Piece(t, p) \in Seq(E) BY <1>1, <1>2, <1>6
  <2>3. l + 1 \in Nat BY <1>2
  <2> QED BY <2>1, <2>2, <2>3
<1> HIDE DEF a, b
<1>9. \A p \in 1..l : Piece(t, p) = Piece(u, p)
  <2> SUFFICES ASSUME NEW p \in 1..l PROVE Piece(t, p) = Piece(u, p) OBVIOUS
  <2>1. t[p] = u[p] BY <1>2
  <2>2. p # 1 => t[p-1] = u[p-1]
    <3>1. p # 1 => p - 1 \in 1..l BY <1>2
    <3> QED BY <3>1, <1>2
  <2>3. DepthBefore(t, p) = DepthBefore(u, p) BY <2>2 DEF DepthBefore
  <2> QED BY <2>1, <2>3 DEF Piece
<1>10. Piece(t, l + 1) = z
  <2>1. DepthBefore(t, l + 1) = LastDepth(u)
    <3>1. CASE l = 0
      <4>1. u = <<>> BY <3>1, <1>1
      <4> QED BY <3>1, <4>1 DEF DepthBefore, LastDepth
    <3>2. CASE l # 0
      <4>1. u # <<>> /\ l + 1 # 1 /\ (l + 1) - 1 = l /\ l \in 1..l BY <3>2, <1>1, <1>2
      <4>2. DepthBefore(t, l + 1) = t[l].depth BY <4>1 DEF DepthBefore
      <4>3. LastDepth(u) = u[l].depth BY <4>1 DEF LastDepth
      <4> QED BY <4>1, <4>2, <4>3, <1>2
    <3> QED BY <3>1, <3>2
  <2> QED BY <2>1, <1>2 DEF Piece
<1>11. z \in Seq(E)
  <2>1. l + 1 \in 1..Len(t) BY <1>2
  <2> QED BY <2>1, <1>1, <1>6, <1>10
<1> HIDE DEF z, l
<1>12. b = Append(a, z)
  <2>1. /\ Append(a, z) \in Seq(Seq(E)) /\ Len(Append(a, z)) = l + 1
        /\ Append(a, z)[l + 1] = z /\ \A i \in 1..l : Append(a, z)[i] = a[i]
    BY <1>7, <1>11, AppendElements
  <2>2. \A i \in 1..Len(b) : b[i] = Append(a, z)[i]
    <3>1. \A i \in 1..(l+1) : i = l + 1 \/ i \in 1..l BY <1>2
    <3>2. b[l + 1] = z
      <4>1. l + 1 \in 1..(l+1) BY <1>2
      <4> QED BY <4>1, <1>8, <1>10
    <3>3. \A i \in 1..l : b[i] = a[i]
      <4>1. \A i \in 1..l : i \in 1..(l+1) BY <1>2
      <4> QED BY <4>1, <1>7, <1>8, <1>9
    <3> QED BY <3>1, <3>2, <3>3, <2>1, <1>8
  <2> QED BY <2>1, <2>2, <1>8, SameSequence
<1>13. FlattenSeq(Append(a, z)) = FlattenSeq(a) \o z BY <1>7, <1>11, FlattenIs
<1> QED BY <1>12, <1>13 DEF Saved, a, b, z, t

\* The base filters of a branch put in an empty tree.
LEMMA NoBranches ==
    /\ BaseBranches(<<>>) = <<>> /\ Turned(<<>>) = <<>> /\ Top(<<>>) = 1
    /\ LastDepth(<<>>) = 0 /\ Saved(<<>>) = <<>>
<1>1. Bases(<<>>) = {} BY DEF Bases
<1>2. Cardinality({}) = 0 BY FS_EmptySet
<1>3. BaseBranches(<<>>) = <<>>
  <2> DEFINE none == BaseBranches(<<>>)
  <2>1. <<>> \in Forests({}) BY DEF Forests, IsForest
  <2>2. none \in Seq(Tops({})) /\ Len(none) = 0 BY <2>1, <1>1, <1>2, BaseBranchesAre
  <2> HIDE DEF none
  <2>3. none = <<>> BY <2>2
  <2> QED BY <2>3 DEF none
<1>4. Turned(<<>>) = <<>> /\ Top(<<>>) = 1 /\ LastDepth(<<>>) = 0 BY DEF Turned, Top, LastDepth
<1>5. Saved(<<>>) = <<>>
  <2>1. [p \in DOMAIN <<>> |-> Piece(<<>>, p)] = <<>> OBVIOUS
  <2>2. FlattenSeq(<<>>) = <<>> BY FlattenIs
  <2> QED BY <2>1, <2>2 DEF Saved
<1> QED BY <1>3, <1>4, <1>5

\* Where the last branch of a tree is among those read.
LEMMA TopBehind ==
    ASSUME NEW T, NEW s \in Seq(T), NEW x \in T
    PROVE  /\ Top(Append(s, x)) = (IF s = <<>> THEN 1 ELSE 2)
           /\ (IF Len(s) = 1 THEN 2 ELSE Top(s)) = (IF s = <<>> THEN 1 ELSE 2)
<1>1. Len(Append(s, x)) = Len(s) + 1 /\ Len(s) \in Nat BY AppendElements
<1>2. (s = <<>>) <=> Len(s) = 0 OBVIOUS
<1> DEFINE l == Len(s)
<1>3. /\ Top(Append(s, x)) = (IF l + 1 <= 1 THEN 1 ELSE 2)
      /\ Top(s) = (IF l <= 1 THEN 1 ELSE 2)
  BY <1>1 DEF Top
<1>4. l \in Nat BY <1>1
<1> HIDE DEF l
<1>5. /\ Top(Append(s, x)) = (IF l = 0 THEN 1 ELSE 2)
      /\ (IF l = 1 THEN 2 ELSE Top(s)) = (IF l = 0 THEN 1 ELSE 2)
  BY <1>3, <1>4
<1> QED BY <1>2, <1>5 DEF l

ReadOf(u) == At(Turned(BaseBranches(u)), Top(BaseBranches(u)), LastDepth(u))

\* One more filter was saved and is read.
LEMMA ReadMore ==
    ASSUME NEW V, NEW u \in Forests(V), NEW n \in Filters(V), Append(u, n) \in Forests(V),
           NEW g, Read(g) = At(Turned(BaseBranches(u)), Top(BaseBranches(u)), n.depth)
    PROVE  ReadElement(Read(g), Element(n.val)) = ReadOf(Append(u, n))
<1> DEFINE t == Append(u, n)
           x == BaseBranches(u)
           d == n.depth
           e == Element(n.val)
<1>1. /\ u \in Seq(Filters(V)) /\ t \in Seq(Filters(V)) /\ d \in Nat
      /\ n = [depth |-> d, val |-> n.val]
      /\ \A b \in Tops(V) : b \in Seq(Filters(V))
      /\ x \in Seq(Tops(V))
  <2>1. n = [depth |-> n.depth, val |-> n.val] BY DEF Filters
  <2> QED BY <2>1, TopIs, BaseBranchesAre
<1>2. LastDepth(t) = d
  <2>1. Len(t) = Len(u) + 1 /\ t[Len(u) + 1] = n /\ Len(u) \in Nat BY <1>1, AppendElements
  <2>2. t # <<>> BY <2>1
  <2> QED BY <2>1, <2>2 DEF LastDepth
<1>3. CASE d = 0
  <2> DEFINE b == <<n>>
             at == IF Len(Turned(x)) = 1 THEN 2 ELSE Top(x)
  <2>1. BaseBranches(t) = Append(x, b) BY <1>3, NewBase
  <2>2. NewNode(n.val) = b BY <1>1, <1>3 DEF NewNode
  <2>3. b \in Tops(V)
    <3>1. BaseBranches(t) \in Seq(Tops(V)) BY BaseBranchesAre
    <3>2. Len(Append(x, b)) = Len(x) + 1 /\ Append(x, b)[Len(x) + 1] = b /\ Len(x) \in Nat
      BY <1>1
    <3>3. Len(x) + 1 \in 1..Len(Append(x, b)) BY <3>2
    <3> HIDE DEF x, t, b
    <3> QED BY <2>1, <3>1, <3>2, <3>3
  <2> HIDE DEF b, x
  <2>4. /\ at = (IF x = <<>> THEN 1 ELSE 2) /\ Top(Append(x, b)) = at
        /\ Turned(Append(x, b)) = InsertAt(Turned(x), at, b)
    <3>1. Len(Turned(x)) = Len(x) BY <1>1, TurnedIs
    <3>2. at = (IF x = <<>> THEN 1 ELSE 2) /\ Top(Append(x, b)) = at
      BY <3>1, <1>1, <2>3, TopBehind
    <3>3. Turned(Append(x, b)) = InsertAt(Turned(x), IF x = <<>> THEN 1 ELSE 2, b)
      BY <1>1, <2>3, TurnedMore
    <3> HIDE DEF at
    <3> QED BY <3>2, <3>3
  <2>5. ReadElement(At(Turned(x), Top(x), 0), e) = At(InsertAt(Turned(x), at, NewNode(n.val)), at, 0)
    <3> DEFINE z == Turned(x)
               l == Top(x)
               v == n.val
    <3>2. at = (IF Len(z) = 1 THEN 2 ELSE l) OBVIOUS
    <3> HIDE DEF z, l, v, at
    <3>3. ReadElement(At(z, l, 0), Element(v)) = At(InsertAt(z, at, NewNode(v)), at, 0)
      BY <3>2, BaseIsRead
    <3> QED BY <3>3 DEF z, l, v
  <2> HIDE DEF at
  <2> QED BY <1>2, <1>3, <2>1, <2>2, <2>4, <2>5 DEF ReadOf, x
<1>4. CASE d # 0
  <2>1. d > 0 BY <1>1, <1>4
  <2>2. PICK f \in Seq(Tops(V)), b \in Tops(V) :
           /\ x = Append(f, b) /\ Append(b, n) \in Tops(V)
           /\ BaseBranches(t) = Append(f, Append(b, n))
    <3>1. u \in Forests(V) /\ n \in Filters(V) /\ n.depth > 0 /\ Append(u, n) \in Forests(V)
      BY <2>1
    <3>2. LastGrew(V, BaseBranches(u), BaseBranches(Append(u, n)), n) BY <3>1, NewBelow
    <3> QED BY <3>2 DEF LastGrew
  <2> DEFINE y == Append(b, n)
             top == IF f = <<>> THEN 1 ELSE 2
             z == Turned(x)
  <2>3. z = Turned(Append(f, b)) /\ y \in Tops(V) BY <2>2
  <2>4. Top(x) = top /\ Top(Append(f, y)) = top BY <2>2, <2>3, TopBehind
  <2> HIDE DEF x, z, top, y
  <2>5. /\ z[top] = b
        /\ [z EXCEPT ![top] = y] = Turned(Append(f, y))
    <3>1. top = (IF f = <<>> THEN 1 ELSE 2) BY DEF top
    <3>2. f \in Seq(Tops(V)) /\ b \in Tops(V) /\ y \in Tops(V) BY <2>3
    <3> QED BY ONLY <3>1, <3>2, <2>3, TurnedLast
  <2>6. ReadElement(At(z, top, d), e) =
           At([z EXCEPT ![top] = Append(@, [depth |-> d, val |-> n.val])], top, d)
    <3> DEFINE v == n.val
    <3>1. d \in Int /\ d > 0 BY <1>1, <2>1
    <3> HIDE DEF v, d
    <3>2. ReadElement(At(z, top, d), Element(v)) =
             At([z EXCEPT ![top] = Append(@, [depth |-> d, val |-> v])], top, d)
      BY <3>1, ChildIsRead
    <3> QED BY <3>2 DEF v
  <2>7. [z EXCEPT ![top] = Append(@, [depth |-> d, val |-> n.val])] = [z EXCEPT ![top] = y]
    <3>1. Append(z[top], [depth |-> d, val |-> n.val]) = y BY <2>5, <1>1 DEF y
    <3> QED BY <3>1
  <2>8. Read(g) = At(z, top, d) BY <2>4 DEF z, x
  <2>9. ReadOf(t) = At(Turned(Append(f, y)), top, d) BY <2>2, <2>4, <1>2 DEF ReadOf, y
  <2> HIDE DEF t, d, e
  <2>10. ReadElement(Read(g), e) = ReadOf(t) BY <2>5, <2>6, <2>7, <2>8, <2>9
  <2> QED BY <2>10 DEF t, e
<1> QED BY <1>3, <1>4

\* What is read of a tree without the ends of the children of its last filter.
LEMMA ReadSaved ==
    ASSUME NEW V, NEW t \in Forests(V)
    PROVE  Saved(t) \in Seq(Elements(V)) /\ Read(Saved(t)) = ReadOf(t)
<1> DEFINE E == Elements(V)
           S == {u \in Forests(V) : Saved(u) \in Seq(E) /\ Read(Saved(u)) = ReadOf(u)}
<1>1. <<>> \in S
  <2>1. Read(<<>>) = Reader BY ReadIs
  <2>2. ReadOf(<<>>) = Reader BY NoBranches DEF ReadOf, At, Reader
  <2>3. <<>> \in Forests(V) BY DEF Forests, IsForest
  <2>4. <<>> \in Seq(E) OBVIOUS
  <2>5. Saved(<<>>) = <<>> BY NoBranches
  <2> HIDE DEF E
  <2> QED BY <2>1, <2>2, <2>3, <2>4, <2>5
<1>2. ASSUME NEW u \in S \cap Forests(V), NEW n \in Filters(V), Append(u, n) \in Forests(V)
      PROVE  Append(u, n) \in S
  <2> DEFINE f == Saved(u)
             b == Turned(BaseBranches(u))
             l == Top(BaseBranches(u))
             from == LastDepth(u)
             to == n.depth
             g == f \o Nesting(from, to)
             e == Element(n.val)
  <2>1. f \in Seq(E) /\ Read(f) = At(b, l, from) BY DEF ReadOf
  <2>2. to \in Nat /\ from \in Nat /\ e \in E
    <3>1. u \in Seq(Filters(V)) /\ to \in Nat BY TopIs
    <3>2. from \in Nat BY <3>1, LastDepthIs
    <3>3. n.val \in V BY DEF Filters
    <3> QED BY <3>1, <3>2, <3>3 DEF Elements
  <2>3. Nesting(from, to) \in Seq(E) /\ g \in Seq(E) /\ Read(g) = At(b, l, to)
    <3> HIDE DEF f, b, l, from, to
    <3> QED BY <2>1, <2>2, NestingRead
  <2>4. Saved(Append(u, n)) = f \o Append(Nesting(from, to), e) BY <1>2, SavedMore
  <2>5. f \o Append(Nesting(from, to), e) = Append(g, e)
    <3> DEFINE w == Nesting(from, to)
    <3>1. w \in Seq(E) /\ f \in Seq(E) /\ e \in E BY <2>1, <2>2, <2>3
    <3> HIDE DEF w, f, E, e
    <3>2. f \o Append(w, e) = Append(f \o w, e) BY ONLY <3>1, ConcatAppend
    <3> QED BY <3>2 DEF w
  <2>6. ReadElement(Read(g), e) = ReadOf(Append(u, n)) BY <1>2, <2>3, ReadMore
  <2>7. Append(g, e) \in Seq(E) /\ Read(Append(g, e)) = ReadElement(Read(g), e)
    <3> HIDE DEF g, e, E
    <3> QED BY <2>2, <2>3, ReadIs, AppendElements
  <2> HIDE DEF f, g, E, e
  <2> QED BY <1>2, <2>4, <2>5, <2>6, <2>7
<1>3. Forests(V) \subseteq S
  <2> HIDE DEF S
  <2> QED BY <1>1, <1>2, AllForests
<1> QED BY <1>3

\* The branches that are read of the file of a tree.
LEMMA LoadedIs ==
    ASSUME NEW V, NEW t \in Forests(V)
    PROVE  loadXML(saveXML(t)) = FlattenSeq(Turned(BaseBranches(t)))
<1> DEFINE f == Saved(t)
           b == Turned(BaseBranches(t))
           l == Top(BaseBranches(t))
           from == LastDepth(t)
           to == 0
           g == f \o Nesting(from, to)
<1>1. /\ f \in Seq(Elements(V)) /\ Read(f) = At(b, l, from) /\ from \in Nat /\ to \in Nat
      /\ f \o <<>> = f
  <2>1. f \in Seq(Elements(V)) /\ Read(f) = At(b, l, from) BY ReadSaved DEF ReadOf
  <2>2. t \in Seq(Filters(V)) BY TopIs
  <2>3. from \in Nat BY <2>2, LastDepthIs
  <2>4. f \o <<>> = f
    <3> HIDE DEF f
    <3> QED BY <2>1
  <2> QED BY <2>1, <2>3, <2>4
<1>2. saveXML(t) = f \o (IF t = <<>> THEN <<>> ELSE Nesting(t[Len(t)].depth, 0))
  BY DEF saveXML, Saved, Piece
<1>3. Read(saveXML(t)).branches = b
  <2>1. CASE t = <<>>
    <3>1. saveXML(t) = f BY <1>1, <1>2, <2>1
    <3> HIDE DEF f, b, l, from
    <3> QED BY <3>1, <1>1 DEF At
  <2>2. CASE t # <<>>
    <3>1. saveXML(t) = g BY <1>2, <2>2 DEF LastDepth
    <3> HIDE DEF f, b, l, from, to
    <3>2. Read(g) = At(b, l, to) BY <1>1, NestingRead
    <3> QED BY <3>1, <3>2 DEF At
  <2> QED BY <2>1, <2>2
<1> QED BY <1>3 DEF loadXML

\* A tree that was saved and read has the same branches, turned.
LEMMA LoadedBranches ==
    ASSUME NEW V, NEW t \in Forests(V)
    PROVE  /\ loadXML(saveXML(t)) \in Forests(V)
           /\ BaseBranches(loadXML(saveXML(t))) = Turned(BaseBranches(t))
           /\ loadXML(saveXML(loadXML(saveXML(t)))) = t
<1> DEFINE x == BaseBranches(t)
           y == Turned(x)
           back == FlattenSeq(y)
<1>1. loadXML(saveXML(t)) = back BY LoadedIs
<1>2. x \in Seq(Tops(V)) BY BaseBranchesAre
<1> HIDE DEF x
<1>3. y \in Seq(Tops(V)) /\ Turned(y) = x BY <1>2, TurnedIs, TurnedBack
<1> HIDE DEF y
<1>4. back \in Forests(V) /\ BaseBranches(back) = y BY <1>3, TreeOfBranches
<1> HIDE DEF back
<1>5. loadXML(saveXML(back)) = FlattenSeq(x) BY <1>3, <1>4, LoadedIs
<1>6. FlattenSeq(x) = t BY BranchesMakeTree DEF x
<1> QED BY <1>1, <1>4, <1>5, <1>6 DEF x, y

\* A stash of a branch is a tree of one base filter.
LEMMA StashIs ==
    ASSUME NEW V, NEW t \in Forests(V), NEW p \in 1..Len(t)
    PROVE  cloneSubtree(t, p) \in Tops(V)
<1> DEFINE N == Filters(V)
           s == SubTree(t, p)
           d == 0
           r == AtDepth(s, d)
<1>1. Hangs(N) /\ d \in Nat BY NodesHang DEF Filters
<1>2. s \in Branches(V) BY SubTreeBranches
<1>3. s \in Seq(N) /\ IsBranch(s) BY <1>2 DEF Branches, Filters
<1> HIDE DEF N, s, d
<1>4. r \in Seq(N) /\ IsBranch(r) /\ r[1].depth = d BY ONLY <1>1, <1>3, AtDepthBranch
<1>5. r \in Tops(V) BY <1>4 DEF Tops, Branches, N, Filters, d
<1> QED BY <1>5 DEF cloneSubtree, s, d

\* Such a tree comes out of its file as it was, and is the branch of its first
\* filter.
LEMMA TopTree ==
    ASSUME NEW V, NEW b \in Tops(V)
    PROVE  /\ loadXML(saveXML(b)) = b /\ SubTree(b, 1) = b /\ b # <<>>
           /\ AtDepth(b, 0) = b
<1> DEFINE x == <<b>>
           N == Filters(V)
<1>1. /\ b \in Forests(V) /\ b \in Seq(N) /\ IsBranch(b) /\ b[1].depth = 0
  BY TopIs DEF Tops, Branches, Filters
<1>2. BaseBranches(b) = x
  <2>1. <<>> \in Forests(V) BY DEF Forests, IsForest
  <2>2. BaseBranches(<<>> \o b) = Append(BaseBranches(<<>>), b) BY <2>1, BranchBehind
  <2>3. <<>> \o b = b BY <1>1
  <2>4. Append(<<>>, b) = x OBVIOUS
  <2> QED BY <2>2, <2>3, <2>4, NoBranches
<1>3. Turned(x) = x
  <2>1. x \in Seq(Tops(V)) /\ Len(x) = 1 /\ x # <<>> /\ x[1] = b OBVIOUS
  <2> DEFINE y == Turned(x)
  <2> HIDE DEF x
  <2>2. y \in Seq(Tops(V)) /\ Len(y) = 1 /\ y[1] = x[1] BY <2>1, TurnedIs
  <2> HIDE DEF y
  <2>3. \A i \in 1..Len(y) : y[i] = x[i] BY <2>2
  <2>4. y = x BY <2>1, <2>2, <2>3, SameSequence
  <2> QED BY <2>4 DEF y
<1>4. FlattenSeq(x) = b
  <2>1. FlattenSeq(BaseBranches(b)) = b BY <1>1, BranchesMakeTree
  <2> QED BY <2>1, <1>2
<1>5. loadXML(saveXML(b)) = b BY <1>1, <1>2, <1>3, <1>4, LoadedIs
<1>6. b # <<>> /\ Len(b) \in Nat /\ 1 \in 1..Len(b)
  BY <1>1 DEF IsBranch
<1>7. SubTree(b, 1) = b
  <2> DEFINE e == BranchEnd(b, 1)
  <2>1. \A n \in N : n.depth \in Nat BY DEF Filters
  <2> HIDE DEF N
  <2>2. e \in 1..Len(b) /\ (e < Len(b) => b[e + 1].depth <= b[1].depth)
    BY <1>1, <1>6, <2>1, BranchEndStops
  <2> HIDE DEF e
  <2>3. e < Len(b) => e + 1 \in 2..Len(b) /\ b[e + 1].depth \in Nat
    <3>1. e < Len(b) => e + 1 \in 2..Len(b) BY <2>2, <1>6
    <3>2. \A k \in 2..Len(b) : b[k] \in N BY <1>1
    <3> QED BY <3>1, <3>2, <2>1
  <2>4. \A k \in 2..Len(b) : b[k].depth > b[1].depth BY <1>1 DEF IsBranch
  <2>5. e = Len(b)
    <3>1. CASE e < Len(b)
      <4>1. b[e + 1].depth > 0 /\ b[e + 1].depth <= 0 BY <3>1, <2>2, <2>3, <2>4, <1>1
      <4> QED BY <4>1, <3>1, <2>3
    <3> QED BY <3>1, <2>2, <1>6
  <2>6. SubSeq(b, 1, Len(b)) = b BY <1>1
  <2> QED BY <2>5, <2>6 DEF SubTree, e
<1>8. AtDepth(b, 0) = b
  <2> DEFINE d == 0
             r == AtDepth(b, d)
  <2>1. Hangs(N) /\ d \in Nat BY NodesHang DEF Filters
  <2>2. \A n \in N : n.depth \in Nat /\ \A k : k = n.depth => [n EXCEPT !.depth = k] = n
    BY DEF Filters
  <2> HIDE DEF N
  <2>3. /\ r \in Seq(N) /\ Len(r) = Len(b)
        /\ \A i \in 1..Len(b) : r[i] = [b[i] EXCEPT !.depth = (b[i].depth + d) - b[1].depth]
    <3> HIDE DEF d
    <3> QED BY ONLY <1>1, <2>1, AtDepthBranch
  <2>4. ASSUME NEW i \in 1..Len(b) PROVE r[i] = b[i]
    <3>1. b[i] \in N /\ b[i].depth \in Nat BY <1>1, <2>2
    <3>2. (b[i].depth + d) - b[1].depth = b[i].depth BY <3>1, <1>1
    <3> QED BY <3>1, <3>2, <2>2, <2>3
  <2> HIDE DEF r
  <2>5. \A i \in 1..Len(r) : r[i] = b[i] BY <2>3, <2>4
  <2>6. r = b BY <2>3, <2>5, <1>1, SameSequence
  <2> QED BY <2>6 DEF r
<1> QED BY <1>5, <1>6, <1>7, <1>8

\* The first branch of a tree and those behind it.
LEMMA FirstBranch ==
    ASSUME NEW V, NEW t \in Forests(V), t # <<>>
    PROVE  \E h \in Tops(V) : \E r \in Seq(Tops(V)) :
              /\ BaseBranches(t) = <<h>> \o r
              /\ SubSeq(t, 1, BranchEnd(t, 1)) = h
              /\ SubSeq(t, BranchEnd(t, 1) + 1, Len(t)) = FlattenSeq(r)
<1> DEFINE x == BaseBranches(t)
           T == Tops(V)
           h == Head(x)
           r == Tail(x)
           e == BranchEnd(t, 1)
           N == Filters(V)
<1>1. x \in Seq(T) /\ FlattenSeq(x) = t BY BaseBranchesAre, BranchesMakeTree
<1>2. x # <<>> BY <1>1, FlattenIs
<1>3. h \in T /\ r \in Seq(T) /\ x = <<h>> \o r /\ h = x[1]
  <2> HIDE DEF x, T
  <2> QED BY <1>1, <1>2
<1>4. t \in Seq(N) /\ \A b \in T : b \in Seq(N) BY TopIs
<1>5. h = SubSeq(t, 1, e)
  <2>1. 1 \in Bases(t) /\ Bases(t) \subseteq 1..Len(t) /\ Len(t) \in Nat
        /\ Bases(t) \in SUBSET Nat /\ IsFiniteSet(Bases(t)) /\ Cardinality(Bases(t)) \in Nat
        /\ Len(x) = Cardinality(Bases(t))
    <3> DEFINE B == Bases(t)
               c == Cardinality(B)
    <3>1. Len(x) = c BY BaseBranchesAre
    <3>2. B \in SUBSET Nat /\ IsFiniteSet(B) /\ B \subseteq 1..Len(t) /\ c \in Nat /\ Len(t) \in Nat
      BY BasesAre
    <3>3. 1 \in B BY BasesAre
    <3> HIDE DEF B
    <3> QED BY <3>1, <3>2, <3>3 DEF B
  <2>2. 1 \in 1..Cardinality(Bases(t))
    <3>1. Len(x) # 0 BY <1>1, <1>2
    <3> QED BY <3>1, <2>1
  <2>3. {m \in Bases(t) : m <= 1} = {1} BY <2>1
  <2>4. Cardinality({1}) = 1 BY FS_Singleton
  <2>5. Nth(Bases(t), 1) = 1
    <3> DEFINE B == Bases(t)
               i == 1
    <3>1. B \in SUBSET Nat /\ IsFiniteSet(B) /\ i \in B /\ i \in 1..Cardinality(B) BY <2>1, <2>2
    <3>2. Cardinality({m \in B : m <= i}) = i BY <2>3, <2>4
    <3> HIDE DEF B, i
    <3>3. Nth(B, i) = i BY <3>1, <3>2, PlaceIs
    <3> QED BY <3>3 DEF B, i
  <2>6. x[1] = SubTree(t, 1) BY <2>2, <2>5, BaseBranchesAre
  <2> QED BY <2>6, <1>3 DEF SubTree
<1>6. e \in 1..Len(t) /\ Len(t) \in Nat
  <2>1. 1 \in 1..Len(t) BY <1>4
  <2> QED BY <2>1, <1>4, ForestPositions
<1>7. t = h \o FlattenSeq(r) /\ FlattenSeq(r) \in Seq(N)
  <2> DEFINE E == Seq(N)
  <2>1. r \in Seq(E) /\ h \in E
    <3>1. T \subseteq E BY <1>4
    <3> HIDE DEF r, h, T, E
    <3> QED BY <3>1, <1>3
  <2> HIDE DEF r, h, N
  <2>2. FlattenSeq(<<h>> \o r) = h \o FlattenSeq(r) BY <2>1, FlattenFirst
  <2> QED BY <2>1, <2>2, <1>1, <1>3, FlattenIs
<1>8. SubSeq(t, e + 1, Len(t)) = FlattenSeq(r)
  <2> DEFINE w == FlattenSeq(r)
             s == SubSeq(t, e + 1, Len(t))
  <2> HIDE DEF x, h, r, e, N, w
  <2>1. h \in Seq(N) /\ w \in Seq(N) /\ t = h \o w BY <1>3, <1>4, <1>7 DEF w
  <2>2. Len(h) = e
    <3> DEFINE a == 1
    <3>1. a \in Nat \ {0} /\ e \in 0..Len(t) /\ a <= e + 1 BY <1>6
    <3>2. h = SubSeq(t, a, e) BY <1>5
    <3> HIDE DEF a
    <3>3. Len(SubSeq(t, a, e)) = (e - a) + 1 BY <3>1, <1>4, SubSeqElements
    <3> QED BY <3>2, <3>3, <1>6 DEF a
  <2>3. Len(t) = e + Len(w) /\ Len(w) \in Nat /\ \A i \in 1..Len(w) : t[e + i] = w[i]
    <3> DEFINE v == h \o w
    <3>1. /\ v \in Seq(N) /\ Len(v) = Len(h) + Len(w)
          /\ \A i \in 1..Len(w) : v[Len(h) + i] = w[i]
      BY <2>1, ConcatElements
    <3>2. v = t BY <2>1
    <3>3. Len(w) \in Nat BY <2>1
    <3> HIDE DEF v
    <3> QED BY <3>1, <3>2, <3>3, <2>2
  <2>4. s \in Seq(N) /\ Len(s) = Len(w) /\ \A i \in 1..Len(w) : s[i] = t[e + i]
    <3> DEFINE m == e + 1
               n == Len(t)
    <3>1. m \in Nat \ {0} /\ n \in 0..Len(t) /\ m <= n + 1 /\ s = SubSeq(t, m, n) BY <1>6
    <3>2. (n - m) + 1 = Len(w) /\ m = e + 1 BY <2>3, <1>6
    <3>5. \A i \in 1..Len(w) : e + i \in m..n /\ ((e + i) - m) + 1 = i BY <2>3, <1>6
    <3> HIDE DEF s, m, n
    <3>3. /\ SubSeq(t, m, n) \in Seq(N) /\ Len(SubSeq(t, m, n)) = (n - m) + 1
          /\ \A i \in m..n : SubSeq(t, m, n)[(i - m) + 1] = t[i]
      BY ONLY <3>1, <1>4, SubSeqElements
    <3> QED BY <3>1, <3>2, <3>3, <3>5
  <2> HIDE DEF s
  <2>5. \A i \in 1..Len(s) : s[i] = w[i] BY <2>3, <2>4
  <2>6. s = w BY <2>1, <2>4, <2>5, SameSequence
  <2> QED BY <2>6 DEF s, w
<1>9. h \in Tops(V) /\ r \in Seq(Tops(V)) BY <1>3
<1> HIDE DEF h, r
<1> QED BY <1>3, <1>5, <1>8, <1>9

\* A stash that is put into a tree is its second branch.
LEMMA PutIn ==
    ASSUME NEW V, NEW t \in Forests(V), t # <<>>, NEW b \in Tops(V)
    PROVE  /\ BaseBranches(addFilterTree(t, b))[2] = b
           /\ RemoveAt(BaseBranches(addFilterTree(t, b)), 2) = BaseBranches(t)
<1> DEFINE T == Tops(V)
           N == Filters(V)
           more == addFilterTree(t, b)
<1>1. PICK h \in T, r \in Seq(T) :
         /\ BaseBranches(t) = <<h>> \o r
         /\ SubSeq(t, 1, BranchEnd(t, 1)) = h
         /\ SubSeq(t, BranchEnd(t, 1) + 1, Len(t)) = FlattenSeq(r)
  BY FirstBranch
<1> DEFINE y == <<h, b>> \o r
           q == <<b>> \o r
           E == Seq(N)
<1>2. T \subseteq E BY TopIs
<1>3. r \in Seq(E) /\ h \in E /\ b \in E /\ q \in Seq(E)
  <2>1. r \in Seq(T) /\ h \in T /\ b \in T OBVIOUS
  <2> HIDE DEF E, T, q
  <2>2. r \in Seq(E) /\ h \in E /\ b \in E BY <2>1, <1>2
  <2> DEFINE o == <<b>>
  <2>3. o \in Seq(E) BY <2>2
  <2> HIDE DEF o
  <2>4. o \o r \in Seq(E) BY <2>2, <2>3, ConcatElements
  <2> QED BY <2>2, <2>4 DEF o, q
<1>4. more = (h \o b) \o FlattenSeq(r)
  <2>1. more = InsertAfter(t, BranchEnd(t, 1), b) BY TopTree DEF addFilterTree, InsertBase
  <2> QED BY <2>1, <1>1 DEF InsertAfter
<1>5. FlattenSeq(y) = more
  <2>1. y = <<h>> \o q
    <3> HIDE DEF T
    <3> QED OBVIOUS
  <2> HIDE DEF N
  <2>2. FlattenSeq(r) \in E BY <1>3, FlattenIs
  <2>3. FlattenSeq(q) = b \o FlattenSeq(r)
    <3>1. b \in Seq(N) /\ r \in Seq(Seq(N)) BY <1>3
    <3> QED BY ONLY <3>1, FlattenFirst
  <2>4. FlattenSeq(<<h>> \o q) = h \o FlattenSeq(q)
    <3>1. h \in Seq(N) /\ q \in Seq(Seq(N)) BY <1>3
    <3> HIDE DEF q
    <3> QED BY ONLY <3>1, FlattenFirst
  <2>5. h \o (b \o FlattenSeq(r)) = (h \o b) \o FlattenSeq(r)
    <3> DEFINE w == FlattenSeq(r)
    <3> HIDE DEF w
    <3>1. h \in Seq(N) /\ b \in Seq(N) /\ w \in Seq(N) BY <1>3, <2>2 DEF w
    <3>2. (h \o b) \o w = h \o (b \o w) BY ONLY <3>1, ConcatTwice
    <3> QED BY <3>2 DEF w
  <2> HIDE DEF y, q, more, E
  <2> QED BY <2>1, <2>3, <2>4, <2>5, <1>4
<1>6. y \in Seq(T) /\ y[2] = b /\ RemoveAt(y, 2) = <<h>> \o r
  <2> DEFINE a == <<h, b>>
             o == <<h>>
             l == Len(r)
  <2>0. /\ a \in Seq(T) /\ Len(a) = 2 /\ a[1] = h /\ a[2] = b
        /\ o \in Seq(T) /\ Len(o) = 1 /\ o[1] = h
        /\ r \in Seq(T) /\ l \in Nat
    <3>1. h \in T /\ b \in T /\ r \in Seq(T) OBVIOUS
    <3> HIDE DEF T
    <3> QED BY <3>1
  <2> HIDE DEF T, a, o
  <2>1. /\ y \in Seq(T) /\ Len(y) = 2 + l /\ \A i \in 1..2 : y[i] = a[i]
        /\ \A i \in 1..l : y[2 + i] = r[i]
    <3> DEFINE v == a \o r
    <3>1. /\ v \in Seq(T) /\ Len(v) = Len(a) + l
          /\ \A i \in 1..Len(a) : v[i] = a[i]
          /\ \A i \in 1..l : v[Len(a) + i] = r[i]
      <4>1. a \in Seq(T) /\ r \in Seq(T) BY <2>0
      <4> QED BY ONLY <4>1, ConcatElements
    <3>2. v = y BY DEF a
    <3> HIDE DEF v, y, l
    <3> QED BY <3>1, <3>2, <2>0
  <2> HIDE DEF y
  <2>2. y[2] = b BY <2>0, <2>1
  <2>3. SubSeq(y, 1, 1) = <<h>>
    <3>1. SubSeq(y, 1, 1) \in Seq(T) /\ Len(SubSeq(y, 1, 1)) = 1 /\ SubSeq(y, 1, 1)[1] = y[1]
      BY <2>0, <2>1
    <3>2. y[1] = h BY <2>0, <2>1
    <3> DEFINE s == SubSeq(y, 1, 1)
    <3> HIDE DEF s
    <3>3. s \in Seq(T) /\ Len(s) = 1 /\ s[1] = h BY <3>1, <3>2 DEF s
    <3>4. \A i \in 1..Len(s) : s[i] = o[i] BY <3>3, <2>0
    <3>5. s = o BY <3>3, <3>4, <2>0, SameSequence
    <3> QED BY <3>5 DEF s, o
  <2>4. SubSeq(y, 3, Len(y)) = r
    <3> DEFINE s == SubSeq(y, 3, Len(y))
    <3>1. s \in Seq(T) /\ Len(s) = l /\ \A i \in 1..l : s[i] = y[2 + i] BY <2>0, <2>1
    <3> HIDE DEF s
    <3>2. \A i \in 1..Len(s) : s[i] = r[i] BY <3>1, <2>1
    <3>3. s = r BY <3>1, <3>2, <2>0, SameSequence DEF l
    <3> QED BY <3>3 DEF s
  <2>5. RemoveAt(y, 2) = SubSeq(y, 1, 1) \o SubSeq(y, 3, Len(y)) BY DEF RemoveAt
  <2> QED BY <2>1, <2>2, <2>3, <2>4, <2>5
<1>7. BaseBranches(FlattenSeq(y)) = y
  <2> HIDE DEF y
  <2> QED BY <1>6, TreeOfBranches
<1> HIDE DEF y, more
<1>8. BaseBranches(more) = y BY <1>5, <1>7
<1> QED BY <1>1, <1>6, <1>8 DEF more

\* What is left of a tree that was stripped.
LEMMA StrippedIs ==
    ASSUME NEW V, NEW t \in Forests(V), NEW k, NEW safe, safe = stripHazardousContents(t, k)
    PROVE  /\ \A p \in DOMAIN safe :
                 safe[p] # Deleted => safe[p] = t[p] /\ Kind[safe[p].val] # k
           /\ (\E p \in DOMAIN safe : safe[p] = Deleted) =>
                 \E p \in DOMAIN t : Kind[t[p].val] = k /\ BranchEnd(t, p) < Len(t)
<1> DEFINE N == Filters(V)
           found == {p \in DOMAIN t : Kind[t[p].val] = k}
           first == CHOOSE p \in found : \A q \in found : p <= q
<1>1. /\ t \in Seq(N) /\ Len(t) \in Nat /\ DOMAIN t = 1..Len(t)
      /\ \A p \in 1..Len(t) : BranchEnd(t, p) \in 1..Len(t)
  <2>1. t \in Seq(N) BY TopIs
  <2> HIDE DEF N
  <2>2. Len(t) \in Nat /\ DOMAIN t = 1..Len(t) BY <2>1
  <2> QED BY <2>1, <2>2, ForestPositions
<1>2. \A n \in N : n # Deleted
  <2>1. DOMAIN Deleted = {"deleted"} BY DEF Deleted
  <2>2. \A n \in N : "depth" \in DOMAIN n BY DEF Filters
  <2> QED BY <2>1, <2>2
<1> HIDE DEF N
<1>3. CASE found = {}
  <2>1. ~hasHazardousContents(t, k) BY <1>3 DEF hasHazardousContents
  <2>2. safe = t BY <2>1 DEF stripHazardousContents
  <2>3. \A p \in DOMAIN t : Kind[t[p].val] # k BY <1>3
  <2>4. \A p \in DOMAIN t : t[p] # Deleted BY <1>1, <1>2
  <2> QED BY <2>2, <2>3, <2>4
<1>4. CASE found # {}
  <2>1. hasHazardousContents(t, k) BY <1>4 DEF hasHazardousContents
  <2>2. found \in SUBSET Nat BY <1>1
  <2>3. \E p \in found : \A q \in found : p <= q
    <3> HIDE DEF found
    <3> QED BY <1>4, <2>2, LeastNumber
  <2>4. first \in found /\ \A q \in found : first <= q
    <3> HIDE DEF found
    <3> QED BY <2>3
  <2>5. first \in 1..Len(t) /\ Kind[t[first].val] = k BY <2>4, <1>1
  <2> DEFINE a == SubSeq(t, 1, first - 1)
             n == Len(t) - BranchEnd(t, first)
             z == Times(n, Deleted)
  <2>6. safe = a \o z BY <2>1 DEF stripHazardousContents
  <2> HIDE DEF first
  <2>7. n \in Nat /\ first \in Nat BY <2>5, <1>1
  <2>8. a \in Seq(N) /\ Len(a) = first - 1 /\ \A i \in 1..(first - 1) : a[i] = t[i]
    BY <1>1, <2>5
  <2>9. z \in Seq({Deleted}) /\ Len(z) = n /\ \A i \in 1..n : z[i] = Deleted
    <3> HIDE DEF n
    <3> QED BY <2>7 DEF Times
  <2> HIDE DEF a, z, n
  <2>10. /\ DOMAIN safe = 1..((first - 1) + n)
         /\ \A i \in 1..(first - 1) : safe[i] = t[i]
         /\ \A i \in 1..n : safe[(first - 1) + i] = Deleted
    BY <2>6, <2>7, <2>8, <2>9
  <2>11. ASSUME NEW p \in DOMAIN safe, safe[p] # Deleted
         PROVE  safe[p] = t[p] /\ Kind[safe[p].val] # k
    <3>1. p \in 1..(first - 1)
      <4>1. CASE p > first - 1
        <5> DEFINE i == p - (first - 1)
        <5>1. i \in 1..n /\ p = (first - 1) + i BY <4>1, <2>7, <2>10
        <5> HIDE DEF i
        <5> QED BY <5>1, <2>10, <2>11
      <4> QED BY <4>1, <2>7, <2>10
    <3>2. safe[p] = t[p] BY <3>1, <2>10
    <3>3. p \in DOMAIN t /\ ~(first <= p) BY <3>1, <2>5, <1>1
    <3>4. p \notin found BY <3>3, <2>4
    <3> QED BY <3>2, <3>3, <3>4
  <2>12. ASSUME NEW p \in DOMAIN safe, safe[p] = Deleted
         PROVE  BranchEnd(t, first) < Len(t)
    <3>1. ~(p \in 1..(first - 1))
      <4>1. ASSUME p \in 1..(first - 1) PROVE FALSE
        <5>1. safe[p] = t[p] /\ p \in 1..Len(t) BY <4>1, <2>5, <2>10, <1>1
        <5>2. t[p] \in N BY <5>1, <1>1
        <5> QED BY <5>1, <5>2, <1>2, <2>12
      <4> QED BY <4>1
    <3>2. n # 0 BY <3>1, <2>7, <2>10
    <3>3. BranchEnd(t, first) \in 1..Len(t) BY <2>5, <1>1
    <3> QED BY <3>2, <3>3, <1>1, <2>7 DEF n
  <2>13. first \in DOMAIN t BY <2>5, <1>1
  <2> QED BY <2>5, <2>11, <2>12, <2>13
<1> QED BY <1>3, <1>4

\* Files bring every tree back: whatever edits, loads and undone edits have made
\* the tree, saving and reading it, a stash of any of its branches, and what is
\* left of it when it is stripped are as FilesKeepTree says.
THEOREM FilesBringTreesBack == Spec => []FilesKeepTree
<1>1. TypeOK => FilesKeepTree
  <2> SUFFICES ASSUME TypeOK PROVE FilesKeepTree OBVIOUS
  <2> DEFINE V == Values
             back == loadXML(saveXML(tree))
             branches == BaseBranches(tree)
  <2>1. tree \in Forests(V) BY DEF TypeOK
  <2>2. /\ back \in Forests(V) /\ BaseBranches(back) = Turned(branches)
        /\ loadXML(saveXML(back)) = tree
    BY <2>1, LoadedBranches
  <2>3. IsForest(back) BY <2>2 DEF Forests
  <2>4. ASSUME NEW p \in DOMAIN tree
        PROVE  LET stash == cloneSubtree(tree, p)
                   more == addFilterTree(tree, loadXML(saveXML(stash)))
               IN  /\ BaseBranches(more)[2] = stash
                   /\ RemoveAt(BaseBranches(more), 2) = branches
    <3> DEFINE stash == cloneSubtree(tree, p)
    <3>1. p \in 1..Len(tree) /\ tree # <<>>
      <4>1. tree \in Seq(Filters(V)) BY <2>1, TopIs
      <4> QED BY <4>1
    <3>2. stash \in Tops(V) BY <2>1, <3>1, StashIs
    <3> HIDE DEF stash
    <3>3. loadXML(saveXML(stash)) = stash BY <3>2, TopTree
    <3>4. /\ BaseBranches(addFilterTree(tree, stash))[2] = stash
          /\ RemoveAt(BaseBranches(addFilterTree(tree, stash)), 2) = branches
      BY <2>1, <3>1, <3>2, PutIn
    <3> QED BY <3>3, <3>4 DEF stash
  <2>5. ASSUME NEW k \in {Kind[v] : v \in Values}
        PROVE  LET safe == stripHazardousContents(back, k) IN
               /\ \A p \in DOMAIN safe :
                     safe[p] # Deleted => safe[p] = back[p] /\ Kind[safe[p].val] # k
               /\ (\E p \in DOMAIN safe : safe[p] = Deleted) =>
                     \E p \in DOMAIN back : Kind[back[p].val] = k /\ BranchEnd(back, p) < Len(back)
    <3> HIDE DEF back
    <3> QED BY <2>2, StrippedIs
  <2> HIDE DEF back, branches
  <2>6. /\ IsForest(back)
        /\ BaseBranches(back) = Turned(branches)
        /\ loadXML(saveXML(back)) = tree
    BY <2>2, <2>3
  <2> QED BY <2>4, <2>5, <2>6 DEF FilesKeepTree, back, branches
<1> QED BY <1>1, TypeCorrect, PTL
=============================================================================
