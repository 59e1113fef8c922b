----------------------- MODULE RefreshProtocol_proofs -----------------------
(***************************************************************************)
(* Safety of the refresh protocol, for a walk of any length, and of the    *)
(* animations whose export it takes part in, for any properties, entries   *)
(* and frames (the second part, of Animation).                             *)
(* LockFollowsRefresh is inductive as it stands and is what the guards of  *)
(* the handlers rest on: OnlyUnlockedRace follows from it.                 *)
(* OnlyStaleChecksRestart is inductive as it stands too.  The type of the  *)
(* counter of filters needs WalkHasNext: the filter that is refreshed next *)
(* is one of the walk.  SceneIsCurrent needs WalkIsCurrent: what is about  *)
(* to be shown was not overtaken by a change of the tree.                  *)
(***************************************************************************)
EXTENDS RefreshProtocol, Animation, TLAPS

\* A walk that goes on has a filter left.
WalkHasNext == pc = "walking" => step < NumFilters

\* A walk that is not over, or that is still to be shown, is of the tree as it is.
WalkIsCurrent ==
    (pc \in {"walking", "returned", "exited"} /\ ~unrefreshed /\ raced = {} /\ restarted = {})
      => walkOfTree

USE DEF thread, flags, window, timer, content

LEMMA TypedInit == Init => TypeOK /\ WalkHasNext
<1> SUFFICES ASSUME Init PROVE TypeOK /\ WalkHasNext
    OBVIOUS
<1>1. step \in 0..NumFilters BY NumFiltersAssumption DEF Init
<1>2. WalkHasNext BY DEF Init, WalkHasNext
<1> QED BY <1>1, <1>2, Zenon DEF Init, TypeOK

LEMMA LockInit == Init => LockFollowsRefresh /\ OnlyStaleChecksRestart /\ OnlyUnlockedRace
BY DEF Init, LockFollowsRefresh, OnlyStaleChecksRestart, OnlyUnlockedRace

LEMMA LockStep == LockFollowsRefresh /\ [Next]_vars => LockFollowsRefresh'
<1> SUFFICES ASSUME LockFollowsRefresh, [Next]_vars PROVE LockFollowsRefresh'
    OBVIOUS
<1> USE DEF LockFollowsRefresh, doSceneUpdate, StartRefresh
<1>1. CASE User
  <2>1. CASE Edit
    <3>1. CASE doSceneUpdate("OnGridFilterPropertyChange") BY <2>1, <3>1 DEF Edit
    <3>2. CASE UNCHANGED window /\ UNCHANGED pc BY <2>1, <3>2 DEF Edit
    <3> QED BY <2>1, <3>1, <3>2 DEF Edit
  <2>2. CASE OnButtonRefresh BY <2>2 DEF OnButtonRefresh
  <2>3. CASE OnProgressAbort BY <2>3 DEF OnProgressAbort
  <2>4. CASE OnClose BY <2>4 DEF OnClose
  <2>5. CASE DropRange BY <2>5 DEF DropRange
  <2>6. CASE DropData BY <2>6 DEF DropData
  <2>7. CASE OpenFileDialog \/ OpenRangeDialog \/ OpenIonDialog \/ CancelDialog \/ CloseIonDialog
    BY <2>7 DEF OpenFileDialog, OpenRangeDialog, OpenIonDialog, CancelDialog, CloseIonDialog
  <2>8. CASE AcceptFile \/ AcceptRanges
    BY <2>8 DEF AcceptFile, AcceptRanges, AcceptDialog
  <2>9. CASE DragBegins \/ FileChanges BY <2>9 DEF DragBegins, FileChanges
  <2>10. CASE OpenVideoDialog \/ CancelVideo BY <2>10 DEF OpenVideoDialog, CancelVideo
  <2>11. CASE AcceptVideo BY <2>11 DEF AcceptVideo
  <2>12. CASE DragRegion BY <2>12 DEF DragRegion
  <2> QED
    BY <1>1, <2>1, <2>2, <2>3, <2>4, <2>5, <2>6, <2>7, <2>8, <2>9, <2>10, <2>11,
       <2>12 DEF User
<1>2. CASE Thread
  <2>1. CASE ClearOldState BY <2>1 DEF ClearOldState
  <2>2. CASE BeginWalk BY <2>2 DEF BeginWalk
  <2>3. CASE FilterDone BY <2>3 DEF FilterDone
  <2>4. CASE FilterFails BY <2>4 DEF FilterFails
  <2>5. CASE PostAndExit BY <2>5 DEF PostAndExit
  <2>6. CASE WalkEmptyTree BY <2>6 DEF WalkEmptyTree
  <2> QED BY <1>2, <2>1, <2>2, <2>3, <2>4, <2>5, <2>6 DEF Thread
<1>3. CASE RestOfHandler
  <2>1. CASE DragEnds BY <2>1 DEF DragEnds
  <2>2. CASE Poll BY <2>2 DEF Poll
  <2>3. CASE ActOnUpdates BY <2>3 DEF ActOnUpdates
  <2>4. CASE NoUpdates BY <2>4 DEF NoUpdates
  <2> QED BY <1>3, <2>1, <2>2, <2>3, <2>4 DEF RestOfHandler
<1>4. CASE FirstUpdate BY <1>4 DEF FirstUpdate
<1>5. CASE OnFinishRefreshThread BY <1>5 DEF OnFinishRefreshThread
<1>6. CASE Stopped \/ UNCHANGED vars BY <1>6 DEF Stopped, vars
<1> QED BY <1>1, <1>2, <1>3, <1>4, <1>5, <1>6 DEF Next

Starting == pc \in {"none", "created", "ready", "walking", "returned", "exited"}
            /\ currentlyUpdatingScene \in BOOLEAN /\ haveAborted \in BOOLEAN
            /\ updateTimer \in BOOLEAN /\ unrefreshed \in BOOLEAN
            /\ restarted \subseteq Handlers

\* Starting a refresh, or failing to, keeps the types of what it writes.
LEMMA StartRefreshTyped ==
    ASSUME TypeOK, NEW h \in Handlers, NEW timerRuns \in BOOLEAN, StartRefresh(h, timerRuns)
    PROVE  Starting'
<1>1. CASE currentlyUpdatingScene
  <2>1. restarted' \subseteq Handlers BY <1>1 DEF TypeOK, StartRefresh
  <2>2. UNCHANGED <<pc, currentlyUpdatingScene, haveAborted, updateTimer, unrefreshed>>
    BY <1>1 DEF StartRefresh
  <2> QED BY <2>1, <2>2 DEF TypeOK, Starting
<1>2. CASE ~currentlyUpdatingScene BY <1>2 DEF TypeOK, Starting, StartRefresh
<1> QED BY <1>1, <1>2

LEMMA StartTyped == ASSUME TypeOK, NEW h \in Handlers, doSceneUpdate(h)
                    PROVE  Starting'
BY StartRefreshTyped DEF doSceneUpdate

\* So does not starting it.
LEMMA NoStartTyped == ASSUME TypeOK, UNCHANGED <<pc, window, restarted>>, unrefreshed' \in BOOLEAN
                      PROVE  Starting'
BY DEF TypeOK, Starting

Changing == walkOfTree \in BOOLEAN /\ sceneOfTree \in BOOLEAN /\ raced \subseteq Handlers

\* Changing the tree, or not, keeps the types of what it writes.
LEMMA ChangeTyped == ASSUME TypeOK, NEW h \in Handlers, TreeChanged(h) \/ TreeUnchanged
                     PROVE  Changing'
<1>1. CASE TreeChanged(h)
  <2>1. raced' \subseteq Handlers BY <1>1 DEF TypeOK, TreeChanged
  <2> QED BY <1>1, <2>1 DEF Changing, TreeChanged
<1>2. CASE TreeUnchanged BY <1>2 DEF TypeOK, Changing, TreeUnchanged
<1> QED BY <1>1, <1>2

\* The counter stays within the walk.
LEMMA CounterStep == TypeOK /\ WalkHasNext /\ [Next]_vars
                       => step' \in 0..NumFilters /\ WalkHasNext'
<1> SUFFICES ASSUME step \in 0..NumFilters, WalkHasNext, [Next]_vars
             PROVE  step' \in 0..NumFilters /\ WalkHasNext'
    BY DEF TypeOK
<1> USE NumFiltersAssumption DEF WalkHasNext
<1>1. CASE BeginWalk BY <1>1 DEF BeginWalk
<1>2. CASE FilterDone BY <1>2 DEF FilterDone
<1>3. CASE UNCHANGED step /\ (pc' = pc \/ pc' # "walking") BY <1>3
<1>4. CASE User
  <2>1. CASE Edit \/ OnButtonRefresh \/ DropRange
    BY <1>3, <2>1 DEF Edit, OnButtonRefresh, DropRange, doSceneUpdate, StartRefresh
  <2>2. CASE AcceptFile \/ AcceptRanges
    BY <1>3, <2>2 DEF AcceptFile, AcceptRanges, AcceptDialog, doSceneUpdate, StartRefresh
  <2>3. CASE OnProgressAbort \/ OnClose \/ DropData \/ DragBegins \/ FileChanges
    BY <1>3, <2>3 DEF OnProgressAbort, OnClose, DropData, DragBegins, FileChanges
  <2>4. CASE OpenFileDialog \/ OpenRangeDialog \/ OpenIonDialog \/ CancelDialog \/ CloseIonDialog
    BY <1>3, <2>4 DEF OpenFileDialog, OpenRangeDialog, OpenIonDialog, CancelDialog, CloseIonDialog
  <2>5. CASE OpenVideoDialog \/ CancelVideo BY <1>3, <2>5 DEF OpenVideoDialog, CancelVideo
  <2>6. CASE AcceptVideo BY <1>3, <2>6 DEF AcceptVideo, StartRefresh
  <2>7. CASE DragRegion BY <1>3, <2>7 DEF DragRegion
  <2> QED BY <1>4, <2>1, <2>2, <2>3, <2>4, <2>5, <2>6, <2>7 DEF User
<1>5. CASE ClearOldState \/ WalkEmptyTree \/ FilterFails \/ PostAndExit
  BY <1>3, <1>5 DEF ClearOldState, WalkEmptyTree, FilterFails, PostAndExit
<1>6. CASE RestOfHandler
  BY <1>3, <1>6 DEF RestOfHandler, DragEnds, Poll, ActOnUpdates, NoUpdates, doSceneUpdate, StartRefresh
<1>7. CASE FirstUpdate BY <1>3, <1>7 DEF FirstUpdate, doSceneUpdate, StartRefresh
<1>8. CASE OnFinishRefreshThread BY <1>3, <1>8 DEF OnFinishRefreshThread
<1>9. CASE Stopped \/ UNCHANGED vars BY <1>3, <1>9 DEF Stopped, vars
<1> QED BY <1>1, <1>2, <1>4, <1>5, <1>6, <1>7, <1>8, <1>9 DEF Next, Thread

\* Every action keeps the types.
LEMMA TypedStep == TypeOK /\ step' \in 0..NumFilters /\ [Next]_vars => TypeOK'
<1> SUFFICES ASSUME TypeOK, step' \in 0..NumFilters, [Next]_vars PROVE TypeOK'
    OBVIOUS
<1>1. CASE User
  <2>1. CASE Edit
    <3>1. Starting' BY <2>1, StartTyped, NoStartTyped DEF Edit, TypeOK, Handlers
    <3>2. Changing' BY <2>1, ChangeTyped DEF Edit, Handlers
    <3> QED BY <2>1, <3>1, <3>2 DEF Edit, TypeOK, Starting, Changing
  <2>2. CASE OnButtonRefresh
    <3>1. Starting'
      BY <2>2, StartTyped, NoStartTyped DEF OnButtonRefresh, TypeOK, Handlers
    <3>2. Changing' BY <2>2, ChangeTyped DEF OnButtonRefresh, Handlers
    <3> QED BY <2>2, <3>1, <3>2 DEF OnButtonRefresh, TypeOK, Starting, Changing
  <2>3. CASE OnProgressAbort
    <3>1. UNCHANGED <<pc, step, outcome, pendingUpdates, devicesLive, dragged,
         fileChanged, posted, currentlyUpdatingScene, requireFirstUpdate,
         updateTimer, dialog, handler, visUpdates, monitorUpdates, plotUpdates, walkOfTree,
         sceneOfTree, unrefreshed, raced, restarted>>
      BY <2>3 DEF OnProgressAbort
    <3>2. wantAbort' \in BOOLEAN BY <2>3 DEF OnProgressAbort, TypeOK
    <3>3. haveAborted' \in BOOLEAN BY <2>3 DEF OnProgressAbort, TypeOK
    <3> QED BY <3>1, <3>2, <3>3 DEF TypeOK
  <2>4. CASE OnClose BY <2>4 DEF OnClose, TypeOK, Dialogs
  <2>5. CASE DropRange
    <3>1. Starting' BY <2>5, StartTyped, NoStartTyped DEF DropRange, TypeOK, Handlers
    <3>2. Changing' BY <2>5, ChangeTyped DEF DropRange, Handlers
    <3> QED BY <2>5, <3>1, <3>2 DEF DropRange, TypeOK, Starting, Changing
  <2>6. CASE DropData
    <3>1. Changing' BY <2>6, ChangeTyped DEF DropData, Handlers
    <3>2. restarted' \subseteq Handlers BY <2>6 DEF DropData, TypeOK, Handlers
    <3> QED BY <2>6, <3>1, <3>2 DEF DropData, TypeOK, Changing
  <2>7. CASE OpenFileDialog BY <2>7 DEF OpenFileDialog, TypeOK, Dialogs
  <2>8. CASE OpenRangeDialog BY <2>8 DEF OpenRangeDialog, TypeOK, Dialogs
  <2>9. CASE OpenIonDialog
    <3>1. raced' \subseteq Handlers BY <2>9 DEF OpenIonDialog, TypeOK, Handlers
    <3> QED BY <2>9, <3>1 DEF OpenIonDialog, TypeOK, Dialogs
  <2>10. CASE CancelDialog BY <2>10 DEF CancelDialog, TypeOK, Dialogs
  <2>11. CASE AcceptFile
    <3>1. Starting'
      BY <2>11, StartTyped, NoStartTyped DEF AcceptFile, AcceptDialog, TypeOK, Handlers
    <3>2. Changing' BY <2>11, ChangeTyped DEF AcceptFile, AcceptDialog, Handlers
    <3> QED
      BY <2>11, <3>1, <3>2 DEF AcceptFile, AcceptDialog, TypeOK, Starting, Changing
  <2>12. CASE AcceptRanges
    <3>1. Starting'
      BY <2>12, StartTyped, NoStartTyped DEF AcceptRanges, AcceptDialog, TypeOK,
         Handlers
    <3>2. Changing' BY <2>12, ChangeTyped DEF AcceptRanges, AcceptDialog, Handlers
    <3> QED
      BY <2>12, <3>1, <3>2 DEF AcceptRanges, AcceptDialog, TypeOK, Starting, Changing
  <2>13. CASE CloseIonDialog
    <3>1. raced' \subseteq Handlers BY <2>13 DEF CloseIonDialog, TypeOK, Handlers
    <3> QED BY <2>13, <3>1 DEF CloseIonDialog, TypeOK, Dialogs
  <2>14. CASE DragBegins BY <2>14 DEF DragBegins, TypeOK, Dialogs
  <2>15. CASE FileChanges BY <2>15 DEF FileChanges, TypeOK, Dialogs
  <2>16. CASE OpenVideoDialog
    <3>1. Changing' BY <2>16, ChangeTyped DEF OpenVideoDialog, Handlers
    <3> QED BY <2>16, <3>1 DEF OpenVideoDialog, TypeOK, Dialogs, Changing
  <2>17. CASE CancelVideo
    <3>1. Changing' BY <2>17, ChangeTyped DEF CancelVideo, Handlers
    <3> QED BY <2>17, <3>1 DEF CancelVideo, TypeOK, Dialogs, Changing
  <2>18. CASE AcceptVideo
    <3>1. Starting' BY <2>18, StartRefreshTyped DEF AcceptVideo, Handlers
    <3>2. Changing' BY <2>18, ChangeTyped DEF AcceptVideo, Handlers
    <3>3. /\ wantAbort' \in BOOLEAN /\ pendingUpdates' \in BOOLEAN
          /\ devicesLive' \in BOOLEAN /\ dragged' \in BOOLEAN
          /\ fileChanged' \in BOOLEAN
      BY <2>18 DEF AcceptVideo, RefreshFrames, TypeOK
    <3>4. dialog' = "none" /\ UNCHANGED <<step, outcome, posted, timer, handler>>
      BY <2>18 DEF AcceptVideo
    <3> QED BY <3>1, <3>2, <3>3, <3>4 DEF TypeOK, Starting, Changing
  <2>19. CASE DragRegion
    <3>1. Changing' BY <2>19, ChangeTyped DEF DragRegion, Handlers
    <3> QED BY <2>19, <3>1 DEF DragRegion, TypeOK, Dialogs, Changing
  <2> QED
    BY <1>1, <2>1, <2>2, <2>3, <2>4, <2>5, <2>6, <2>7, <2>8, <2>9, <2>10, <2>11, <2>12,
       <2>13, <2>14, <2>15, <2>16, <2>17, <2>18, <2>19 DEF User
<1>2. CASE Thread
  <2>1. CASE ClearOldState
    <3>1. UNCHANGED <<step, outcome, fileChanged, posted, currentlyUpdatingScene,
         haveAborted, requireFirstUpdate, updateTimer, dialog, handler, visUpdates,
         monitorUpdates, plotUpdates, walkOfTree, sceneOfTree, unrefreshed, raced, restarted>>
      BY <2>1 DEF ClearOldState
    <3>2. pc' \in {"none", "created", "ready", "walking", "returned", "exited"}
      BY <2>1 DEF ClearOldState, TypeOK
    <3>3. devicesLive' \in BOOLEAN BY <2>1 DEF ClearOldState, TypeOK
    <3>4. dragged' \in BOOLEAN BY <2>1 DEF ClearOldState, TypeOK
    <3>5. pendingUpdates' \in BOOLEAN BY <2>1 DEF ClearOldState, TypeOK
    <3>6. wantAbort' \in BOOLEAN BY <2>1 DEF ClearOldState, TypeOK
    <3> QED BY <3>1, <3>2, <3>3, <3>4, <3>5, <3>6 DEF TypeOK
  <2>2. CASE BeginWalk BY <2>2 DEF BeginWalk, TypeOK, Dialogs
  <2>3. CASE FilterDone
    <3>1. UNCHANGED <<flags, posted, window, timer, dialog, handler, content,
                     restarted>>
      BY <2>3 DEF FilterDone
    <3>2. fileChanged' \in BOOLEAN BY <2>3 DEF FilterDone, ReadsFile, TypeOK
    <3>3. /\ pc' \in {"walking", "returned"}
          /\ outcome' \in {"none", "ok", "error", "abort"}
      BY <2>3 DEF FilterDone, TypeOK
    <3> QED BY <3>1, <3>2, <3>3 DEF TypeOK
  <2>4. CASE FilterFails
    <3>1. UNCHANGED <<step, flags, posted, window, timer, dialog, handler, content,
                     restarted>>
      BY <2>4 DEF FilterFails
    <3>2. fileChanged' \in BOOLEAN BY <2>4 DEF FilterFails, ReadsFile, TypeOK
    <3>3. /\ pc' \in {"walking", "returned"}
          /\ outcome' \in {"none", "ok", "error", "abort"}
      BY <2>4 DEF FilterFails, TypeOK
    <3> QED BY <3>1, <3>2, <3>3 DEF TypeOK
  <2>5. CASE PostAndExit BY <2>5 DEF PostAndExit, TypeOK, Dialogs
  <2>6. CASE WalkEmptyTree BY <2>6 DEF WalkEmptyTree, TypeOK, Dialogs
  <2> QED BY <1>2, <2>1, <2>2, <2>3, <2>4, <2>5, <2>6 DEF Thread
<1>3. CASE RestOfHandler
  <2>1. CASE DragEnds
    <3>1. UNCHANGED <<pc, step, outcome, devicesLive, dragged, fileChanged, posted,
         currentlyUpdatingScene, haveAborted, requireFirstUpdate, updateTimer,
         dialog, visUpdates, monitorUpdates, plotUpdates, walkOfTree, sceneOfTree, unrefreshed,
         raced, restarted>>
      BY <2>1 DEF DragEnds
    <3>2. pendingUpdates' \in BOOLEAN BY <2>1 DEF DragEnds, TypeOK
    <3>3. wantAbort' \in BOOLEAN BY <2>1 DEF DragEnds, TypeOK
    <3>4. handler' \in {"none", "applyDevice", "polling", "polled"}
      BY <2>1 DEF DragEnds, TypeOK
    <3> QED BY <3>1, <3>2, <3>3, <3>4 DEF TypeOK
  <2>2. CASE Poll
    <3>1. monitorUpdates' \in BOOLEAN BY <2>2 DEF Poll
    <3> QED BY <2>2, <3>1 DEF Poll, TypeOK, Dialogs
  <2>3. CASE ActOnUpdates
    <3>1. Starting'
      BY <2>3, StartTyped, NoStartTyped DEF ActOnUpdates, applyBindingsToTree, TypeOK,
         Handlers
    <3>2. Changing' BY <2>3, ChangeTyped DEF ActOnUpdates, applyBindingsToTree, Handlers
    <3>3. /\ pendingUpdates' \in BOOLEAN /\ dragged' \in BOOLEAN /\ plotUpdates' \in BOOLEAN
          /\ handler' \in {"none", "applyDevice", "polling", "polled"}
      BY <2>3 DEF ActOnUpdates, applyBindingsToTree, TypeOK
    <3>4. UNCHANGED <<step, outcome, wantAbort, devicesLive, fileChanged, posted,
                     requireFirstUpdate, visUpdates, monitorUpdates, dialog>>
      BY <2>3 DEF ActOnUpdates
    <3> QED BY <3>1, <3>2, <3>3, <3>4 DEF TypeOK, Starting, Changing
  <2>4. CASE NoUpdates
    <3>1. plotUpdates' \in BOOLEAN BY <2>4 DEF NoUpdates
    <3> QED BY <2>4, <3>1 DEF NoUpdates, TypeOK, Dialogs
  <2> QED BY <1>3, <2>1, <2>2, <2>3, <2>4 DEF RestOfHandler
<1>4. CASE FirstUpdate
  <2>1. Starting' BY <1>4, StartTyped, NoStartTyped DEF FirstUpdate, TypeOK, Handlers
  <2>2. Changing' BY <1>4, ChangeTyped DEF FirstUpdate, Handlers
  <2>3. requireFirstUpdate' \in BOOLEAN BY <1>4 DEF FirstUpdate, TypeOK
  <2>4. /\ handler' = "polling"
        /\ UNCHANGED <<step, outcome, flags, fileChanged, posted, dialog, visUpdates,
                       monitorUpdates, plotUpdates>>
    BY <1>4 DEF FirstUpdate
  <2> QED BY <2>1, <2>2, <2>3, <2>4 DEF TypeOK, Starting, Changing
<1>5. CASE OnFinishRefreshThread
  <2>1. UNCHANGED <<step, outcome, wantAbort, pendingUpdates, dragged, fileChanged,
       haveAborted, requireFirstUpdate, dialog, handler, visUpdates,
       monitorUpdates, plotUpdates, walkOfTree, unrefreshed, raced, restarted>>
    BY <1>5 DEF OnFinishRefreshThread
  <2>2. posted' \in BOOLEAN BY <1>5 DEF OnFinishRefreshThread, TypeOK
  <2>3. pc' \in {"none", "created", "ready", "walking", "returned", "exited"}
    BY <1>5 DEF OnFinishRefreshThread, TypeOK
  <2>4. currentlyUpdatingScene' \in BOOLEAN BY <1>5 DEF OnFinishRefreshThread, TypeOK
  <2>5. updateTimer' \in BOOLEAN BY <1>5 DEF OnFinishRefreshThread, TypeOK
  <2>6. devicesLive' \in BOOLEAN BY <1>5 DEF OnFinishRefreshThread, TypeOK
  <2>7. sceneOfTree' \in BOOLEAN BY <1>5 DEF OnFinishRefreshThread, TypeOK
  <2> QED BY <2>1, <2>2, <2>3, <2>4, <2>5, <2>6, <2>7 DEF TypeOK
<1>6. CASE Stopped \/ UNCHANGED vars BY <1>6 DEF Stopped, vars, TypeOK
<1> QED BY <1>1, <1>2, <1>3, <1>4, <1>5, <1>6 DEF Next

\* The handlers behind a locked widget do not start a refresh during another.
LEMMA StaleStep == OnlyStaleChecksRestart /\ [Next]_vars => OnlyStaleChecksRestart'
<1> SUFFICES ASSUME OnlyStaleChecksRestart, [Next]_vars PROVE OnlyStaleChecksRestart'
    OBVIOUS
<1> USE DEF OnlyStaleChecksRestart
<1> DEFINE Known == {"OnDropFiles", "OnUpdateTimer", "OnFileOpen", "OnEditRange",
                     "OnFileExportFilterVideo"}
<1>0. ASSUME NEW h \in Known, NEW timerRuns, StartRefresh(h, timerRuns)
      PROVE  OnlyStaleChecksRestart'
  BY <1>0 DEF StartRefresh
<1>1. ASSUME NEW h \in Known, doSceneUpdate(h) PROVE OnlyStaleChecksRestart'
  BY <1>0, <1>1 DEF doSceneUpdate
<1> HIDE DEF Known
<1>10. /\ "OnDropFiles" \in Known /\ "OnUpdateTimer" \in Known /\ "OnFileOpen" \in Known
       /\ "OnEditRange" \in Known /\ "OnFileExportFilterVideo" \in Known
  BY DEF Known
<1>2. CASE UNCHANGED restarted BY <1>2
<1>3. CASE User
  <2>1. CASE Edit \/ OnButtonRefresh
    BY <1>2, <2>1 DEF Edit, OnButtonRefresh, doSceneUpdate, StartRefresh
  <2>2. CASE DropRange BY <1>1, <1>10, <2>2 DEF DropRange
  <2>3. CASE DropData BY <2>3 DEF DropData
  <2>4. CASE AcceptFile BY <1>1, <1>10, <2>4 DEF AcceptFile, AcceptDialog
  <2>5. CASE AcceptRanges BY <1>1, <1>10, <2>5 DEF AcceptRanges, AcceptDialog
  <2>6. CASE OnProgressAbort \/ OnClose \/ DragBegins \/ FileChanges
    BY <1>2, <2>6 DEF OnProgressAbort, OnClose, DragBegins, FileChanges
  <2>7. CASE OpenFileDialog \/ OpenRangeDialog \/ OpenIonDialog \/ CancelDialog \/ CloseIonDialog
    BY <1>2, <2>7 DEF OpenFileDialog, OpenRangeDialog, OpenIonDialog, CancelDialog,
       CloseIonDialog
  <2>8. CASE OpenVideoDialog \/ CancelVideo BY <1>2, <2>8 DEF OpenVideoDialog, CancelVideo
  <2>9. CASE AcceptVideo BY <1>0, <1>10, <2>9 DEF AcceptVideo
  <2>10. CASE DragRegion BY <1>2, <2>10 DEF DragRegion
  <2> QED BY <1>3, <2>1, <2>2, <2>3, <2>4, <2>5, <2>6, <2>7, <2>8, <2>9,
            <2>10 DEF User
<1>4. CASE Thread
  BY <1>2, <1>4 DEF Thread, ClearOldState, BeginWalk, WalkEmptyTree, FilterDone, FilterFails, PostAndExit
<1>5. CASE DragEnds \/ Poll \/ NoUpdates BY <1>2, <1>5 DEF DragEnds, Poll, NoUpdates
<1>6. CASE ActOnUpdates BY <1>1, <1>10, <1>6 DEF ActOnUpdates
<1>7. CASE FirstUpdate BY <1>1, <1>10, <1>2, <1>7 DEF FirstUpdate
<1>8. CASE OnFinishRefreshThread BY <1>2, <1>8 DEF OnFinishRefreshThread
<1>9. CASE Stopped \/ UNCHANGED vars BY <1>2, <1>9 DEF Stopped, vars
<1> QED BY <1>3, <1>4, <1>5, <1>6, <1>7, <1>8, <1>9 DEF Next, RestOfHandler

\* The other handlers find no thread that uses the tree: those behind a locked
\* widget because of the lock, the timer and a drop because they ask.
LEMMA RaceStep == LockFollowsRefresh /\ OnlyUnlockedRace /\ [Next]_vars => OnlyUnlockedRace'
<1> SUFFICES ASSUME LockFollowsRefresh, OnlyUnlockedRace, [Next]_vars PROVE OnlyUnlockedRace'
    OBVIOUS
<1> USE DEF OnlyUnlockedRace
<1>1. ASSUME NEW h, TreeChanged(h), ~TreeInUse PROVE OnlyUnlockedRace'
  BY <1>1 DEF TreeChanged
<1>2. ASSUME NEW h \in {"OnFileOpen", "OnEditRange", "OnFileExportFilterVideo"},
             TreeChanged(h)
      PROVE  OnlyUnlockedRace'
  BY <1>2 DEF TreeChanged
<1>3. CASE UNCHANGED raced BY <1>3
<1>4. ASSUME ~Active PROVE ~TreeInUse BY <1>4 DEF Active, TreeInUse
<1>5. CASE User
  <2>1. CASE Edit
    <3>1. ~TreeInUse BY <2>1 DEF Edit, LockFollowsRefresh, TreeInUse
    <3> QED BY <1>1, <2>1, <3>1 DEF Edit
  <2>2. CASE DropRange BY <1>1, <1>4, <2>2 DEF DropRange
  <2>3. CASE DropData BY <1>1, <1>4, <2>3 DEF DropData
  <2>4. CASE AcceptFile BY <1>2, <2>4 DEF AcceptFile, AcceptDialog
  <2>5. CASE AcceptRanges BY <1>2, <2>5 DEF AcceptRanges, AcceptDialog
  <2>6. CASE OpenIonDialog \/ CloseIonDialog BY <2>6 DEF OpenIonDialog, CloseIonDialog
  <2>7. CASE OnButtonRefresh BY <1>3, <2>7 DEF OnButtonRefresh, TreeUnchanged
  <2>8. CASE OnProgressAbort \/ OnClose \/ DragBegins \/ FileChanges
    BY <1>3, <2>8 DEF OnProgressAbort, OnClose, DragBegins, FileChanges
  <2>9. CASE OpenFileDialog \/ OpenRangeDialog \/ CancelDialog
    BY <1>3, <2>9 DEF OpenFileDialog, OpenRangeDialog, CancelDialog
  <2>10. CASE OpenVideoDialog \/ CancelVideo \/ AcceptVideo
    BY <1>2, <2>10 DEF OpenVideoDialog, CancelVideo, AcceptVideo
  <2>11. CASE DragRegion
    <3>1. ~TreeInUse BY <2>11 DEF DragRegion, LockFollowsRefresh, TreeInUse
    <3> QED BY <1>1, <2>11, <3>1 DEF DragRegion
  <2> QED
    BY <1>5, <2>1, <2>2, <2>3, <2>4, <2>5, <2>6, <2>7, <2>8, <2>9, <2>10, <2>11 DEF User
<1>6. CASE Thread
  BY <1>3, <1>6 DEF Thread, ClearOldState, BeginWalk, WalkEmptyTree, FilterDone, FilterFails, PostAndExit
<1>7. CASE DragEnds \/ Poll \/ NoUpdates BY <1>3, <1>7 DEF DragEnds, Poll, NoUpdates
<1>8. CASE ActOnUpdates
  <2>1. CASE TreeUnchanged BY <1>3, <2>1 DEF TreeUnchanged
  <2>2. CASE TreeChanged("OnUpdateTimer") BY <1>1, <1>4, <1>8, <2>2 DEF ActOnUpdates
  <2> QED BY <1>8, <2>1, <2>2 DEF ActOnUpdates, applyBindingsToTree
<1>9. CASE FirstUpdate BY <1>3, <1>9 DEF FirstUpdate, TreeUnchanged
<1>10. CASE OnFinishRefreshThread BY <1>3, <1>10 DEF OnFinishRefreshThread
<1>11. CASE Stopped \/ UNCHANGED vars BY <1>3, <1>11 DEF Stopped, vars
<1> QED BY <1>5, <1>6, <1>7, <1>8, <1>9, <1>10, <1>11 DEF Next, RestOfHandler

\* Starting a refresh while there is one is a restart, and otherwise the widgets
\* are locked and there is no walk yet.
LEMMA StartEither ==
    ASSUME NEW h, NEW timerRuns, StartRefresh(h, timerRuns)
    PROVE  \/ restarted' # {}
           \/ pc' = "created" /\ currentlyUpdatingScene'
BY DEF StartRefresh

\* A change of the tree under the thread is a race.
LEMMA ChangeRaces == ASSUME NEW h, TreeChanged(h), TreeInUse PROVE raced' # {}
BY DEF TreeChanged

\* No walk that is still to be shown has missed a change of the tree: the tree
\* is changed under the thread, which is a race, or by a handler that starts a
\* refresh, or by one that leaves the tree unrefreshed, or behind a lock.
LEMMA WalkStep == LockFollowsRefresh /\ WalkIsCurrent /\ [Next]_vars => WalkIsCurrent'
<1> SUFFICES ASSUME LockFollowsRefresh, WalkIsCurrent, [Next]_vars PROVE WalkIsCurrent'
    OBVIOUS
<1> USE DEF WalkIsCurrent
<1>1. CASE UNCHANGED <<pc, walkOfTree, unrefreshed, raced, restarted>> BY <1>1
<1>2. ASSUME NEW h, NEW timerRuns, StartRefresh(h, timerRuns) PROVE WalkIsCurrent'
  BY <1>2, StartEither
<1>3. ASSUME NEW h, doSceneUpdate(h) PROVE WalkIsCurrent'
  BY <1>2, <1>3 DEF doSceneUpdate
<1>4. CASE unrefreshed' BY <1>4
<1>5. CASE ~currentlyUpdatingScene /\ UNCHANGED pc
  BY <1>5 DEF LockFollowsRefresh
<1>6. CASE User
  <2>1. CASE Edit BY <1>3, <1>4, <2>1 DEF Edit
  <2>2. CASE DragRegion BY <1>5, <2>2 DEF DragRegion
  <2>3. CASE OnButtonRefresh \/ DropRange BY <1>3, <2>3 DEF OnButtonRefresh, DropRange
  <2>4. CASE DropData BY <2>4 DEF DropData
  <2>5. CASE OnProgressAbort \/ OnClose \/ DragBegins \/ FileChanges
    BY <1>1, <2>5 DEF OnProgressAbort, OnClose, DragBegins, FileChanges
  <2>6. CASE OpenFileDialog \/ OpenRangeDialog \/ CancelDialog
    BY <1>1, <2>6 DEF OpenFileDialog, OpenRangeDialog, CancelDialog
  <2>7. CASE OpenIonDialog \/ CloseIonDialog
    <3>1. /\ UNCHANGED <<pc, walkOfTree, unrefreshed, restarted>>
          /\ raced' = IF TreeInUse THEN raced \cup {"OnFileExportIons"} ELSE raced
      BY <2>7 DEF OpenIonDialog, CloseIonDialog
    <3>2. raced' = {} => raced = {} BY <3>1
    <3> QED BY <3>1, <3>2
  <2>8. CASE OpenVideoDialog \/ CancelVideo BY <1>4, <2>8 DEF OpenVideoDialog, CancelVideo
  <2>9. CASE AcceptFile \/ AcceptRanges
    BY <1>3, <2>9 DEF AcceptFile, AcceptRanges, AcceptDialog
  <2>10. CASE AcceptVideo BY <1>2, <2>10 DEF AcceptVideo
  <2> QED
    BY <1>6, <2>1, <2>2, <2>3, <2>4, <2>5, <2>6, <2>7, <2>8, <2>9, <2>10 DEF User
<1>7. CASE Thread
  <2>1. CASE ClearOldState BY <2>1 DEF ClearOldState
  <2>2. CASE BeginWalk \/ WalkEmptyTree BY <2>2 DEF BeginWalk, WalkEmptyTree
  <2>3. CASE FilterDone \/ FilterFails \/ PostAndExit
    <3>1. /\ pc \in {"walking", "returned"}
          /\ UNCHANGED <<walkOfTree, unrefreshed, raced, restarted>>
      BY <2>3 DEF FilterDone, FilterFails, PostAndExit
    <3> QED BY <3>1
  <2> QED BY <1>7, <2>1, <2>2, <2>3 DEF Thread
<1>8. CASE DragEnds \/ Poll \/ NoUpdates BY <1>1, <1>8 DEF DragEnds, Poll, NoUpdates
<1>9. CASE ActOnUpdates BY <1>3, <1>9 DEF ActOnUpdates
<1>10. CASE FirstUpdate
  <2>1. TreeUnchanged BY <1>10 DEF FirstUpdate
  <2>2. \/ doSceneUpdate("OnUpdateTimer")
        \/ UNCHANGED <<pc, window, unrefreshed, restarted>>
    BY <1>10 DEF FirstUpdate
  <2> QED BY <1>1, <1>3, <2>1, <2>2 DEF TreeUnchanged
<1>11. CASE OnFinishRefreshThread BY <1>11 DEF OnFinishRefreshThread
<1>12. CASE Stopped \/ UNCHANGED vars BY <1>1, <1>12 DEF Stopped, vars
<1> QED BY <1>6, <1>7, <1>8, <1>9, <1>10, <1>11, <1>12 DEF Next, RestOfHandler

\* What is shown is what the walk has seen, and stays so until the next change.
LEMMA SceneStep ==
    LockFollowsRefresh /\ WalkIsCurrent /\ SceneIsCurrent /\ [Next]_vars => SceneIsCurrent'
<1> SUFFICES ASSUME LockFollowsRefresh, WalkIsCurrent, SceneIsCurrent, [Next]_vars
             PROVE  SceneIsCurrent'
    OBVIOUS
<1> USE DEF SceneIsCurrent
<1> DEFINE shown == <<currentlyUpdatingScene, outcome, sceneOfTree, unrefreshed,
                      raced, restarted>>
<1>1. CASE UNCHANGED shown /\ (plotUpdates' \/ UNCHANGED plotUpdates) BY <1>1
<1>2. ASSUME NEW h, NEW timerRuns, StartRefresh(h, timerRuns) PROVE SceneIsCurrent'
  BY <1>2, StartEither
<1>3. ASSUME NEW h, doSceneUpdate(h) PROVE SceneIsCurrent'
  BY <1>2, <1>3 DEF doSceneUpdate
<1>4. CASE unrefreshed' BY <1>4
<1>5. CASE currentlyUpdatingScene /\ UNCHANGED currentlyUpdatingScene BY <1>5
<1>6. CASE User
  <2>1. CASE Edit BY <1>3, <1>4, <2>1 DEF Edit
  <2>2. CASE DragRegion BY <2>2 DEF DragRegion
  <2>3. CASE OnButtonRefresh \/ DropRange BY <1>3, <2>3 DEF OnButtonRefresh, DropRange
  <2>4. CASE DropData BY <2>4 DEF DropData
  <2>5. CASE OnProgressAbort \/ OnClose \/ DragBegins \/ FileChanges
    BY <1>1, <2>5 DEF OnProgressAbort, OnClose, DragBegins, FileChanges
  <2>6. CASE OpenFileDialog \/ OpenRangeDialog \/ CancelDialog
    BY <1>1, <2>6 DEF OpenFileDialog, OpenRangeDialog, CancelDialog
  <2>7. CASE OpenIonDialog \/ CloseIonDialog
    <3>1. /\ UNCHANGED <<currentlyUpdatingScene, outcome, sceneOfTree, unrefreshed,
                         restarted, plotUpdates>>
          /\ raced' = IF TreeInUse THEN raced \cup {"OnFileExportIons"} ELSE raced
      BY <2>7 DEF OpenIonDialog, CloseIonDialog
    <3>2. raced' = {} => raced = {} BY <3>1
    <3> QED BY <3>1, <3>2
  <2>8. CASE OpenVideoDialog \/ CancelVideo BY <1>4, <2>8 DEF OpenVideoDialog, CancelVideo
  <2>9. CASE AcceptFile \/ AcceptRanges
    BY <1>3, <2>9 DEF AcceptFile, AcceptRanges, AcceptDialog
  <2>10. CASE AcceptVideo BY <1>2, <2>10 DEF AcceptVideo
  <2> QED
    BY <1>6, <2>1, <2>2, <2>3, <2>4, <2>5, <2>6, <2>7, <2>8, <2>9, <2>10 DEF User
<1>7. CASE Thread
  <2>1. pc # "none" /\ UNCHANGED currentlyUpdatingScene
    BY <1>7 DEF Thread, ClearOldState, BeginWalk, WalkEmptyTree, FilterDone, FilterFails,
       PostAndExit
  <2> QED BY <1>5, <2>1 DEF LockFollowsRefresh
<1>8. CASE DragEnds \/ Poll BY <1>1, <1>8 DEF DragEnds, Poll
<1>9. CASE NoUpdates
  <2>1. CASE Active
    BY <1>5, <1>9, <2>1 DEF NoUpdates, Active, LockFollowsRefresh
  <2>2. CASE ~AnyUpdates
    BY <1>9, <2>2 DEF NoUpdates, AnyUpdates
  <2> QED BY <1>9, <2>1, <2>2 DEF NoUpdates
<1>10. CASE ActOnUpdates BY <1>3, <1>10 DEF ActOnUpdates
<1>11. CASE FirstUpdate
  <2>1. TreeUnchanged /\ UNCHANGED <<outcome, plotUpdates>> BY <1>11 DEF FirstUpdate
  <2>2. \/ doSceneUpdate("OnUpdateTimer")
        \/ UNCHANGED <<pc, window, unrefreshed, restarted>>
    BY <1>11 DEF FirstUpdate
  <2> QED BY <1>1, <1>3, <2>1, <2>2 DEF TreeUnchanged
<1>12. CASE OnFinishRefreshThread
  <2>1. /\ pc = "exited"
        /\ UNCHANGED <<outcome, unrefreshed, raced, restarted>>
        /\ outcome = "ok" => sceneOfTree' = walkOfTree
    BY <1>12 DEF OnFinishRefreshThread, LockFollowsRefresh
  <2> QED BY <2>1 DEF WalkIsCurrent
<1>13. CASE Stopped \/ UNCHANGED vars BY <1>1, <1>13 DEF Stopped, vars
<1> QED BY <1>6, <1>7, <1>8, <1>9, <1>10, <1>11, <1>12, <1>13 DEF Next, RestOfHandler

-----------------------------------------------------------------------------
\* The types, and the counter of TreeState::refresh within the walk.
THEOREM ProtocolTyped == Spec => []TypeOK
<1>1. Init => TypeOK /\ WalkHasNext BY TypedInit
<1>2. TypeOK /\ WalkHasNext /\ [Next]_vars => (TypeOK /\ WalkHasNext)'
  BY CounterStep, TypedStep
<1> QED BY <1>1, <1>2, PTL DEF Spec

\* The widgets are locked exactly while there is a refresh that has not been
\* finished, and otherwise the timer runs.
THEOREM LockHolds == Spec => []LockFollowsRefresh
BY LockInit, LockStep, PTL DEF Spec

\* Only the five handlers that check too little or too early start a refresh
\* during a refresh.
THEOREM RestartsKnown == Spec => []OnlyStaleChecksRestart
BY LockInit, StaleStep, PTL DEF Spec

\* Only the four handlers that nothing locks out, or that wait in a dialog,
\* change the tree under the thread.
THEOREM RacesKnown == Spec => []OnlyUnlockedRace
<1>1. Init => LockFollowsRefresh /\ OnlyUnlockedRace BY LockInit
<1>2. LockFollowsRefresh /\ OnlyUnlockedRace /\ [Next]_vars
        => (LockFollowsRefresh /\ OnlyUnlockedRace)'
  BY LockStep, RaceStep
<1> QED BY <1>1, <1>2, PTL DEF Spec

\* After a successful refresh the scene is of the tree as it is, unless a change
\* is known to be unrefreshed or has raced with the thread.
THEOREM SceneShown == Spec => []SceneIsCurrent
<1> DEFINE Inv == LockFollowsRefresh /\ WalkIsCurrent /\ SceneIsCurrent
<1>1. Init => Inv
  BY LockInit DEF Init, WalkIsCurrent, SceneIsCurrent
<1>2. Inv /\ [Next]_vars => Inv' BY LockStep, WalkStep, SceneStep
<1> QED BY <1>1, <1>2, PTL DEF Spec

-----------------------------------------------------------------------------
(* The export of an animation in the detail of Animation: what above is    *)
(* only that the tree is put aside and swapped back. That its files and    *)
(* the dialog's view show what was asked for needs that                    *)
(*   - the tree, before a frame is made, is as was wanted of the frame     *)
(*     before: that is what the properties that are not set again rest on; *)
(*   - of two entries about one property, one has ended before the other   *)
(*     begins, so that the entry last begun is the one that ended last;    *)
(*   - the rows of the view are those of the entries as they are now.      *)

\* Who has the tree in each phase; a refused value is known only once the dialog,
\* which begins by forgetting it, has been left.
HolderFollowsPhase ==
    /\ phase \in {"idle", "dialog", "export"}
    /\ phase = "dialog" => holder = "dialog"
    /\ phase = "export" => holder = "window"
    /\ phase = "idle" => holder = "window" \/ (holder = "gone" /\ "refused" \in odd)

\* For any properties, frames and values: OnFileExportFilterVideo gives the
\* window its tree back unless a filter refuses a value.
THEOREM TreeReturns == AnimationSpec => []TreeComesBack
<1>1. AnimationInit => HolderFollowsPhase BY DEF AnimationInit, HolderFollowsPhase
<1>2. HolderFollowsPhase /\ [AnimationNext]_animationVars => HolderFollowsPhase'
  <2> SUFFICES ASSUME HolderFollowsPhase, [AnimationNext]_animationVars PROVE HolderFollowsPhase'
    OBVIOUS
  <2> USE DEF HolderFollowsPhase
  <2>1. CASE OpenDialog BY <2>1 DEF OpenDialog
  <2>2. CASE OnFilterGridCellSelected
    BY <2>2 DEF OnFilterGridCellSelected
  <2>3. CASE OnButtonKeyFrameRemove
    BY <2>3 DEF OnButtonKeyFrameRemove
  <2>4. CASE OnFrameViewSlider \/ OnTextFrame \/ OnOutputDirText
    BY <2>4 DEF OnFrameViewSlider, OnTextFrame, OnOutputDirText
  <2>5. CASE OnButtonCancel \/ OnButtonOK
    BY <2>5 DEF OnButtonCancel, OnButtonOK, CloseDialog
  <2>6. CASE ExportFrame BY <2>6 DEF ExportFrame
  <2>7. CASE FrameFails \/ FinishExport
    BY <2>7 DEF FrameFails, FinishExport, EndExport
  <2>8. CASE FrameRefused BY <2>8 DEF FrameRefused, EndExport
  <2>9. CASE SaveAndLoad BY <2>9 DEF SaveAndLoad
  <2>10. CASE UNCHANGED animationVars BY <2>10 DEF animationVars
  <2> QED BY <2>1, <2>2, <2>3, <2>4, <2>5, <2>6, <2>7, <2>8, <2>9, <2>10 DEF AnimationNext
<1>3. HolderFollowsPhase => TreeComesBack BY DEF HolderFollowsPhase, TreeComesBack
<1> QED BY <1>1, <1>2, <1>3, PTL DEF AnimationSpec

Ramps == {LINEAR_FLOAT, LINEAR_COLOUR, LINEAR_POINT3D}
KeyFrame == [frame : Nat, value : Int]

\* The key frames of an entry: one of a step, two of a ramp, those of a list
\* follow one another.
Shaped(e) ==
    LET k == e.frameData IN
    \/ e.interpMode = STEP /\ Len(k) = 1
    \/ e.interpMode \in Ramps /\ Len(k) = 2
    \/ e.interpMode = LIST /\ Len(k) # 0
          /\ \A i \in 1..Len(k) : k[i].frame = k[1].frame + (i - 1)

Entry == {e \in [prop : Props, frameData : Seq(KeyFrame),
                 interpMode : {STEP, LIST} \cup Ramps] : Shaped(e)}

LEMMA GreatestIs ==
    ASSUME NEW S \in SUBSET Int, NEW m \in S, \A x \in S : x <= m
    PROVE  Max(S) = m
<1>1. m \in S /\ \A y \in S : m >= y OBVIOUS
<1>2. \A x \in S : (\A y \in S : x >= y) => x = m OBVIOUS
<1> QED BY <1>1, <1>2 DEF Max

LEMMA LeastIs ==
    ASSUME NEW S \in SUBSET Int, NEW m \in S, \A x \in S : m <= x
    PROVE  Min(S) = m
<1>1. m \in S /\ \A y \in S : m <= y OBVIOUS
<1>2. \A x \in S : (\A y \in S : x <= y) => x = m OBVIOUS
<1> QED BY <1>1, <1>2 DEF Min

LEMMA Greatest ==
    ASSUME NEW S \in SUBSET Nat, S # {}, IsFiniteSet(S)
    PROVE  Max(S) \in S /\ \A x \in S : x <= Max(S)
<1> DEFINE c == Cardinality(S)
           m == Nth(S, c)
           B == {x \in S : x <= m}
<1>1. c \in Nat /\ c # 0 BY FS_CardinalityType, FS_EmptySet
<1>2. m \in S /\ Cardinality(B) = c
  <2>1. c \in 1..c BY <1>1
  <2> QED BY <2>1, Places
<1>3. B = S
  <2>1. B \in SUBSET S OBVIOUS
  <2> HIDE DEF B
  <2> QED BY <1>2, <2>1, FS_Subset
<1>4. \A x \in S : x <= m BY <1>3
<1> HIDE DEF m, c
<1>5. Max(S) = m BY <1>2, <1>4, GreatestIs
<1> QED BY <1>2, <1>4, <1>5

\* Finitely many arguments give finitely many values.
LEMMA ValuesFinite ==
    ASSUME NEW D, IsFiniteSet(D), NEW f
    PROVE  IsFiniteSet({f[i] : i \in D})
<1> DEFINE V == {f[i] : i \in D}
           g == [i \in D |-> f[i]]
<1>1. g \in Surjection(D, V) BY DEF Surjection
<1> HIDE DEF g, V
<1>2. IsFiniteSet(V) BY <1>1, FS_Surjection
<1> QED BY <1>2 DEF V

LEMMA Least ==
    ASSUME NEW S \in SUBSET Nat, S # {}
    PROVE  Min(S) \in S /\ \A x \in S : Min(S) <= x
<1>1. PICK m \in S : \A x \in S : m <= x BY LeastNumber
<1>2. Min(S) = m BY <1>1, LeastIs
<1> QED BY <1>1, <1>2

LEMMA Shapes ==
    ASSUME NEW e \in Entry
    PROVE  LET k == e.frameData IN
           /\ k \in Seq(KeyFrame) /\ Len(k) \in Nat \ {0}
           /\ e.interpMode \in {STEP, LIST} \cup Ramps
           /\ e.interpMode = STEP => Len(k) = 1 /\ e.interpMode # LIST /\ e.interpMode \notin Ramps
           /\ e.interpMode \in Ramps => Len(k) = 2 /\ e.interpMode # LIST /\ e.interpMode # STEP
           /\ e.interpMode = LIST =>
                 /\ e.interpMode # STEP /\ e.interpMode \notin Ramps
                 /\ \A i \in 1..Len(k) : k[i].frame = k[1].frame + (i - 1)
<1> DEFINE k == e.frameData
           n == Len(k)
<1>1. k \in Seq(KeyFrame) /\ Shaped(e) /\ e.interpMode \in {STEP, LIST} \cup Ramps BY DEF Entry
<1>2. STEP # LIST /\ STEP \notin Ramps /\ LIST \notin Ramps
  BY DEF Ramps, STEP, LIST, LINEAR_FLOAT, LINEAR_COLOUR, LINEAR_POINT3D
<1>3. n \in Nat BY <1>1
<1>4. \/ e.interpMode = STEP /\ n = 1
      \/ e.interpMode \in Ramps /\ n = 2
      \/ e.interpMode = LIST /\ n # 0 /\ \A i \in 1..n : k[i].frame = k[1].frame + (i - 1)
  BY <1>1 DEF Shaped
<1> HIDE DEF k, n
<1>5. n \in Nat \ {0} BY <1>3, <1>4
<1> QED BY <1>1, <1>2, <1>4, <1>5 DEF k, n

\* The frames an entry spans.
LEMMA Span ==
    ASSUME NEW e \in Entry
    PROVE  LET k == e.frameData IN
           /\ k \in Seq(KeyFrame) /\ Len(k) \in Nat \ {0}
           /\ 1 \in DOMAIN k /\ Len(k) \in DOMAIN k
           /\ getMinFrame(e) \in Nat /\ getMaxFrame(e) \in Nat
           /\ getMinFrame(e) <= getMaxFrame(e)
           /\ ~Backwards(e) => getMinFrame(e) = k[1].frame /\ getMaxFrame(e) = k[Len(k)].frame
           /\ e.interpMode \in Ramps \/ getMaxFrame(e) = k[1].frame + (Len(k) - 1)
<1> DEFINE k == e.frameData
           n == Len(k)
           a == k[1].frame
           b == k[n].frame
           F == {k[i].frame : i \in DOMAIN k}
<1>1. k \in Seq(KeyFrame) /\ n \in Nat BY Shapes
<1>2. n # 0 BY Shapes
<1>3. DOMAIN k = 1..n /\ 1 \in 1..n /\ n \in 1..n
  <2>1. DOMAIN k = 1..n BY <1>1
  <2> HIDE DEF n
  <2> QED BY <2>1, <1>1, <1>2
<1>4. \A i \in 1..n : k[i] \in KeyFrame BY <1>1, <1>2, SeqElements
<1>5. a \in F /\ b \in F /\ a \in Nat /\ b \in Nat BY <1>3, <1>4 DEF KeyFrame
<1>6. F \in SUBSET Nat BY <1>3, <1>4 DEF KeyFrame
<1>7. getMinFrame(e) = Min(F) /\ getMaxFrame(e) = Max(F) BY DEF getMinFrame, getMaxFrame, FramesOf
<1>8. ASSUME ~(e.interpMode \in Ramps)
      PROVE  /\ b = a + (n - 1) /\ \A x \in F : a <= x /\ x <= b
             /\ ~Backwards(e)
  <2>1. \A i \in 1..n : k[i].frame = a + (i - 1)
    <3>1. CASE e.interpMode = STEP
      <4>1. n = 1 BY <3>1, Shapes
      <4> QED BY <4>1, <1>5
    <3>2. CASE e.interpMode = LIST BY <3>2, Shapes
    <3> QED BY <3>1, <3>2, <1>8, Shapes
  <2>2. b = a + (n - 1) BY <2>1, <1>3
  <2>3. ASSUME NEW x \in F PROVE a <= x /\ x <= b
    <3>1. PICK i \in 1..n : x = a + (i - 1) BY <2>1, <1>3
    <3>2. b = a + (n - 1) /\ a \in Nat /\ n \in Nat BY <2>2, <1>5, <1>1
    <3> HIDE DEF a, b, n
    <3> QED BY <3>1, <3>2
  <2> QED BY <2>2, <2>3, <1>8 DEF Backwards, Ramps
<1>9. ASSUME e.interpMode \in Ramps
      PROVE  n = 2 /\ F = {a, b} /\ (~Backwards(e) => a < b)
  <2>1. n = 2 BY <1>9, Shapes
  <2>2. 1..n = {1, 2} BY <2>1
  <2>3. F = {k[1].frame, k[2].frame} BY <2>2, <1>3
  <2>4. ~Backwards(e) => ~(k[1].frame >= k[2].frame) BY <1>9 DEF Backwards, Ramps
  <2> QED BY <2>1, <2>3, <2>4, <1>5
<1> HIDE DEF F, a, b, n
<1>10. CASE ~(e.interpMode \in Ramps)
  <2>1. Min(F) = a BY <1>10, <1>8, <1>5, <1>6, LeastIs
  <2>2. Max(F) = b BY <1>10, <1>8, <1>5, <1>6, GreatestIs
  <2>3. a <= b BY <1>10, <1>8, <1>5
  <2> QED BY <2>1, <2>2, <2>3, <1>1, <1>2, <1>3, <1>5, <1>7, <1>8, <1>10 DEF n, a, b
<1>11. CASE e.interpMode \in Ramps
  <2>1. \E l \in F : \A x \in F : l <= x BY <1>11, <1>9, <1>5
  <2>2. \E l \in F : \A x \in F : x <= l BY <1>11, <1>9, <1>5
  <2>3. Min(F) \in F /\ \A x \in F : Min(F) <= x BY <2>1, <1>6, LeastIs
  <2>4. Max(F) \in F /\ \A x \in F : x <= Max(F) BY <2>2, <1>6, GreatestIs
  <2>5. ~Backwards(e) => Min(F) = a /\ Max(F) = b BY <1>11, <1>9, <1>5, <2>3, <2>4
  <2>6. Min(F) \in Nat /\ Max(F) \in Nat /\ Min(F) <= Max(F) BY <2>3, <2>4, <1>6
  <2> QED BY <2>5, <2>6, <1>1, <1>2, <1>3, <1>7, <1>11 DEF n, a, b
<1> QED BY <1>10, <1>11

\* A quotient without a rest.
LEMMA Quotient ==
    ASSUME NEW n \in Nat, n > 0, NEW d \in Int
    PROVE  (n * d) \div n = d
OBVIOUS

LEMMA RampIs ==
    ASSUME NEW f \in Int, NEW g \in Int, f < g, NEW at \in Int, NEW a \in Int, NEW b \in Int
    PROVE  interpLinearRamp(f, g, at, a, b) \in Int
<1>1. ((at - f) * (b - a)) \in Int /\ g - f \in Nat /\ g - f > 0 OBVIOUS
<1>2. ((at - f) * (b - a)) \div (g - f) \in Int BY <1>1
<1> QED BY <1>2 DEF interpLinearRamp

LEMMA RampEnds ==
    ASSUME NEW f \in Int, NEW g \in Int, f < g, NEW a \in Int, NEW b \in Int
    PROVE  interpLinearRamp(f, g, g, a, b) = b
<1>1. g - f \in Nat /\ g - f > 0 /\ b - a \in Int OBVIOUS
<1>2. ((g - f) * (b - a)) \div (g - f) = b - a BY <1>1, Quotient
<1> QED BY <1>2 DEF interpLinearRamp

\* Whatever the order of a ramp's frames, what is interpolated is a number.
LEMMA InterpolatedType ==
    ASSUME NEW e \in Entry, NEW at \in Nat, Spans(e, at)
    PROVE  getInterpolatedData(e, at) \in Int
<1> DEFINE k == e.frameData
           n == Len(k)
<1>1. /\ k \in Seq(KeyFrame) /\ n \in Nat \ {0} /\ 1 \in DOMAIN k /\ n \in DOMAIN k
      /\ e.interpMode \in Ramps \/ getMaxFrame(e) = k[1].frame + (n - 1)
      /\ ~Backwards(e) => getMinFrame(e) = k[1].frame /\ getMaxFrame(e) = k[n].frame
  BY Span
<1>2. \A i \in 1..n : k[i].frame \in Nat /\ k[i].value \in Int
  <2>1. \A i \in 1..n : k[i] \in KeyFrame BY <1>1, SeqElements
  <2> QED BY <2>1 DEF KeyFrame
<1>3. DOMAIN k = 1..n BY <1>1
<1>4. k[1].frame \in Nat /\ k[n].frame \in Nat /\ k[1].value \in Int /\ k[n].value \in Int
  BY <1>1, <1>2
<1>5. e.interpMode \in {STEP, LIST} \cup Ramps BY Shapes
<1> HIDE DEF n
<1>6. CASE e.interpMode = STEP
  BY <1>4, <1>6 DEF getInterpolatedData, n, STEP, LIST
<1>7. CASE e.interpMode = LIST
  <2>1. ~Backwards(e) /\ ~(e.interpMode \in Ramps)
    BY <1>7 DEF Backwards, Ramps, LIST, LINEAR_FLOAT, LINEAR_COLOUR, LINEAR_POINT3D
  <2>2. at - k[1].frame + 1 \in 1..n BY <2>1, <1>1, <1>4 DEF Spans
  <2>3. k[at - k[1].frame + 1].value \in Int BY <2>2, <1>2
  <2>4. getInterpolatedData(e, at) = k[at - k[1].frame + 1].value
    BY <1>7 DEF getInterpolatedData, STEP, LIST
  <2> QED BY <2>3, <2>4
<1>8. CASE e.interpMode \in Ramps
  <2> DEFINE f == k[1].frame
             g == k[n].frame
             u == k[1].value
             v == k[n].value
  <2>1. f \in Int /\ g \in Int /\ u \in Int /\ v \in Int /\ at \in Int BY <1>4
  <2>2. e.interpMode # STEP /\ e.interpMode # LIST BY <1>8, Shapes
  <2>3. getInterpolatedData(e, at) \in
           {u, v, interpLinearRamp(f, g, at, u, v), interpLinearRamp(g, f, at, u, v),
            interpLinearRamp(g, f, at, v, u)}
        /\ (f <= g => getInterpolatedData(e, at) = interpLinearRamp(f, g, at, u, v))
        /\ (~(f <= g) => getInterpolatedData(e, at) \in
               {u, v, interpLinearRamp(g, f, at, u, v), interpLinearRamp(g, f, at, v, u)})
    BY <2>2 DEF getInterpolatedData, n
  <2> HIDE DEF f, g, u, v
  <2>4. CASE f < g
    <3>1. interpLinearRamp(f, g, at, u, v) \in Int BY <2>1, <2>4, RampIs
    <3>2. f <= g BY <2>1, <2>4
    <3> QED BY <2>3, <3>1, <3>2
  <2>5. CASE g < f
    <3>1. interpLinearRamp(g, f, at, u, v) \in Int BY <2>1, <2>5, RampIs
    <3>2. interpLinearRamp(g, f, at, v, u) \in Int BY <2>1, <2>5, RampIs
    <3>3. ~(f <= g) BY <2>1, <2>5
    <3> QED BY <2>1, <2>3, <3>1, <3>2, <3>3
  <2>6. CASE f = g BY <2>1, <2>3, <2>6 DEF interpLinearRamp, NoValue
  <2> QED BY <2>1, <2>4, <2>5, <2>6
<1> QED BY <1>5, <1>6, <1>7, <1>8

\* Of an entry that goes forwards the program makes what was asked for: while it
\* is active, and once it has ended the value it ended with.
LEMMA AskedIs ==
    ASSUME NEW e \in Entry, ~Backwards(e), NEW at \in Nat, getMinFrame(e) <= at
    PROVE  LET last == e.frameData[Len(e.frameData)].value IN
           /\ at <= getMaxFrame(e) => getInterpolatedData(e, at) = Asked(e, at)
           /\ at >= getMaxFrame(e) => Asked(e, at) = last
           /\ getInterpolatedData(e, getMaxFrame(e)) = last
<1> DEFINE k == e.frameData
           n == Len(k)
           Here(i) == k[i].frame <= at /\ (i < n => at < k[i + 1].frame)
           Point == CHOOSE i \in 1..n : Here(i)
           first == getMinFrame(e)
           last == getMaxFrame(e)
<1>1. /\ k \in Seq(KeyFrame) /\ n \in Nat \ {0} /\ DOMAIN k = 1..n
      /\ e.interpMode \in Ramps \/ last = k[1].frame + (n - 1)
      /\ first = k[1].frame /\ last = k[n].frame
      /\ first \in Nat /\ last \in Nat /\ first <= last
  BY Span
<1>2. \A i \in 1..n : k[i].frame \in Nat /\ k[i].value \in Int
  <2>1. \A i \in 1..n : k[i] \in KeyFrame BY <1>1, SeqElements
  <2> QED BY <2>1 DEF KeyFrame
<1>3. Asked(e, at) = IF e.interpMode = LIST \/ at >= last THEN k[Point].value
                     ELSE k[1].value +
                            ((at - first) * (k[n].value - k[1].value)) \div (last - first)
  BY <1>1 DEF Asked
<1>4. e.interpMode \in {STEP, LIST} \cup Ramps BY Shapes
<1>5. ASSUME NEW i \in 1..n, Here(i), \A j \in 1..n : Here(j) => j = i PROVE Point = i
  BY <1>5
<1> HIDE DEF Point, first, last, n
<1>6. CASE e.interpMode = STEP
  <2>1. n = 1 BY <1>6, Shapes DEF n
  <2>2. first = last /\ at >= last BY <2>1, <1>1 DEF first
  <2>3. Point = 1
    <3>1. 1 \in 1..n /\ Here(1)
      <4>1. k[1].frame <= at BY <2>2, <1>1
      <4> QED BY <4>1, <2>1
    <3>2. \A j \in 1..n : j = 1 BY <2>1
    <3> QED BY <3>1, <3>2, <1>5
  <2>4. getInterpolatedData(e, at) = k[1].value /\ getInterpolatedData(e, last) = k[1].value
    BY <1>6 DEF getInterpolatedData, STEP, LIST
  <2> QED BY <2>1, <2>2, <2>3, <2>4, <1>3 DEF n, last, first
<1>7. CASE e.interpMode = LIST
  <2>1. \A i \in 1..n : k[i].frame = first + (i - 1)
    BY <1>7, <1>1, Shapes DEF n
  <2>2. last = first + (n - 1) BY <2>1, <1>1
  <2>3. ASSUME at <= last PROVE Point = at - first + 1
    <3> DEFINE i == at - first + 1
    <3>1. i \in 1..n
      <4>1. first \in Nat /\ first <= at /\ at <= first + (n - 1) /\ n \in Nat
        BY <2>2, <2>3, <1>1 DEF first
      <4> QED BY <4>1
    <3>2. at = first + (i - 1) BY <1>1
    <3>3. \A j \in 1..n : Here(j) => j = i
      <4> SUFFICES ASSUME NEW j \in 1..n, Here(j) PROVE j = i OBVIOUS
      <4> HIDE DEF i, k
      <4>1. k[j].frame = first + (j - 1) BY <2>1
      <4>2. j < n => k[j + 1].frame = first + j
        <5>1. j < n => j + 1 \in 1..n BY <1>1
        <5>2. j < n => k[j + 1].frame = first + ((j + 1) - 1) BY <5>1, <2>1
        <5> QED BY <5>2, <1>1
      <4>3. first + (j - 1) <= at /\ (j < n => at < first + j) BY <4>1, <4>2
      <4>4. i \in Nat /\ j \in Nat /\ i <= n /\ j <= n BY <3>1, <1>1
      <4>5. j - 1 <= i - 1 /\ (j < n => i - 1 < j) BY <4>3, <4>4, <3>2, <1>1
      <4> QED BY <4>4, <4>5, <1>1
    <3>4. Here(i)
      <4>1. k[i].frame = first + (i - 1) /\ (i < n => k[i + 1].frame = first + i)
        <5> HIDE DEF i
        <5>1. k[i].frame = first + (i - 1) BY <3>1, <2>1
        <5>2. i < n => i + 1 \in 1..n BY <3>1, <1>1
        <5>3. i < n => k[i + 1].frame = first + ((i + 1) - 1) BY <5>2, <2>1
        <5>4. i \in Nat BY <3>1, <1>1
        <5> QED BY <5>1, <5>3, <5>4, <1>1
      <4> HIDE DEF i
      <4> QED BY <4>1, <3>1, <3>2, <1>1
    <3> QED BY <3>1, <3>3, <3>4, <1>5
  <2>4. ASSUME at >= last PROVE Point = n
    <3>1. n \in 1..n /\ Here(n) BY <2>4, <1>1
    <3>2. \A j \in 1..n : Here(j) => j = n
      <4> SUFFICES ASSUME NEW j \in 1..n, Here(j), j < n PROVE FALSE BY <1>1
      <4>1. k[j + 1].frame = first + j BY <2>1, <1>1
      <4> QED BY <4>1, <2>2, <2>4, <1>1
    <3> QED BY <3>1, <3>2, <1>5
  <2>5. getInterpolatedData(e, at) = k[at - first + 1].value
        /\ getInterpolatedData(e, last) = k[last - first + 1].value
    <3>1. \A x : getInterpolatedData(e, x) = k[x - k[1].frame + 1].value
      BY <1>7 DEF getInterpolatedData, STEP, LIST
    <3> QED BY <3>1, <1>1
  <2>6. last - first + 1 = n BY <2>2, <1>1
  <2> QED BY <2>3, <2>4, <2>5, <2>6, <1>3, <1>7 DEF n, last, first
<1>8. CASE e.interpMode \in Ramps
  <2>1. n = 2 /\ e.interpMode # STEP /\ e.interpMode # LIST BY <1>8, Shapes DEF n
  <2>2. ~(k[1].frame >= k[2].frame) BY <1>8 DEF Backwards, Ramps
  <2>3. first < last BY <2>1, <2>2, <1>1, <1>2
  <2>4. \A x : getInterpolatedData(e, x) =
                 interpLinearRamp(first, last, x, k[1].value, k[n].value)
    <3>1. k[1].frame <= k[n].frame BY <2>3, <1>1
    <3>2. \A x : getInterpolatedData(e, x) =
                 interpLinearRamp(k[1].frame, k[n].frame, x, k[1].value, k[n].value)
      BY <2>1, <3>1 DEF getInterpolatedData, n
    <3> QED BY <3>2, <1>1
  <2>5. ASSUME at >= last PROVE Point = 2
    <3>1. 2 \in 1..n /\ Here(2)
      <4>1. k[2].frame <= at BY <2>1, <2>5, <1>1
      <4> QED BY <4>1, <2>1
    <3>2. 1..n = {1, 2} BY <2>1
    <3>3. ~Here(1)
      <4>1. k[2].frame <= at /\ k[2].frame \in Nat /\ at \in Nat BY <2>1, <2>5, <1>1, <1>2
      <4>2. ~(at < k[1 + 1].frame) BY <4>1
      <4> QED BY <4>2, <2>1
    <3> QED BY <3>1, <3>2, <3>3, <1>5
  <2>6. k[1].value \in Int /\ k[n].value \in Int BY <1>1, <1>2
  <2>7. getInterpolatedData(e, last) = k[n].value
    <3>1. first \in Int /\ last \in Int BY <1>1
    <3> DEFINE u == k[1].value
               v == k[n].value
    <3>2. getInterpolatedData(e, last) = interpLinearRamp(first, last, last, u, v) BY <2>4
    <3>3. u \in Int /\ v \in Int BY <2>6
    <3> HIDE DEF u, v, k
    <3>4. interpLinearRamp(first, last, last, u, v) = v BY <2>3, <3>1, <3>3, RampEnds
    <3> QED BY <3>2, <3>4 DEF v
  <2>8. ~(at >= last) => getInterpolatedData(e, at) = Asked(e, at)
    BY <1>3, <2>1, <2>3, <2>4, <1>1 DEF interpLinearRamp
  <2>9. at >= last => Asked(e, at) = k[n].value BY <2>5, <2>1, <1>3
  <2>10. at <= last => at = last \/ ~(at >= last) BY <1>1
  <2>11. at = last => at >= last BY <1>1
  <2> QED BY <2>7, <2>8, <2>9, <2>10, <2>11 DEF n, last
<1> QED BY <1>4, <1>6, <1>7, <1>8

LEMMA EntryFrames ==
    ASSUME NEW entries \in Seq(Entry), NEW i \in DOMAIN entries
    PROVE  /\ entries[i] \in Entry /\ entries[i].prop \in Props
           /\ getMinFrame(entries[i]) \in Nat /\ getMaxFrame(entries[i]) \in Nat
           /\ getMinFrame(entries[i]) <= getMaxFrame(entries[i])
<1>1. entries[i] \in Entry BY SeqElements
<1>2. entries[i].prop \in Props BY <1>1 DEF Entry
<1> QED BY <1>1, <1>2, Span

LEMMA LastFrameType == ASSUME NEW entries \in Seq(Entry) PROVE LastFrame(entries) \in Nat
<1> DEFINE D == DOMAIN entries
           M == {getMaxFrame(entries[i]) : i \in D}
           S == {0} \cup M
<1>1. IsFiniteSet(D)
  <2>1. D = 1..Len(entries) /\ Len(entries) \in Nat OBVIOUS
  <2> QED BY <2>1, FS_Interval
<1>2. M \in SUBSET Nat BY EntryFrames
<1>3. IsFiniteSet(M)
  <2> DEFINE f == [i \in D |-> getMaxFrame(entries[i])]
  <2>1. M = {f[i] : i \in D} OBVIOUS
  <2> HIDE DEF f, D, M
  <2> QED BY <1>1, <2>1, ValuesFinite
<1>4. IsFiniteSet(S)
  <2>1. IsFiniteSet({0}) BY FS_Singleton
  <2> HIDE DEF M
  <2> QED BY <2>1, <1>3, FS_Union
<1>5. S \in SUBSET Nat /\ S # {} BY <1>2
<1>6. LastFrame(entries) = Max(S) BY DEF LastFrame
<1> HIDE DEF S
<1> QED BY <1>4, <1>5, <1>6, Greatest

\* Of some entries one ended last.
LEMMA LatestIs ==
    ASSUME NEW entries \in Seq(Entry), NEW among \in SUBSET DOMAIN entries, among # {}
    PROVE  LET l == LatestOf(entries, among) IN
           /\ l \in among
           /\ \A j \in among : getMaxFrame(entries[j]) <= getMaxFrame(entries[l])
<1> DEFINE Last(i) == getMaxFrame(entries[i])
           M == {Last(i) : i \in among}
           m == Max(M)
           T == {i \in among : Last(i) = m}
           Latest(i) == \A j \in among : Last(i) > Last(j) \/ (Last(i) = Last(j) /\ i >= j)
<1>1. IsFiniteSet(among) /\ among \in SUBSET Nat
  <2>1. DOMAIN entries = 1..Len(entries) /\ Len(entries) \in Nat OBVIOUS
  <2>2. IsFiniteSet(1..Len(entries)) BY <2>1, FS_Interval
  <2> QED BY <2>1, <2>2, FS_Subset
<1>2. \A i \in among : Last(i) \in Nat BY EntryFrames
<1> HIDE DEF Last
<1>3. M \in SUBSET Nat /\ M # {} BY <1>2
<1>4. IsFiniteSet(M)
  <2> DEFINE f == [i \in among |-> Last(i)]
  <2>1. M = {f[i] : i \in among} OBVIOUS
  <2> HIDE DEF f, M
  <2> QED BY <1>1, <2>1, ValuesFinite
<1>5. m \in M /\ \A x \in M : x <= m BY <1>3, <1>4, Greatest
<1>6. T \in SUBSET among /\ T # {} BY <1>5
<1>7. IsFiniteSet(T) /\ T \in SUBSET Nat
  <2> HIDE DEF T
  <2> QED BY <1>1, <1>6, FS_Subset
<1>8. Max(T) \in T /\ \A x \in T : x <= Max(T) BY <1>6, <1>7, Greatest
<1>9. \E i \in among : Latest(i)
  <2>1. Max(T) \in among /\ Last(Max(T)) = m BY <1>8
  <2>2. ASSUME NEW j \in among PROVE m > Last(j) \/ (m = Last(j) /\ Max(T) >= j)
    <3>1. Last(j) <= m /\ m \in Nat /\ Last(j) \in Nat BY <1>5, <1>3, <1>2
    <3>2. Last(j) = m => j <= Max(T) BY <1>8
    <3>3. j \in Nat /\ Max(T) \in Nat BY <1>1, <2>1
    <3> QED BY <3>1, <3>2, <3>3
  <2> QED BY <2>1, <2>2
<1>10. LatestOf(entries, among) = CHOOSE i \in among : Latest(i) BY DEF LatestOf, Last
<1> DEFINE l == LatestOf(entries, among)
<1>11. l \in among /\ Latest(l) BY <1>9, <1>10
<1> HIDE DEF l
<1>12. \A j \in among : Last(j) <= Last(l) BY <1>11, <1>2
<1> QED BY <1>11, <1>12 DEF l, Last

\* A property is a number at a frame.
LEMMA FilterDataType ==
    ASSUME NEW entries \in Seq(Entry), NEW p, NEW at \in Nat
    PROVE  getInterpolatedFilterData(entries, p, at) \in Int
<1> DEFINE of == {i \in DOMAIN entries : entries[i].prop = p}
           active == {i \in of : Spans(entries[i], at)}
           ended == of \cap Ended(entries, at)
<1>1. CASE active # {}
  <2>1. active \in SUBSET Nat OBVIOUS
  <2>2. Min(active) \in active BY <2>1, <1>1, Least
  <2> DEFINE m == Min(active)
  <2>3. m \in DOMAIN entries /\ Spans(entries[m], at) BY <2>2
  <2>4. getInterpolatedFilterData(entries, p, at) = getInterpolatedData(entries[m], at)
    BY <1>1 DEF getInterpolatedFilterData
  <2> HIDE DEF m
  <2>5. entries[m] \in Entry BY <2>3, EntryFrames
  <2> QED BY <2>3, <2>4, <2>5, InterpolatedType
<1>2. CASE active = {} /\ ended # {}
  <2> DEFINE l == LatestOf(entries, ended)
  <2>1. ended \in SUBSET DOMAIN entries OBVIOUS
  <2>2. l \in ended BY <2>1, <1>2, LatestIs
  <2>3. getInterpolatedFilterData(entries, p, at) =
           getInterpolatedData(entries[l], getMaxFrame(entries[l]))
    BY <1>2 DEF getInterpolatedFilterData
  <2>4. l \in DOMAIN entries BY <2>2
  <2> HIDE DEF l
  <2> DEFINE e == entries[l]
  <2>5. /\ e \in Entry /\ getMinFrame(e) \in Nat /\ getMaxFrame(e) \in Nat
        /\ getMinFrame(e) <= getMaxFrame(e)
    BY <2>4, EntryFrames
  <2> HIDE DEF e
  <2>6. Spans(e, getMaxFrame(e)) BY <2>5 DEF Spans
  <2> QED BY <2>3, <2>5, <2>6, InterpolatedType DEF e
<1>3. CASE active = {} /\ ended = {}
  BY <1>3 DEF getInterpolatedFilterData, NoValue
<1> QED BY <1>1, <1>2, <1>3

-----------------------------------------------------------------------------
(* What the program makes of the entries is what was asked for.             *)
NoneBackwards == \A i \in DOMAIN keyFrames : ~Backwards(keyFrames[i])

LEMMA Apart ==
    ASSUME NEW entries \in Seq(Entry), checkSelfConsistent(entries),
           NEW i \in DOMAIN entries, NEW j \in DOMAIN entries, i # j,
           entries[i].prop = entries[j].prop
    PROVE  \/ getMaxFrame(entries[i]) < getMinFrame(entries[j])
           \/ getMaxFrame(entries[j]) < getMinFrame(entries[i])
<1> DEFINE a == getMinFrame(entries[i])
           b == getMaxFrame(entries[i])
           c == getMinFrame(entries[j])
           d == getMaxFrame(entries[j])
<1>1. a \in Nat /\ b \in Nat /\ a <= b /\ c \in Nat /\ d \in Nat /\ c <= d BY EntryFrames
<1>2. i \in Nat /\ j \in Nat OBVIOUS
<1>3. ~rangesOverlap(a, b, c, d) \/ ~rangesOverlap(c, d, a, b) BY <1>2 DEF checkSelfConsistent
<1> HIDE DEF a, b, c, d
<1>4. b < c \/ d < a BY <1>1, <1>3 DEF rangesOverlap
<1> QED BY <1>4 DEF a, b, c, d

LastBegun(p, at) ==
    CHOOSE i \in Begun(p, at) :
        \A j \in Begun(p, at) : getMinFrame(keyFrames[j]) <= getMinFrame(keyFrames[i])

LEMMA LastBegunIs ==
    ASSUME keyFrames \in Seq(Entry), NEW p, NEW at \in Nat, Begun(p, at) # {}
    PROVE  LET l == LastBegun(p, at) IN
           /\ l \in Begun(p, at)
           /\ \A j \in Begun(p, at) : getMinFrame(keyFrames[j]) <= getMinFrame(keyFrames[l])
<1> DEFINE First(i) == getMinFrame(keyFrames[i])
           B == Begun(p, at)
           M == {First(i) : i \in B}
<1>1. B \in SUBSET DOMAIN keyFrames BY DEF Begun
<1>2. \A i \in B : First(i) \in Nat BY <1>1, EntryFrames
<1>3. IsFiniteSet(B)
  <2>1. DOMAIN keyFrames = 1..Len(keyFrames) /\ Len(keyFrames) \in Nat OBVIOUS
  <2>2. IsFiniteSet(DOMAIN keyFrames) BY <2>1, FS_Interval
  <2> QED BY <1>1, <2>2, FS_Subset
<1> HIDE DEF B, First
<1>4. IsFiniteSet(M)
  <2> DEFINE f == [i \in B |-> First(i)]
  <2>1. M = {f[i] : i \in B} OBVIOUS
  <2> HIDE DEF f, M
  <2> QED BY <1>3, <2>1, ValuesFinite
<1>5. M \in SUBSET Nat /\ M # {} BY <1>2 DEF B
<1>6. Max(M) \in M /\ \A x \in M : x <= Max(M) BY <1>4, <1>5, Greatest
<1>7. \E i \in B : \A j \in B : First(j) <= First(i) BY <1>6
<1>8. \E i \in Begun(p, at) :
         \A j \in Begun(p, at) : getMinFrame(keyFrames[j]) <= getMinFrame(keyFrames[i])
  BY <1>7 DEF B, First
<1> QED BY <1>8 DEF LastBegun

LEMMA WantedBegun ==
    ASSUME NEW p, NEW at, Begun(p, at) # {}
    PROVE  Wanted(p, at) = Asked(keyFrames[LastBegun(p, at)], at)
BY DEF Wanted, LastBegun

\* A property that has an entry begun by a frame is set to what was asked for.
LEMMA WantedIs ==
    ASSUME keyFrames \in Seq(Entry), checkSelfConsistent(keyFrames), NoneBackwards,
           NEW p, NEW at \in Nat, Begun(p, at) # {}
    PROVE  getInterpolatedFilterData(keyFrames, p, at) = Wanted(p, at)
<1> DEFINE D == DOMAIN keyFrames
           of == {i \in D : keyFrames[i].prop = p}
           active == {i \in of : Spans(keyFrames[i], at)}
           ended == of \cap Ended(keyFrames, at)
           l == LastBegun(p, at)
           First(i) == getMinFrame(keyFrames[i])
           Last(i) == getMaxFrame(keyFrames[i])
<1>1. l \in Begun(p, at) /\ \A j \in Begun(p, at) : First(j) <= First(l) BY LastBegunIs
<1>2. l \in of /\ First(l) <= at BY <1>1 DEF Begun
<1>3. \A i \in D : /\ First(i) \in Nat /\ Last(i) \in Nat /\ First(i) <= Last(i)
                   /\ keyFrames[i] \in Entry
  BY EntryFrames
<1>4. \A i \in of : i # l => Last(i) < First(l) \/ Last(l) < First(i) BY <1>2, Apart
<1>5. \A i \in of : First(i) <= at => i \in Begun(p, at) BY DEF Begun
<1>6. \A i \in active : First(i) <= at /\ at <= Last(i) BY DEF Spans
<1>7. \A i \in ended : Last(i) <= at BY DEF Ended
<1>8. Wanted(p, at) = Asked(keyFrames[l], at) BY WantedBegun
<1>9. keyFrames[l] \in Entry /\ ~Backwards(keyFrames[l]) BY <1>2, <1>3 DEF NoneBackwards
<1>10. of \in SUBSET D /\ active \in SUBSET of /\ ended \in SUBSET of /\ of \in SUBSET Nat OBVIOUS
<1>11. l \in active \/ l \in ended
  <2>1. at <= Last(l) \/ Last(l) <= at BY <1>2, <1>3
  <2> QED BY <1>2, <2>1 DEF Spans, Ended
<1>12. /\ active # {} => getInterpolatedFilterData(keyFrames, p, at) =
                            getInterpolatedData(keyFrames[Min(active)], at)
       /\ active = {} /\ ended # {} =>
             getInterpolatedFilterData(keyFrames, p, at) =
                getInterpolatedData(keyFrames[LatestOf(keyFrames, ended)],
                                    getMaxFrame(keyFrames[LatestOf(keyFrames, ended)]))
  BY DEF getInterpolatedFilterData
<1> HIDE DEF active, ended, of, l, First, Last
<1>13. CASE active # {}
  <2> DEFINE a == Min(active)
  <2>1. a \in active BY <1>10, <1>13, Least
  <2> HIDE DEF a
  <2>2. a \in of /\ a \in D BY <2>1, <1>10
  <2>3. First(a) <= at /\ at <= Last(a) /\ First(a) <= First(l) BY <2>1, <2>2, <1>6, <1>5, <1>1
  <2>4. a = l BY <2>2, <2>3, <1>2, <1>3, <1>4, <1>10
  <2>5. getInterpolatedFilterData(keyFrames, p, at) = getInterpolatedData(keyFrames[l], at)
    BY <1>12, <1>13, <2>4 DEF a
  <2>6. getMinFrame(keyFrames[l]) <= at /\ at <= getMaxFrame(keyFrames[l])
    BY <2>3, <2>4 DEF First, Last
  <2> QED BY <1>8, <1>9, <2>5, <2>6, AskedIs
<1>14. CASE active = {}
  <2> DEFINE c == LatestOf(keyFrames, ended)
  <2>1. l \in ended /\ ended \in SUBSET DOMAIN keyFrames BY <1>11, <1>14, <1>10
  <2>2. c \in ended /\ \A j \in ended : Last(j) <= Last(c) BY <2>1, LatestIs DEF Last
  <2> HIDE DEF c
  <2>3. c \in of /\ c \in D BY <2>2, <1>10
  <2>4. First(c) <= at /\ First(c) <= First(l) /\ Last(l) <= Last(c)
    <3>1. First(c) <= Last(c) /\ Last(c) <= at /\ First(c) \in Nat /\ Last(c) \in Nat
      BY <2>2, <2>3, <1>3, <1>7
    <3>2. First(c) <= at BY <3>1
    <3> QED BY <3>2, <2>1, <2>2, <2>3, <1>5, <1>1
  <2>5. c = l BY <2>3, <2>4, <1>2, <1>3, <1>4, <1>10
  <2>6. getInterpolatedFilterData(keyFrames, p, at) =
           getInterpolatedData(keyFrames[l], getMaxFrame(keyFrames[l]))
    BY <1>12, <1>14, <2>1, <2>5 DEF c
  <2>7. getMinFrame(keyFrames[l]) <= at /\ getMaxFrame(keyFrames[l]) <= at
        /\ getMaxFrame(keyFrames[l]) \in Nat
    BY <2>1, <2>3, <2>4, <2>5, <1>7, <1>3 DEF First, Last
  <2>8. at >= getMaxFrame(keyFrames[l]) BY <2>7
  <2> QED BY <1>8, <1>9, <2>6, <2>7, <2>8, AskedIs
<1> QED BY <1>13, <1>14

\* At a frame at which no entry of a property is active, what was asked for is
\* what it was at the frame before.
LEMMA WantedStays ==
    ASSUME keyFrames \in Seq(Entry), NoneBackwards, NEW p, NEW at \in Nat,
           \A i \in DOMAIN keyFrames : keyFrames[i].prop = p => ~Spans(keyFrames[i], at)
    PROVE  Wanted(p, at) = WantedBefore(p, at)
<1> DEFINE First(i) == getMinFrame(keyFrames[i])
           Last(i) == getMaxFrame(keyFrames[i])
<1>1. \A i \in DOMAIN keyFrames : /\ First(i) \in Nat /\ Last(i) \in Nat /\ First(i) <= Last(i)
                                  /\ keyFrames[i] \in Entry
  BY EntryFrames
<1>2. \A i \in DOMAIN keyFrames : keyFrames[i].prop = p => ~(First(i) <= at /\ at <= Last(i))
  BY DEF Spans
<1>3. \A i : i \in Begun(p, at) <=>
               i \in DOMAIN keyFrames /\ keyFrames[i].prop = p /\ First(i) <= at
  BY DEF Begun
<1>4. \A i : i \in Begun(p, at - 1) <=>
               i \in DOMAIN keyFrames /\ keyFrames[i].prop = p /\ First(i) <= at - 1
  BY DEF Begun
<1> HIDE DEF First, Last
<1>5. CASE Begun(p, at) = {}
  <2>1. Wanted(p, at) = before[p] BY <1>5 DEF Wanted
  <2>2. at # 0 => Begun(p, at - 1) = {}
    <3> SUFFICES ASSUME NEW i \in Begun(p, at - 1) PROVE FALSE OBVIOUS
    <3>1. i \in Begun(p, at) BY <1>1, <1>3, <1>4
    <3> QED BY <3>1, <1>5
  <2>3. at # 0 => Wanted(p, at - 1) = before[p] BY <2>2 DEF Wanted
  <2> QED BY <2>1, <2>3 DEF WantedBefore
<1>6. CASE Begun(p, at) # {}
  <2>1. \A i \in Begun(p, at) : Last(i) <= at - 1 /\ First(i) <= at - 1 BY <1>1, <1>2, <1>3
  <2>2. Begun(p, at - 1) = Begun(p, at)
    <3>1. \A i : i \in Begun(p, at - 1) => i \in Begun(p, at) BY <1>1, <1>3, <1>4
    <3>2. \A i : i \in Begun(p, at) => i \in Begun(p, at - 1) BY <2>1, <1>3, <1>4
    <3> QED BY <3>1, <3>2
  <2>3. LastBegun(p, at - 1) = LastBegun(p, at) BY <2>2 DEF LastBegun
  <2> DEFINE l == LastBegun(p, at)
             e == keyFrames[l]
  <2>4. l \in Begun(p, at) BY <1>6, LastBegunIs
  <2>5. Wanted(p, at) = Asked(e, at) BY <1>6, WantedBegun
  <2>6. Wanted(p, at - 1) = Asked(e, at - 1) BY <1>6, <2>2, <2>3, WantedBegun
  <2> HIDE DEF l
  <2>7. e \in Entry /\ ~Backwards(e) BY <2>4, <1>1, <1>3 DEF NoneBackwards
  <2>8. First(l) \in Nat /\ Last(l) \in Nat /\ First(l) <= Last(l) /\ Last(l) <= at - 1
    BY <2>1, <2>4, <1>1, <1>3
  <2>9. at # 0 /\ at - 1 \in Nat BY <2>8
  <2>10. First(l) <= at /\ First(l) <= at - 1 /\ at >= Last(l) /\ at - 1 >= Last(l) BY <2>8
  <2>11. getMinFrame(e) <= at /\ getMinFrame(e) <= at - 1 /\ at >= getMaxFrame(e)
         /\ at - 1 >= getMaxFrame(e)
    BY <2>10 DEF First, Last
  <2> HIDE DEF e
  <2>12. Asked(e, at) = e.frameData[Len(e.frameData)].value BY <2>7, <2>11, AskedIs
  <2>13. Asked(e, at - 1) = e.frameData[Len(e.frameData)].value BY <2>7, <2>9, <2>11, AskedIs
  <2> QED BY <2>5, <2>6, <2>9, <2>12, <2>13 DEF WantedBefore
<1> QED BY <1>5, <1>6

-----------------------------------------------------------------------------
(* The entries a frame is made of.                                          *)
LEMMA HasPlace ==
    ASSUME NEW S \in SUBSET Nat, IsFiniteSet(S), NEW k \in S
    PROVE  \E i \in 1..Cardinality(S) : Nth(S, i) = k
<1> DEFINE B == {l \in S : l <= k}
<1>1. B \in SUBSET S /\ k \in B OBVIOUS
<1>2. IsFiniteSet(B) /\ Cardinality(B) <= Cardinality(S) BY <1>1, FS_Subset
<1>3. Cardinality(B) \in Nat /\ Cardinality(B) # 0 BY <1>1, <1>2, FS_CardinalityType, FS_EmptySet
<1>4. Cardinality(S) \in Nat BY FS_CardinalityType
<1>5. Cardinality(B) \in 1..Cardinality(S) BY <1>2, <1>3, <1>4
<1> QED BY <1>5, PlaceIs

LEMMA ShownIs ==
    ASSUME NEW entries \in Seq(Entry), NEW at \in Nat
    PROVE  LET shown == getPropertiesAtFrame(entries, at) IN
           /\ shown \in Seq(Entry) /\ Len(shown) \in 0..Len(entries)
           /\ \A k \in 1..Len(shown) : \E j \in DOMAIN entries :
                 shown[k] = entries[j] /\ getMinFrame(entries[j]) <= at
           /\ \A j \in DOMAIN entries : Spans(entries[j], at) =>
                 \E k \in 1..Len(shown) : shown[k] = entries[j]
<1> DEFINE D == DOMAIN entries
           active == {i \in D : Spans(entries[i], at)}
           seenIds == {entries[i].prop[1] : i \in active}
           rest == {i \in Ended(entries, at) : entries[i].prop[1] \notin seenIds}
           Same(i) == {j \in rest : entries[j].prop[1] = entries[i].prop[1]}
           best == {LatestOf(entries, Same(i)) : i \in rest}
           s == Only(entries, active)
           t == Only(entries, best)
           shown == getPropertiesAtFrame(entries, at)
<1>1. shown = s \o t BY DEF getPropertiesAtFrame
<1>2. D = 1..Len(entries) /\ Len(entries) \in Nat OBVIOUS
<1>3. rest \in SUBSET D /\ \A i \in rest : i \notin active BY DEF Ended
<1>4. best \in SUBSET rest
  <2> SUFFICES ASSUME NEW i \in rest PROVE LatestOf(entries, Same(i)) \in rest OBVIOUS
  <2>1. Same(i) \in SUBSET DOMAIN entries /\ Same(i) # {} BY <1>3
  <2> HIDE DEF rest, D
  <2>2. LatestOf(entries, Same(i)) \in Same(i)
    <3> DEFINE A == Same(i)
    <3>1. A \in SUBSET DOMAIN entries /\ A # {} BY <2>1
    <3> HIDE DEF A
    <3>2. LatestOf(entries, A) \in A BY <3>1, LatestIs
    <3> QED BY <3>2 DEF A
  <2> QED BY <2>2
<1>5. \A i \in active \cup rest : getMinFrame(entries[i]) <= at
  <2>1. \A i \in D : /\ getMinFrame(entries[i]) \in Nat /\ getMaxFrame(entries[i]) \in Nat
                     /\ getMinFrame(entries[i]) <= getMaxFrame(entries[i])
    BY EntryFrames
  <2>2. \A i \in active : getMinFrame(entries[i]) <= at BY DEF Spans
  <2>3. \A i \in rest : getMaxFrame(entries[i]) <= at BY DEF Ended
  <2> HIDE DEF rest, active
  <2>4. \A i \in rest : getMinFrame(entries[i]) <= at
    <3> SUFFICES ASSUME NEW i \in rest PROVE getMinFrame(entries[i]) <= at OBVIOUS
    <3> DEFINE a == getMinFrame(entries[i])
               b == getMaxFrame(entries[i])
    <3>1. a \in Nat /\ b \in Nat /\ a <= b /\ b <= at BY <2>1, <2>3, <1>3
    <3> HIDE DEF a, b
    <3>2. a <= at BY <3>1
    <3> QED BY <3>2 DEF a
  <2> QED BY <2>2, <2>4
<1>6. active \in SUBSET D /\ \A j \in D : Spans(entries[j], at) => j \in active OBVIOUS
<1> HIDE DEF rest, best, active, shown
<1>7. active \in SUBSET (1..Len(entries)) /\ best \in SUBSET (1..Len(entries))
  BY <1>2, <1>3, <1>4, <1>6
<1>8. /\ s \in Seq(Entry) /\ Len(s) = Cardinality(active) /\ Cardinality(active) \in Nat
      /\ \A i \in 1..Cardinality(active) :
            Nth(active, i) \in active /\ s[i] = entries[Nth(active, i)]
  BY <1>7, OnlyIs
<1>9. /\ t \in Seq(Entry) /\ Len(t) = Cardinality(best) /\ Cardinality(best) \in Nat
      /\ \A i \in 1..Cardinality(best) :
            Nth(best, i) \in best /\ t[i] = entries[Nth(best, i)]
  BY <1>7, OnlyIs
<1>10. /\ IsFiniteSet(active) /\ IsFiniteSet(best)
       /\ Cardinality(active) + Cardinality(best) <= Len(entries)
  <2>1. IsFiniteSet(1..Len(entries)) /\ Cardinality(1..Len(entries)) = Len(entries)
    BY <1>2, FS_Interval
  <2>2. IsFiniteSet(active) /\ IsFiniteSet(best) BY <2>1, <1>7, FS_Subset
  <2>3. active \cap best = {} BY <1>3, <1>4
  <2>4. Cardinality(active \cup best) =
           Cardinality(active) + Cardinality(best) - Cardinality(active \cap best)
    BY <2>2, FS_Union
  <2>5. Cardinality(active \cap best) = 0 BY <2>3, FS_EmptySet
  <2>6. active \cup best \in SUBSET (1..Len(entries)) BY <1>7
  <2>7. Cardinality(active \cup best) <= Cardinality(1..Len(entries)) BY <2>1, <2>6, FS_Subset
  <2> QED BY <2>1, <2>2, <2>4, <2>5, <2>7, <1>8, <1>9
<1> HIDE DEF s, t
<1>11. /\ shown \in Seq(Entry) /\ Len(shown) = Len(s) + Len(t)
       /\ \A i \in 1..Len(s) : shown[i] = s[i]
       /\ \A i \in 1..Len(t) : shown[Len(s) + i] = t[i]
  <2>1. /\ s \o t \in Seq(Entry) /\ Len(s \o t) = Len(s) + Len(t)
        /\ \A i \in 1..Len(s) : (s \o t)[i] = s[i]
        /\ \A i \in 1..Len(t) : (s \o t)[Len(s) + i] = t[i]
    <3>1. s \in Seq(Entry) /\ t \in Seq(Entry) BY <1>8, <1>9
    <3> QED BY <3>1, ConcatElements
  <2> QED BY <1>1, <2>1
<1>12. Len(shown) \in 0..Len(entries) BY <1>2, <1>8, <1>9, <1>10, <1>11
<1>13. ASSUME NEW k \in 1..Len(shown)
       PROVE \E j \in DOMAIN entries : shown[k] = entries[j] /\ getMinFrame(entries[j]) <= at
  <2>1. CASE k \in 1..Len(s)
    <3> DEFINE j == Nth(active, k)
    <3>1. j \in active /\ shown[k] = entries[j] BY <2>1, <1>8, <1>11
    <3> HIDE DEF j
    <3> QED BY <3>1, <1>5, <1>6
  <2>2. CASE k \notin 1..Len(s)
    <3> DEFINE i == k - Len(s)
               j == Nth(best, i)
    <3>1. i \in 1..Len(t) /\ Len(s) + i = k BY <2>2, <1>8, <1>9, <1>11
    <3>2. j \in best /\ shown[k] = entries[j]
      <4> HIDE DEF i
      <4> QED BY <3>1, <1>9, <1>11
    <3> HIDE DEF j
    <3> QED BY <3>2, <1>3, <1>4, <1>5
  <2> QED BY <2>1, <2>2
<1>14. ASSUME NEW j \in DOMAIN entries, Spans(entries[j], at)
       PROVE \E k \in 1..Len(shown) : shown[k] = entries[j]
  <2>1. j \in active BY <1>6, <1>14
  <2>2. active \in SUBSET Nat BY <1>7
  <2>3. PICK k \in 1..Cardinality(active) : Nth(active, k) = j BY <2>1, <2>2, <1>10, HasPlace
  <2>4. k \in 1..Len(shown) /\ shown[k] = entries[j] BY <2>3, <1>8, <1>9, <1>11
  <2> QED BY <2>4
<1> QED BY <1>11, <1>12, <1>13, <1>14 DEF shown

-----------------------------------------------------------------------------
(* The view of a frame.                                                     *)
Row == (Props \X Int) \cup {Blank}

\* The last elements of a sequence.
LEMMA LastPart ==
    ASSUME NEW S, NEW n \in Nat, NEW m \in Nat, NEW u \in Seq(S), Len(u) = m + n
    PROVE  SubSeq(u, n + 1, m + n) \in Seq(S) /\ Len(SubSeq(u, n + 1, m + n)) = m
OBVIOUS

Shows(grid, entries, at) ==
    LET shown == getPropertiesAtFrame(entries, at) IN
    /\ Len(grid) >= Len(shown)
    /\ \A i \in 1..Len(shown) :
          grid[i] = <<shown[i].prop, getInterpolatedFilterData(entries, shown[i].prop, at)>>

\* Rows of before are left only when there are fewer entries than rows.
LEMMA GridIs ==
    ASSUME NEW grid \in Seq(Row), NEW entries \in Seq(Entry), NEW at \in Nat
    PROVE  LET g == updateFrameViewGrid(grid, entries, at) IN
           /\ g \in Seq(Row)
           /\ checkSelfConsistent(entries) => Shows(g, entries, at)
           /\ Len(grid) <= Len(entries) =>
                 /\ Len(g) <= Len(entries)
                 /\ checkSelfConsistent(entries) =>
                       Len(g) = Len(getPropertiesAtFrame(entries, at))
<1> DEFINE g == updateFrameViewGrid(grid, entries, at)
           rest == SubSeq(grid, Len(entries) + 1, Len(grid))
           shown == getPropertiesAtFrame(entries, at)
           Value(i) == <<shown[i].prop, getInterpolatedFilterData(entries, shown[i].prop, at)>>
           rows == [i \in DOMAIN shown |-> Value(i)]
           blanks == [i \in DOMAIN shown |-> Blank]
           tail == SubSeq(rest \o blanks, Len(rows) + 1, Len(rest) + Len(rows))
           n == Len(shown)
<1>1. g = IF checkSelfConsistent(entries) THEN rows \o tail ELSE rest
  BY DEF updateFrameViewGrid
<1>2. shown \in Seq(Entry) /\ n \in 0..Len(entries) BY ShownIs
<1>3. DOMAIN shown = 1..n /\ n \in Nat /\ Len(grid) \in Nat /\ Len(entries) \in Nat BY <1>2
<1>4. /\ rest \in Seq(Row)
      /\ Len(rest) = IF Len(entries) < Len(grid) THEN Len(grid) - Len(entries) ELSE 0
  OBVIOUS
<1>5. \A i \in 1..n : Value(i) \in Row
  <2>1. \A i \in 1..n : shown[i] \in Entry BY <1>2, SeqElements
  <2>2. \A i \in 1..n : shown[i].prop \in Props BY <2>1 DEF Entry
  <2>3. \A i \in 1..n : getInterpolatedFilterData(entries, shown[i].prop, at) \in Int
    BY FilterDataType
  <2> QED BY <2>2, <2>3 DEF Row
<1> HIDE DEF Value, shown, n, g
<1>6. rows = [i \in 1..n |-> Value(i)] /\ blanks = [i \in 1..n |-> Blank] BY <1>3
<1>7. rows \in Seq(Row) /\ Len(rows) = n /\ \A i \in 1..n : rows[i] = Value(i) BY <1>3, <1>5, <1>6
<1>8. blanks \in Seq(Row) /\ Len(blanks) = n
  <2>1. Blank \in Row BY DEF Row
  <2> QED BY <1>3, <1>6, <2>1
<1> HIDE DEF rest, rows, blanks
<1>9. tail \in Seq(Row) /\ Len(tail) = Len(rest)
  <2> DEFINE u == rest \o blanks
  <2>1. u \in Seq(Row) /\ Len(u) = Len(rest) + n /\ Len(rest) \in Nat
    <3>1. rest \in Seq(Row) /\ blanks \in Seq(Row) BY <1>4, <1>8
    <3>2. rest \o blanks \in Seq(Row) /\ Len(rest \o blanks) = Len(rest) + Len(blanks)
      BY <3>1, ConcatElements
    <3>3. Len(rest) \in Nat BY <3>1
    <3> QED BY <3>2, <3>3, <1>8
  <2>2. tail = SubSeq(u, n + 1, Len(rest) + n) BY <1>7
  <2> HIDE DEF u, tail
  <2> QED BY <2>1, <2>2, <1>3, LastPart
<1> HIDE DEF tail
<1>10. CASE checkSelfConsistent(entries)
  <2>1. g = rows \o tail BY <1>1, <1>10
  <2>2. g \in Seq(Row) /\ Len(g) = n + Len(rest) /\ \A i \in 1..n : g[i] = Value(i)
    <3>1. rows \in Seq(Row) /\ tail \in Seq(Row) BY <1>7, <1>9
    <3>2. /\ rows \o tail \in Seq(Row) /\ Len(rows \o tail) = Len(rows) + Len(tail)
          /\ \A i \in 1..Len(rows) : (rows \o tail)[i] = rows[i]
      BY <3>1, ConcatElements
    <3> QED BY <2>1, <3>2, <1>7, <1>9
  <2>3. Len(rest) \in Nat BY <1>4
  <2>4. Len(g) >= n BY <2>2, <2>3, <1>3
  <2>5. Shows(g, entries, at) BY <2>2, <2>4 DEF Shows, n, shown, Value
  <2>6. Len(grid) <= Len(entries) => Len(g) = n /\ Len(g) <= Len(entries)
    BY <2>2, <1>2, <1>3, <1>4
  <2> QED BY <2>2, <2>5, <2>6 DEF g, n, shown
<1>11. CASE ~checkSelfConsistent(entries)
  <2>1. g = rest BY <1>1, <1>11
  <2>2. Len(grid) <= Len(entries) => Len(g) <= Len(entries) BY <2>1, <1>3, <1>4
  <2> QED BY <2>1, <2>2, <1>4, <1>11 DEF g
<1> QED BY <1>10, <1>11

-----------------------------------------------------------------------------
(* The entries the user makes.                                              *)
LEMMA OneKey ==
    ASSUME NEW p \in Props, NEW f \in Nat, NEW v \in Int
    PROVE  FrameProperties(p, <<Key(f, v)>>, STEP) \in Entry
<1> DEFINE k == <<Key(f, v)>>
<1>1. Key(f, v) \in KeyFrame BY DEF Key, KeyFrame
<1>2. k \in Seq(KeyFrame) /\ Len(k) = 1 BY <1>1
<1> HIDE DEF k
<1>3. Shaped(FrameProperties(p, k, STEP)) BY <1>2 DEF Shaped, FrameProperties
<1> QED BY <1>2, <1>3 DEF Entry, FrameProperties, k

LEMMA EntriesTyped ==
    ASSUME keyFrames \in Seq(Entry), tree \in [Props -> Int],
           NEW p \in Props, NEW e \in Entries(p)
    PROVE  e \in Entry
<1>1. \A f \in Frames : f \in Nat BY AnimationAssumption
<1>2. \A v \in Values : v \in Int BY AnimationAssumption
<1>3. Stepped(p) \subseteq Entry
  <2> SUFFICES ASSUME NEW x \in Stepped(p) PROVE x \in Entry OBVIOUS
  <2>1. PICK f \in Frames, v \in Values : x = FrameProperties(p, <<Key(f, v)>>, STEP)
    BY DEF Stepped
  <2> QED BY <2>1, <1>1, <1>2, OneKey
<1>4. Ramped(p) \subseteq Entry
  <2> SUFFICES ASSUME NEW x \in Ramped(p) PROVE x \in Entry OBVIOUS
  <2>0. PICK f \in Frames, g \in Frames, a \in Values, b \in Values :
           x = FrameProperties(p, <<Key(f, a), Key(g, b)>>, Ramp(p))
    BY DEF Ramped
  <2> DEFINE k == <<Key(f, a), Key(g, b)>>
  <2>1. Key(f, a) \in KeyFrame /\ Key(g, b) \in KeyFrame BY <1>1, <1>2 DEF Key, KeyFrame
  <2>2. k \in Seq(KeyFrame) /\ Len(k) = 2 BY <2>1
  <2>3. Ramp(p) \in Ramps BY DEF Ramp, Ramps
  <2> HIDE DEF k
  <2>4. Shaped(FrameProperties(p, k, Ramp(p))) BY <2>2, <2>3 DEF Shaped, FrameProperties
  <2>5. FrameProperties(p, k, Ramp(p)) \in Entry BY <2>2, <2>3, <2>4 DEF Entry, FrameProperties
  <2> QED BY <2>0, <2>5 DEF k
<1>5. Listed(p) \subseteq Entry
  <2> SUFFICES ASSUME NEW x \in Listed(p) PROVE x \in Entry OBVIOUS
  <2>0. PICK f \in Frames, n \in 1..2, a \in Values, b \in Values :
           x = FrameProperties(p, [i \in 1..n |-> Key(f + i - 1, IF i = 1 THEN a ELSE b)], LIST)
    BY DEF Listed
  <2> DEFINE K(i) == Key(f + i - 1, IF i = 1 THEN a ELSE b)
             k == [i \in 1..n |-> K(i)]
  <2>1. f \in Nat /\ a \in Int /\ b \in Int /\ n \in Nat /\ n # 0 BY <1>1, <1>2
  <2>2. \A i \in 1..n : K(i) \in KeyFrame /\ K(i).frame = f + i - 1 BY <2>1 DEF Key, KeyFrame
  <2> HIDE DEF K
  <2>3. k \in Seq(KeyFrame) /\ Len(k) = n BY <2>1, <2>2
  <2>4. 1 \in 1..n /\ \A i \in 1..n : k[i] = K(i) BY <2>1
  <2>5. \A i \in 1..n : k[i].frame = k[1].frame + (i - 1) BY <2>1, <2>2, <2>4
  <2> HIDE DEF k
  <2>6. Shaped(FrameProperties(p, k, LIST)) BY <2>1, <2>3, <2>5 DEF Shaped, FrameProperties
  <2>7. FrameProperties(p, k, LIST) \in Entry BY <2>3, <2>6 DEF Entry, FrameProperties
  <2> QED BY <2>0, <2>7 DEF k, K
<1>6. Switched(p) \subseteq Entry
  <2> DEFINE last == LastFrame(keyFrames)
             Known(f) == getInterpolatedFilterData(keyFrames, p, Min({f, last}))
             Turned(f) == 1 - (IF Known(f) = NoValue THEN tree[p] ELSE Known(f))
  <2> SUFFICES ASSUME NEW f \in Frames
               PROVE FrameProperties(p, <<Key(f, Turned(f))>>, STEP) \in Entry
    BY DEF Switched
  <2>1. last \in Nat /\ f \in Nat BY <1>1, LastFrameType
  <2>2. Min({f, last}) \in Nat
    <3> DEFINE S == {f, last}
    <3>1. S \in SUBSET Nat /\ S # {} BY <2>1
    <3> HIDE DEF S
    <3>2. Min(S) \in Nat BY <3>1, Least
    <3> QED BY <3>2 DEF S
  <2>3. Known(f) \in Int BY <2>2, FilterDataType
  <2> HIDE DEF Known
  <2>4. Turned(f) \in Int BY <2>3
  <2> HIDE DEF Turned
  <2> QED BY <2>1, <2>4, OneKey
<1>7. e \in Stepped(p) \cup Ramped(p) \cup Listed(p) \cup Switched(p) BY DEF Entries
<1> QED BY <1>3, <1>4, <1>5, <1>6, <1>7

-----------------------------------------------------------------------------
(* The tree of a frame.                                                     *)
LEMMA TreeIs ==
    ASSUME keyFrames \in Seq(Entry), tree \in [Props -> Int], NEW at \in Nat
    PROVE  LET shown == getPropertiesAtFrame(keyFrames, at)
               new == getModifiedTree(at)
           IN  /\ new \in [Props -> Int]
               /\ \A p \in Props :
                     IF \E k \in 1..Len(shown) : shown[k].prop = p
                     THEN new[p] = getInterpolatedFilterData(keyFrames, p, at)
                     ELSE new[p] = tree[p]
<1> DEFINE shown == getPropertiesAtFrame(keyFrames, at)
           n == Len(shown)
           new == getModifiedTree(at)
           Value(p) == getInterpolatedFilterData(keyFrames, p, at)
           changes == Change(at)
           Sets(p) == {i \in DOMAIN changes : changes[i][1] = p}
<1>1. new = [p \in Props |-> IF Sets(p) = {} THEN tree[p] ELSE changes[Max(Sets(p))][2]]
  BY DEF getModifiedTree, setFilterProperty
<1>2. shown \in Seq(Entry) /\ n \in Nat
  <2>1. shown \in Seq(Entry) BY ShownIs
  <2> HIDE DEF shown
  <2> QED BY <2>1
<1>3. changes = [i \in DOMAIN shown |-> <<shown[i].prop, Value(shown[i].prop)>>] BY DEF Change
<1>4. DOMAIN shown = 1..n BY <1>2
<1>5. \A p : Value(p) \in Int BY FilterDataType
<1> HIDE DEF shown, n, Value, changes, new
<1>6. DOMAIN changes = 1..n /\ \A i \in 1..n : /\ changes[i][1] = shown[i].prop
                                              /\ changes[i][2] = Value(shown[i].prop)
  BY <1>3, <1>4
<1>7. ASSUME NEW p \in Props, NEW k \in 1..n, shown[k].prop = p
      PROVE  Sets(p) # {} /\ changes[Max(Sets(p))][2] = Value(p)
  <2>1. k \in Sets(p) BY <1>6, <1>7
  <2>2. Sets(p) \in SUBSET (1..n) BY <1>6
  <2>3. \A i \in Sets(p) : changes[i][2] = Value(p) BY <1>6
  <2> DEFINE S == Sets(p)
  <2> HIDE DEF Sets
  <2>4. IsFiniteSet(1..n) BY <1>2, FS_Interval
  <2>5. IsFiniteSet(S) /\ S \in SUBSET Nat /\ S # {}
    <3>1. S \in SUBSET (1..n) /\ k \in S BY <2>1, <2>2
    <3>2. S \in SUBSET Nat BY <3>1
    <3> HIDE DEF S
    <3>3. IsFiniteSet(S) BY <3>1, <2>4, FS_Subset
    <3> QED BY <3>1, <3>2, <3>3
  <2> HIDE DEF S
  <2>6. Max(S) \in S BY <2>5, Greatest
  <2> QED BY <2>3, <2>5, <2>6 DEF S
<1>8. ASSUME NEW p \in Props, ~ \E k \in 1..n : shown[k].prop = p
      PROVE  Sets(p) = {}
  BY <1>6, <1>8
<1> HIDE DEF Sets
<1>9. ASSUME NEW p \in Props
      PROVE  /\ new[p] \in Int
             /\ IF \E k \in 1..n : shown[k].prop = p THEN new[p] = Value(p) ELSE new[p] = tree[p]
  <2>1. CASE \E k \in 1..n : shown[k].prop = p BY <2>1, <1>1, <1>5, <1>7
  <2>2. CASE ~ \E k \in 1..n : shown[k].prop = p BY <2>2, <1>1, <1>8
  <2> QED BY <2>1, <2>2
<1>10. new \in [Props -> Int] BY <1>1, <1>9
<1> QED BY <1>9, <1>10 DEF new, shown, n, Value

\* Exported one after the other, the frames show what was asked for.
LEMMA FrameRight ==
    ASSUME keyFrames \in Seq(Entry), checkSelfConsistent(keyFrames), NoneBackwards,
           tree \in [Props -> Int], NEW at \in Nat,
           \A p \in Props : tree[p] = WantedBefore(p, at)
    PROVE  \A p \in Props : getModifiedTree(at)[p] = Wanted(p, at)
<1> SUFFICES ASSUME NEW p \in Props PROVE getModifiedTree(at)[p] = Wanted(p, at)
    OBVIOUS
<1> DEFINE shown == getPropertiesAtFrame(keyFrames, at)
<1>1. IF \E k \in 1..Len(shown) : shown[k].prop = p
      THEN getModifiedTree(at)[p] = getInterpolatedFilterData(keyFrames, p, at)
      ELSE getModifiedTree(at)[p] = tree[p]
  BY TreeIs
<1>2. /\ \A k \in 1..Len(shown) : \E j \in DOMAIN keyFrames :
            shown[k] = keyFrames[j] /\ getMinFrame(keyFrames[j]) <= at
      /\ \A j \in DOMAIN keyFrames : Spans(keyFrames[j], at) =>
            \E k \in 1..Len(shown) : shown[k] = keyFrames[j]
  BY ShownIs
<1> HIDE DEF shown
<1>3. CASE \E k \in 1..Len(shown) : shown[k].prop = p
  <2>1. PICK j \in DOMAIN keyFrames : keyFrames[j].prop = p /\ getMinFrame(keyFrames[j]) <= at
    BY <1>2, <1>3
  <2>2. j \in Begun(p, at) BY <2>1 DEF Begun
  <2>3. getInterpolatedFilterData(keyFrames, p, at) = Wanted(p, at) BY <2>2, WantedIs
  <2> QED BY <1>1, <1>3, <2>3
<1>4. CASE ~ \E k \in 1..Len(shown) : shown[k].prop = p
  <2>1. \A i \in DOMAIN keyFrames : keyFrames[i].prop = p => ~Spans(keyFrames[i], at)
    BY <1>2, <1>4
  <2>2. Wanted(p, at) = WantedBefore(p, at) BY <2>1, WantedStays
  <2> QED BY <1>1, <1>4, <2>2
<1> QED BY <1>3, <1>4

-----------------------------------------------------------------------------
(* The invariant.                                                           *)

\* The view's first rows are of the entries as they are, and of the frame it is
\* about; unless entries were removed there are no more rows than entries.
ViewRight ==
    /\ checkSelfConsistent(keyFrames) => Shows(framePropGrid, keyFrames, currentFrame)
    /\ \/ "removed" \in odd
       \/ /\ Len(framePropGrid) <= Len(keyFrames)
          /\ checkSelfConsistent(keyFrames) =>
                Len(framePropGrid) = Len(getPropertiesAtFrame(keyFrames, currentFrame))

\* The tree of an export is as was wanted of the frame before the next; what was
\* written is as was wanted, and what was not written did not differ.
ExportRight ==
    /\ checkSelfConsistent(keyFrames) /\ outputs # "none"
    /\ DOMAIN files \subseteq 0..(frame - 1)
    /\ Forwards => /\ \A p \in Props : tree[p] = WantedBefore(p, frame)
                   /\ \A f \in DOMAIN files : \A p \in Props : files[f][p] = Wanted(p, f)
    /\ \A f \in 0..(frame - 1) :
          \/ f \in DOMAIN files
          \/ /\ outputs = "changes"
             /\ Forwards => \A p \in Props : Wanted(p, f) = WantedBefore(p, f)

AnimationInv ==
    /\ AnimationTypeOK
    /\ keyFrames \in Seq(Entry) /\ framePropGrid \in Seq(Row)
    /\ Forwards => NoneBackwards
    /\ phase # "export" => frame = 0 /\ files = <<>> /\ before = tree
    /\ phase = "dialog" => ViewRight
    /\ phase = "export" => ExportRight

LEMMA AnimationInvInit == AnimationInit => AnimationInv
<1> SUFFICES ASSUME AnimationInit PROVE AnimationInv
    OBVIOUS
<1>1. AnimationTypeOK
  <2>1. tree \in [Props -> Int] /\ before \in [Props -> Int]
    BY AnimationAssumption DEF AnimationInit, Props
  <2>2. added \in 0..MaxAdds BY AnimationAssumption DEF AnimationInit
  <2>3. DOMAIN files \subseteq Nat BY DEF AnimationInit
  <2> QED BY <2>1, <2>2, <2>3 DEF AnimationInit, AnimationTypeOK
<1>2. keyFrames \in Seq(Entry) /\ framePropGrid \in Seq(Row) BY DEF AnimationInit
<1>3. NoneBackwards BY DEF AnimationInit, NoneBackwards
<1> QED BY <1>1, <1>2, <1>3 DEF AnimationInit, AnimationInv

\* Updating the view shows the frame.
LEMMA ViewUpdated ==
    ASSUME NEW grid \in Seq(Row), keyFrames' \in Seq(Entry), currentFrame' \in Nat,
           framePropGrid' = updateFrameViewGrid(grid, keyFrames', currentFrame'),
           "removed" \in odd' \/ Len(grid) <= Len(keyFrames')
    PROVE  ViewRight' /\ framePropGrid' \in Seq(Row)
<1>1. /\ framePropGrid' \in Seq(Row)
      /\ checkSelfConsistent(keyFrames') => Shows(framePropGrid', keyFrames', currentFrame')
      /\ Len(grid) <= Len(keyFrames') =>
            /\ Len(framePropGrid') <= Len(keyFrames')
            /\ checkSelfConsistent(keyFrames') =>
                  Len(framePropGrid') = Len(getPropertiesAtFrame(keyFrames', currentFrame'))
  BY GridIs
<1> QED BY <1>1 DEF ViewRight

LEMMA DialogOpens == AnimationInv /\ OpenDialog => AnimationInv'
<1> SUFFICES ASSUME AnimationInv, OpenDialog PROVE AnimationInv'
    OBVIOUS
<1>1. keyFrames' = <<>>
  <2>1. setAnimationState(recorded) = <<>>
    <3>1. {i \in DOMAIN recorded : recorded[i].prop[1] \in {}} = {} OBVIOUS
    <3>2. Cardinality({}) = 0 BY FS_EmptySet
    <3>3. Only(recorded, {}) = <<>> BY <3>2 DEF Only
    <3> QED BY <3>1, <3>3 DEF setAnimationState, updateMappings, filterMapBeforePrepare
  <2> QED BY <2>1 DEF OpenDialog
<1>2. AnimationTypeOK' BY DEF AnimationInv, AnimationTypeOK, OpenDialog, exportVars
<1>3. keyFrames' \in Seq(Entry) /\ framePropGrid' \in Seq(Row)
  <2>1. <<>> \in Seq(Entry) /\ <<>> \in Seq(Row) OBVIOUS
  <2>2. framePropGrid' = <<>> BY DEF OpenDialog
  <2> QED BY <2>1, <2>2, <1>1
<1>4. NoneBackwards' BY <1>1 DEF NoneBackwards
<1>5. ViewRight'
  <2> DEFINE shown == getPropertiesAtFrame(keyFrames', 0)
  <2>1. Len(keyFrames') = 0 /\ currentFrame' = 0 /\ framePropGrid' = <<>> BY <1>1 DEF OpenDialog
  <2>2. Len(shown) \in 0..Len(keyFrames') BY <1>3, ShownIs
  <2> HIDE DEF shown
  <2>3. Len(shown) = 0 BY <2>1, <2>2
  <2>4. Shows(framePropGrid', keyFrames', currentFrame') BY <2>1, <2>3 DEF Shows, shown
  <2> QED BY <2>1, <2>3, <2>4 DEF ViewRight, shown
<1> QED BY <1>2, <1>3, <1>4, <1>5 DEF AnimationInv, OpenDialog, exportVars

LEMMA EntryMade == AnimationInv /\ OnFilterGridCellSelected => AnimationInv'
<1> SUFFICES ASSUME AnimationInv, OnFilterGridCellSelected PROVE AnimationInv'
    OBVIOUS
<1> USE DEF AnimationInv
<1>1. \E e \in Entry : /\ keyFrames' = Append(keyFrames, e)
                      /\ odd' = IF Backwards(e) THEN odd \cup {"backwards"} ELSE odd
  <2>1. PICK p \in Props : \E e \in Entries(p) :
           /\ keyFrames' = Append(keyFrames, e)
           /\ odd' = IF Backwards(e) THEN odd \cup {"backwards"} ELSE odd
    BY DEF OnFilterGridCellSelected
  <2>2. \A e \in Entries(p) : e \in Entry BY EntriesTyped DEF AnimationTypeOK
  <2> QED BY <2>1, <2>2
<1>2. PICK e \in Entry : /\ keyFrames' = Append(keyFrames, e)
                       /\ odd' = IF Backwards(e) THEN odd \cup {"backwards"} ELSE odd
  BY <1>1
<1>3. keyFrames' \in Seq(Entry) /\ Len(keyFrames') = Len(keyFrames) + 1 BY <1>2
<1>4. AnimationTypeOK'
  <2>1. odd' \subseteq {"backwards", "removed", "refused"} BY <1>2 DEF AnimationTypeOK
  <2>2. added' \in 0..MaxAdds BY AnimationAssumption DEF AnimationTypeOK, OnFilterGridCellSelected
  <2> QED BY <2>1, <2>2 DEF AnimationTypeOK, OnFilterGridCellSelected, exportVars
<1>5. Forwards' => NoneBackwards'
  <2> SUFFICES ASSUME Forwards', NEW i \in DOMAIN keyFrames' PROVE ~Backwards(keyFrames'[i])
    BY DEF NoneBackwards
  <2>1. NoneBackwards /\ ~Backwards(e) BY <1>2 DEF Forwards
  <2>2. keyFrames'[i] = e \/ (i \in DOMAIN keyFrames /\ keyFrames'[i] = keyFrames[i])
    BY <1>2
  <2> QED BY <2>1, <2>2 DEF NoneBackwards
<1>6. phase = "dialog" /\ phase' = "dialog" BY DEF OnFilterGridCellSelected
<1>7. ViewRight' /\ framePropGrid' \in Seq(Row)
  <2>1. framePropGrid' = updateFrameViewGrid(framePropGrid, keyFrames', currentFrame')
    BY DEF OnFilterGridCellSelected
  <2>2. currentFrame' \in Nat BY DEF OnFilterGridCellSelected, AnimationTypeOK
  <2>3. "removed" \in odd' \/ Len(framePropGrid) <= Len(keyFrames')
    <3>1. "removed" \in odd \/ Len(framePropGrid) <= Len(keyFrames) BY <1>6 DEF ViewRight
    <3>2. Len(framePropGrid) \in Nat /\ Len(keyFrames) \in Nat OBVIOUS
    <3> QED BY <3>1, <3>2, <1>2, <1>3
  <2> QED BY <2>1, <2>2, <2>3, <1>3, ViewUpdated
<1> QED BY <1>3, <1>4, <1>5, <1>6, <1>7 DEF OnFilterGridCellSelected, exportVars

LEMMA EntriesRemoved == AnimationInv /\ OnButtonKeyFrameRemove => AnimationInv'
<1> SUFFICES ASSUME AnimationInv, OnButtonKeyFrameRemove PROVE AnimationInv'
    OBVIOUS
<1> USE DEF AnimationInv
<1>1. PICK first \in DOMAIN keyFrames, last \in DOMAIN keyFrames :
         keyFrames' = removeKeyFrames(keyFrames, first..last)
  BY DEF OnButtonKeyFrameRemove
<1> DEFINE S == DOMAIN keyFrames \ (first..last)
<1>2. keyFrames' = Only(keyFrames, S) BY <1>1 DEF removeKeyFrames
<1>3. S \in SUBSET (1..Len(keyFrames)) /\ S \in SUBSET DOMAIN keyFrames OBVIOUS
<1> HIDE DEF S
<1>4. /\ keyFrames' \in Seq(Entry) /\ DOMAIN keyFrames' = 1..Cardinality(S)
      /\ \A i \in 1..Cardinality(S) : Nth(S, i) \in S /\ keyFrames'[i] = keyFrames[Nth(S, i)]
  BY <1>2, <1>3, OnlyIs
<1>5. AnimationTypeOK' BY DEF AnimationTypeOK, OnButtonKeyFrameRemove, exportVars
<1>6. Forwards' => NoneBackwards'
  <2> SUFFICES ASSUME Forwards', NEW i \in DOMAIN keyFrames' PROVE ~Backwards(keyFrames'[i])
    BY DEF NoneBackwards
  <2>1. NoneBackwards BY DEF Forwards, OnButtonKeyFrameRemove
  <2>2. Nth(S, i) \in DOMAIN keyFrames /\ keyFrames'[i] = keyFrames[Nth(S, i)] BY <1>3, <1>4
  <2> QED BY <2>1, <2>2 DEF NoneBackwards
<1>7. ViewRight' /\ framePropGrid' \in Seq(Row)
  <2>1. framePropGrid' = updateFrameViewGrid(framePropGrid, keyFrames', currentFrame')
    BY DEF OnButtonKeyFrameRemove
  <2>2. currentFrame' \in Nat /\ "removed" \in odd' BY DEF OnButtonKeyFrameRemove, AnimationTypeOK
  <2> QED BY <2>1, <2>2, <1>4, ViewUpdated
<1> QED BY <1>4, <1>5, <1>6, <1>7 DEF OnButtonKeyFrameRemove, exportVars

LEMMA ViewTurned ==
    AnimationInv /\ (OnFrameViewSlider \/ OnTextFrame \/ OnOutputDirText)
      => AnimationInv'
<1> SUFFICES ASSUME AnimationInv, OnFrameViewSlider \/ OnTextFrame \/ OnOutputDirText
             PROVE AnimationInv'
    OBVIOUS
<1> USE DEF AnimationInv
<1>1. /\ phase = "dialog" /\ phase' = "dialog" /\ keyFrames' = keyFrames /\ odd' = odd
      /\ tree' = tree /\ before' = before /\ holder' = holder /\ added' = added
      /\ frame' = frame /\ files' = files
  BY DEF OnFrameViewSlider, OnTextFrame, OnOutputDirText, exportVars
<1>2. currentFrame' \in Nat
  <2>1. CASE OnFrameViewSlider
    <3>1. LastFrame(keyFrames) \in Nat BY LastFrameType
    <3> QED BY <2>1, <3>1 DEF OnFrameViewSlider
  <2>2. CASE OnTextFrame BY <2>2, AnimationAssumption DEF OnTextFrame
  <2>3. CASE OnOutputDirText BY <2>3 DEF OnOutputDirText, AnimationTypeOK
  <2> QED BY <2>1, <2>2, <2>3
<1>3. outputs' \in {"none", "all", "changes"}
  BY DEF OnFrameViewSlider, OnTextFrame, OnOutputDirText, AnimationTypeOK
<1>4. AnimationTypeOK' BY <1>1, <1>2, <1>3 DEF AnimationTypeOK
<1>5. \E g \in Seq(Row) :
         /\ framePropGrid' = updateFrameViewGrid(g, keyFrames', currentFrame')
         /\ "removed" \in odd' \/ Len(g) <= Len(keyFrames')
  <2>1. "removed" \in odd \/ Len(framePropGrid) <= Len(keyFrames) BY <1>1 DEF ViewRight
  <2>2. CASE OnFrameViewSlider \/ OnOutputDirText
    <3>1. framePropGrid' = updateFrameViewGrid(framePropGrid, keyFrames', currentFrame')
      BY <2>2, <1>1 DEF OnFrameViewSlider, OnOutputDirText
    <3> QED BY <3>1, <2>1, <1>1
  <2>3. CASE OnTextFrame
    <3> DEFINE g == updateFrameViewGrid(framePropGrid, keyFrames, currentFrame')
    <3>1. g \in Seq(Row) /\ (Len(framePropGrid) <= Len(keyFrames) => Len(g) <= Len(keyFrames))
      BY <1>2, GridIs
    <3>2. framePropGrid' = updateFrameViewGrid(g, keyFrames', currentFrame')
      BY <2>3, <1>1 DEF OnTextFrame
    <3> HIDE DEF g
    <3> QED BY <3>1, <3>2, <2>1, <1>1
  <2> QED BY <2>2, <2>3
<1>6. ViewRight' /\ framePropGrid' \in Seq(Row)
  <2>1. keyFrames' \in Seq(Entry) BY <1>1
  <2> QED BY <1>2, <1>5, <2>1, ViewUpdated
<1>7. Forwards' => NoneBackwards' BY <1>1 DEF Forwards, NoneBackwards
<1> QED BY <1>1, <1>4, <1>6, <1>7

LEMMA DialogEnds == AnimationInv /\ (OnButtonCancel \/ OnButtonOK) => AnimationInv'
<1> SUFFICES ASSUME AnimationInv, OnButtonCancel \/ OnButtonOK PROVE AnimationInv'
    OBVIOUS
<1> USE DEF AnimationInv, CloseDialog
<1>1. /\ phase = "dialog" /\ currentFrame' = 0 /\ framePropGrid' = <<>> /\ holder' = "window"
      /\ tree' = tree /\ before' = before /\ frame' = frame /\ files' = files
      /\ added' = added /\ odd' = odd
  BY DEF OnButtonCancel, OnButtonOK, exportVars
<1>2. framePropGrid' \in Seq(Row)
  <2>1. <<>> \in Seq(Row) OBVIOUS
  <2> QED BY <1>1, <2>1
<1>3. CASE OnButtonCancel
  <2>1. phase' = "idle" /\ keyFrames' = <<>> /\ outputs' = "none" BY <1>3 DEF OnButtonCancel
  <2>2. AnimationTypeOK' BY <1>1, <2>1 DEF AnimationTypeOK
  <2>3. NoneBackwards' /\ keyFrames' \in Seq(Entry) BY <2>1 DEF NoneBackwards
  <2> QED BY <1>1, <1>2, <2>1, <2>2, <2>3
<1>4. CASE OnButtonOK
  <2>1. phase' = "export" /\ keyFrames' = keyFrames /\ outputs' = outputs /\ OKEnabled
    BY <1>4 DEF OnButtonOK
  <2>2. AnimationTypeOK' BY <1>1, <2>1 DEF AnimationTypeOK
  <2>3. Forwards' => NoneBackwards' BY <1>1, <2>1 DEF Forwards, NoneBackwards
  <2>4. frame' = 0 /\ files' = <<>> /\ before' = tree' BY <1>1
  <2>5. ExportRight'
    <3>1. \A p \in Props : (tree[p] = WantedBefore(p, frame))' BY <2>4 DEF WantedBefore
    <3>2. DOMAIN files' = {} BY <2>4
    <3>3. 0..(frame' - 1) = {} BY <2>4
    <3>4. checkSelfConsistent(keyFrames') /\ outputs' # "none" BY <2>1 DEF OKEnabled
    <3> QED BY <3>1, <3>2, <3>3, <3>4 DEF ExportRight
  <2> QED BY <1>1, <1>2, <2>1, <2>2, <2>3, <2>5
<1> QED BY <1>3, <1>4

\* What is asked for depends on the entries and on what was there before.
WantedOf(entries, start, p, at) ==
    LET begun == {i \in DOMAIN entries : entries[i].prop = p /\ getMinFrame(entries[i]) <= at}
        i == CHOOSE i \in begun :
                \A j \in begun : getMinFrame(entries[j]) <= getMinFrame(entries[i])
    IN  IF begun = {} THEN start[p] ELSE Asked(entries[i], at)

LEMMA WantedIsOf == \A p, f : Wanted(p, f) = WantedOf(keyFrames, before, p, f)
BY DEF Wanted, Begun, WantedOf

\* It does not change while the frames are written.
LEMMA WantedKept ==
    ASSUME keyFrames' = keyFrames, before' = before
    PROVE  /\ \A p, f : Wanted(p, f)' = Wanted(p, f) /\ WantedBefore(p, f)' = WantedBefore(p, f)
           /\ \A p : WantedBefore(p, frame)' = WantedBefore(p, frame')
<1>1. \A p, f : Wanted(p, f)' = Wanted(p, f)
  <2>1. \A p, f : Wanted(p, f)' = WantedOf(keyFrames', before', p, f)
    BY DEF Wanted, Begun, WantedOf
  <2> QED BY <2>1, WantedIsOf
<1>2. \A p : Wanted(p, frame - 1)' = Wanted(p, frame' - 1)
  <2>1. \A p : Wanted(p, frame - 1)' = WantedOf(keyFrames', before', p, frame' - 1)
    BY DEF Wanted, Begun, WantedOf
  <2> QED BY <2>1, WantedIsOf
<1> QED BY <1>1, <1>2 DEF WantedBefore

LEMMA FrameExported == AnimationInv /\ ExportFrame => AnimationInv'
<1> SUFFICES ASSUME AnimationInv, ExportFrame PROVE AnimationInv'
    OBVIOUS
<1> USE DEF AnimationInv
<1>1. /\ phase = "export" /\ phase' = "export" /\ frame' = frame + 1
      /\ tree' = getModifiedTree(frame) /\ keyFrames' = keyFrames /\ before' = before
      /\ outputs' = outputs /\ odd' = odd /\ framePropGrid' = framePropGrid
      /\ holder' = holder /\ added' = added /\ currentFrame' = currentFrame
  BY DEF ExportFrame, dialogVars
<1>2. frame \in Nat /\ tree \in [Props -> Int] BY DEF AnimationTypeOK
<1>3. tree' \in [Props -> Int] BY <1>1, <1>2, TreeIs
<1>4. /\ Written(frame) => /\ DOMAIN files' = DOMAIN files \cup {frame}
                           /\ files'[frame] = tree'
      /\ ~Written(frame) => DOMAIN files' = DOMAIN files
      /\ \A f \in DOMAIN files : f # frame => files'[f] = files[f]
  BY DEF ExportFrame
<1>5. DOMAIN files \subseteq 0..(frame - 1) /\ checkSelfConsistent(keyFrames) /\ outputs # "none"
  BY <1>1 DEF ExportRight
<1>6. \A f \in 0..(frame' - 1) : f \in 0..(frame - 1) \/ f = frame BY <1>1, <1>2
<1>7. DOMAIN files' \subseteq 0..(frame' - 1)
  <2>1. \A f \in DOMAIN files' : f \in 0..(frame - 1) \/ f = frame BY <1>4, <1>5
  <2> QED BY <2>1, <1>1, <1>2
<1>8. AnimationTypeOK'
  <2>1. frame' \in Nat BY <1>1, <1>2
  <2>2. DOMAIN files' \subseteq Nat BY <1>7, <2>1
  <2> QED BY <1>1, <1>3, <2>1, <2>2 DEF AnimationTypeOK
<1>9. Forwards' => NoneBackwards' BY <1>1 DEF Forwards, NoneBackwards
<1>10. ASSUME Forwards PROVE \A p \in Props : tree'[p] = Wanted(p, frame)
  <2>1. NoneBackwards /\ \A p \in Props : tree[p] = WantedBefore(p, frame)
    BY <1>1, <1>10 DEF ExportRight
  <2> QED BY <2>1, <1>1, <1>2, <1>5, FrameRight
<1>11. Forwards' = Forwards BY <1>1 DEF Forwards
<1>12. \A p, f : Wanted(p, f)' = Wanted(p, f) /\ WantedBefore(p, f)' = WantedBefore(p, f)
  BY <1>1, WantedKept
<1>13. Forwards => \A p \in Props : (tree[p] = WantedBefore(p, frame))'
  <2>1. frame + 1 # 0 /\ (frame + 1) - 1 = frame BY <1>2
  <2>2. \A p \in Props : WantedBefore(p, frame + 1) = Wanted(p, frame) BY <2>1 DEF WantedBefore
  <2>3. \A p \in Props : WantedBefore(p, frame)' = WantedBefore(p, frame + 1)
    BY <1>1, WantedKept
  <2> QED BY <2>2, <2>3, <1>10
<1>14. Forwards => \A f \in DOMAIN files' : \A p \in Props : files'[f][p] = Wanted(p, f)
  <2> SUFFICES ASSUME Forwards, NEW f \in DOMAIN files', NEW p \in Props
               PROVE files'[f][p] = Wanted(p, f)
    OBVIOUS
  <2>1. CASE f = frame
    <3>1. frame \notin DOMAIN files BY <1>5, <1>2
    <3> QED BY <2>1, <3>1, <1>4, <1>10
  <2>2. CASE f # frame
    <3>1. f \in DOMAIN files /\ files'[f] = files[f] BY <2>2, <1>4
    <3>2. files[f][p] = Wanted(p, f) BY <3>1, <1>1 DEF ExportRight
    <3> QED BY <3>1, <3>2
  <2> QED BY <2>1, <2>2
<1>15. ASSUME NEW f \in 0..(frame' - 1)
       PROVE \/ f \in DOMAIN files'
             \/ /\ outputs' = "changes"
                /\ Forwards => \A p \in Props : Wanted(p, f) = WantedBefore(p, f)
  <2>1. CASE f = frame
    <3>1. CASE Written(frame) BY <2>1, <3>1, <1>4
    <3>2. CASE ~Written(frame)
      <4>1. outputs' = "changes" BY <3>2, <1>1, <1>5 DEF Written, AnimationTypeOK
      <4>2. tree' = tree BY <3>2, <1>1 DEF Written, needsUp
      <4>3. Forwards => \A p \in Props : tree[p] = WantedBefore(p, frame) BY <1>1 DEF ExportRight
      <4> QED BY <2>1, <4>1, <4>2, <4>3, <1>10
    <3> QED BY <3>1, <3>2
  <2>2. CASE f \in 0..(frame - 1)
    <3>1. \/ f \in DOMAIN files
          \/ /\ outputs = "changes"
             /\ Forwards => \A p \in Props : Wanted(p, f) = WantedBefore(p, f)
      BY <2>2, <1>1 DEF ExportRight
    <3> QED BY <3>1, <1>1, <1>4
  <2> QED BY <2>1, <2>2, <1>6
<1>16. ExportRight'
  <2>1. Forwards' => \A p \in Props : (tree[p] = WantedBefore(p, frame))' BY <1>11, <1>13
  <2>2. Forwards' => \A f \in DOMAIN files' : \A p \in Props : files'[f][p] = Wanted(p, f)'
    BY <1>11, <1>12, <1>14
  <2>3. \A f \in 0..(frame' - 1) :
          \/ f \in DOMAIN files'
          \/ /\ outputs' = "changes"
             /\ Forwards' => \A p \in Props : Wanted(p, f)' = WantedBefore(p, f)'
    BY <1>11, <1>12, <1>15
  <2>4. checkSelfConsistent(keyFrames') /\ outputs' # "none" BY <1>1, <1>5
  <2> QED BY <2>1, <2>2, <2>3, <2>4, <1>7 DEF ExportRight
<1> QED BY <1>1, <1>8, <1>9, <1>16

LEMMA ExportEnds == AnimationInv /\ (FrameFails \/ FrameRefused \/ FinishExport) => AnimationInv'
<1> SUFFICES ASSUME AnimationInv, FrameFails \/ FrameRefused \/ FinishExport PROVE AnimationInv'
    OBVIOUS
<1> USE DEF AnimationInv, EndExport
<1>1. /\ phase' = "idle" /\ keyFrames' = <<>> /\ outputs' = "none" /\ frame' = 0
      /\ files' = <<>> /\ before' = tree' /\ currentFrame' = currentFrame
      /\ framePropGrid' = framePropGrid /\ added' = added
  BY DEF FrameFails, FrameRefused, FinishExport
<1>2. tree' \in [Props -> Int]
  <2>1. CASE FrameFails
    <3>1. tree' = getModifiedTree(frame) /\ frame \in Nat /\ tree \in [Props -> Int]
      BY <2>1 DEF FrameFails, AnimationTypeOK
    <3> QED BY <3>1, TreeIs
  <2>2. CASE FrameRefused \/ FinishExport BY <2>2 DEF FrameRefused, FinishExport, AnimationTypeOK
  <2> QED BY <2>1, <2>2
<1>3. /\ holder' \in {"window", "dialog", "gone"}
      /\ odd' \subseteq {"backwards", "removed", "refused"}
  BY DEF FrameFails, FrameRefused, FinishExport, AnimationTypeOK
<1>4. DOMAIN files' \subseteq Nat BY <1>1
<1>5. AnimationTypeOK' BY <1>1, <1>2, <1>3, <1>4 DEF AnimationTypeOK
<1>6. NoneBackwards' /\ keyFrames' \in Seq(Entry) BY <1>1 DEF NoneBackwards
<1> QED BY <1>1, <1>5, <1>6

LEMMA AnimationKept == AnimationInv /\ (SaveAndLoad \/ UNCHANGED animationVars) => AnimationInv'
<1> SUFFICES ASSUME AnimationInv, SaveAndLoad \/ UNCHANGED animationVars PROVE AnimationInv'
    OBVIOUS
<1>1. UNCHANGED <<tree, holder, phase, keyFrames, currentFrame, framePropGrid, outputs,
                 frame, files, before, added, odd>>
  BY DEF SaveAndLoad, animationVars, dialogVars, exportVars
<1>2. \A p, f : Wanted(p, f)' = Wanted(p, f) /\ WantedBefore(p, f)' = WantedBefore(p, f)
  BY <1>1, WantedKept
<1>3. AnimationTypeOK' BY <1>1 DEF AnimationInv, AnimationTypeOK
<1>4. Forwards' = Forwards /\ NoneBackwards' = NoneBackwards BY <1>1 DEF Forwards, NoneBackwards
<1>5. ViewRight' = ViewRight BY <1>1 DEF ViewRight
<1>6. ExportRight => ExportRight'
  <2>1. \A p : WantedBefore(p, frame)' = WantedBefore(p, frame) BY <1>1, WantedKept
  <2> QED BY <1>1, <1>2, <1>4, <2>1 DEF ExportRight
<1> QED BY <1>1, <1>3, <1>4, <1>5, <1>6 DEF AnimationInv

LEMMA AnimationInvStep == AnimationInv /\ [AnimationNext]_animationVars => AnimationInv'
BY DialogOpens, EntryMade, EntriesRemoved, ViewTurned, DialogEnds, FrameExported, ExportEnds,
   AnimationKept DEF AnimationNext

LEMMA FramesAreRight == AnimationInv => FramesShowAnimation
<1> SUFFICES ASSUME AnimationInv PROVE FramesShowAnimation
    OBVIOUS
<1>1. AnimationTypeOK /\ (phase = "export" => ExportRight) /\ keyFrames \in Seq(Entry)
  BY DEF AnimationInv
<1>2. ASSUME phase = "export", NEW i \in DOMAIN keyFrames, NEW j \in DOMAIN keyFrames,
             NEW f \in 0..getNumFrames, i < j, keyFrames[i].prop = keyFrames[j].prop
      PROVE  ~(Spans(keyFrames[i], f) /\ Spans(keyFrames[j], f))
  <2>1. i # j /\ checkSelfConsistent(keyFrames) BY <1>1, <1>2 DEF ExportRight
  <2> DEFINE a == getMinFrame(keyFrames[i])
             b == getMaxFrame(keyFrames[i])
             c == getMinFrame(keyFrames[j])
             d == getMaxFrame(keyFrames[j])
  <2>2. b < c \/ d < a BY <1>1, <1>2, <2>1, Apart
  <2>3. a \in Nat /\ b \in Nat /\ c \in Nat /\ d \in Nat BY <1>1, EntryFrames
  <2>4. f \in Int OBVIOUS
  <2> HIDE DEF a, b, c, d
  <2>5. ~((a <= f /\ f <= b) /\ (c <= f /\ f <= d)) BY <2>2, <2>3, <2>4
  <2> QED BY <2>5 DEF Spans, a, b, c, d
<1> QED BY <1>1, <1>2 DEF FramesShowAnimation, ExportRight

LEMMA ViewIsRight == AnimationInv => FrameViewShowsFrame
<1> SUFFICES ASSUME AnimationInv, phase = "dialog", checkSelfConsistent(keyFrames), Forwards
             PROVE  LET shown == Len(getPropertiesAtFrame(keyFrames, currentFrame)) IN
                    /\ Len(framePropGrid) >= shown
                    /\ Len(framePropGrid) = shown \/ "removed" \in odd
                    /\ \A i \in 1..shown :
                          framePropGrid[i][2] = Wanted(framePropGrid[i][1], currentFrame)
                    /\ \A p \in Props : \A e \in Begun(p, currentFrame) :
                          Spans(keyFrames[e], currentFrame) =>
                             \E i \in 1..shown : framePropGrid[i][1] = p
    BY DEF FrameViewShowsFrame
<1> DEFINE shown == getPropertiesAtFrame(keyFrames, currentFrame)
<1>1. /\ keyFrames \in Seq(Entry) /\ currentFrame \in Nat /\ NoneBackwards /\ ViewRight
  BY DEF AnimationInv, AnimationTypeOK
<1>2. /\ Len(framePropGrid) >= Len(shown)
      /\ Len(framePropGrid) = Len(shown) \/ "removed" \in odd
      /\ \A i \in 1..Len(shown) :
            framePropGrid[i] =
               <<shown[i].prop, getInterpolatedFilterData(keyFrames, shown[i].prop, currentFrame)>>
  BY <1>1 DEF ViewRight, Shows
<1>3. /\ \A k \in 1..Len(shown) : \E j \in DOMAIN keyFrames :
            shown[k] = keyFrames[j] /\ getMinFrame(keyFrames[j]) <= currentFrame
      /\ \A j \in DOMAIN keyFrames : Spans(keyFrames[j], currentFrame) =>
            \E k \in 1..Len(shown) : shown[k] = keyFrames[j]
  BY <1>1, ShownIs
<1> HIDE DEF shown
<1>4. ASSUME NEW i \in 1..Len(shown)
      PROVE  framePropGrid[i][2] = Wanted(framePropGrid[i][1], currentFrame)
  <2> DEFINE p == shown[i].prop
  <2>1. framePropGrid[i][1] = p
        /\ framePropGrid[i][2] = getInterpolatedFilterData(keyFrames, p, currentFrame)
    BY <1>2
  <2>2. Begun(p, currentFrame) # {} BY <1>3 DEF Begun
  <2>3. getInterpolatedFilterData(keyFrames, p, currentFrame) = Wanted(p, currentFrame)
    BY <1>1, <2>2, WantedIs
  <2> QED BY <2>1, <2>3
<1>5. ASSUME NEW p \in Props, NEW e \in Begun(p, currentFrame), Spans(keyFrames[e], currentFrame)
      PROVE  \E i \in 1..Len(shown) : framePropGrid[i][1] = p
  <2>1. e \in DOMAIN keyFrames /\ keyFrames[e].prop = p BY DEF Begun
  <2>2. PICK k \in 1..Len(shown) : shown[k] = keyFrames[e] BY <1>3, <1>5, <2>1
  <2> QED BY <1>2, <2>1, <2>2
<1> QED BY <1>2, <1>4, <1>5 DEF shown

\* AnimationInv begins with the first state and is kept by every act in the
\* dialog and every frame of an export.
LEMMA AnimationInvHolds == AnimationSpec => []AnimationInv
<1>1. AnimationInit => AnimationInv BY AnimationInvInit
<1>2. AnimationInv /\ [AnimationNext]_animationVars => AnimationInv' BY AnimationInvStep
<1> QED BY <1>1, <1>2, PTL DEF AnimationSpec

\* For any properties, entries and frames: the file an export writes for a frame
\* shows every property as was asked for at that frame, although getModifiedTree
\* sets only some of those that have ended; a frame without a file differs in
\* nothing from the one before; and no property is set by two entries at once.
THEOREM FramesShown == AnimationSpec => []FramesShowAnimation
<1>1. AnimationInv => FramesShowAnimation BY FramesAreRight
<1> QED BY <1>1, AnimationInvHolds, PTL

\* For any properties, entries and frames: the rows that updateFrameViewGrid leaves
\* are those of the frame that is viewed, whatever was typed, slid and removed
\* before, and say what its file will show.
THEOREM ViewShown == AnimationSpec => []FrameViewShowsFrame
<1>1. AnimationInv => FrameViewShowsFrame BY ViewIsRight
<1> QED BY <1>1, AnimationInvHolds, PTL
=============================================================================
