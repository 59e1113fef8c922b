--------------------------- MODULE RefreshProtocol ---------------------------
(***************************************************************************)
(* The main window and its refresh thread.  The handlers of the window run *)
(* in the UI thread, one at a time; doSceneUpdate locks most widgets and   *)
(* starts a thread that walks the filter tree, and that thread posts an    *)
(* event whose handler shows the result and unlocks.  The two share the    *)
(* filter tree, the selection devices and two flags, without a lock.       *)
(*                                                                         *)
(* The tree is represented by what the properties ask of it: whether the   *)
(* walk, and the scene that is shown, are of the tree as it is now.        *)
(***************************************************************************)
EXTENDS Naturals

CONSTANT NumFilters  \* filters that one refresh walks
ASSUME NumFiltersAssumption == NumFilters \in Nat \ {0}

VARIABLES
    \* the thread
    pc,            \* where the thread is; "none": no thread
    step,          \* filters it has refreshed
    outcome,       \* result of TreeState::refresh, then of the last refresh
    \* shared between the threads
    wantAbort, pendingUpdates,
    devicesLive,   \* selectionDevices are those of the scene that is shown
    dragged,       \* one of them has a modified binding
    fileChanged,   \* hasMonitorUpdates: a watched file is to be read
    posted,        \* RefreshCompleteEvent waits in the window's queue
    \* the window
    currentlyUpdatingScene, haveAborted, requireFirstUpdate,
    updateTimer,   \* the update timer is running
    dialog,        \* modal dialog that is open
    handler,       \* where the UI thread is within a handler
    visUpdates, monitorUpdates,  \* locals of OnUpdateTimer
    plotUpdates,   \* a range was dragged in the plot
    \* the tree, and history for the properties
    walkOfTree,    \* the walk is, or was, of the tree as it is now
    sceneOfTree,   \* the scene is of the tree as it is now
    unrefreshed,   \* the tree was changed and no refresh was asked for
    raced,         \* handlers that changed the tree under the thread
    restarted      \* handlers that called doSceneUpdate during a refresh

thread == <<pc, step, outcome>>
flags == <<wantAbort, pendingUpdates, devicesLive, dragged>>
window == <<currentlyUpdatingScene, haveAborted, updateTimer>>
timer == <<requireFirstUpdate, visUpdates, monitorUpdates, plotUpdates>>
content == <<walkOfTree, sceneOfTree, unrefreshed, raced>>
vars == <<thread, flags, fileChanged, posted, window, timer, dialog, handler,
          content, restarted>>

Dialogs == {"open", "ranges", "ions", "video"}
Handlers == {"OnGridFilterPropertyChange", "OnButtonRefresh", "OnDropFiles",
             "OnFileOpen", "OnEditRange", "OnFileExportIons",
             "OnFileExportFilterVideo", "onPanelSpectraUpdate", "OnUpdateTimer"}

TypeOK ==
    /\ pc \in {"none", "created", "ready", "walking", "returned", "exited"}
    /\ step \in 0..NumFilters
    /\ outcome \in {"none", "ok", "error", "abort"}
    /\ wantAbort \in BOOLEAN /\ pendingUpdates \in BOOLEAN
    /\ devicesLive \in BOOLEAN /\ dragged \in BOOLEAN
    /\ fileChanged \in BOOLEAN /\ posted \in BOOLEAN
    /\ currentlyUpdatingScene \in BOOLEAN /\ haveAborted \in BOOLEAN
    /\ requireFirstUpdate \in BOOLEAN /\ updateTimer \in BOOLEAN
    /\ visUpdates \in BOOLEAN /\ monitorUpdates \in BOOLEAN
    /\ plotUpdates \in BOOLEAN
    /\ walkOfTree \in BOOLEAN /\ sceneOfTree \in BOOLEAN /\ unrefreshed \in BOOLEAN
    /\ dialog \in Dialogs \cup {"none"}
    /\ handler \in {"none", "applyDevice", "polling", "polled"}
    /\ raced \subseteq Handlers
    /\ restarted \subseteq Handlers

\* The constructor, then SetCommandLineFiles: the first update is asked for,
\* unless the files of the command line could not be loaded.
Init ==
    /\ pc = "none" /\ step = 0 /\ outcome = "none"
    /\ wantAbort = FALSE /\ pendingUpdates = FALSE
    /\ devicesLive = FALSE /\ dragged = FALSE
    /\ fileChanged \in BOOLEAN /\ posted = FALSE
    /\ currentlyUpdatingScene = FALSE /\ haveAborted = FALSE
    /\ requireFirstUpdate \in BOOLEAN /\ updateTimer = TRUE
    /\ dialog = "none" /\ handler = "none"
    /\ visUpdates = FALSE /\ monitorUpdates = FALSE /\ plotUpdates = FALSE
    /\ walkOfTree = FALSE /\ sceneOfTree = FALSE /\ unrefreshed = TRUE
    /\ raced = {} /\ restarted = {}

\* refreshThreadActive: wxThread::IsRunning ends before the posted event is
\* handled.
Active == pc \notin {"none", "exited"}

\* filterTree.isRefreshing
IsRefreshing == pc = "walking"

\* The thread reads the filters from TreeState::refresh on (fta.analyse).
TreeInUse == pc \in {"created", "ready", "walking"}

\* The user can act: no handler runs and no modal dialog is open.  A second
\* start of a refresh fails an ASSERT, and nothing is modelled after that.
UserCanAct == handler = "none" /\ dialog = "none" /\ restarted = {}

-----------------------------------------------------------------------------
\* Starting a refresh.

\* Handler h changes the filter tree.
TreeChanged(h) ==
    /\ walkOfTree' = FALSE
    /\ sceneOfTree' = FALSE
    /\ raced' = IF TreeInUse THEN raced \cup {h} ELSE raced

TreeUnchanged == UNCHANGED <<walkOfTree, sceneOfTree, raced>>

\* Handler h starts a refresh, and leaves the update timer running or not.
StartRefresh(h, timerRuns) ==
    IF currentlyUpdatingScene
    THEN /\ restarted' = restarted \cup {h}
         /\ UNCHANGED <<pc, window, unrefreshed>>
    ELSE /\ pc' = "created"
         /\ currentlyUpdatingScene' = TRUE
         /\ haveAborted' = FALSE
         /\ updateTimer' = timerRuns
         /\ unrefreshed' = FALSE
         /\ UNCHANGED restarted

\* doSceneUpdate, called by handler h: ASSERT(!currentlyUpdatingScene).
doSceneUpdate(h) == StartRefresh(h, FALSE)

-----------------------------------------------------------------------------
\* The handlers that the user causes.

\* Mutant of Edit: the widgets stay enabled during a refresh.
Edit_Unlocked ==
    /\ UserCanAct
    /\ TreeChanged("OnGridFilterPropertyChange")
    /\ \/ doSceneUpdate("OnGridFilterPropertyChange")
       \/ unrefreshed' = TRUE /\ UNCHANGED <<pc, window, restarted>>
    /\ UNCHANGED <<step, outcome, flags, fileChanged, posted, timer, dialog, handler>>

\* The handlers whose widgets setLockUI disables or that ask whether a
\* refresh is under way: OnGridFilterPropertyChange, OnTreeEndDrag,
\* OnTreeKeyDown, OnComboFilter, OnComboStash, undo and redo.  With automatic
\* updates off there is no refresh.
Edit ==
    /\ UserCanAct /\ ~currentlyUpdatingScene
    /\ TreeChanged("OnGridFilterPropertyChange")
    /\ \/ doSceneUpdate("OnGridFilterPropertyChange")
       \/ unrefreshed' = TRUE /\ UNCHANGED <<pc, window, restarted>>
    /\ UNCHANGED <<step, outcome, flags, fileChanged, posted, timer, dialog, handler>>

\* The user drags a range in the plot that a refresh has shown, which
\* limitInteraction forbids during a refresh: leftMouseReleased has the range
\* filter changed and calls onPanelSpectraUpdate.
DragRegion ==
    /\ UserCanAct /\ ~currentlyUpdatingScene /\ outcome # "none"
    /\ TreeChanged("onPanelSpectraUpdate")
    /\ plotUpdates' = TRUE
    /\ UNCHANGED <<thread, flags, fileChanged, posted, window, requireFirstUpdate,
                   visUpdates, monitorUpdates, dialog, handler, unrefreshed, restarted>>

\* OnButtonRefresh while no refresh is under way.
OnButtonRefresh ==
    /\ UserCanAct /\ ~currentlyUpdatingScene
    /\ doSceneUpdate("OnButtonRefresh")
    /\ TreeUnchanged
    /\ UNCHANGED <<step, outcome, flags, fileChanged, posted, timer, dialog, handler>>

\* OnProgressAbort: the refresh button, now labelled Abort, or escape.
OnProgressAbort ==
    /\ UserCanAct /\ currentlyUpdatingScene
    /\ wantAbort' = IF haveAborted THEN wantAbort ELSE TRUE
    /\ haveAborted' = TRUE
    /\ UNCHANGED <<thread, pendingUpdates, devicesLive, dragged, fileChanged, posted,
                   currentlyUpdatingScene, updateTimer, timer, dialog, handler,
                   content, restarted>>

\* OnClose for the first time during a refresh: RefreshThread::abort does
\* nothing (its ASSERT(false) is for builds with DEBUG).
OnClose ==
    /\ UserCanAct /\ Active /\ ~haveAborted
    /\ haveAborted' = TRUE
    /\ UNCHANGED <<thread, flags, fileChanged, posted, currentlyUpdatingScene,
                   updateTimer, timer, dialog, handler, content, restarted>>

\* OnDropFiles, of a range file.
DropRange ==
    /\ UserCanAct /\ ~Active
    /\ TreeChanged("OnDropFiles")
    /\ doSceneUpdate("OnDropFiles")
    /\ UNCHANGED <<step, outcome, flags, fileChanged, posted, timer, dialog, handler>>

\* OnDropFiles, of a data or state file: loadFile starts a refresh and then
\* OnDropFiles does, or already the next loadFile.
DropData ==
    /\ UserCanAct /\ ~Active
    /\ TreeChanged("OnDropFiles")
    /\ restarted' = restarted \cup {"OnDropFiles"}
    /\ UNCHANGED <<thread, flags, fileChanged, posted, window, timer, dialog, handler,
                   unrefreshed>>

\* OnFileOpen, OnFileMerge, whose menu items are locked, up to ShowModal.
OpenFileDialog ==
    /\ UserCanAct /\ ~currentlyUpdatingScene
    /\ dialog' = "open"
    /\ UNCHANGED <<thread, flags, fileChanged, posted, window, timer, handler,
                   content, restarted>>

\* OnEditRange up to ShowModal: setLockUI does not lock its menu item, which
\* any finished refresh enables.
OpenRangeDialog ==
    /\ UserCanAct /\ outcome # "none"
    /\ dialog' = "ranges"
    /\ UNCHANGED <<thread, flags, fileChanged, posted, window, timer, handler,
                   content, restarted>>

\* OnFileExportIons, never locked, takes the tree away and leaves a clone.
OpenIonDialog ==
    /\ UserCanAct
    /\ dialog' = "ions"
    /\ raced' = IF TreeInUse THEN raced \cup {"OnFileExportIons"} ELSE raced
    /\ UNCHANGED <<thread, flags, fileChanged, posted, window, timer, handler,
                   walkOfTree, sceneOfTree, unrefreshed, restarted>>

\* OnFileExportFilterVideo, whose menu item is locked, puts the tree aside
\* and leaves an empty one.
OpenVideoDialog ==
    /\ UserCanAct /\ ~currentlyUpdatingScene
    /\ dialog' = "video"
    /\ TreeChanged("OnFileExportFilterVideo")
    /\ unrefreshed' = TRUE
    /\ UNCHANGED <<thread, flags, fileChanged, posted, window, timer, handler,
                   restarted>>

\* The user leaves the dialog and the handler goes on.  Canceled, the first
\* two do no more.
CancelDialog ==
    /\ handler = "none" /\ restarted = {} /\ dialog \in {"open", "ranges"}
    /\ dialog' = "none"
    /\ UNCHANGED <<thread, flags, fileChanged, posted, window, timer, handler,
                   content, restarted>>

AcceptDialog(d, h) ==
    /\ handler = "none" /\ restarted = {} /\ dialog = d
    /\ dialog' = "none"
    /\ TreeChanged(h)
    /\ doSceneUpdate(h)
    /\ UNCHANGED <<step, outcome, flags, fileChanged, posted, timer, handler>>

\* loadFile(wxF.GetPath()), and modifyRangeFiles with doSceneUpdate.
AcceptFile == AcceptDialog("open", "OnFileOpen")
AcceptRanges == AcceptDialog("ranges", "OnEditRange")

\* Either way the tree is swapped back.
CloseIonDialog ==
    /\ handler = "none" /\ restarted = {} /\ dialog = "ions"
    /\ dialog' = "none"
    /\ raced' = IF TreeInUse THEN raced \cup {"OnFileExportIons"} ELSE raced
    /\ UNCHANGED <<thread, flags, fileChanged, posted, window, timer, handler,
                   walkOfTree, sceneOfTree, unrefreshed, restarted>>

\* The tree is swapped back, and that is all.
CancelVideo ==
    /\ handler = "none" /\ restarted = {} /\ dialog = "video"
    /\ dialog' = "none"
    /\ TreeChanged("OnFileExportFilterVideo")
    /\ unrefreshed' = TRUE
    /\ UNCHANGED <<thread, flags, fileChanged, posted, window, timer, handler,
                   restarted>>

\* A refresh within the handler, once a frame: TreeState::refresh forgets the
\* devices and the updates, and the file is read.
RefreshFrames ==
    \/ UNCHANGED <<flags, fileChanged>>
    \/ /\ wantAbort' = FALSE /\ pendingUpdates' = FALSE /\ dragged' = FALSE
       /\ devicesLive' \in BOOLEAN
       /\ fileChanged' = FALSE

\* The tree is swapped back and refreshed for every frame, with the widgets
\* as they are; then a refresh is started, and the timer too.  The handler
\* clears currentlyUpdatingScene first: when a refresh is under way it is the
\* ASSERT(!refreshControl) of doSceneUpdate that fails.
AcceptVideo ==
    /\ handler = "none" /\ restarted = {} /\ dialog = "video"
    /\ dialog' = "none"
    /\ TreeChanged("OnFileExportFilterVideo")
    /\ RefreshFrames
    /\ StartRefresh("OnFileExportFilterVideo", TRUE)
    /\ UNCHANGED <<step, outcome, posted, timer, handler>>

\* Scene::applyDevice at the end of a drag, in two steps since the thread may
\* run between: a selection device answers for the dragged object, ...
DragBegins ==
    /\ UserCanAct /\ devicesLive
    /\ dragged' = TRUE
    /\ handler' = "applyDevice"
    /\ UNCHANGED <<thread, wantAbort, pendingUpdates, devicesLive, fileChanged, posted,
                   window, timer, dialog, content, restarted>>

\* ... and the window is told that there are updates.
DragEnds ==
    /\ handler = "applyDevice"
    /\ pendingUpdates' = TRUE
    /\ wantAbort' = IF IsRefreshing THEN TRUE ELSE wantAbort
    /\ handler' = "none"
    /\ UNCHANGED <<thread, devicesLive, dragged, fileChanged, posted, window, timer,
                   dialog, content, restarted>>

\* Another program writes to the watched file.
FileChanges ==
    /\ restarted = {} /\ ~fileChanged
    /\ fileChanged' = TRUE
    /\ UNCHANGED <<thread, flags, posted, window, timer, dialog, handler, content,
                   restarted>>

-----------------------------------------------------------------------------
\* OnUpdateTimer, in three steps since the thread may run between.

FirstUpdate ==
    /\ updateTimer /\ handler = "none" /\ restarted = {}
    /\ handler' = "polling"
    /\ IF requireFirstUpdate /\ ~Active
       THEN doSceneUpdate("OnUpdateTimer") /\ requireFirstUpdate' = FALSE
       ELSE UNCHANGED <<pc, window, unrefreshed, restarted, requireFirstUpdate>>
    /\ TreeUnchanged
    /\ UNCHANGED <<step, outcome, flags, fileChanged, posted, dialog, visUpdates,
                   monitorUpdates, plotUpdates>>

Poll ==
    /\ handler = "polling"
    /\ handler' = "polled"
    /\ visUpdates' = pendingUpdates
    /\ monitorUpdates' = (fileChanged /\ dialog # "video")
    /\ UNCHANGED <<thread, flags, fileChanged, posted, window, requireFirstUpdate,
                   plotUpdates, dialog, content, restarted>>

applyBindingsToTree ==
    /\ pendingUpdates' = FALSE
    /\ IF dragged THEN TreeChanged("OnUpdateTimer") ELSE TreeUnchanged
    /\ dragged' = FALSE

AnyUpdates == visUpdates \/ plotUpdates \/ monitorUpdates

\* Mutant of ActOnUpdates: nobody asks whether a refresh is under way.
ActOnUpdates_Unguarded ==
    /\ handler = "polled"
    /\ handler' = "none"
    /\ AnyUpdates
    /\ IF visUpdates THEN applyBindingsToTree
       ELSE TreeUnchanged /\ UNCHANGED <<pendingUpdates, dragged>>
    /\ doSceneUpdate("OnUpdateTimer")
    /\ plotUpdates' = FALSE
    /\ UNCHANGED <<step, outcome, wantAbort, devicesLive, fileChanged, posted,
                   requireFirstUpdate, visUpdates, monitorUpdates, dialog>>

\* Mutant of ActOnUpdates: a modified binding does not cause a refresh.
ActOnUpdates_AppliedOnly ==
    /\ handler = "polled"
    /\ handler' = "none"
    /\ AnyUpdates /\ ~Active
    /\ IF visUpdates THEN applyBindingsToTree
       ELSE TreeUnchanged /\ UNCHANGED <<pendingUpdates, dragged>>
    /\ IF plotUpdates \/ monitorUpdates THEN doSceneUpdate("OnUpdateTimer")
       ELSE UNCHANGED <<pc, window, unrefreshed, restarted>>
    /\ plotUpdates' = FALSE
    /\ UNCHANGED <<step, outcome, wantAbort, devicesLive, fileChanged, posted,
                   requireFirstUpdate, visUpdates, monitorUpdates, dialog>>

\* (clearCacheByType, after a drag in the plot, is in FilterRefresh.)
ActOnUpdates ==
    /\ handler = "polled"
    /\ handler' = "none"
    /\ AnyUpdates /\ ~Active
    /\ IF visUpdates THEN applyBindingsToTree
       ELSE TreeUnchanged /\ UNCHANGED <<pendingUpdates, dragged>>
    /\ doSceneUpdate("OnUpdateTimer")
    /\ plotUpdates' = FALSE
    /\ UNCHANGED <<step, outcome, wantAbort, devicesLive, fileChanged, posted,
                   requireFirstUpdate, visUpdates, monitorUpdates, dialog>>

\* Also when there is no refresh for it, plotUpdates is forgotten.
NoUpdates ==
    /\ handler = "polled"
    /\ handler' = "none"
    /\ Active \/ ~AnyUpdates
    /\ plotUpdates' = FALSE
    /\ UNCHANGED <<thread, flags, fileChanged, posted, window, requireFirstUpdate,
                   visUpdates, monitorUpdates, dialog, content, restarted>>

-----------------------------------------------------------------------------
\* The refresh thread: RefreshThread::Entry, TreeState::refresh.

\* selectionDevices.clear(), pendingUpdates=false, wantAbort=false
ClearOldState ==
    /\ pc = "created" /\ restarted = {}
    /\ pc' = "ready"
    /\ devicesLive' = FALSE
    /\ dragged' = FALSE
    /\ pendingUpdates' = FALSE
    /\ wantAbort' = FALSE
    /\ UNCHANGED <<step, outcome, fileChanged, posted, window, timer, dialog, handler,
                   content, restarted>>

BeginWalk ==
    /\ pc = "ready" /\ restarted = {} /\ dialog # "video"
    /\ pc' = "walking"
    /\ step' = 0
    /\ walkOfTree' = TRUE
    /\ UNCHANGED <<outcome, flags, fileChanged, posted, window, timer, dialog, handler,
                   sceneOfTree, unrefreshed, raced, restarted>>

\* While the tree is put aside there is nothing to walk.
WalkEmptyTree ==
    /\ pc = "ready" /\ restarted = {} /\ dialog = "video"
    /\ pc' = "returned"
    /\ outcome' = "ok"
    /\ walkOfTree' = TRUE
    /\ UNCHANGED <<step, flags, fileChanged, posted, window, timer, dialog, handler,
                   sceneOfTree, unrefreshed, raced, restarted>>

\* The data source, which is first, notes the time of its file and reads it.
ReadsFile == fileChanged' = (step # 0 /\ fileChanged)

\* One filter is refreshed, and neither failed nor was told to abort.
FilterDone ==
    /\ pc = "walking" /\ restarted = {} /\ ~wantAbort
    /\ step' = step + 1
    /\ ReadsFile
    /\ IF step' = NumFilters
       THEN pc' = "returned" /\ outcome' = "ok"
       ELSE UNCHANGED <<pc, outcome>>
    /\ UNCHANGED <<flags, posted, window, timer, dialog, handler, content, restarted>>

\* A filter fails, or the abort is noticed, by the filter itself (which may
\* not have read its file yet) or after it.
FilterFails ==
    /\ pc = "walking" /\ restarted = {}
    /\ pc' = "returned"
    /\ outcome' = IF wantAbort THEN "abort" ELSE "error"
    /\ ReadsFile \/ (wantAbort /\ UNCHANGED fileChanged)
    /\ UNCHANGED <<step, flags, posted, window, timer, dialog, handler, content,
                   restarted>>

\* Mutant of PostAndExit: an aborted refresh posts nothing.
PostAndExit_NotAborted ==
    /\ pc = "returned" /\ restarted = {}
    /\ pc' = "exited"
    /\ posted' = (outcome # "abort")
    /\ UNCHANGED <<step, outcome, flags, fileChanged, window, timer, dialog, handler,
                   content, restarted>>

\* wxPostEvent, and the end of the thread; OnFinishRefreshThread waits for it.
PostAndExit ==
    /\ pc = "returned" /\ restarted = {}
    /\ pc' = "exited"
    /\ posted' = TRUE
    /\ UNCHANGED <<step, outcome, flags, fileChanged, window, timer, dialog, handler,
                   content, restarted>>

\* Mutant of OnFinishRefreshThread: the timer is restarted only on success.
OnFinishRefreshThread_TimerOff ==
    /\ posted /\ handler = "none" /\ restarted = {}
    /\ posted' = FALSE
    /\ pc' = "none"
    /\ currentlyUpdatingScene' = FALSE
    /\ updateTimer' = (outcome = "ok")
    /\ IF outcome = "ok"
       THEN devicesLive' = TRUE /\ sceneOfTree' = walkOfTree
       ELSE UNCHANGED <<devicesLive, sceneOfTree>>
    /\ UNCHANGED <<step, outcome, wantAbort, pendingUpdates, dragged, fileChanged,
                   haveAborted, timer, dialog, handler, walkOfTree, unrefreshed,
                   raced, restarted>>

\* OnFinishRefreshThread with finishSceneUpdate: only a complete refresh is
\* shown, and only then are the devices those of the scene's objects.
OnFinishRefreshThread ==
    /\ posted /\ handler = "none" /\ restarted = {}
    /\ posted' = FALSE
    /\ pc' = "none"
    /\ currentlyUpdatingScene' = FALSE
    /\ updateTimer' = TRUE
    /\ IF outcome = "ok"
       THEN devicesLive' = TRUE /\ sceneOfTree' = walkOfTree
       ELSE UNCHANGED <<devicesLive, sceneOfTree>>
    /\ UNCHANGED <<step, outcome, wantAbort, pendingUpdates, dragged, fileChanged,
                   haveAborted, timer, dialog, handler, walkOfTree, unrefreshed,
                   raced, restarted>>

\* After a failed ASSERT nothing is modelled.
Stopped == restarted # {} /\ UNCHANGED vars

-----------------------------------------------------------------------------
User ==
    \/ Edit \/ DragRegion \/ OnButtonRefresh \/ OnProgressAbort \/ OnClose
    \/ DropRange \/ DropData
    \/ OpenFileDialog \/ OpenRangeDialog \/ OpenIonDialog \/ OpenVideoDialog
    \/ CancelDialog \/ AcceptFile \/ AcceptRanges \/ CloseIonDialog
    \/ CancelVideo \/ AcceptVideo
    \/ DragBegins \/ FileChanges
Thread ==
    \/ ClearOldState \/ BeginWalk \/ WalkEmptyTree
    \/ FilterDone \/ FilterFails \/ PostAndExit
RestOfHandler == DragEnds \/ Poll \/ ActOnUpdates \/ NoUpdates

Next ==
    \/ User \/ Thread \/ RestOfHandler
    \/ FirstUpdate \/ OnFinishRefreshThread \/ Stopped

\* The scheduler runs the thread, each handler runs to its end, and the event
\* loop serves timer and posted events between those of the user.
Spec ==
    /\ Init /\ [][Next]_vars
    /\ WF_vars(Thread) /\ WF_vars(RestOfHandler)
    /\ SF_vars(FirstUpdate) /\ SF_vars(OnFinishRefreshThread)

-----------------------------------------------------------------------------
\* The widgets are locked exactly from the start of a refresh until its end
\* is handled, there is an end to be handled when the thread has exited, and
\* after the refresh the timer runs again (doSceneUpdate, RefreshThread::Entry,
\* OnFinishRefreshThread): no lock is left behind and no update is missed.
LockFollowsRefresh ==
    /\ currentlyUpdatingScene <=> pc # "none"
    /\ ~currentlyUpdatingScene => updateTimer
    /\ posted <=> pc = "exited"

\* When no refresh is under way and the last one succeeded, the scene is of
\* the tree as it is, unless the tree was changed without asking for a refresh
\* (automatic updates are off, an animation was canceled) or under the thread,
\* or the timer has yet to take up a drag in the plot.
SceneIsCurrent ==
    (~currentlyUpdatingScene /\ outcome = "ok" /\ ~unrefreshed /\ ~plotUpdates
       /\ raced = {} /\ restarted = {})
      => sceneOfTree

\* Which handlers start a refresh during a refresh: those that ask for the
\* thread where they should ask for the refresh, or asked before a dialog.
\* No handler behind a locked widget does.
OnlyStaleChecksRestart ==
    restarted \subseteq {"OnDropFiles", "OnUpdateTimer", "OnFileOpen", "OnEditRange",
                   "OnFileExportFilterVideo"}

\* Which handlers change the tree under the thread: those whose menu item is
\* not locked or that a dialog has kept waiting.  Drops and the timer do not.
OnlyUnlockedRace ==
    raced \subseteq {"OnFileOpen", "OnEditRange", "OnFileExportIons",
               "OnFileExportFilterVideo"}

\* Every refresh ends, whatever the user does meanwhile (also in dialogs).
RefreshEnds == currentlyUpdatingScene ~> (~currentlyUpdatingScene \/ restarted # {})

\* A drag, of an object of the scene or of a range of the plot, does not wait
\* for ever: the timer looks at it, once it runs again, or a refresh begins.
UpdatesTakenUp ==
    /\ pendingUpdates ~> (~pendingUpdates \/ restarted # {})
    /\ plotUpdates ~> (~plotUpdates \/ restarted # {})

\* Claimed at mainFrame.cpp:4663 ("used by other UI processes to trigger an
\* abort") and by what the window then shows ("Aborting...."): a walk goes on
\* after an abort only until it sees the abort.
AbortReachesWalk == (haveAborted /\ pc = "walking") => wantAbort
=============================================================================
