------------------------------- MODULE Session -------------------------------
(* gui/mainFrame.cpp: how the window opens, merges, saves and autosaves an  *)
(* analysis, what it asks before one is thrown away, the box of cameras,    *)
(* and what a start after a crash brings back.                              *)
(*                                                                          *)
(* backend/state.cpp: what an analysis consists of besides the tree's       *)
(* editing (TreeState), as operators on a record, since the code copies and *)
(* replaces it as a whole. A tree is the set of its branches, a camera is   *)
(* its name; the first camera has none and stands for the view of a user    *)
(* who has stored no camera.                                                *)
EXTENDS Containers, SequencesExt

NoName == ""
NoFile == <<>>

(* stateModifyLevel, which is one for the program, not one for a state. *)
NONE == 0
VIEW == 1
ANCILLARY == 2
DATA == 3
setStateModifyLevel(level, new) == IF new > level THEN new ELSE level

Fresh ==
    [tree |-> {}, undo |-> <<>>, savedCameras |-> <<NoName>>, activeCamera |-> 1,
     stashedTrees |-> <<>>, fileName |-> NoFile]

hasStateData(s) == s.stashedTrees # <<>> \/ s.tree # {}

Names(pairs) == {pairs[i].name : i \in DOMAIN pairs}

----------------------------------------------------------------------------
(* Cameras. A camera that is removed from below the active one, or is the   *)
(* active one, leaves the number of the active camera as it is.             *)
removeCam(s, n) ==
    LET cameras == Only(s.savedCameras, DOMAIN s.savedCameras \ {n}) IN
    [s EXCEPT !.savedCameras = cameras,
              !.activeCamera = IF @ > Len(cameras) THEN 1 ELSE @]

addCam(s, name) ==
    [s EXCEPT !.savedCameras = Append(@, name),
              !.activeCamera = Len(s.savedCameras) + 1]

setCameraByClone(s, camera, n) == [s EXCEPT !.savedCameras[n] = camera]

(* Only the first branch of a tree is put into another (any one, in a set). *)
FirstBranch(branches) == IF branches = {} THEN {} ELSE {CHOOSE b \in branches : TRUE}

----------------------------------------------------------------------------
(* Stashes. *)
stashFilters(s, branches, name) ==
    [s EXCEPT !.stashedTrees = Append(@, [name |-> name, tree |-> branches])]

addStashedToFilters(s, n) ==
    [s EXCEPT !.undo = Append(@, s.tree), !.tree = @ \cup FirstBranch(s.stashedTrees[n].tree)]

eraseStashes(s, offsets) ==
    [s EXCEPT !.stashedTrees = Only(@, DOMAIN @ \ offsets)]

----------------------------------------------------------------------------
(* What is written to a file and what is made of it. *)
Broken == [broken |-> TRUE]
Saved(s) ==
    [tree |-> s.tree, savedCameras |-> s.savedCameras, activeCamera |-> s.activeCamera,
     stashedTrees |-> s.stashedTrees]

(* A camera with the name of an earlier one is ignored. *)
FirstOfEach(cameras) ==
    {i \in DOMAIN cameras : \A j \in 1..(i - 1) : cameras[j] # cameras[i]}

\* Mutant of CamerasOf: the new first camera stays beside the one that was read.
CamerasOf_DefaultStays(cameras) == <<NoName>> \o Only(cameras, FirstOfEach(cameras))

(* The first camera is a new one, which the first without a name replaces. *)
CamerasOf(cameras) ==
    <<NoName>> \o Only(cameras, {i \in FirstOfEach(cameras) : cameras[i] # NoName})

(* A stash that holds no filter is ignored. *)
StashesOf(stashes) == Only(stashes, {i \in DOMAIN stashes : stashes[i].tree # {}})

Loadable(file) ==
    /\ file # Broken
    /\ \A i, j \in DOMAIN file.stashedTrees :
          file.stashedTrees[i].name = file.stashedTrees[j].name => i = j

Loaded(file, path) ==
    [tree |-> file.tree, undo |-> <<>>, savedCameras |-> CamerasOf(file.savedCameras),
     activeCamera |-> file.activeCamera, stashedTrees |-> StashesOf(file.stashedTrees),
     fileName |-> path]

camNameExists(s, name) == \E i \in DOMAIN s.savedCameras : s.savedCameras[i] = name

(* Names that are taken are changed until they are free (name-merge, ...);  *)
(* one change is enough for what is told apart here.                        *)
Fresher(name, taken) == IF taken THEN name \o "-merge" ELSE name

merge(s, other) ==
    [s EXCEPT
        !.stashedTrees = @ \o [i \in DOMAIN other.stashedTrees |->
            [other.stashedTrees[i] EXCEPT !.name = Fresher(@, @ \in Names(s.stashedTrees))]],
        !.undo = <<>>,
        !.tree = @ \cup FirstBranch(other.tree),
        !.savedCameras = @ \o
            LET cameras == other.savedCameras
                named == Only(cameras, {i \in DOMAIN cameras : cameras[i] # NoName})
            IN  [i \in DOMAIN named |-> Fresher(named[i], camNameExists(s, named[i]))]]

(* load makes a state of its own, has that loaded or merged into, and       *)
(* replaces the caller's by it: in either case nothing is left of s.        *)
load(s, file, path, merging) ==
    IF merging THEN merge(Fresh, Loaded(file, path)) ELSE Loaded(file, path)
LoadLevel(level, merging) == setStateModifyLevel(level, IF merging THEN DATA ELSE NONE)

----------------------------------------------------------------------------
(* The window. *)
CONSTANTS
    Branches,     \* what a tree is made of
    CameraNames,  \* what the user may call a camera
    StashNames,   \* and a stash
    FirstFile,    \* an analysis that lies on the disk at first
    MaxProcess,   \* bound: starts of the program
    MaxActs,      \* bound: acts of the user that change something
    MaxTicks      \* bound: autosaves

ASSUME BoundsAssumption ==
    MaxProcess \in Nat \ {0} /\ MaxActs \in Nat /\ MaxTicks \in Nat

\* A camera must have a name (mainFrame.cpp:3616).
ASSUME NamesAssumption == NoName \notin CameraNames

(* A path is a name that ends in .xml or one that does not. *)
Bare == <<"analysis">>
Xml == <<"analysis", ".xml">>
Paths == {Bare, Xml}
AutosavePath(p) == <<"autosave", p>>
Processes == 1..MaxProcess
NoContent == <<>>

(* What can be in a file that the program has written, and in memory. *)
Cameras == CameraNames \cup {NoName}
Stashes == [name : StashNames, tree : SUBSET Branches]
Contents ==
    [tree : SUBSET Branches, savedCameras : Seq(Cameras), activeCamera : Nat,
     stashedTrees : Seq(Stashes)]
Analyses ==
    [tree : SUBSET Branches, undo : Seq(SUBSET Branches), savedCameras : Seq(Cameras),
     activeCamera : Nat, stashedTrees : Seq(Stashes),
     fileName : Paths \cup {NoFile} \cup {AutosavePath(p) : p \in Processes}]

\* There is a camera, stashes have names of their own, and none is empty.
Sound(s) ==
    /\ s.savedCameras # <<>>
    /\ \A i, j \in DOMAIN s.stashedTrees :
          s.stashedTrees[i].name = s.stashedTrees[j].name => i = j
    /\ \A i \in DOMAIN s.stashedTrees : s.stashedTrees[i].tree # {}

\* The analysis on the disk is one that a program has written.
ASSUME FirstFileAssumption == FirstFile \in Contents /\ Sound(FirstFile)

VARIABLES
    state, stateModifyLevel, \* the analysis; how much it has been changed
    activeCam,     \* the scene's own camera, by the name it has
    comboCamera,   \* the box of cameras: a name and an offset for each entry
    fileSave,      \* whether the menu's Save is enabled
    disk,          \* the user's files
    autosaves,     \* the autosave of each process
    oldAutosave,   \* what was moved away
    held,          \* the tree while the animation's dialog has it
    process, mode, \* the running process and what it does
    target,        \* the file that is being written
    asked,         \* whether the last handler asked before throwing away
    \* what only the properties look at:
    unsaved,       \* more than the tree was edited since a file was read or written
    counted,       \* whether an autosave has taken the changes for saved
    kept,          \* what a crash should leave
    heir,          \* whether the running process has that, or more
    mishap,        \* known ways in which it gets lost
    cameraNote,    \* the known way in which the cameras are confused
    acts, ticks

analysis == <<state, stateModifyLevel, unsaved, counted>>
window == <<activeCam, comboCamera, fileSave, asked, cameraNote>>
files == <<disk, autosaves, oldAutosave, target>>
running == <<process, mode, held>>
memory == <<kept, heir, mishap>>
bounds == <<acts, ticks>>
vars == <<analysis, window, files, running, memory, bounds>>

Init ==
    /\ state = Fresh /\ stateModifyLevel = NONE /\ unsaved = FALSE /\ counted = FALSE
    /\ activeCam = NoName /\ comboCamera = <<>> /\ fileSave = FALSE
    /\ asked = FALSE /\ cameraNote = ""
    /\ disk = [p \in Paths |-> IF p = Xml THEN FirstFile ELSE NoContent]
    /\ autosaves = [p \in Processes |-> NoContent]
    /\ oldAutosave = {} /\ target = NoFile
    /\ process = 1 /\ mode = "running" /\ held = {}
    /\ kept = NoContent /\ heir = FALSE /\ mishap = {}
    /\ acts = 0 /\ ticks = 0

----------------------------------------------------------------------------
(* What handlers share. *)
\* Mutant of stateIsModified: stashes, cameras and views are not asked about.
stateIsModified_DataOnly == hasStateData(state) /\ stateModifyLevel = DATA

stateIsModified == hasStateData(state) /\ stateModifyLevel # NONE

setSaveStatus(s, level) == hasStateData(s) /\ level # NONE /\ s.fileName # NoFile

Idle == mode = "running" /\ held = {}
Act == acts < MaxActs /\ acts' = acts + 1 /\ UNCHANGED ticks

(* A change of the analysis, which raises the level or, when only the tree  *)
(* is edited, does not.                                                     *)
Change(s, level, treeOnly) ==
    /\ state' = s
    /\ stateModifyLevel' = setStateModifyLevel(stateModifyLevel, level)
    /\ unsaved' = (unsaved \/ ~treeOnly)
    /\ counted' = (counted /\ level = NONE)
    /\ asked' = FALSE

(* What is confused until a camera is chosen from the box. *)
Passing == cameraNote \in {"", "stored", "removed"}

InRange(s) == s.activeCamera \in DOMAIN s.savedCameras

updateCameraComboBox(s) ==
    [i \in 1..(Len(s.savedCameras) - 1) |-> [name |-> s.savedCameras[i + 1], offset |-> i + 1]]

----------------------------------------------------------------------------
(* The tree. Edits push (one step is kept here; TreeState has them all) and *)
(* do not raise the level; undo raises it.                                  *)
EditTree ==
    /\ Idle /\ Act
    /\ \E tree \in SUBSET Branches \ {state.tree} :
          Change([state EXCEPT !.tree = tree, !.undo = <<state.tree>>], NONE, TRUE)
    /\ UNCHANGED <<activeCam, comboCamera, fileSave, cameraNote, files, running, memory>>

OnEditUndo ==
    /\ Idle /\ Act
    /\ state.undo # <<>>
    /\ Change([state EXCEPT !.tree = Last(state.undo), !.undo = Front(@)], DATA, FALSE)
    /\ UNCHANGED <<activeCam, comboCamera, fileSave, cameraNote, files, running, memory>>

(* A data file is added to the tree, with no entry to undo it. *)
OnFileOpenData ==
    /\ Idle /\ Act
    /\ \E b \in Branches \ state.tree :
          Change([state EXCEPT !.tree = @ \cup {b}], NONE, TRUE)
    /\ UNCHANGED <<activeCam, comboCamera, fileSave, cameraNote, files, running, memory>>

(* While a refresh runs Save is as setSaveStatus has it; its end switches   *)
(* Save off.                                                                *)
setLockUI ==
    /\ Idle
    /\ fileSave' \in {FALSE, setSaveStatus(state, stateModifyLevel)} \ {fileSave}
    /\ asked' = FALSE
    /\ UNCHANGED <<analysis, activeCam, comboCamera, cameraNote, files, running, memory, bounds>>

----------------------------------------------------------------------------
(* Stashes *)
OnComboStashEnter ==
    /\ Idle /\ Act
    /\ \E name \in StashNames \ Names(state.stashedTrees), branch \in state.tree :
          Change(stashFilters(state, {branch}, name), ANCILLARY, FALSE)
    /\ UNCHANGED <<activeCam, comboCamera, fileSave, cameraNote, files, running, memory>>

OnComboStash ==
    /\ Idle /\ Act
    /\ \E n \in DOMAIN state.stashedTrees :
          Change([addStashedToFilters(state, n) EXCEPT !.undo = <<state.tree>>], NONE, TRUE)
    /\ UNCHANGED <<activeCam, comboCamera, fileSave, cameraNote, files, running, memory>>

OnBtnRemove ==
    /\ Idle /\ Act
    /\ \E offsets \in SUBSET DOMAIN state.stashedTrees \ {{}} :
          Change(eraseStashes(state, offsets), ANCILLARY, FALSE)
    /\ UNCHANGED <<activeCam, comboCamera, fileSave, cameraNote, files, running, memory>>

----------------------------------------------------------------------------
(* Cameras. A new camera is active in the state, while the scene keeps the  *)
(* camera it has, with that one's name.                                     *)
OnComboCameraEnter ==
    /\ Idle /\ Act
    /\ \E name \in CameraNames \ {comboCamera[i].name : i \in DOMAIN comboCamera} :
          /\ Change(addCam(state, name), ANCILLARY, FALSE)
          /\ comboCamera' = updateCameraComboBox(addCam(state, name))
    /\ cameraNote' = IF Passing THEN "stored" ELSE cameraNote
    /\ fileSave' = setSaveStatus(state', stateModifyLevel')
    /\ UNCHANGED <<activeCam, files, running, memory>>

(* The entry's camera becomes the active one and is shown. *)
OnComboCamera ==
    /\ Idle
    /\ \E i \in DOMAIN comboCamera :
          LET offset == comboCamera[i].offset IN
          /\ state' = [state EXCEPT !.activeCamera = offset]
          /\ activeCam' = state.savedCameras[offset]
    /\ cameraNote' = IF Passing THEN "" ELSE cameraNote
    /\ fileSave' = setSaveStatus(state, stateModifyLevel)
    /\ asked' = FALSE
    /\ UNCHANGED <<stateModifyLevel, unsaved, counted, comboCamera, files, running, memory, bounds>>

(* The camera named in the box goes; the scene shows it on. *)
OnButtonRemoveCam ==
    /\ Idle /\ Act
    /\ \E i \in DOMAIN comboCamera :
          LET s == removeCam(state, comboCamera[i].offset) IN
          /\ Change(s, ANCILLARY, FALSE)
          /\ comboCamera' = updateCameraComboBox(s)
          /\ cameraNote' = IF Passing /\ comboCamera[i].offset <= state.activeCamera
                           THEN "removed" ELSE cameraNote
    /\ fileSave' = setSaveStatus(state', stateModifyLevel')
    /\ UNCHANGED <<activeCam, files, running, memory>>

(* After the mouse has moved the camera, the update timer puts a copy of    *)
(* the scene's camera, with its name, in the place of the active one.       *)
transferSceneCameraToState ==
    /\ Idle /\ InRange(state)
    /\ Change(setCameraByClone(state, activeCam, state.activeCamera), VIEW, FALSE)
    /\ cameraNote' = IF activeCam = state.savedCameras[state.activeCamera]
                     THEN cameraNote ELSE "overwritten"
    /\ fileSave' = setSaveStatus(state', stateModifyLevel')
    /\ UNCHANGED <<activeCam, comboCamera, files, running, memory, bounds>>

----------------------------------------------------------------------------
(* Files. One is truncated, written and then complete; the window does      *)
(* nothing else meanwhile, but the program may end.                         *)
BeginSave(file, path) ==
    /\ disk' = [disk EXCEPT ![file] = Broken]
    /\ mode' = "saving" /\ target' = [file |-> file, path |-> path]
    /\ asked' = FALSE
    /\ UNCHANGED <<analysis, activeCam, comboCamera, fileSave, cameraNote, autosaves,
                   oldAutosave, process, held, memory>>

OnFileSave ==
    /\ Idle /\ Act /\ fileSave
    /\ state.fileName \in Paths /\ disk[state.fileName] # NoContent
    /\ BeginSave(state.fileName, state.fileName)

(* The user is asked about the file he named, that name is noted, and .xml  *)
(* is added to what is written.                                             *)
OnFileSaveAs == Idle /\ Act /\ \E path \in Paths : BeginSave(Xml, path)

SaveDone ==
    /\ mode = "saving"
    /\ \/ /\ disk' = [disk EXCEPT ![target.file] = Saved(state)]
          /\ state' = [state EXCEPT !.fileName = target.path]
          /\ stateModifyLevel' = NONE /\ unsaved' = FALSE /\ counted' = FALSE
          /\ fileSave' = FALSE
       \/ /\ fileSave' = setSaveStatus(state, stateModifyLevel)
          /\ UNCHANGED <<disk, analysis>>
    /\ mode' = "running" /\ target' = NoFile /\ asked' = FALSE
    /\ UNCHANGED <<activeCam, comboCamera, cameraNote, autosaves, oldAutosave, process,
                   held, memory, bounds>>

(* Only the first camera has no name, and no two have one. *)
NamesRight(cameras) ==
    /\ cameras[1] = NoName
    /\ \A i, j \in DOMAIN cameras : cameras[i] = cameras[j] => i = j
CamerasSound(s) == NamesRight(s.savedCameras) /\ InRange(s)

\* Mutant of ShowLoaded: the box is filled from what was there before.
ShowLoaded_BoxFirst(s, file) ==
    /\ comboCamera' = updateCameraComboBox(state)
    /\ activeCam' = IF comboCamera' # <<>> /\ InRange(s)
                    THEN s.savedCameras[s.activeCamera] ELSE activeCam
    /\ cameraNote' = IF ~CamerasSound(file) THEN "read"
                     ELSE IF comboCamera' = <<>> /\ activeCam # NoName THEN "left"
                     ELSE ""

(* What the window shows of a state that was loaded from a file: the scene  *)
(* gets a camera only when there are stored ones. (An active camera that is *)
(* not there is read past the end of the vector; Crash is one outcome.)     *)
ShowLoaded(s, file) ==
    /\ comboCamera' = updateCameraComboBox(s)
    /\ activeCam' = IF comboCamera' # <<>> /\ InRange(s)
                    THEN s.savedCameras[s.activeCamera] ELSE activeCam
    /\ cameraNote' = IF ~CamerasSound(file) THEN "read"
                     ELSE IF comboCamera' = <<>> /\ activeCam # NoName THEN "left"
                     ELSE ""

(* A state file replaces the analysis, after a question when that counts as *)
(* modified. (Save is one answer; a new name is left to OnFileSaveAs.) One  *)
(* of the recent files is opened in the same way, by OnRecentFile.          *)
OnFileOpen ==
    /\ Idle /\ Act
    /\ asked' = stateIsModified
    /\ \E path \in Paths,
          saves \in IF asked' /\ state.fileName \in Paths /\ disk[state.fileName] # NoContent
                    THEN BOOLEAN ELSE {FALSE} :
          /\ disk' = IF saves THEN [disk EXCEPT ![state.fileName] = Saved(state)] ELSE disk
          /\ disk'[path] # NoContent /\ Loadable(disk'[path])
          /\ state' = load(state, disk'[path], path, FALSE)
          /\ stateModifyLevel' = LoadLevel(IF saves THEN NONE ELSE stateModifyLevel, FALSE)
          /\ ShowLoaded(state', disk'[path])
    /\ unsaved' = FALSE /\ counted' = FALSE
    /\ fileSave' = setSaveStatus(state', stateModifyLevel')
    /\ kept' = IF heir THEN NoContent ELSE kept
    /\ heir' = FALSE
    /\ UNCHANGED <<autosaves, oldAutosave, target, running, mishap>>

(* A state file that is dropped on the window with the command key held     *)
(* replaces the analysis too, and no question is asked.                     *)
DropToReplace ==
    /\ Idle /\ Act
    /\ \E path \in Paths :
          /\ disk[path] # NoContent /\ Loadable(disk[path])
          /\ state' = load(state, disk[path], path, FALSE)
          /\ ShowLoaded(state', disk[path])
    /\ stateModifyLevel' = LoadLevel(stateModifyLevel, FALSE)
    /\ unsaved' = FALSE /\ counted' = FALSE /\ asked' = FALSE
    /\ fileSave' = setSaveStatus(state', stateModifyLevel')
    /\ heir' = FALSE
    /\ mishap' = IF heir THEN mishap \cup {"dropped"} ELSE mishap
    /\ UNCHANGED <<files, running, kept>>

(* Merging, from the menu, of a dropped file or of one on the command line. *)
Merge ==
    /\ \E path \in Paths :
          /\ disk[path] # NoContent /\ Loadable(disk[path])
          /\ state' = load(state, disk[path], path, TRUE)
          /\ ShowLoaded(state', disk[path])
    /\ stateModifyLevel' = LoadLevel(stateModifyLevel, TRUE)
    /\ unsaved' = TRUE /\ counted' = FALSE /\ asked' = FALSE
    /\ fileSave' = setSaveStatus(state', stateModifyLevel')
    /\ heir' = FALSE
    /\ mishap' = IF heir THEN mishap \cup {"merged"} ELSE mishap
    /\ UNCHANGED <<files, process, held, kept, bounds>>

OnFileMerge == Idle /\ Merge /\ UNCHANGED mode

(* Without the key a dropped state file is merged. (A dropped file of data  *)
(* is added as in OnFileOpenData, one of ranges as EditTree adds a filter.) *)
OnDropFiles == OnFileMerge \/ DropToReplace

SetCommandLineFiles == mode = "starting" /\ Merge /\ mode' = "running"
NoCommandLine ==
    /\ mode = "starting" /\ mode' = "running"
    /\ UNCHANGED <<analysis, window, files, process, held, memory, bounds>>

----------------------------------------------------------------------------
(* While the animation's dialog is open it has the tree; timers go on.      *)
OpenAnimation ==
    /\ Idle /\ Act /\ state.tree # {}
    /\ held' = state.tree /\ state' = [state EXCEPT !.tree = {}]
    /\ asked' = FALSE
    /\ UNCHANGED <<stateModifyLevel, unsaved, counted, activeCam, comboCamera, fileSave,
                   cameraNote, files, process, mode, memory>>

CloseAnimation ==
    /\ mode = "running" /\ held # {}
    /\ state' = [state EXCEPT !.tree = held] /\ held' = {}
    /\ asked' = FALSE
    /\ UNCHANGED <<stateModifyLevel, unsaved, counted, activeCam, comboCamera, fileSave,
                   cameraNote, files, process, mode, memory, bounds>>

----------------------------------------------------------------------------
\* Mutant of OnAutosaveTimer: every process writes the same file.
OnAutosaveTimer_OneFile ==
    /\ mode = "running" /\ hasStateData(state)
    /\ ticks < MaxTicks /\ ticks' = ticks + 1
    /\ autosaves' = [autosaves EXCEPT ![1] = Broken]
    /\ mode' = "autosaving" /\ asked' = FALSE
    /\ UNCHANGED <<analysis, activeCam, comboCamera, fileSave, cameraNote, disk,
                   oldAutosave, target, process, held, memory, acts>>

(* The autosave timer writes the process's own file, and like a save takes  *)
(* the state for unmodified. One that fails is removed.                     *)
OnAutosaveTimer ==
    /\ mode = "running" /\ hasStateData(state)
    /\ ticks < MaxTicks /\ ticks' = ticks + 1
    /\ autosaves' = [autosaves EXCEPT ![process] = Broken]
    /\ mode' = "autosaving" /\ asked' = FALSE
    /\ UNCHANGED <<analysis, activeCam, comboCamera, fileSave, cameraNote, disk,
                   oldAutosave, target, process, held, memory, acts>>

AutosaveDone ==
    /\ mode = "autosaving" /\ mode' = "running"
    /\ \/ /\ autosaves' = [autosaves EXCEPT ![process] = Saved(state)]
          /\ stateModifyLevel' = NONE /\ counted' = TRUE
          /\ kept' = IF held = {} THEN Saved(state) ELSE kept
          /\ heir' = TRUE
          /\ mishap' = IF held = {} THEN {} ELSE {"tree away"}
       \/ /\ autosaves' = [autosaves EXCEPT ![process] = NoContent]
          /\ mishap' = mishap \cup {"failed"}
          /\ UNCHANGED <<stateModifyLevel, counted, kept, heir>>
    /\ UNCHANGED <<state, unsaved, window, disk, oldAutosave, target, process, held, bounds>>

(* A program that has ended.                                                *)
Ended ==
    /\ mode' = "off"
    /\ state' = Fresh /\ stateModifyLevel' = NONE /\ unsaved' = FALSE /\ counted' = FALSE
    /\ activeCam' = NoName /\ comboCamera' = <<>> /\ fileSave' = FALSE /\ cameraNote' = ""
    /\ held' = {} /\ target' = NoFile /\ heir' = FALSE
    /\ UNCHANGED <<disk, oldAutosave, process, bounds>>

(* Closing asks when the state counts as modified, unless the system ends   *)
(* the session and takes no refusal; in a refresh the first close aborts    *)
(* that, and a second one asks whatever the state. The autosave is removed. *)
Close(canVeto) ==
    /\ mode = "running" /\ (canVeto => held = {})
    /\ \E refreshing \in BOOLEAN : asked' = (refreshing \/ (canVeto /\ stateIsModified))
    /\ autosaves' = [autosaves EXCEPT ![process] = NoContent]
    /\ kept' = NoContent /\ mishap' = {}
    /\ Ended

OnClose == \E canVeto \in BOOLEAN : Close(canVeto)

Crash ==
    /\ mode \notin {"off", "starting"}
    /\ mishap' = IF mode = "autosaving" THEN mishap \cup {"truncated"} ELSE mishap
    /\ asked' = FALSE
    /\ UNCHANGED <<autosaves, kept>>
    /\ Ended

(* A start: a fresh state, and the question what of the autosaves of ended  *)
(* processes to restore. One autosave is to be moved away when it was       *)
(* restored and deleted when it could not be; of several the one chosen is  *)
(* deleted when it was restored and moved away when it could not be.        *)
Leftover == {p \in Processes : autosaves[p] # NoContent}

Restored(p, path) ==
    /\ state' = [load(Fresh, autosaves[p], path, FALSE) EXCEPT !.fileName = path]
    /\ ShowLoaded(state', autosaves[p])
    /\ heir' = (autosaves[p] = kept)
NotRestored == UNCHANGED <<state, activeCam, comboCamera, cameraNote, heir>>

(* The file goes in any case: the folder to move it to may not come about,  *)
(* and a copy that fails is not noticed.                                    *)
Removed(p, moved) ==
    /\ autosaves' = [autosaves EXCEPT ![p] = NoContent]
    /\ oldAutosave' = IF moved THEN oldAutosave \cup {autosaves[p]} ELSE oldAutosave
    /\ mishap' = IF ~moved /\ autosaves[p] = kept THEN mishap \cup {"deleted"} ELSE mishap

checkReloadAutosave ==
    \/ \* nothing there, or left for another time
       /\ NotRestored
       /\ fileSave' = FALSE
       /\ UNCHANGED <<autosaves, oldAutosave, kept, mishap>>
    \/ \E p \in Leftover, loads, moved \in BOOLEAN :
       /\ loads => Loadable(autosaves[p])
       /\ moved => loads = (Leftover = {p})
       /\ IF loads
            THEN Restored(p, IF Leftover = {p} THEN NoFile ELSE AutosavePath(p))
            ELSE NotRestored
       /\ fileSave' = (loads /\ Leftover # {p})
       /\ Removed(p, moved)
       /\ UNCHANGED kept
    \/ \* all of several are removed
       /\ Cardinality(Leftover) > 1
       /\ NotRestored
       /\ autosaves' = [p \in Processes |-> NoContent]
       /\ fileSave' = FALSE
       /\ kept' = NoContent /\ mishap' = {} /\ UNCHANGED oldAutosave

Start ==
    /\ mode = "off" /\ process < MaxProcess
    /\ process' = process + 1 /\ mode' = "starting"
    /\ asked' = FALSE
    /\ checkReloadAutosave
    /\ UNCHANGED <<stateModifyLevel, unsaved, counted, disk, target, held, bounds>>

Next ==
    \/ EditTree \/ OnEditUndo \/ OnFileOpenData \/ setLockUI
    \/ OnComboStashEnter \/ OnComboStash \/ OnBtnRemove
    \/ OnComboCameraEnter \/ OnComboCamera \/ OnButtonRemoveCam
    \/ transferSceneCameraToState
    \/ OnFileSave \/ OnFileSaveAs \/ SaveDone \/ OnFileOpen
    \/ OnFileMerge \/ OnDropFiles \/ SetCommandLineFiles \/ NoCommandLine
    \/ OpenAnimation \/ CloseAnimation
    \/ OnAutosaveTimer \/ AutosaveDone \/ OnClose \/ Crash \/ Start

Spec == Init /\ [][Next]_vars
----------------------------------------------------------------------------
TypeOK ==
    /\ state \in Analyses /\ stateModifyLevel \in NONE..DATA
    /\ activeCam \in Cameras
    /\ disk \in [Paths -> Contents \cup {NoContent, Broken}]
    /\ autosaves \in [Processes -> Contents \cup {NoContent, Broken}]
    /\ process \in Processes
    /\ mode \in {"off", "starting", "running", "saving", "autosaving"}
    /\ IF mode = "saving" THEN target \in [file : Paths, path : Paths] ELSE target = NoFile
    /\ held \in SUBSET Branches
    /\ held # {} => state.tree = {} /\ mode \in {"running", "autosaving"}
    /\ \A flag \in {fileSave, asked, unsaved, counted, heir} : flag \in BOOLEAN

(* Closing the program or opening another analysis throws away no stash,    *)
(* camera, view or undone step that is in no file without asking, unless an *)
(* autosave has come since, which the program takes for a save              *)
(* (mainFrame.cpp:1053, 4974). Edits of the tree do not count: they never   *)
(* raise the level (state.cpp:1506). Two ways out ask nothing and are not   *)
(* spoken of here: a close that cannot be refused (mainFrame.cpp:4972) and  *)
(* a state file dropped with the command key held (mainFrame.cpp:1248).     *)
AskedBeforeLoss ==
    [][(Close(TRUE) \/ OnFileOpen) =>
        (hasStateData(state) /\ unsaved /\ ~counted => asked')]_vars

(* What the last complete autosave of a process held that did not end       *)
(* neatly is on the disk, or in the process that has restored it, but for   *)
(* the ways of losing it that mishap names: a later autosave of it failed   *)
(* or was cut short, or was written while an animation had the tree; it was *)
(* restored and then replaced by a merged or a dropped file; or its file    *)
(* was deleted at a start, as that of several which was restored is, the    *)
(* only one when it could not be read, and either when the folder for old   *)
(* autosaves could not be made or the copy into it failed                   *)
(* (mainFrame.cpp:4122, 5494, 5694, 5716).                                  *)
AutosaveSurvives ==
    /\ TypeOK
    /\ kept # NoContent =>
        \/ heir
        \/ kept \in oldAutosave \cup {autosaves[p] : p \in Processes}
        \/ mishap # {}

(* The active camera is one of the cameras, the scene shows it, stored      *)
(* cameras have names of their own, and the box lists them, unless a camera *)
(* was stored or removed or a file without names read since                 *)
(* (state.cpp:1005, 1022, viscontrol.cpp:740).                              *)
CamerasRight ==
    cameraNote = "" =>
        /\ CamerasSound(state)
        /\ activeCam = state.savedCameras[state.activeCamera]
        /\ comboCamera = updateCameraComboBox(state)

(* A file that was written to its end can be read, and brings back what was *)
(* saved, unless two cameras in it have one name or one has none           *)
(* (state.cpp:141, 289).                                                    *)
FilesReadBack ==
    \A file \in ({disk[p] : p \in Paths} \cup {autosaves[p] : p \in Processes})
                \ {NoContent, Broken} :
        /\ Loadable(file)
        /\ NamesRight(file.savedCameras) => Saved(Loaded(file, Xml)) = file

(* Merging a file into the analysis keeps what is there (state.h, merge).   *)
MergeKeepsTree == [][OnFileMerge => state.tree \subseteq state'.tree]_vars
=============================================================================
