------------------------------ MODULE Animation ------------------------------
(* The dialog that makes an animation of filter properties                  *)
(* (gui/dialogs/animateFilterDialog.cpp) and the window's export of it      *)
(* (MainWindowFrame::OnFileExportFilterVideo), which takes the filter tree  *)
(* out of the window while the dialog is open and again for every frame.    *)
(* The tree is what its properties are set to; a property is <<filter, key>>.*)
(* The refreshes, the streams and the writing of a frame either succeed or  *)
(* fail.                                                                    *)
(*                                                                          *)
(* First backend/animator.cpp, the key frames. An entry says how one        *)
(* property of one filter changes over the frames it spans; entries are     *)
(* kept in the order the user made them. A value is a number, whose         *)
(* rounding is left out; NoValue is what a division of nothing by nothing   *)
(* or a missing key frame yields, and what no filter accepts.               *)
EXTENDS Containers, FiniteSetsExt

NoValue == -1
STEP == "step"
LINEAR_FLOAT == "float"
LINEAR_COLOUR == "colour"
LINEAR_POINT3D == "point"
LIST == "list"

FrameProperties(p, data, mode) == [prop |-> p, frameData |-> data, interpMode |-> mode]
Key(frame, value) == [frame |-> frame, value |-> value]

FramesOf(e) == {e.frameData[i].frame : i \in DOMAIN e.frameData}
getMinFrame(e) == Min(FramesOf(e))
getMaxFrame(e) == Max(FramesOf(e))
LastFrame(entries) == Max({0} \cup {getMaxFrame(entries[i]) : i \in DOMAIN entries})
Spans(e, frame) == getMinFrame(e) <= frame /\ frame <= getMaxFrame(e)

removeKeyFrames(entries, rows) == Only(entries, DOMAIN entries \ rows)

(* Entries of filters that are not found are dropped. *)
updateMappings(entries, found) ==
    Only(entries, {i \in DOMAIN entries : entries[i].prop[1] \in found})

----------------------------------------------------------------------------
(* Two entries conflict when they set one property at a common frame. *)
rangesOverlap(minA, maxA, minB, maxB) ==
    \/ minA <= minB /\ maxA >= minB
    \/ minA <= maxB /\ maxA >= maxB
    \/ minB <= minA /\ maxB >= minA
    \/ minB <= maxA /\ maxB >= maxA

checkSelfConsistent(entries) ==
    \A i, j \in DOMAIN entries :
        (i < j /\ entries[i].prop = entries[j].prop) =>
            ~rangesOverlap(getMinFrame(entries[i]), getMaxFrame(entries[i]),
                           getMinFrame(entries[j]), getMaxFrame(entries[j]))

----------------------------------------------------------------------------
(* Interpolation. *)
\* Mutant of interpLinearRamp: the end value is reached a frame too late.
interpLinearRamp_Late(startF, endF, frame, a, b) ==
    a + ((frame - startF) * (b - a)) \div (endF - startF + 1)

interpLinearRamp(startF, endF, frame, a, b) ==
    IF startF = endF THEN NoValue ELSE a + ((frame - startF) * (b - a)) \div (endF - startF)

(* The float ramp that was entered backwards has its values exchanged but   *)
(* not its frames; the differences, being unsigned, are both about 2^64 and *)
(* their quotient is 1 but for the first of the two frames. That of colours *)
(* has its frames exchanged but not its values. (A colour's ramp of one     *)
(* frame, which converts what is not a number to bytes, is left out.)       *)
getInterpolatedData(e, frame) ==
    LET k == e.frameData
        first == k[1]
        second == k[Len(k)]
        turned == CASE e.interpMode = LINEAR_FLOAT ->
                           IF frame = first.frame THEN second.value ELSE first.value
                    [] e.interpMode = LINEAR_COLOUR ->
                           interpLinearRamp(second.frame, first.frame, frame, first.value, second.value)
                    [] OTHER ->
                           interpLinearRamp(second.frame, first.frame, frame, second.value, first.value)
    IN  CASE e.interpMode = STEP -> first.value
          [] e.interpMode = LIST -> k[frame - first.frame + 1].value
          [] OTHER ->
                IF first.frame <= second.frame
                THEN interpLinearRamp(first.frame, second.frame, frame, first.value, second.value)
                ELSE turned

Ended(entries, frame) == {i \in DOMAIN entries : getMaxFrame(entries[i]) <= frame}

\* Mutant of LatestOf: the entry that was made last, not the one that ended last.
LatestOf_MadeLast(entries, among) == Max(among)

(* The one of these entries that ended last, the later made of two. *)
LatestOf(entries, among) ==
    CHOOSE i \in among : \A j \in among :
        \/ getMaxFrame(entries[i]) > getMaxFrame(entries[j])
        \/ getMaxFrame(entries[i]) = getMaxFrame(entries[j]) /\ i >= j

(* What a property is at a frame: "" (here NoValue) before its first entry. *)
getInterpolatedFilterData(entries, p, frame) ==
    LET of == {i \in DOMAIN entries : entries[i].prop = p}
        active == {i \in of : Spans(entries[i], frame)}
        ended == of \cap Ended(entries, frame)
    IN  CASE active # {} -> getInterpolatedData(entries[Min(active)], frame)
          [] active = {} /\ ended # {} ->
                LET e == entries[LatestOf(entries, ended)]
                IN  getInterpolatedData(e, getMaxFrame(e))
          [] OTHER -> NoValue

(* The entries a frame is made of, in order: the active ones, and of every  *)
(* filter without an active one the entry that ended last. Other properties *)
(* of these filters, though they have ended, are not among them.            *)
getPropertiesAtFrame(entries, frame) ==
    LET active == {i \in DOMAIN entries : Spans(entries[i], frame)}
        seenIds == {entries[i].prop[1] : i \in active}
        rest == {i \in Ended(entries, frame) : entries[i].prop[1] \notin seenIds}
        best == {LatestOf(entries, {j \in rest : entries[j].prop[1] = entries[i].prop[1]}) : i \in rest}
    IN  Only(entries, active) \o Only(entries, best)

----------------------------------------------------------------------------
(* Of every entry only the first key frame is read back from a state file,  *)
(* and an animation that ends at frame zero is not written.                 *)
writeState(entries) == IF LastFrame(entries) = 0 THEN <<>> ELSE entries
loadState(file) == [i \in DOMAIN file |-> [file[i] EXCEPT !.frameData = <<Head(@)>>]]

-----------------------------------------------------------------------------

CONSTANTS
    Kind,       \* the type of each property: "bool", "choice", "real", "point",
                \* "colour" or "string"
    Defaults,   \* what the properties may be set to at first
    Frames,     \* frame numbers the user enters
    Values,     \* values the user enters
    MaxValue,   \* the greatest value that is accepted of each property
    MaxAdds     \* bound: the entries made

ASSUME AnimationAssumption ==
    /\ Frames \subseteq Nat /\ Values \subseteq Int
    /\ Defaults \subseteq [DOMAIN Kind -> Int]
    /\ MaxValue \in [DOMAIN Kind -> Int] /\ MaxAdds \in Nat

VARIABLES
    tree,       \* what the properties of the tree are set to
    holder,     \* who has the tree: "window", "dialog", or "gone"
    recorded,   \* AnalysisState::animationState
    phase,      \* "idle", "dialog" or "export"
    keyFrames,  \* the dialog's entries
    currentFrame, framePropGrid, \* of the dialog: the frame viewed, its rows
    outputs,    \* of the dialog: "none", "all" or "changes"
    frame,      \* the frame to export next
    files,      \* frame -> what the properties were when it was written
    before,     \* what they were when the export began
    added, odd  \* entries made; what the user or a filter did that is not foreseen

animationVars == <<tree, holder, recorded, phase, keyFrames, currentFrame, framePropGrid,
                   outputs, frame, files, before, added, odd>>
dialogVars == <<keyFrames, currentFrame, framePropGrid, outputs>>
exportVars == <<frame, files, before>>

Props == DOMAIN Kind
Filters == {p[1] : p \in Props}
Accepts(change) == change[2] \in 0..MaxValue[change[1]]
Blank == <<>>

AnimationInit ==
    /\ tree \in Defaults /\ before = tree
    /\ holder = "window" /\ recorded = <<>> /\ phase = "idle"
    /\ keyFrames = <<>> /\ currentFrame = 0 /\ framePropGrid = <<>> /\ outputs = "none"
    /\ frame = 0 /\ files = <<>> /\ added = 0 /\ odd = {}

----------------------------------------------------------------------------
(* The views of the dialog. *)

(* As many rows are deleted as the other view has, before new ones are     *)
(* appended at the end and the first ones are filled in.                    *)
updateFrameViewGrid(grid, entries, at) ==
    LET rest == SubSeq(grid, Len(entries) + 1, Len(grid))
        shown == getPropertiesAtFrame(entries, at)
        rows == [i \in DOMAIN shown |->
                    <<shown[i].prop, getInterpolatedFilterData(entries, shown[i].prop, at)>>]
        blanks == [i \in DOMAIN shown |-> Blank]
    IN  IF checkSelfConsistent(entries)
        THEN rows \o SubSeq(rest \o blanks, Len(rows) + 1, Len(rest) + Len(rows))
        ELSE rest

OKEnabled == outputs # "none" /\ keyFrames # <<>> /\ checkSelfConsistent(keyFrames)

----------------------------------------------------------------------------
(* OnFileExportFilterVideo up to the dialog. The paths that are compared    *)
(* are those of the filters the dialog knows, which are none before it is   *)
(* prepared.                                                                *)
filterMapBeforePrepare == {}
setAnimationState(state) == updateMappings(state, filterMapBeforePrepare)

OpenDialog ==
    /\ phase = "idle" /\ holder = "window"
    /\ added < MaxAdds
    /\ phase' = "dialog" /\ holder' = "dialog"
    /\ keyFrames' = IF LastFrame(recorded) # 0 THEN setAnimationState(recorded) ELSE <<>>
    /\ currentFrame' = 0 /\ framePropGrid' = <<>> /\ outputs' = "none"
    /\ odd' = {}
    /\ UNCHANGED <<tree, recorded, exportVars, added>>

(* OnFilterGridCellSelected: another entry, as its type has it. *)
Ramp(p) ==
    CASE Kind[p] = "colour" -> LINEAR_COLOUR
      [] Kind[p] = "point" -> LINEAR_POINT3D
      [] OTHER -> LINEAR_FLOAT

Stepped(p) == {FrameProperties(p, <<Key(f, v)>>, STEP) : f \in Frames, v \in Values}

(* Which of start and end is first is tested when they are typed, not when  *)
(* the transition is changed from a step to a ramp. (Bound: a ramp's values *)
(* differ.)                                                                 *)
Ramped(p) ==
    {e \in {FrameProperties(p, <<Key(f, a), Key(g, b)>>, Ramp(p)) :
                f \in Frames, g \in Frames, a \in Values, b \in Values} :
        /\ Kind[p] = "colour" => e.frameData[1].frame # e.frameData[2].frame
        /\ e.frameData[1].value # e.frameData[2].value}

Listed(p) ==
    {FrameProperties(p, [i \in 1..n |-> Key(f + i - 1, IF i = 1 THEN a ELSE b)], LIST) :
        f \in Frames, n \in 1..2, a \in Values, b \in Values}

(* A switch is turned to what it is not at that frame. *)
Switched(p) ==
    {LET last == LastFrame(keyFrames)
         known == getInterpolatedFilterData(keyFrames, p, Min({f, last}))
         now == IF known = NoValue THEN tree[p] ELSE known
     IN  FrameProperties(p, <<Key(f, 1 - now)>>, STEP) : f \in Frames}

Entries(p) ==
    CASE Kind[p] = "bool" -> Switched(p)
      [] Kind[p] = "choice" -> Stepped(p)
      [] Kind[p] = "string" -> Listed(p)
      [] OTHER -> Stepped(p) \cup Ramped(p)

Backwards(e) == e.interpMode \in {LINEAR_FLOAT, LINEAR_COLOUR, LINEAR_POINT3D}
                    /\ e.frameData[1].frame >= e.frameData[2].frame

OnFilterGridCellSelected ==
    /\ phase = "dialog" /\ added < MaxAdds
    /\ \E p \in Props : \E e \in Entries(p) :
          /\ keyFrames' = Append(keyFrames, e)
          /\ odd' = IF Backwards(e) THEN odd \cup {"backwards"} ELSE odd
    /\ framePropGrid' = updateFrameViewGrid(framePropGrid, keyFrames', currentFrame)
    /\ added' = added + 1
    /\ UNCHANGED <<tree, holder, recorded, phase, currentFrame, outputs, exportVars>>

OnButtonKeyFrameRemove ==
    /\ phase = "dialog" /\ keyFrames # <<>>
    /\ \E first, last \in DOMAIN keyFrames :
          first <= last /\ keyFrames' = removeKeyFrames(keyFrames, first..last)
    /\ framePropGrid' = updateFrameViewGrid(framePropGrid, keyFrames', currentFrame)
    /\ odd' = odd \cup {"removed"}
    /\ UNCHANGED <<tree, holder, recorded, phase, currentFrame, outputs, exportVars, added>>

OnFrameViewSlider ==
    /\ phase = "dialog"
    /\ currentFrame' \in 0..LastFrame(keyFrames)
    /\ framePropGrid' = updateFrameViewGrid(framePropGrid, keyFrames, currentFrame')
    /\ UNCHANGED <<tree, holder, recorded, phase, keyFrames, outputs, exportVars, added, odd>>

(* Any number is taken; the view is filled twice. *)
OnTextFrame ==
    /\ phase = "dialog"
    /\ currentFrame' \in Frames
    /\ framePropGrid' =
          updateFrameViewGrid(updateFrameViewGrid(framePropGrid, keyFrames, currentFrame'),
                              keyFrames, currentFrame')
    /\ UNCHANGED <<tree, holder, recorded, phase, keyFrames, outputs, exportVars, added, odd>>

(* The directory and what is written into it. *)
OnOutputDirText ==
    /\ phase = "dialog" /\ outputs = "none"
    /\ outputs' \in {"all", "changes"}
    /\ framePropGrid' = updateFrameViewGrid(framePropGrid, keyFrames, currentFrame)
    /\ UNCHANGED <<tree, holder, recorded, phase, keyFrames, currentFrame, exportVars, added, odd>>

CloseDialog ==
    /\ phase = "dialog"
    /\ recorded' = keyFrames
    /\ holder' = "window"
    /\ currentFrame' = 0 /\ framePropGrid' = <<>>

OnButtonCancel ==
    /\ CloseDialog
    /\ phase' = "idle" /\ keyFrames' = <<>> /\ outputs' = "none"
    /\ UNCHANGED <<tree, exportVars, added, odd>>

OnButtonOK ==
    /\ OKEnabled
    /\ CloseDialog
    /\ phase' = "export"
    /\ UNCHANGED <<tree, keyFrames, outputs, exportVars, added, odd>>

----------------------------------------------------------------------------
(* The export, a frame at a time. *)
getNumFrames == LastFrame(keyFrames)

(* getModifiedTree: the properties are set one after the other, so that the *)
(* last value set counts, up to the first that is refused.                  *)
Change(at) ==
    LET shown == getPropertiesAtFrame(keyFrames, at)
    IN  [i \in DOMAIN shown |->
            <<shown[i].prop, getInterpolatedFilterData(keyFrames, shown[i].prop, at)>>]

setFilterProperty(changes, p) ==
    LET sets == {i \in DOMAIN changes : changes[i][1] = p}
    IN  IF sets = {} THEN tree[p] ELSE changes[Max(sets)][2]
Refused(at) == \E i \in DOMAIN Change(at) : ~Accepts(Change(at)[i])
getModifiedTree(at) == [p \in Props |-> setFilterProperty(Change(at), p)]
needsUp(at) == getModifiedTree(at) # tree
Written(at) == needsUp(at) \/ outputs = "all"

EndExport ==
    /\ phase' = "idle" /\ keyFrames' = <<>> /\ outputs' = "none"
    /\ frame' = 0 /\ files' = <<>> /\ before' = tree'

ExportFrame ==
    /\ phase = "export" /\ frame < getNumFrames /\ ~Refused(frame)
    /\ tree' = getModifiedTree(frame)
    /\ files' = IF Written(frame)
                THEN [f \in DOMAIN files \cup {frame} |-> IF f = frame THEN tree' ELSE files[f]]
                ELSE files
    /\ frame' = frame + 1
    /\ UNCHANGED <<holder, recorded, phase, dialogVars, before, added, odd>>

\* Mutant of FrameFails: it is found out before the tree is given back.
FrameFails_TreeStolen ==
    /\ phase = "export" /\ frame < getNumFrames /\ ~Refused(frame) /\ Written(frame)
    /\ tree' = getModifiedTree(frame)
    /\ holder' = "gone"
    /\ EndExport
    /\ UNCHANGED <<recorded, currentFrame, framePropGrid, added, odd>>

(* The refresh fails, or a file cannot be written. *)
FrameFails ==
    /\ phase = "export" /\ frame < getNumFrames /\ ~Refused(frame) /\ Written(frame)
    /\ tree' = getModifiedTree(frame)
    /\ EndExport
    /\ UNCHANGED <<holder, recorded, currentFrame, framePropGrid, added, odd>>

(* A value is refused; the loop is left with the tree out of the window,    *)
(* where nobody puts it back.                                               *)
FrameRefused ==
    /\ phase = "export" /\ frame < getNumFrames /\ Refused(frame)
    /\ holder' = "gone" /\ odd' = odd \cup {"refused"}
    /\ UNCHANGED <<tree, recorded, currentFrame, framePropGrid, added>>
    /\ EndExport

(* The last frame is done, or the user stops before one. *)
FinishExport ==
    /\ phase = "export"
    /\ UNCHANGED <<tree, holder, recorded, currentFrame, framePropGrid, added, odd>>
    /\ EndExport

(* The analysis is saved and loaded. *)
SaveAndLoad ==
    /\ phase = "idle"
    /\ recorded # <<>>
    /\ recorded' = loadState(writeState(recorded))
    /\ UNCHANGED <<tree, holder, phase, dialogVars, exportVars, added, odd>>

AnimationNext ==
    \/ OpenDialog
    \/ OnFilterGridCellSelected \/ OnButtonKeyFrameRemove
    \/ OnFrameViewSlider \/ OnTextFrame \/ OnOutputDirText
    \/ OnButtonCancel \/ OnButtonOK
    \/ ExportFrame \/ FrameFails \/ FrameRefused \/ FinishExport
    \/ SaveAndLoad

AnimationSpec == AnimationInit /\ [][AnimationNext]_animationVars

----------------------------------------------------------------------------
(* What the user asked for, in terms of the entries alone: at a frame a     *)
(* property is what its entry last begun says, which goes in a line from    *)
(* its first key frame to its last and stays there.                         *)
Begun(p, at) == {i \in DOMAIN keyFrames : keyFrames[i].prop = p /\ getMinFrame(keyFrames[i]) <= at}

Asked(e, at) ==
    LET k == e.frameData
        n == Len(k)
        Point == CHOOSE i \in 1..n : k[i].frame <= at /\ (i < n => at < k[i + 1].frame)
    IN  IF e.interpMode = LIST \/ at >= k[n].frame THEN k[Point].value
        ELSE k[1].value + ((at - k[1].frame) * (k[n].value - k[1].value))
                              \div (k[n].frame - k[1].frame)

Wanted(p, at) ==
    LET i == CHOOSE i \in Begun(p, at) :
                \A j \in Begun(p, at) : getMinFrame(keyFrames[j]) <= getMinFrame(keyFrames[i])
    IN  IF Begun(p, at) = {} THEN before[p] ELSE Asked(keyFrames[i], at)

WantedBefore(p, at) == IF at = 0 THEN before[p] ELSE Wanted(p, at - 1)

Forwards == "backwards" \notin odd

AnimationTypeOK ==
    /\ tree \in [Props -> Int] /\ before \in [Props -> Int]
    /\ holder \in {"window", "dialog", "gone"} /\ phase \in {"idle", "dialog", "export"}
    /\ currentFrame \in Nat /\ frame \in Nat /\ DOMAIN files \subseteq Nat
    /\ outputs \in {"none", "all", "changes"} /\ added \in 0..MaxAdds
    /\ odd \subseteq {"backwards", "removed", "refused"}

(* A frame's file shows every property as the user asked for it at that     *)
(* frame, although the properties that have ended are not all set again, no *)
(* two entries are about a property at once, and every frame is written but *)
(* the ones that show what the one before shows, if that was asked for. The *)
(* exception: a ramp whose frames were never compared.                      *)
FramesShowAnimation ==
    /\ AnimationTypeOK
    /\ phase = "export" =>
          /\ Forwards => \A f \in DOMAIN files : \A p \in Props : files[f][p] = Wanted(p, f)
          /\ \A f \in 0..(frame - 1) :
                \/ f \in DOMAIN files
                \/ /\ outputs = "changes"
                   /\ Forwards => \A p \in Props : Wanted(p, f) = WantedBefore(p, f)
          /\ \A i, j \in DOMAIN keyFrames : \A f \in 0..getNumFrames :
                i < j /\ keyFrames[i].prop = keyFrames[j].prop =>
                    ~(Spans(keyFrames[i], f) /\ Spans(keyFrames[j], f))

(* However the dialog and the export end, the window has its tree again.    *)
(* The exception: a value that a filter refuses.                            *)
TreeComesBack ==
    phase # "dialog" => holder = "window" \/ (holder = "gone" /\ "refused" \in odd)

(* The rows of the dialog's view of a frame are what the file of that frame *)
(* will show, and there are no others, unless entries were removed: then    *)
(* rows of before may be left below them.                                   *)
FrameViewShowsFrame ==
    (phase = "dialog" /\ keyFrames # <<>> /\ checkSelfConsistent(keyFrames) /\ Forwards) =>
        LET shown == Len(getPropertiesAtFrame(keyFrames, currentFrame)) IN
        /\ Len(framePropGrid) >= shown
        /\ Len(framePropGrid) = shown \/ "removed" \in odd
        /\ \A i \in 1..shown :
              framePropGrid[i][2] = Wanted(framePropGrid[i][1], currentFrame)
        /\ \A p \in Props : \A e \in Begun(p, currentFrame) :
              Spans(keyFrames[e], currentFrame) =>
                 \E i \in 1..shown : framePropGrid[i][1] = p
=============================================================================
