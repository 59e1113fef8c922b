------------------------------ MODULE PlotPane ------------------------------
(* The plots of the window: gui/mathglPane.cpp, VisController::updateScene, *)
(* the list in which plots are chosen and the filters behind the plots. A   *)
(* refresh is its start and its end; RefreshProtocol has what is between.   *)
(* Positions are in the units of the axes; in between two events of the     *)
(* mouse it may have gone anywhere in the pane.                             *)
(*                                                                          *)
(* First backend/plot.cpp: the plots that are shown together, their         *)
(* visibility, the bounds of their axes and the regions drawn in them. A    *)
(* plot is known by its place: numbers are given out from the smallest that *)
(* is free.                                                                 *)
EXTENDS Integers, Sequences, SequencesExt, FiniteSets, FiniteSetsExt

INSTANCE RangeFile WITH Alphabetical <- <<>>, Printed <- <<>>  \* no file is read here

Huge == 99      \* the largest float: what the bounds of no plot start from

----------------------------------------------------------------------------
(* The kind of plots that are visible. Each after the first is compared by  *)
(* plotMode, which a scatter plot never sets: it may have any value.        *)
PlotModes(type) ==
    CASE type = "line" -> {"1D"}
      [] type = "dens" -> {"2D"}
      [] type = "scatter" -> {"2D", "none", "1D"}
getMode(p) == IF p.type = "line" THEN "1D" ELSE "2D"
getVisibleMode(plots) ==
    FoldLeft(LAMBDA mode, p :
                 IF ~p.visible \/ p.plotMode = mode THEN mode
                 ELSE IF mode = "none" THEN getMode(p) ELSE "mixed",
             "none", plots)
Visible(plots) == {i \in DOMAIN plots : plots[i].visible}
getNumVisible(plots) == Cardinality(Visible(plots))

\* What the grid of numbers shows: a column or more for each visible plot.
getRawData(plots) ==
    IF getVisibleMode(plots) \in {"1D", "2D"}
    THEN [n \in 1..getNumVisible(plots) |-> Nth(Visible(plots), n)]
    ELSE <<>>

----------------------------------------------------------------------------
\* What clear(true) remembers: whose plots were visible, and which of them.
LastVisible(plots) ==
    {<<plots[i].parent, plots[i].index>> : i \in Visible(plots)}

\* Mutant of bestEffortRestoreVisibility: filters are not told apart.
bestEffortRestoreVisibility_Index(plots, last) ==
    [i \in DOMAIN plots |->
        [plots[i] EXCEPT !.visible = \E l \in last : l[2] = plots[i].index]]

\* Of the plots that are alike only the first is shown again.
bestEffortRestoreVisibility(plots, last) ==
    LET like(i, l) == <<plots[i].parent, plots[i].index>> = l
        first(i, l) == like(i, l) /\ \A j \in 1..(i - 1) : ~like(j, l)
    IN  [i \in DOMAIN plots |->
            [plots[i] EXCEPT !.visible = \E l \in last : first(i, l)]]

----------------------------------------------------------------------------
(* Bounds. Those of the user are kept from one scene to the next; while     *)
(* they are off their values do not matter.                                 *)
NoUserBounds == [on |-> FALSE, x |-> <<0, 0>>, y |-> <<0, 0>>]
scanBounds(plots) ==
    LET low(f(_)) == Min({Huge} \cup {f(i)[1] : i \in Visible(plots)})
        high(f(_)) == Max({-Huge} \cup {f(i)[2] : i \in Visible(plots)})
        x(i) == plots[i].x
        y(i) == plots[i].y
    IN  [x |-> <<low(x), high(x)>>, y |-> <<low(y), high(y)>>]
getBounds(plots, user) ==
    IF user.on THEN [x |-> user.x, y |-> user.y] ELSE scanBounds(plots)
setBounds(x, y) == [on |-> TRUE, x |-> x, y |-> y]

(* One axis is set to the data. When both then start where the data do, the *)
(* user's bounds are dropped, wherever they end.                            *)
disableUserAxisBounds(plots, user, xBound) ==
    LET all == scanBounds(plots)
        new == IF xBound THEN [user EXCEPT !.x = all.x]
               ELSE [user EXCEPT !.y = <<Max({0, all.y[1]}), all.y[2]>>]
    IN  IF \/ new.x[1] = all.x[1] /\ new.y[1] = all.y[1]
           \/ ~user.on
        THEN NoUserBounds ELSE new
disableUserBounds(user) == NoUserBounds

----------------------------------------------------------------------------
(* Regions. A region has the filter it is of and the number of its range.   *)
InRegion(r, x) == r.bounds[1] < x /\ x < r.bounds[2]
\* The plot, by its place, and the region in it under a point; <<0, 0>> if none.
getRegionIdAtPosition(plots, x) ==
    LET hits(i) == {k \in DOMAIN plots[i].regions : InRegion(plots[i].regions[k], x)}
        hit == {i \in Visible(plots) : hits(i) # {}}
    IN  IF hit = {} THEN <<0, 0>> ELSE <<Min(hit), Min(hits(Min(hit)))>>

\* In which third of a region a point is decides how the region is moved.
Moves == <<"EXTEND_XMINUS", "TRANSLATE_X", "EXTEND_XPLUS">>
computeRegionMoveType(x, r) ==
    Moves[1 + (3 * (x - r.bounds[1])) \div (r.bounds[2] - r.bounds[1])]

(* How far a region can be moved, as drawn while it is: up to the next one. *)
(* Twice the middle is compared, so that it is a whole number.              *)
findRegionLimit(regions, n, move, x) ==
    LET me == regions[n].bounds
        middle == me[1] + me[2]
        others == {regions[k].bounds : k \in DOMAIN regions \ {n}}
        below == {b[2] : b \in {o \in others : 2 * o[2] < middle}}
        above == {b[1] : b \in {o \in others : 2 * o[1] > middle}}
        overAbove == {b[1] : b \in {o \in others : 2 * o[2] > middle}}
    IN  CASE move = "EXTEND_XMINUS" -> Min({me[2], Max({x} \cup below)})
          [] move = "TRANSLATE_X" -> IF 2 * x > middle THEN Min({x} \cup above)
                                     ELSE Max({x} \cup below)
          [] move = "EXTEND_XPLUS" -> Max({me[1], Min({x} \cup overAbove)})

\* RangeFileFilter::setPropFromRegion: half the width to each side, which as a
\* whole number is rounded up, so that a width is left.
setPropFromRegion(t, id, move, x) ==
    LET half == (t.ranges[id][2] - t.ranges[id][1] + 1) \div 2 IN
    CASE move = "EXTEND_XMINUS" -> moveRange(t, id, FALSE, x)
      [] move = "TRANSLATE_X" -> moveBothRanges(t, id, x - half, x + half)
      [] move = "EXTEND_XPLUS" -> moveRange(t, id, TRUE, x)

-----------------------------------------------------------------------------

CONSTANTS
    Slots,      \* where filters that make plots can be in memory
    Types,      \* the types of plots they can be set to
    Extents,    \* type |-> bounds of its data
    Tables,     \* tables of the range filter above them
    Xs, Ys,     \* where the mouse can be
    Shifts,     \* how far it can have gone since the button was pressed
    Starts,     \* the filters at the start: [plotters, table]
    MaxPlots,   \* bound: plots that they make
    MaxActs     \* bound: changes of the filters, acts, turns of the wheel
Interval == Int \X Int
PlotterType == [at : Slots, type : Types, many : BOOLEAN]
AllTables == Tables \cup {s.table : s \in Starts}
TableType == [ions : {t.ions : t \in AllTables}, ranges : Seq(Interval),
              ids : {t.ids : t \in AllTables}, enforceConsistency : BOOLEAN]

\* Data are numbers, and there are some on each axis.
ASSUME ExtentsAssumption ==
    /\ Types \subseteq {"line", "dens", "scatter"}
    /\ \A t \in Types :
          LET x == Extents[t].x
              y == Extents[t].y
          IN  /\ x \in Interval /\ -Huge <= x[1] /\ x[1] < x[2] /\ x[2] <= Huge
              /\ y \in Interval /\ -Huge <= y[1] /\ y[1] <= y[2] /\ y[2] <= Huge
\* No two filters are in one place, and a table whose consistency is looked after
\* is sound (RangeEditor has which are not).
ASSUME FiltersAssumption ==
    /\ \A s \in Starts :
          /\ s.plotters \in Seq(PlotterType)
          /\ \A i, j \in DOMAIN s.plotters : s.plotters[i].at = s.plotters[j].at => i = j
    /\ \A t \in AllTables : t \in TableType /\ (t.enforceConsistency => Sound(t))
ASSUME BoundsAssumption ==
    /\ Xs \subseteq Int /\ Ys \subseteq Int /\ Shifts \subseteq Int
    /\ MaxPlots \in Nat /\ MaxActs \in Nat

VARIABLES
    plotters,   \* the filters that make plots: [at, type, many]
    table,      \* the table of ranges
    gen,        \* which of two copies the filters are: an undo changes it
    plots,      \* [parent, index, type, plotMode, visible, x, y, regions]
    user,       \* the bounds the user chose: [on, x, y]
    list,       \* the rows of the list of plots that are selected
    rawGrid,    \* the plots whose numbers the grid shows
    axes,       \* gr: the bounds drawn last, {} when nothing ever was
    mouse,      \* what a held button does: none, drag, pan, region
    refreshing, \* refreshThreadActive, and limitInteract of the pane
    acts,
    \* What the properties look back on.
    since,      \* filters made since the plots were
    outdated,   \* a filter changed since the plots were made
    still,      \* the mouse has not moved since the refresh started
    odd         \* which of the exceptions named below have come about
filterVars == <<plotters, table, gen, since, outdated>>
plotVars == <<plots, list, rawGrid>>
vars == <<filterVars, plotVars, user, axes, mouse, refreshing, still, odd, acts>>

At(slot) == <<slot, gen>>
Ranger == <<"ranger", gen>>
Idle == [mode |-> "none"]
Init ==
    /\ \E s \in Starts : plotters = s.plotters /\ table = s.table
    /\ gen = 0
    /\ plots = <<>> /\ user = NoUserBounds /\ list = <<>> /\ rawGrid = <<>>
    /\ axes = {} /\ mouse = Idle /\ refreshing = FALSE /\ acts = 0
    /\ since = {} /\ outdated = TRUE /\ still = TRUE /\ odd = {}

----------------------------------------------------------------------------
(* The filters. While a refresh runs the window is locked.                  *)
Edit ==
    /\ ~refreshing /\ acts < MaxActs
    /\ acts' = acts + 1 /\ outdated' = TRUE
    /\ UNCHANGED <<plotVars, user, axes, mouse, refreshing, still, odd>>
\* Each filter has two places among the streams and puts out one or both.
StreamPlaces(ps) == {q \in 1..(2 * Len(ps)) : q % 2 = 1 \/ ps[q \div 2].many}
PlotCount(ps) == Cardinality(StreamPlaces(ps))
AddPlotter(slot, type) ==
    /\ Edit
    /\ PlotCount(plotters) < MaxPlots
    /\ \A i \in DOMAIN plotters : plotters[i].at # slot
    /\ plotters' = Append(plotters, [at |-> slot, type |-> type, many |-> FALSE])
    /\ since' = since \cup {At(slot)}
    /\ UNCHANGED <<table, gen>>
RemovePlotter(i) ==
    /\ Edit
    /\ plotters' = Only(plotters, DOMAIN plotters \ {i})
    /\ UNCHANGED <<table, gen, since>>
SetPlotter(i, type, many) ==
    /\ Edit
    /\ plotters' = [plotters EXCEPT ![i].type = type, ![i].many = many]
    /\ PlotCount(plotters') <= MaxPlots
    /\ UNCHANGED <<table, gen, since>>
EditTable(t) ==
    /\ Edit
    /\ t # table /\ table' = t
    /\ UNCHANGED <<plotters, gen, since>>
\* Every filter is replaced by its copy.
EditUndo(t) ==
    /\ Edit
    /\ gen' = 1 - gen /\ table' = t
    /\ since' = {<<p.at, 1 - gen>> : p \in ToSet(plotters)}
    /\ UNCHANGED plotters

----------------------------------------------------------------------------
(* A refresh, and the plots that are made from what it put out.             *)
StartRefresh ==
    /\ ~refreshing
    /\ refreshing' = TRUE /\ still' = TRUE
    /\ UNCHANGED <<filterVars, plotVars, user, axes, mouse, odd, acts>>

Regions ==
    [k \in DOMAIN table.ranges |-> [bounds |-> table.ranges[k], id |-> k, parent |-> Ranger]]
PlotStreams ==
    Only([q \in 1..(2 * Len(plotters)) |-> [of |-> plotters[(q + 1) \div 2], index |-> 2 - (q % 2)]],
         StreamPlaces(plotters))
NewPlot(stream, modes) ==
    LET type == stream.of.type IN
    [parent |-> At(stream.of.at), index |-> stream.index,
     type |-> type, plotMode |-> modes[type], visible |-> TRUE,
     x |-> Extents[type].x, y |-> Extents[type].y,
     regions |-> IF type = "line" THEN Regions ELSE <<>>]
NewPlots(modes) == [i \in DOMAIN PlotStreams |-> NewPlot(PlotStreams[i], modes)]
Selection(ps) == [i \in DOMAIN ps |-> ps[i].visible]

\* Mutant of updateScene: the rows are selected before plots are hidden again.
updateScene_ListFirst(new) ==
    /\ plots' = IF Len(new) > 1 THEN bestEffortRestoreVisibility(new, LastVisible(plots))
                ELSE new
    /\ list' = Selection(new)

\* One plot is always shown; of several, those that were.
updateScene(new) ==
    /\ plots' = IF Len(new) > 1 THEN bestEffortRestoreVisibility(new, LastVisible(plots))
                ELSE new
    /\ list' = Selection(plots')

\* The numbers are put side by side, plot after plot.
updateRawGrid(ps) == getRawData(ps)
FinishRefresh ==
    /\ refreshing
    /\ \E modes \in {m \in [Types -> {"1D", "2D", "none"}] :
                        \A t \in Types : m[t] \in PlotModes(t)} : updateScene(NewPlots(modes))
    /\ rawGrid' = updateRawGrid(plots')
    /\ refreshing' = FALSE /\ since' = {} /\ outdated' = FALSE
    /\ odd' = (odd \ {"clicked locked"}) \cup
              (IF mouse.mode = "region" /\ still THEN {"refreshed held"} ELSE {})
    /\ still' = TRUE
    /\ UNCHANGED <<plotters, table, gen, user, axes, mouse, acts>>
\* finishSceneUpdate with an error, or after an abort.
FailRefresh ==
    /\ refreshing
    /\ refreshing' = FALSE
    /\ rawGrid' = updateRawGrid(plots)
    /\ still' = TRUE
    /\ UNCHANGED <<filterVars, plots, list, user, axes, mouse, odd, acts>>

(* The pane is painted when nothing else is to be done, and so before the   *)
(* user's next step. With MGL_PAN_SPEED 2 and half the way (setPanCoords)   *)
(* a plot that is shifted follows the mouse. Nothing is drawn while no plot *)
(* is visible, nor when they do not go together; in the latter case a first *)
(* graph keeps the axes it starts with.                                     *)
Panned == [k \in 1..2 |-> mouse.orig[k] + mouse.by]
Shown == getBounds(plots, user)
Shifted == IF mouse.mode = "pan" THEN setBounds(Panned, Shown.y) ELSE user
Drawn ==
    IF getVisibleMode(plots) \in {"1D", "2D"} THEN {getBounds(plots, Shifted)}
    ELSE IF axes = {} THEN {[x |-> <<-1, 1>>, y |-> <<-1, 1>>]} ELSE axes
Painted == getNumVisible(plots) = 0 \/ (user = Shifted /\ axes = Drawn)
render ==
    /\ ~Painted
    /\ user' = Shifted /\ axes' = Drawn
    /\ UNCHANGED <<filterVars, plotVars, mouse, refreshing, still, odd, acts>>

(* A row of the list is clicked. The list is not locked: while a refresh    *)
(* runs the row changes and nothing else.                                   *)
OnSpectraListbox(i) ==
    /\ list' = [list EXCEPT ![i] = ~@]
    /\ IF refreshing
       THEN odd' = odd \cup {"clicked locked"} /\ UNCHANGED <<plots, rawGrid>>
       ELSE /\ plots' = [k \in DOMAIN plots |-> [plots[k] EXCEPT !.visible = list'[k]]]
            /\ rawGrid' = updateRawGrid(plots')
            /\ odd' = odd \ {"clicked locked"}
    /\ UNCHANGED <<filterVars, user, axes, mouse, refreshing, still, acts>>

----------------------------------------------------------------------------
(* The pane.                                                                *)
readyForInput == axes # {} /\ plots # <<>>
Axes == CHOOSE a \in axes : TRUE
\* Outside the axes is left of or below what is drawn.
Low(p) == [x |-> p.x < Axes.x[1], y |-> p.y < Axes.y[1]]
Points == {[x |-> x, y |-> y] : x \in Xs \cup {Axes.x[1] - 1}, y \in Ys \cup {Axes.y[1] - 1}}
InPane == {p \in Points : /\ p.x \in (Axes.x[1] - 1)..Axes.x[2]
                          /\ p.y \in (Axes.y[1] - 1)..Axes.y[2]}
PaneEvent == readyForInput /\ UNCHANGED <<plotVars, refreshing>>
Press == PaneEvent /\ acts < MaxActs /\ acts' = acts + 1

DraggedTo(by) == IF mouse.mode = "pan" THEN [mouse EXCEPT !.by = by] ELSE mouse

\* Mutant of mouseMoved: a drag goes on while a refresh runs.
mouseMoved_NotLimited(by, button) ==
    /\ PaneEvent /\ mouse.mode # "none"
    /\ mouse' = IF ~button THEN Idle ELSE DraggedTo(by)
    /\ still' = (still /\ ~(refreshing /\ mouse.mode = "region"))
    /\ UNCHANGED <<filterVars, user, axes, odd, acts>>

\* A drag ends when the mouse moves without its button, or during a refresh.
mouseMoved(by, button) ==
    /\ PaneEvent /\ mouse.mode # "none"
    /\ mouse' = IF ~button \/ refreshing THEN Idle
                ELSE DraggedTo(by)
    /\ still' = (still /\ ~(refreshing /\ mouse.mode = "region"))
    /\ UNCHANGED <<filterVars, user, axes, odd, acts>>

Drag(p) == [mode |-> "drag", start |-> p]
Pan(p) == [mode |-> "pan", by |-> 0, orig |-> Shown.x]
Grab(p, i, k) ==
    LET region == plots[i].regions[k] IN
    [mode |-> "region", plot |-> i, region |-> k,
     move |-> computeRegionMoveType(p.x, region), was |-> region, from |-> p.x, on |-> Axes]
UnderCursor(p) ==
    IF p.x \in Axes.x[1]..Axes.x[2] THEN getRegionIdAtPosition(plots, p.x) ELSE <<0, 0>>
oneDMouseDownAction(p, alternate) ==
    LET hit == UnderCursor(p) IN
    mouse' = IF alternate THEN Pan(p)
             ELSE IF ~refreshing /\ ~Low(p).x /\ ~Low(p).y /\ hit # <<0, 0>>
             THEN Grab(p, hit[1], hit[2]) ELSE Drag(p)
twoDMouseDownAction(p, alternate) == mouse' = IF alternate THEN Pan(p) ELSE Drag(p)
(* The left button, alternate with shift; the middle one is as that with    *)
(* shift for lines. Without a visible plot it is taken for one of 2D.       *)
leftMouseDown(p, alternate) ==
    /\ Press
    /\ CASE getVisibleMode(plots) = "1D" -> oneDMouseDownAction(p, alternate)
         [] getVisibleMode(plots) \in {"2D", "none"} -> twoDMouseDownAction(p, alternate)
         [] OTHER -> UNCHANGED mouse
    /\ odd' = (IF getVisibleMode(plots) \in {"1D", "2D", "none"}
               THEN odd \ {"refreshed held"} ELSE odd) \cup
              (IF alternate /\ getNumVisible(plots) = 0 THEN {"bounds of nothing"} ELSE {})
    /\ UNCHANGED <<filterVars, user, axes, still>>

----------------------------------------------------------------------------
(* The button is released. A rectangle that lies below an axis is of the    *)
(* other axis only, from end to end.                                        *)
Span(a, b) == <<Min({a, b}), Max({a, b})>>

updateDragPos(p) ==
    LET s == mouse.start
        bothX == Low(s).x /\ Low(p).x
        bothY == Low(s).y /\ Low(p).y
        x == IF bothX THEN Axes.x ELSE Span(s.x, p.x)
        y == IF bothY /\ ~bothX THEN Axes.y ELSE Span(s.y, p.y)
    IN  user' = IF (bothX /\ bothY) \/ x[1] = x[2] \/ y[1] = y[2] THEN user
                ELSE setBounds(x, y)

(* What is drawn while a region is held: the limit up to which it can be    *)
(* moved and, when the whole of it is, bars at both its bounds, which are   *)
(* as far from them as the mouse is from where it was pressed.              *)
drawRegionDraggingOverlay(p) ==
    LET regions == plots[mouse.plot].regions
        by == p.x - mouse.from
        bounds == regions[mouse.region].bounds
    IN  [limit |-> findRegionLimit(regions, mouse.region, mouse.move, p.x),
         bars |-> <<bounds[1] + by, bounds[2] + by>>]

(* The region is moved that is now where the one grabbed was; its filter is *)
(* called by the address noted. What has gone is not modelled any further.  *)
Reachable ==
    /\ mouse.plot \in DOMAIN plots
    /\ mouse.region \in DOMAIN plots[mouse.plot].regions
    /\ LET r == plots[mouse.plot].regions[mouse.region]
       IN  r.parent = Ranger /\ r.id \in DOMAIN table.ranges
moveRegion(p) ==
    IF Reachable
    THEN LET id == plots[mouse.plot].regions[mouse.region].id
         IN  table' = setPropFromRegion(table, id, mouse.move, p.x)
    ELSE UNCHANGED table
leftMouseReleased(p) ==
    /\ PaneEvent
    /\ IF mouse.mode = "drag" THEN updateDragPos(p) ELSE UNCHANGED user
    /\ IF mouse.mode = "region" /\ ~refreshing
       THEN moveRegion(p) /\ outdated' = TRUE ELSE UNCHANGED <<table, outdated>>
    /\ mouse' = Idle
    /\ odd' = odd \ {"refreshed held"}
    /\ UNCHANGED <<plotters, gen, since, axes, still, acts>>

mouseDoubleLeftClick(p) ==
    /\ Press
    /\ LET one == Low(p).x # Low(p).y IN
       /\ user' = IF one THEN disableUserAxisBounds(plots, user, Low(p).y)
                  ELSE disableUserBounds(user)
       /\ odd' = (odd \ {"refreshed held"}) \cup
                 (IF one /\ getNumVisible(plots) = 0 THEN {"bounds of nothing"} ELSE {}) \cup
                 (IF one /\ Low(p).x /\ scanBounds(plots).y[2] < 0 THEN {"reset below zero"} ELSE {})
    /\ mouse' = Idle
    /\ UNCHANGED <<filterVars, axes, still>>

----------------------------------------------------------------------------
\* The wheel: the distances to the point shrink to a half, or double.
Zoomed(bounds, centre, zoomIn) ==
    [k \in 1..2 |-> IF zoomIn THEN centre + (bounds[k] - centre) \div 2
                    ELSE centre + 2 * (bounds[k] - centre)]
Within(bounds, all) == <<Max({bounds[1], all[1]}), Min({bounds[2], all[2]})>>
mouseWheelMoved(p, zoomIn) ==
    /\ Press /\ mouse.mode = "none"
    /\ LET all == scanBounds(plots)
           x == IF Low(p).x THEN Shown.x ELSE Within(Zoomed(Shown.x, p.x, zoomIn), all.x)
           y == IF Low(p).y THEN Shown.y ELSE Within(Zoomed(Shown.y, p.y, zoomIn), all.y)
       IN  user' = IF x[1] >= x[2] \/ y[1] >= y[2] \/ (Low(p).x /\ Low(p).y) THEN user
                   ELSE setBounds(x, y)
    /\ UNCHANGED <<filterVars, axes, mouse, still, odd>>

----------------------------------------------------------------------------
UserSteps ==
    \/ \E i \in DOMAIN list : OnSpectraListbox(i)
    \/ /\ axes # {}
       /\ \/ \E by \in Shifts, button \in BOOLEAN : mouseMoved(by, button)
          \/ \E p \in InPane, alternate \in BOOLEAN : leftMouseDown(p, alternate)
          \/ \E p \in InPane : leftMouseReleased(p)
          \/ \E p \in InPane : mouseDoubleLeftClick(p)
          \/ \E p \in InPane, zoomIn \in BOOLEAN : mouseWheelMoved(p, zoomIn)
Next ==
    \/ \E slot \in Slots, type \in Types : AddPlotter(slot, type)
    \/ \E i \in DOMAIN plotters : RemovePlotter(i)
    \/ \E i \in DOMAIN plotters, type \in Types, many \in BOOLEAN : SetPlotter(i, type, many)
    \/ \E t \in Tables : EditTable(t)
    \/ \E t \in Tables : EditUndo(t)
    \/ StartRefresh
    \/ FinishRefresh
    \/ FailRefresh
    \/ render
    \/ Painted /\ UserSteps
Spec == Init /\ [][Next]_vars

----------------------------------------------------------------------------
TypeOK ==
    /\ \A i \in DOMAIN plotters : plotters[i].at \in Slots /\ plotters[i].type \in Types
    /\ gen \in 0..1 /\ acts \in 0..MaxActs
    /\ DOMAIN list = DOMAIN plots
    /\ Cardinality(axes) <= 1
    /\ refreshing \in BOOLEAN /\ outdated \in BOOLEAN /\ still \in BOOLEAN
    /\ mouse.mode \in {"none", "drag", "pan", "region"}

(* The list, the pane and the grid show the same plots, whatever refreshes  *)
(* ended well or badly and whatever was clicked; but a click while a        *)
(* refresh runs is shown and not done, until the next one or new plots      *)
(* (OnSpectraListbox; updateScene, which sets the rows last).               *)
ListShowsVisible ==
    /\ "clicked locked" \notin odd => list = Selection(plots)
    /\ rawGrid = getRawData(plots)

(* The bounds of the user are an interval on each axis (ASSERT in           *)
(* setBounds and getAppliedBounds), however zoomed, moved and reset; but    *)
(* for a reset or a shift while no plot is visible, which takes the bounds  *)
(* of nothing, and for a reset of data below zero (disableUserAxisBounds).  *)
BoundsProper ==
    user.on /\ odd \cap {"bounds of nothing", "reset below zero"} = {} =>
        user.x[1] < user.x[2] /\ user.y[1] <= user.y[2]

(* The pane can show what the list says: the list is right and the bounds   *)
(* are proper.                                                              *)
PaneShowsPlots == TypeOK /\ ListShowsVisible /\ BoundsProper

(* New plots of the same filter are visible when the old ones were, for any *)
(* order and number of plots in between, once there are several: a filter   *)
(* added since does not take over another's place (bestEffortRestore-       *)
(* Visibility, by the address and the index).                               *)
VisibilityKept ==
    [][plots' # plots /\ refreshing /\ Len(plots') > 1 =>
          \A i \in DOMAIN plots' : plots'[i].parent \notin since =>
             (plots'[i].visible <=>
                \E k \in Visible(plots) : /\ plots[k].parent = plots'[i].parent
                                          /\ plots[k].index = plots'[i].index)]_vars

(* What moves when the button is released is the region that was pressed,   *)
(* and it stands for a range of a filter in the tree; but when the plots    *)
(* were replaced while the mouse was held still, or when filters changed    *)
(* and no refresh followed (leftMouseDown, mouseMoved, setLockUI).          *)
HeldRegionIsItsRange ==
    mouse.mode = "region" /\ "refreshed held" \notin odd /\ ~outdated =>
        /\ Reachable
        /\ plots[mouse.plot].regions[mouse.region] = mouse.was
        /\ mouse.was.bounds = table.ranges[mouse.was.id]

(* What a release makes of the range whose region is held, on a table whose *)
(* consistency is looked after, while the regions are not outdated. The     *)
(* place of the press is that on the axes as long as they are the same.     *)
Released(p) ==
    /\ axes # {} /\ leftMouseReleased(p) /\ table' # table /\ mouse.mode = "region"
    /\ table.enforceConsistency /\ ~outdated /\ "refreshed held" \notin odd
Result == table'.ranges[mouse.was.id]
HeldInMiddle == 2 * mouse.from = mouse.was.bounds[1] + mouse.was.bounds[2] /\ Axes = mouse.on

(* A range goes where the pane shows that it will with the mouse where it   *)
(* is released: its edge, or its middle, to the limit drawn, which is not   *)
(* past the next region; and when it is moved as a whole its ends to the    *)
(* bars, but only if it was pressed in its middle: the release puts the     *)
(* middle of the range under the mouse (findRegionLimit and                 *)
(* mathglPane.cpp:1549 for what is shown, rangeFile.cpp:1313 for what is    *)
(* done).                                                                   *)
MovesAreAsShown ==
    [][axes # {} => \A p \in InPane : Released(p) =>
          LET shown == drawRegionDraggingOverlay(p) IN
          CASE mouse.move = "EXTEND_XMINUS" -> Result[1] = shown.limit
            [] mouse.move = "TRANSLATE_X" -> /\ Result[1] + Result[2] = 2 * shown.limit
                                             /\ HeldInMiddle => Result = shown.bars
            [] mouse.move = "EXTEND_XPLUS" -> Result[2] = shown.limit]_vars
=============================================================================
