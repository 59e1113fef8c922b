---------------------------- MODULE RangeEditor ----------------------------
(* gui/dialogs/rangeEditDialog.cpp: the dialog that edits copies of the     *)
(* range files of the plots, whose grids show ranges and ions with those    *)
(* that are still incomplete below, and what the range filters do with      *)
(* their files otherwise: reading, dragging in the plot, their properties.  *)
EXTENDS RangeFile, TLC

CONSTANTS
    Filters,      \* range filters with an open file
    Plots,        \* list of the plots' filters, as the dialog has it
    Files,        \* range files on the disk
    FirstFiles,   \* that of each filter at first, one of these
    Masses,
    Names,        \* what the user types for an ion
    Colours,
    MaxEdits      \* bound: acts of the user

ASSUME BoundsAssumption == Masses \subseteq Int /\ MaxEdits \in Nat

\* Without a plot the dialog has nothing to edit (rangeEditDialog.cpp:407).
ASSUME PlotsAssumption ==
    /\ Plots \in Seq(Filters) /\ Plots # <<>> /\ ToSet(Plots) = Filters
    /\ "none" \notin Filters /\ "mixed" \notin Filters

VARIABLES
    rng,          \* each filter's range file
    isOpen,       \* whether the dialog is
    modified,     \* its copies
    selected,     \* the plot that is selected
    rangeRows, ionRows,  \* the grids: the copy they were filled from, what of it they
                         \* show, and how many incomplete rows stand below
    regions,      \* what each plot shows, and whether a region was drawn empty
    incompleteRanges, incompleteIons,
    okEnabled,
    hit,          \* for the properties: what the last edit was to change, and did
    unsure,       \* whether the copies can have changed since OK was last looked at
    noted,        \* known ways in which a filter's file may not be sound
    edits

vars == <<rng, isOpen, modified, selected, rangeRows, ionRows, regions, incompleteRanges,
          incompleteIons, okEnabled, hit, unsure, noted, edits>>
dialog == <<isOpen, modified, selected, rangeRows, ionRows, regions, incompleteRanges,
            incompleteIons, okEnabled, unsure>>
outside == <<rng, noted>>

Opened == [file \in Files |-> openGuessFormat(file)]
Readable == {file \in Files : Opened[file] # Unreadable}

\* Tables as they are in the files there are, and what can be typed into them.
FileIons == UNION {ToSet(Opened[file].ions) : file \in Readable}
AllNames == Names \cup {ion.short : ion \in FileIons} \cup {ion.long : ion \in FileIons}
Ions == [short : AllNames, long : AllNames,
         colour : Colours \cup {ion.colour : ion \in FileIons}]
Ranges == Int \X Int
Tables ==
    {t \in [ions : Seq(Ions), ranges : Seq(Ranges), ids : Seq(Int), enforceConsistency : BOOLEAN] :
        Len(t.ids) = Len(t.ranges)}

\* A reader that does not refuse a file makes such a table of it, which is to be
\* kept consistent.
ASSUME FilesAssumption ==
    /\ \A file \in Readable : Opened[file] \in Tables /\ Opened[file].enforceConsistency
    /\ \A f \in Filters : FirstFiles[f] \in Readable

NoRows == [of |-> "none", shown |-> <<>>, pending |-> 0]
NoHit == [shown |-> <<>>, was |-> <<>>, past |-> FALSE, known |-> FALSE]
NewRange(f) == [of |-> f, start |-> <<>>, end |-> <<>>, parent |-> 0]
NewPendingIon(f) == [of |-> f, short |-> <<>>, long |-> <<>>, colour |-> <<>>]

\* What is to be noted of a table that comes from a file.
OfFile(file) == IF Sound(Opened[file]) THEN {} ELSE {"file"}

Init ==
    /\ rng = [f \in Filters |-> Opened[FirstFiles[f]]]
    /\ isOpen = FALSE /\ modified = <<>> /\ selected = 0
    /\ rangeRows = NoRows /\ ionRows = NoRows /\ regions = <<>>
    /\ incompleteRanges = <<>> /\ incompleteIons = <<>>
    /\ okEnabled = FALSE /\ hit = NoHit /\ unsure = FALSE
    /\ noted = [f \in Filters |-> OfFile(FirstFiles[f])]
    /\ edits = 0

Act == edits < MaxEdits /\ edits' = edits + 1

----------------------------------------------------------------------------
(* The range filters outside the dialog. A file that is read does not       *)
(* change whether its table must be consistent.                             *)
ReadAs(f, file) == [Opened[file] EXCEPT !.enforceConsistency = rng[f].enforceConsistency]

SetRng(f, t, ways) ==
    /\ rng' = [rng EXCEPT ![f] = t]
    /\ noted' = [noted EXCEPT ![f] = ways]
    /\ hit' = NoHit
    /\ UNCHANGED dialog

updateRng ==
    /\ ~isOpen /\ Act
    /\ \E f \in Filters, file \in Readable :
          SetRng(f, ReadAs(f, file), OfFile(file) \cup (noted[f] \cap {"unchecked"}))

(* The start or the end of a range is typed or dragged in the plot.         *)
MoveRange ==
    /\ ~isOpen /\ Act
    /\ \E f \in Filters : \E n \in DOMAIN rng[f].ranges, upper \in BOOLEAN, mass \in Masses :
          SetRng(f, moveRange(rng[f], n, upper, mass), noted[f])

(* A whole range is dragged; it is moved with its middle to the mouse.      *)
DragRange ==
    /\ ~isOpen /\ Act
    /\ \E f \in Filters : \E n \in DOMAIN rng[f].ranges, to \in Masses :
          LET delta == (rng[f].ranges[n][2] - rng[f].ranges[n][1]) \div 2 IN
          /\ 2 * delta = rng[f].ranges[n][2] - rng[f].ranges[n][1]
          /\ SetRng(f, moveBothRanges(rng[f], n, to - delta, to + delta), noted[f])

(* The ion of a range is set by its number, which is compared with how many *)
(* ranges there are.                                                        *)
SetRangeIon ==
    /\ ~isOpen /\ Act
    /\ \E f \in Filters : \E n \in DOMAIN rng[f].ranges :
       \E ion \in 1..(Len(rng[f].ranges) + 1) \ {rng[f].ids[n]} :
          SetRng(f, [rng[f] EXCEPT !.ids[n] = ion],
                 noted[f] \cup IF ion \in DOMAIN rng[f].ions THEN {} ELSE {"ion"})

(* An ion is renamed, to the same short and long name, which nothing is     *)
(* compared with; or it gets a colour.                                      *)
Taken(t, n, name) ==
    \E i \in DOMAIN t.ions \ {n} : t.ions[i].short = name \/ t.ions[i].long = name

SetIonName ==
    /\ ~isOpen /\ Act
    /\ \E f \in Filters, name \in Names : \E n \in DOMAIN rng[f].ions :
          SetRng(f, [rng[f] EXCEPT !.ions[n] = [@ EXCEPT !.short = name, !.long = name]],
                 noted[f] \cup IF Taken(rng[f], n, name) THEN {"name"} ELSE {})

SetIonColour ==
    /\ ~isOpen /\ Act
    /\ \E f \in Filters, colour \in Colours : \E n \in DOMAIN rng[f].ions :
          SetRng(f, [rng[f] EXCEPT !.ions[n].colour = colour], noted[f])

----------------------------------------------------------------------------
(* The dialog's parts. *)
PlotFilter == Plots[selected]
currentRange == modified[PlotFilter]

RangeRows(t, f, pending) == [of |-> f, shown |-> t.ranges, pending |-> Len(pending)]
IonRows(t, f, pending) ==
    [of |-> f, shown |-> [i \in DOMAIN t.ions |-> t.ions[i].short], pending |-> Len(pending)]

(* gridRangeIds: the rows of the complete ranges are entered first and the  *)
(* incomplete ones, which are counted from the first row again, over them.  *)
RangeOfRow(row) == IF row <= rangeRows.pending THEN Len(rangeRows.shown) + row ELSE row

(* The copy that is shown becomes t, and the grids and the plot follow.     *)
\* Mutant of generateRangeEntries: the rows of complete ranges are left.
generateRangeEntries_Added(t, pending) == rangeRows' = [rangeRows EXCEPT !.pending = Len(pending)]

generateRangeEntries(t, pending) == rangeRows' = RangeRows(t, PlotFilter, pending)

generateIonEntries(t, pending) == ionRows' = IonRows(t, PlotFilter, pending)
Drawn(t) == [shown |-> t.ranges, emptied |-> FALSE]
generatePlotRegions(t) == regions' = [regions EXCEPT ![selected] = Drawn(t)]

\* Mutant of setRangeReady: only the copy that is shown is looked at.
setRangeReady_Current(tables) ==
    okEnabled' = isSelfConsistent(tables[PlotFilter]) /\ unsure' = FALSE

setRangeReady(tables) ==
    okEnabled' = (\A f \in DOMAIN tables : isSelfConsistent(tables[f])) /\ unsure' = FALSE

(* The dialog opens with copies that need not be consistent. OK is enabled. *)
OnEditRange ==
    /\ ~isOpen /\ isOpen' = TRUE
    /\ \A f \in Filters : rng[f].ranges # <<>>
    /\ \A f \in Filters : \A n \in DOMAIN rng[f].ids : rng[f].ids[n] \in DOMAIN rng[f].ions
    /\ modified' = [f \in Filters |-> [rng[f] EXCEPT !.enforceConsistency = FALSE]]
    /\ selected' = 1
    /\ rangeRows' = RangeRows(rng[Plots[1]], Plots[1], <<>>)
    /\ ionRows' = IonRows(rng[Plots[1]], Plots[1], <<>>)
    /\ regions' = [p \in DOMAIN Plots |-> Drawn(rng[Plots[p]])]
    /\ incompleteRanges' = <<>> /\ incompleteIons' = <<>>
    /\ okEnabled' = TRUE /\ unsure' = TRUE /\ hit' = NoHit
    /\ UNCHANGED <<outside, edits>>

(* Another plot: its copy becomes the current one; the grids stay.          *)
OnListPlots ==
    /\ isOpen /\ Act
    /\ selected' \in DOMAIN Plots \ {selected}
    /\ hit' = NoHit
    /\ UNCHANGED <<outside, isOpen, modified, rangeRows, ionRows, regions, incompleteRanges,
                   incompleteIons, okEnabled, unsure>>

(* What an edit of a row was to change, by what the row shows, and what it  *)
(* changes: nothing of the table that can be told when the row stands for a *)
(* place past its end, as those do that incomplete rows were entered over.  *)
(* Rows are known not to fit when another plot was chosen since.            *)
InTable(n) == n \in DOMAIN currentRange.ranges

RangeHit(row) ==
    [shown |-> rangeRows.shown[row],
     was |-> IF InTable(RangeOfRow(row)) THEN currentRange.ranges[RangeOfRow(row)] ELSE <<>>,
     past |-> row <= rangeRows.pending,
     known |-> rangeRows.of # PlotFilter]
IonHit(row) ==
    [shown |-> ionRows.shown[row], was |-> currentRange.ions[row].short,
     past |-> FALSE,
     known |-> ionRows.of # PlotFilter]

(* (An ion past the end of another plot's table is a name where there is    *)
(* none: the program does not go on.)                                       *)
IonRow(row) == row \in DOMAIN ionRows.shown /\ row \in DOMAIN currentRange.ions

\* A grid of one copy in which a cell was typed for another.
Mixed(of) == IF of = PlotFilter THEN of ELSE "mixed"

Edited(t) == [modified EXCEPT ![PlotFilter] = t]

----------------------------------------------------------------------------
(* A cell of a complete range: its ion, start or end. What is written past  *)
(* the end of the table, if the comparison with what is there allows it, is *)
(* not in the table.                                                        *)
OnGridRangesCellChange ==
    /\ isOpen /\ Act
    /\ \E row \in DOMAIN rangeRows.shown :
          LET n == RangeOfRow(row)
              set(t) ==
                 LET new == IF InTable(n) THEN t ELSE currentRange IN
                 /\ modified' = Edited(new)
                 /\ generatePlotRegions(new)
                 /\ setRangeReady(Edited(new))
          IN  /\ hit' = RangeHit(row)
              /\ \/ \E name \in Names :
                       /\ getIonID(currentRange, name) # 0
                       /\ set([currentRange EXCEPT !.ids[n] = getIonID(currentRange, name)])
                       /\ UNCHANGED rangeRows
                 \/ \E mass \in Masses :
                       /\ InTable(n) => mass < currentRange.ranges[n][2]
                       /\ set(SetLimit(currentRange, n, 1, mass))
                       /\ rangeRows' = [rangeRows EXCEPT !.shown[row][1] = mass, !.of = Mixed(@)]
                 \/ \E mass \in Masses :
                       /\ InTable(n) => mass > currentRange.ranges[n][1]
                       /\ set(SetLimit(currentRange, n, 2, mass))
                       /\ rangeRows' = [rangeRows EXCEPT !.shown[row][2] = mass, !.of = Mixed(@)]
    /\ UNCHANGED <<outside, isOpen, selected, ionRows, incompleteRanges, incompleteIons>>

(* A cell of an incomplete range, in the copy it was made for. When it has  *)
(* all it needs it is put in there; whether OK may stay is not looked at.   *)
Finished(p) == p.start # <<>> /\ p.end # <<>> /\ p.parent # 0 /\ p.start[1] < p.end[1]

EditIncompleteRange ==
    /\ isOpen /\ Act
    /\ \E k \in DOMAIN incompleteRanges :
       \E p \in {[incompleteRanges[k] EXCEPT !.start = <<m>>] : m \in Masses}
               \cup {[incompleteRanges[k] EXCEPT !.end = <<m>>] : m \in Masses}
               \cup {[incompleteRanges[k] EXCEPT !.parent =
                        getIonID(modified[incompleteRanges[k].of], name)] :
                     name \in {n \in Names : getIonID(modified[incompleteRanges[k].of], n) # 0}} :
          /\ modified' = IF Finished(p)
                         THEN [modified EXCEPT ![p.of] = addRange(@, p.start[1], p.end[1], p.parent)]
                         ELSE modified
          /\ incompleteRanges' = IF Finished(p) THEN SwapPop(incompleteRanges, k)
                                 ELSE [incompleteRanges EXCEPT ![k] = p]
          /\ unsure' = (unsure \/ Finished(p))
    /\ generateRangeEntries(modified'[PlotFilter], incompleteRanges')
    /\ generatePlotRegions(modified'[PlotFilter])
    /\ hit' = NoHit
    /\ UNCHANGED <<outside, isOpen, selected, ionRows, incompleteIons, okEnabled>>

(* A cell of a complete ion: a name, or the colour.                         *)
OnGridIonsCellChange ==
    /\ isOpen /\ Act
    /\ \E row \in DOMAIN ionRows.shown :
       /\ IonRow(row)
       /\ hit' = IonHit(row)
       /\ \/ \E name \in Names :
                /\ modified' = Edited([currentRange EXCEPT !.ions[row].short = name])
                /\ ionRows' = [ionRows EXCEPT !.shown[row] = name, !.of = Mixed(@)]
                /\ UNCHANGED regions
          \/ \E name \in Names :
                /\ modified' = Edited([currentRange EXCEPT !.ions[row].long = name])
                /\ UNCHANGED <<ionRows, regions>>
          \/ \E colour \in Colours :
                /\ modified' = Edited([currentRange EXCEPT !.ions[row].colour = colour])
                /\ generatePlotRegions(currentRange)
                /\ UNCHANGED ionRows
    /\ setRangeReady(modified')
    /\ UNCHANGED <<outside, isOpen, selected, rangeRows, incompleteRanges, incompleteIons>>

(* A cell of an incomplete ion. A name that is taken is refused; whether a  *)
(* long name is valid is looked up with the short one.                      *)
IonReady(p, t) ==
    /\ p.short # <<>> /\ p.long # <<>> /\ p.colour # <<>>
    /\ getIonID(t, p.short) = 0 /\ getIonIDByLongName(t, p.long) = 0

PutIon(k, p) ==
    IF IonReady(p, modified[p.of])
    THEN /\ modified' = [modified EXCEPT ![p.of] = addIon(@, p.short, p.long, p.colour)]
         /\ incompleteIons' = SwapPop(incompleteIons, k)
         /\ generateIonEntries(modified'[PlotFilter], incompleteIons')
    ELSE /\ incompleteIons' = [incompleteIons EXCEPT ![k] = p]
         /\ UNCHANGED <<modified, ionRows>>

EditIncompleteIon ==
    /\ isOpen /\ Act
    /\ \E k \in DOMAIN incompleteIons :
       LET p == incompleteIons[k]
           t == modified[p.of]
       IN  \/ /\ \/ \E name \in Names :
                        getIonID(t, name) = 0 /\ PutIon(k, [p EXCEPT !.short = name])
                 \/ \E name \in Names :
                        /\ getIonIDByLongName(t, name) = 0
                        /\ PutIon(k, [p EXCEPT !.long =
                              IF getIonIDByLongName(t, p.short) = 0 THEN name ELSE <<>>])
              /\ unsure' = (unsure \/ modified' # modified) /\ UNCHANGED okEnabled
           \/ /\ \E c \in Colours : PutIon(k, [p EXCEPT !.colour = c])
              /\ setRangeReady(modified')
    /\ hit' = NoHit
    /\ UNCHANGED <<outside, isOpen, selected, rangeRows, regions, incompleteRanges>>

----------------------------------------------------------------------------
(* Add makes an incomplete range or ion for the current copy.               *)
OnBtnRangeIonAdd ==
    /\ isOpen /\ Act
    /\ \/ /\ incompleteRanges' = Append(incompleteRanges, NewRange(PlotFilter))
          /\ generateRangeEntries(currentRange, incompleteRanges')
          /\ UNCHANGED <<incompleteIons, ionRows>>
       \/ /\ incompleteIons' = Append(incompleteIons, NewPendingIon(PlotFilter))
          /\ generateIonEntries(currentRange, incompleteIons')
          /\ UNCHANGED <<incompleteRanges, rangeRows>>
    /\ setRangeReady(modified)
    /\ hit' = NoHit
    /\ UNCHANGED <<outside, isOpen, modified, selected, regions>>

(* Remove takes out the row of the cursor; the last range goes for one past *)
(* the end. (A table without any is not gone on with.) With an ion go its   *)
(* ranges.                                                                  *)
RemoveRange ==
    /\ isOpen /\ Act
    /\ \/ \E row \in DOMAIN rangeRows.shown :
             /\ currentRange.ranges # <<>>
             /\ hit' = RangeHit(row)
             /\ modified' = Edited(eraseRange(currentRange,
                    IF InTable(RangeOfRow(row)) THEN RangeOfRow(row)
                    ELSE Len(currentRange.ranges)))
             /\ UNCHANGED incompleteRanges
       \/ /\ \E k \in DOMAIN incompleteRanges : incompleteRanges' = SwapPop(incompleteRanges, k)
          /\ hit' = NoHit /\ UNCHANGED modified
    /\ generateRangeEntries(modified'[PlotFilter], incompleteRanges')
    /\ generatePlotRegions(modified'[PlotFilter])
    /\ setRangeReady(modified')
    /\ UNCHANGED <<outside, isOpen, selected, ionRows, incompleteIons>>

RemoveIon ==
    /\ isOpen /\ Act
    /\ \/ \E row \in DOMAIN ionRows.shown :
             /\ IonRow(row)
             /\ hit' = IonHit(row)
             /\ modified' = Edited(eraseIon(currentRange, row))
             /\ UNCHANGED incompleteIons
       \/ /\ \E k \in DOMAIN incompleteIons : incompleteIons' = SwapPop(incompleteIons, k)
          /\ hit' = NoHit /\ UNCHANGED modified
    /\ generateIonEntries(modified'[PlotFilter], incompleteIons')
    /\ generateRangeEntries(modified'[PlotFilter], incompleteRanges)
    /\ generatePlotRegions(modified'[PlotFilter])
    /\ setRangeReady(modified')
    /\ UNCHANGED <<outside, isOpen, selected, incompleteRanges>>

(* A region of the selected plot is dragged by an edge, or as a whole by    *)
(* its middle: the limits of the range with its number are changed, and     *)
(* swapped when they have come to cross. Nothing is changed when they would *)
(* meet, but the region is drawn so. Another plot with the same ranges      *)
(* keeps the regions it has.                                                *)
Sorted(r) == IF r[1] > r[2] THEN <<r[2], r[1]>> ELSE r
Dragged(r, edge, mass) ==
    LET delta == (r[2] - r[1]) \div 2 IN
    IF edge = 3 THEN <<mass - delta, mass + delta>> ELSE Sorted([r EXCEPT ![edge] = mass])
Draggable(r, edge) == edge = 3 => (r[2] - r[1]) % 2 = 0  \* whole numbers

onPlotUpdate ==
    /\ isOpen /\ Act
    /\ \E n \in DOMAIN regions[selected].shown \cap DOMAIN currentRange.ranges,
          edge \in 1..3, mass \in Masses :
          LET r == currentRange.ranges[n]
              shown == regions[selected].shown[n]
              empty == edge # 3 /\ mass = r[3 - edge]
              t == IF empty THEN currentRange
                   ELSE [currentRange EXCEPT !.ranges[n] = Dragged(r, edge, mass)]
          IN  /\ Draggable(r, edge) /\ Draggable(shown, edge)
              /\ hit' = [shown |-> shown, was |-> r, past |-> FALSE,
                         known |-> \/ regions[selected].emptied
                                   \/ \E p \in DOMAIN Plots \ {selected} : Plots[p] = PlotFilter]
              /\ modified' = Edited(t)
              /\ regions' = [regions EXCEPT
                     ![selected].shown[n] = Dragged(shown, edge, mass),
                     ![selected].emptied = @ \/ empty]
              /\ generateRangeEntries(t, incompleteRanges)
              /\ generateIonEntries(t, incompleteIons)
              /\ setRangeReady(Edited(t))
    /\ UNCHANGED <<outside, isOpen, selected, incompleteRanges, incompleteIons>>

----------------------------------------------------------------------------
Closed ==
    /\ isOpen' = FALSE /\ modified' = <<>> /\ selected' = 0
    /\ rangeRows' = NoRows /\ ionRows' = NoRows /\ regions' = <<>>
    /\ incompleteRanges' = <<>> /\ incompleteIons' = <<>>
    /\ okEnabled' = FALSE /\ unsure' = FALSE /\ hit' = NoHit

(* OK gives each filter its copy, as it is.                                 *)
OnBtnOK ==
    /\ isOpen /\ okEnabled
    /\ rng' = modified
    /\ noted' = [f \in Filters |-> noted[f] \cup {"unchecked"}]
    /\ Closed /\ UNCHANGED edits

OnBtnCancel == isOpen /\ Closed /\ UNCHANGED <<outside, edits>>

Next ==
    \/ updateRng \/ MoveRange \/ DragRange \/ SetRangeIon \/ SetIonName \/ SetIonColour
    \/ OnEditRange \/ OnListPlots \/ OnGridRangesCellChange \/ EditIncompleteRange
    \/ OnGridIonsCellChange \/ EditIncompleteIon \/ OnBtnRangeIonAdd
    \/ RemoveRange \/ RemoveIon \/ onPlotUpdate \/ OnBtnOK \/ OnBtnCancel

Spec == Init /\ [][Next]_vars
----------------------------------------------------------------------------
PendingRanges ==
    [of : Filters, start : {<<>>} \cup {<<m>> : m \in Masses},
     end : {<<>>} \cup {<<m>> : m \in Masses}, parent : Nat]
PendingIons ==
    [of : Filters, short : {<<>>} \cup Names, long : {<<>>} \cup Names, colour : {<<>>} \cup Colours]
DialogTyped ==
    /\ modified \in [Filters -> Tables] /\ \A f \in Filters : ~modified[f].enforceConsistency
    /\ rangeRows \in [of : Filters \cup {"mixed"}, shown : Seq(Ranges), pending : Nat]
    /\ ionRows \in [of : Filters \cup {"mixed"}, shown : Seq(AllNames), pending : Nat]
    /\ regions \in [DOMAIN Plots -> [shown : Seq(Ranges), emptied : BOOLEAN]]
    /\ incompleteRanges \in Seq(PendingRanges) /\ incompleteIons \in Seq(PendingIons)
    /\ Len(incompleteRanges) = rangeRows.pending /\ Len(incompleteIons) = ionRows.pending
Ways == {"file", "ion", "name", "unchecked"}
TypeOK ==
    /\ rng \in [Filters -> Tables] /\ noted \in [Filters -> SUBSET Ways]
    /\ isOpen \in BOOLEAN /\ okEnabled \in BOOLEAN /\ unsure \in BOOLEAN
    /\ okEnabled => isOpen
    /\ isOpen <=> selected \in DOMAIN Plots
    /\ isOpen => DialogTyped

(* A filter's ranges have a start below their end, no inner point in common *)
(* and an ion each, and its ions names of their own, whatever is read,      *)
(* dragged and typed, unless the file was not so, a number of no ion or a   *)
(* name that another ion has was given, or the dialog's OK has turned the   *)
(* checks off (APTRanges.cpp:2701, 2762, rangeFile.cpp:879, 934).           *)
RangesSound == TypeOK /\ \A f \in Filters : noted[f] = {} => Sound(rng[f])

(* An edit of a row or a drag changes the range or ion that is shown there, *)
(* unless another plot has been chosen since the grid was filled, another   *)
(* plot shows the same ranges, or an edge was dragged onto the other        *)
(* (rangeEditDialog.cpp:727, 792, 486, plot.cpp:210). But of the ranges the *)
(* first rows, as many as there are incomplete ones, are taken past the     *)
(* table's end: an edit is written there, and a removal takes the last      *)
(* range (rangeEditDialog.cpp:755, 1078, 1316).                             *)
EditsHitWhatIsShown ==
    hit.known \/ hit.was = IF hit.past THEN <<>> ELSE hit.shown

(* OK is given only to tables that are all consistent, once something has   *)
(* been changed and unless an incomplete range or ion has been put in since *)
(* (rangeEditDialog.cpp:809, 1054, 1196).                                   *)
OkOnlyWhenConsistent ==
    okEnabled /\ ~unsure => \A f \in Filters : isSelfConsistent(modified[f])

(* A sound table is read back from the ORNL file written of it but for its  *)
(* colours, and with its ranges and their ions' names from the RRNG file,   *)
(* its limits as six digits say them, unless a range is then empty, which   *)
(* no reader need take; whatever colours the RRNG file has                  *)
(* (APTRanges.cpp:374, 407, 477, 755, 1750).                                *)
SameTable(new, t) ==
    /\ new # Unreadable
    /\ new.ranges = t.ranges /\ new.ids = t.ids /\ Len(new.ions) = Len(t.ions)
    /\ \A i \in DOMAIN t.ions : [new.ions[i] EXCEPT !.colour = t.ions[i].colour] = t.ions[i]
SameNames(new, t) ==
    /\ new # Unreadable
    /\ new.ranges = t.ranges
    /\ \A r \in DOMAIN t.ids : new.ions[new.ids[r]].short = t.ions[t.ids[r]].short
WrittenRangesReadBack ==
    \A f \in Filters, stray \in Colours :
        LET t == AsPrinted(rng[f]) IN
        ~isOpen /\ Sound(rng[f]) /\ t.ranges # <<>> /\ Sound(t) =>
            /\ SameTable(openGuessFormat(write(rng[f], "ORNL", stray)), t)
            /\ SameNames(openGuessFormat(write(rng[f], "RRNG", stray)), t)
=============================================================================
