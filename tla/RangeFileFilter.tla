---------------------------- MODULE RangeFileFilter ----------------------------
(***************************************************************************)
(* RangeFileFilter: sorts ions by the ranges of a file, which the user may *)
(* rename, recolour, move and switch off one by one.  A file is one of     *)
(* Files; a range is its two limits, in eighths of some unit.              *)
(***************************************************************************)
EXTENDS FilterBase

\* What the readable files hold: the ions' names and colours, the ranges and
\* the ion of each.
Files ==
    [two |-> [ions |-> <<"A", "B">>, colours |-> <<1, 2>>,
              ranges |-> <<<<0, 16>>, <<24, 40>>, <<48, 56>>>>, ionOf |-> <<1, 2, 1>>],
     one |-> [ions |-> <<"A">>, colours |-> <<1>>,
              ranges |-> <<<<0, 16>>, <<24, 40>>>>, ionOf |-> <<1, 1>>]]

AllOn(array) == [i \in DOMAIN array |-> TRUE]
\* vector::resize of flags that are 1 unless they were there before.
ResizedOn(flags, array) ==
    [i \in DOMAIN array |-> IF i \in DOMAIN flags THEN flags[i] ELSE TRUE]

\* With the file that the open dialog gave it, before it came into the tree.
New == [rngName |-> "two", rng |-> Files.two, dropUnranged |-> TRUE,
        showLegend |-> FALSE, enabledIons |-> AllOn(Files.two.ions),
        enabledRanges |-> AllOn(Files.two.ranges)]

Ions(c) == DOMAIN c.rng.ions
Ranges(c) == DOMAIN c.rng.ranges

\* getProperties.
Shown(c) ==
    {<<k, 0>> : k \in {"rngName", "dropUnranged", "showLegend", "allIons", "allRanges"}}
    \cup {<<k, i>> : k \in {"ionName", "ionEnabled", "ionColour"}, i \in Ions(c)}
    \cup {<<k, i>> : k \in {"rangeEnabled", "rangeIon", "start", "end"}, i \in Ranges(c)}

\* Range files that cannot be read, ion names that are not alphanumeric.
Inputs(c, key) ==
    CASE key = "rngName" -> {"two", "one", "unreadable"}
      [] key = "ionName" -> {"C", "C-"}
      [] key = "ionColour" -> {3}
      [] key = "rangeIon" -> 1..(Len(c.rng.ranges) + 2)
      [] key \in {"start", "end"} -> {8, 20, 32}
      [] OTHER -> BOOLEAN

-----------------------------------------------------------------------------
\* A file that cannot be read leaves everything as it was; flags of ions and
\* ranges that the last file also had are kept.
SetFile(c, name) ==
    IF name = c.rngName \/ name \notin DOMAIN Files THEN Refuse(c)
    ELSE Changed([c EXCEPT !.rngName = name, !.rng = Files[name],
                           !.enabledIons = ResizedOn(@, Files[name].ions),
                           !.enabledRanges = ResizedOn(@, Files[name].ranges)])

HaveEnabled(c) ==
    (\E i \in Ranges(c) : c.enabledRanges[i]) /\ (\E i \in Ions(c) : c.enabledIons[i])

\* A legend is put into the cache or taken out of it; refresh would make one
\* only if something is enabled.
SetLegend(c, cached, v) ==
    IF ~cached THEN ApplyPropertyNow(c, "showLegend", v)
    ELSE IF v = c.showLegend THEN Refuse(c)
    ELSE LET a == Patched([c EXCEPT !.showLegend = v])
         IN  IF v /\ ~HaveEnabled(c) THEN [a EXCEPT !.cache = "legend", !.misfit = TRUE]
             ELSE a

SetAll(c, f, v) ==
    IF \A i \in DOMAIN c[f] : c[f][i] = v THEN Ignore(c)
    ELSE Changed([c EXCEPT ![f] = [i \in DOMAIN @ |-> v]])

SetIon(c, key, i, v) ==
    CASE key = "ionName" -> IF v = "C-" THEN Refuse(c)
                            ELSE Changed([c EXCEPT !.rng.ions[i] = v])
      [] key = "ionEnabled" -> ApplyIth(c, "enabledIons", i, v)
      [] key = "ionColour" -> Changed([c EXCEPT !.rng.colours[i] = v])

\* RangeFile::moveRange: neither past its other limit nor over one of another
\* range.
MayMove(c, i, k, to) ==
    LET r == c.rng.ranges[i] IN
    /\ IF k = 2 THEN to > r[1] ELSE to < r[2]
    /\ \A j \in Ranges(c) \ {i}, l \in 1..2 :
          LET limit == c.rng.ranges[j][l] IN
          IF k = 2 THEN ~(r[1] < limit /\ to > limit) ELSE ~(r[2] > limit /\ to < limit)

MoveRange(c, i, k, to) ==
    IF c.rng.ranges[i][k] = to \/ ~MayMove(c, i, k, to) THEN Refuse(c)
    ELSE Changed([c EXCEPT !.rng.ranges[i][k] = to])

\* The number of another ion is compared with the number of ranges, and may be
\* one past that.
SetRange(c, key, i, v) ==
    CASE key = "rangeEnabled" -> ApplyIth(c, "enabledRanges", i, v)
      [] key = "rangeIon" ->
            IF v = c.rng.ionOf[i] \/ v > Len(c.rng.ranges) + 1 THEN Refuse(c)
            ELSE Changed([c EXCEPT !.rng.ionOf[i] = v])
      [] key = "start" -> MoveRange(c, i, 1, v)
      [] key = "end" -> MoveRange(c, i, 2, v)

\* setProperty; cached says whether the filter has a cache.
SetProperty(c, cached, key, i, v) ==
    CASE key = "rngName" -> SetFile(c, v)
      [] key = "dropUnranged" -> ApplyPropertyNow(c, key, v)
      [] key = "showLegend" -> SetLegend(c, cached, v)
      [] key = "allIons" -> SetAll(c, "enabledIons", v)
      [] key = "allRanges" -> SetAll(c, "enabledRanges", v)
      [] key \in {"ionName", "ionEnabled", "ionColour"} -> SetIon(c, key, i, v)
      [] key \in {"rangeEnabled", "rangeIon", "start", "end"} -> SetRange(c, key, i, v)

\* The answers to all that may be asked.
Answers(c, cached) ==
    UNION {{SetProperty(c, cached, p[1], p[2], v) : v \in Inputs(c, p[1])} : p \in Shown(c)}

-----------------------------------------------------------------------------
\* The regions that a spectrum shows of the ranges, and where they are dragged.
Bindings(c) == {<<k, i>> : k \in {"start", "both", "end"}, i \in Ranges(c)}

\* RangeFile::moveBothRanges keeps the width.
MoveBoth(c, i, to) ==
    LET r == c.rng.ranges[i]
        half == (r[2] - r[1]) \div 2
        clear == \A j \in Ranges(c) \ {i}, l \in 1..2 :
                    LET limit == c.rng.ranges[j][l] IN
                    /\ ~(r[1] < limit /\ to + half > limit)
                    /\ ~(r[2] > limit /\ to - half < limit)
    IN  IF clear THEN [c EXCEPT !.rng.ranges[i] = <<to - half, to + half>>] ELSE c

\* setPropFromRegion: the cache is cleared whether or not the range could move.
Dragged(c, binding, to) ==
    Changed(CASE binding[1] = "both" -> MoveBoth(c, binding[2], to)
              [] binding[1] = "start" ->
                    IF MayMove(c, binding[2], 1, to)
                    THEN [c EXCEPT !.rng.ranges[binding[2]][1] = to] ELSE c
              [] binding[1] = "end" ->
                    IF MayMove(c, binding[2], 2, to)
                    THEN [c EXCEPT !.rng.ranges[binding[2]][2] = to] ELSE c)

Drags(c) == {Dragged(c, b, to) : b \in Bindings(c), to \in Inputs(c, "start")}

-----------------------------------------------------------------------------
Clone(c) == Taking(New, c, DOMAIN New \ {"showLegend"})

\* The file is written by its name, the ions with their colours.
Written ==
    <<Of("rngName"), Of("showLegend"), Of("dropUnranged"),
      Of("enabledIons"), Of("enabledRanges")>>
Wanted ==
    <<Of("rngName"), MayLack("showLegend", {"showLegend"}), Of("dropUnranged"),
      Of("enabledIons"), Of("enabledRanges")>>

\* readState reads the range file again.
ReadState(c) ==
    LET r == Restored(New, c, Written, Wanted)
        file == Files[r.conf.rngName]
    IN  [ok |-> r.ok,
         conf |-> [r.conf EXCEPT !.rng = [file EXCEPT !.colours = c.rng.colours]]]

-----------------------------------------------------------------------------
Output(c) ==
    <<c.rng, c.enabledIons, c.enabledRanges, c.dropUnranged,
      c.showLegend /\ HaveEnabled(c)>>

\* refresh: with nothing enabled and the unranged ions dropped it neither makes
\* ions nor looks at what else comes in.
Nothing(c) == ~HaveEnabled(c) /\ c.dropUnranged
Makes(c, in) ==
    {"range"} \cup (IF Nothing(c) THEN {} ELSE in \cap {"ions"})
    \cup (IF HaveEnabled(c) /\ c.showLegend THEN {"draw"} ELSE {})
Passes(c, cached) ==
    IF cached THEN StreamTypes \ {"ions"}
    ELSE IF Nothing(c) THEN {} ELSE StreamTypes \ {"ions", "range"}

BlockMask == {"ions"}
EmitMask(c) == {"range", "ions", "grid"} \cup (IF c.showLegend THEN {"draw"} ELSE {})
Streams(c, in, cached) == StreamsOf(Makes(c, in), Passes(c, cached), BlockMask, EmitMask(c))

\* The flags are as many as the file's ions and ranges, every range has an ion,
\* and no two ranges overlap.
InBounds(c) ==
    /\ DOMAIN c.enabledIons = Ions(c)
    /\ DOMAIN c.enabledRanges = Ranges(c)
    /\ \A i \in Ranges(c) : c.rng.ionOf[i] \in Ions(c)
    /\ \A i \in Ranges(c) : c.rng.ranges[i][1] < c.rng.ranges[i][2]
    /\ \A i, j \in Ranges(c) :
          i # j => \/ c.rng.ranges[i][2] <= c.rng.ranges[j][1]
                   \/ c.rng.ranges[j][2] <= c.rng.ranges[i][1]
=============================================================================
