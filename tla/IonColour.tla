------------------------------- MODULE IonColour -------------------------------
(* IonColourFilter: colours ions by their mass-to-charge value.            *)
EXTENDS FilterBase

MaxColours == 256 \* MAX_NUM_COLOURS

New == [colourMap |-> 0, reverseMap |-> FALSE, nColours |-> MaxColours,
        showColourBar |-> TRUE, alpha |-> 2, mapStart |-> 0, mapEnd |-> 2]

Shown == DOMAIN New

\* The opacity in halves, the ends of the map in some unit.
Inputs(key) ==
    CASE key = "colourMap" -> {0, 1}
      [] key = "nColours" -> {0, 7, MaxColours + 1}
      [] key = "alpha" -> {1, 2}
      [] key \in {"mapStart", "mapEnd"} -> 0..3
      [] OTHER -> BOOLEAN

-----------------------------------------------------------------------------
SetMapStart(c, v) == IF v >= c.mapEnd THEN Refuse(c) ELSE Assign(c, "mapStart", v)
SetMapEnd(c, v) == IF v <= c.mapStart THEN Refuse(c) ELSE Assign(c, "mapEnd", v)

Clamped(v) == IF v = 0 THEN 1 ELSE IF v > MaxColours THEN MaxColours ELSE v

SetProperty(c, key, v) ==
    CASE key = "colourMap" -> AssignOther(c, key, v)
      [] key = "mapStart" -> SetMapStart(c, v)
      [] key = "mapEnd" -> SetMapEnd(c, v)
      [] key = "nColours" -> Assign(c, key, Clamped(v))
      [] OTHER -> ApplyPropertyNow(c, key, v)

\* The answers to all that may be asked.
Answers(c, cached) ==
    UNION {{SetProperty(c, key, v) : v \in Inputs(key)} : key \in Shown}

-----------------------------------------------------------------------------
Clone(c) == Taking(New, c, DOMAIN New)

\* The opacity is written with the number of colours.
Written ==
    <<Of("colourMap"), Element("extrema", {"mapStart", "mapEnd"}),
      Element("nColours", {"nColours", "alpha"}), Of("showColourBar"), Of("reverseMap")>>

\* It is looked for at the colour map, and taken to be full if it is not there.
Wanted ==
    <<Of("colourMap"), Element("extrema", {"mapStart", "mapEnd"}), Of("nColours"),
      Of("showColourBar"), MayLack("reverseMap", {"reverseMap"})>>

ReadState(c) ==
    LET r == Restored(New, c, Written, Wanted)
    IN  [r EXCEPT !.ok = r.ok /\ r.conf.mapStart <= r.conf.mapEnd]

-----------------------------------------------------------------------------
\* Ions of each colour, and the colour bar, all of them cached.
Output(c) ==
    <<c.colourMap, c.reverseMap, c.nColours, c.mapStart, c.mapEnd,
      IF c.showColourBar THEN <<c.alpha>> ELSE <<>>>>

Makes(c, in) ==
    IF "ions" \notin in THEN {}
    ELSE {"ions"} \cup (IF c.showColourBar THEN {"draw"} ELSE {})
Passes == StreamTypes \ {"ions"}

BlockMask == {"ions"}
EmitMask == {"draw", "ions"}
Streams(c, in, cached) == StreamsOf(Makes(c, in), Passes, BlockMask, EmitMask)

\* refresh divides by the length of the map, and allocates nColours streams.
InBounds(c) == c.mapStart < c.mapEnd /\ c.nColours \in 1..MaxColours
=============================================================================
