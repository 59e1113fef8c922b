------------------------------ MODULE BoundingBox ------------------------------
(* BoundingBoxFilter: draws a box around the ions, and never caches it.    *)
EXTENDS FilterBase

Styles == {"box", "ticks", "dimension"}
Axes == 1..3

New == [isVisible |-> TRUE, boundStyle |-> "ticks", fixedNumTicks |-> TRUE,
        numTicks |-> <<12, 12, 12>>, tickSpacing |-> <<5, 5, 5>>,
        enableTicks |-> <<TRUE, TRUE, TRUE>>, fontSize |-> 5,
        absoluteCoords |-> FALSE, lineColour |-> "blue", lineWidth |-> 2]

\* getProperties.
Shown(c) ==
    {<<"isVisible", 0>>} \cup
    IF ~c.isVisible THEN {}
    ELSE {<<k, 0>> : k \in {"boundStyle", "lineColour", "lineWidth"}}
         \cup (IF c.boundStyle # "ticks" THEN {}
               ELSE {<<"fixedNumTicks", 0>>} \cup
                    {<<IF c.fixedNumTicks THEN "numTicks" ELSE "tickSpacing", i>> : i \in Axes})
         \cup (IF c.boundStyle = "box" THEN {}
               ELSE {<<"fontSize", 0>>, <<"absoluteCoords", 0>>} \cup
                    {<<"enableTicks", i>> : i \in Axes})

Inputs(key) ==
    CASE key = "boundStyle" -> Styles
      [] key = "numTicks" -> {1, 2}
      [] key = "tickSpacing" -> {0, 1}
      [] key \in {"fontSize", "lineWidth"} -> {0, 3}
      [] key = "lineColour" -> {"red"}
      [] OTHER -> BOOLEAN

-----------------------------------------------------------------------------
\* There is no cache that these would have to clear.
SetTick(c, key, i, v) == Uncleared([c EXCEPT ![key][i] = v], TRUE)

SetProperty(c, key, i, v) ==
    CASE key = "numTicks" -> IF v < 2 THEN Refuse(c) ELSE SetTick(c, key, i, v)
      [] key = "tickSpacing" -> IF v <= 0 THEN Refuse(c) ELSE SetTick(c, key, i, v)
      [] key = "enableTicks" -> SetTick(c, key, i, v)
      [] key = "lineColour" -> Uncleared([c EXCEPT !.lineColour = v], TRUE)
      [] key = "lineWidth" ->
            IF v <= 0 THEN Refuse(c) ELSE Uncleared([c EXCEPT !.lineWidth = v], TRUE)
      [] OTHER -> ApplyPropertyNow(c, key, v)

\* The answers to all that may be asked.
Answers(c, cached) ==
    UNION {{SetProperty(c, p[1], p[2], v) : v \in Inputs(p[1])} : p \in Shown(c)}

-----------------------------------------------------------------------------
Clone(c) == Taking(New, c, DOMAIN New \ {"lineColour"})

Stored == <<"isVisible", "boundStyle", "fixedNumTicks", "numTicks", "tickSpacing",
            "enableTicks", "lineWidth", "fontSize", "lineColour", "absoluteCoords">>
Written == Each(Stored)

\* Older files do not have the last, nor which ticks are enabled.
Wanted ==
    [i \in DOMAIN Stored |->
        [Of(Stored[i]) EXCEPT !.optional = Stored[i] \in {"enableTicks", "absoluteCoords"}]]

ReadState(c) == Restored(New, c, Written, Wanted)

-----------------------------------------------------------------------------
Output(c) == IF c.isVisible THEN <<c>> ELSE <<>>
Makes(c, in) == IF c.isVisible /\ "ions" \in in THEN {"draw"} ELSE {}
Passes == StreamTypes
BlockMask == {}
EmitMask(c) == IF c.isVisible THEN {"draw"} ELSE {}
Streams(c, in, cached) == StreamsOf(Makes(c, in), Passes, BlockMask, EmitMask(c))

\* drawTicks divides by the number of ticks less one and by their spacing.
InBounds(c) ==
    \A i \in Axes : c.numTicks[i] >= 2 /\ c.tickSpacing[i] > 0
=============================================================================
