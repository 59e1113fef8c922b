-------------------------------- MODULE Profile --------------------------------
(***************************************************************************)
(* ProfileFilter: counts ions in bins along or across a cylinder or from   *)
(* the centre of a sphere, for each ion of the incoming ranges.            *)
(***************************************************************************)
EXTENDS FilterBase

Primitives == {"axial", "radial", "sphere"}

New == [primitiveType |-> "axial", showPrimitive |-> TRUE, lockAxisMag |-> FALSE,
        vectorParams |-> <<"zero", "y20">>, scalarParams |-> <<10>>,
        wantDensity |-> FALSE, normalise |-> TRUE, fixedBins |-> FALSE, nBins |-> 1000,
        binWidth |-> 2, minEvents |-> 10, rgba |-> "blue", plotStyle |-> "lines",
        errMode |-> "none", movingAverageNum |-> 4, haveRangeParent |-> FALSE]

\* getProperties.
Shown(c) ==
    {"primitiveType", "showPrimitive", "origin", "radius", "normalise", "minEvents",
     "plotStyle", "errMode"}
    \cup (IF c.haveRangeParent THEN {"wantDensity"} ELSE {})
    \cup (IF c.primitiveType # "sphere" THEN {"normal", "lockAxisMag"} ELSE {})
    \cup (IF c.primitiveType # "radial" THEN {"fixedBins"} ELSE {})
    \cup {IF c.fixedBins THEN "nBins" ELSE "binWidth"}
    \cup (IF ~c.haveRangeParent \/ c.wantDensity THEN {"rgba"} ELSE {})
    \cup (IF c.errMode = "average" THEN {"movingAverageNum"} ELSE {})

\* "y4" is along "y20", and too short for a bin.
Inputs(key) ==
    CASE key = "primitiveType" -> Primitives
      [] key \in {"origin", "normal"} -> {"zero", "x20", "y4"}
      [] key \in {"radius", "binWidth"} -> {0, 5}
      [] key \in {"nBins", "minEvents"} -> {0, 7}
      [] key = "rgba" -> {"red"}
      [] key = "plotStyle" -> {"lines", "bars"}
      [] key = "errMode" -> {"none", "average"}
      [] key = "movingAverageNum" -> {1, 5}
      [] OTHER -> BOOLEAN

-----------------------------------------------------------------------------
\* A sphere keeps the cylinder's origin and radius; a cylinder after a sphere
\* begins anew with its axis.  A radial profile has a fixed number of bins.
Reshaped(c, type) ==
    [c EXCEPT !.primitiveType = type,
              !.vectorParams = IF type = "sphere" THEN <<@[1]>>
                               ELSE IF Len(@) < 2 THEN New.vectorParams ELSE @,
              !.fixedBins = @ \/ type = "radial"]

\* An axis of no length is refused; one that is locked keeps its length.
SetNormal(c, v) ==
    LET locked == c.primitiveType = "axial" /\ c.lockAxisMag /\ v = "y4"
                  /\ c.vectorParams[2] = "y20"
    IN  IF v = "zero" THEN Refuse(c)
        ELSE ApplyIth(c, "vectorParams", 2, IF locked THEN "y20" ELSE v)

SetBins(c, key, v) == IF v = 0 THEN Refuse(c) ELSE Assign(c, key, v)

\* How the plots look: also a change to the same clears the cache.
SetPlot(c, key, v) == Assign(c, key, v)

SetProperty(c, key, v) ==
    CASE key = "primitiveType" -> Changed(Reshaped(c, v))
      [] key = "origin" -> ApplyIth(c, "vectorParams", 1, v)
      [] key = "normal" -> SetNormal(c, v)
      [] key = "radius" -> IF v = 0 THEN Refuse(c) ELSE ApplyIth(c, "scalarParams", 1, v)
      [] key \in {"binWidth", "nBins"} -> SetBins(c, key, v)
      [] key = "movingAverageNum" -> IF v <= 1 THEN Refuse(c) ELSE SetPlot(c, key, v)
      [] key \in {"plotStyle", "rgba", "errMode"} -> SetPlot(c, key, v)
      [] OTHER -> ApplyPropertyNow(c, key, v)

\* The answers to all that may be asked.
Answers(c, cached) ==
    UNION {{SetProperty(c, key, v) : v \in Inputs(key)} : key \in Shown(c)}

\* The bindings of the primitive that is shown.
Bindings(c) ==
    IF ~c.showPrimitive THEN {}
    ELSE {"radius", "origin"} \cup (IF c.primitiveType = "sphere" THEN {} ELSE {"axis"})

\* getBinData: no bin fits.
NoBins(c) ==
    ~c.fixedBins /\ (IF c.primitiveType = "axial" THEN c.vectorParams[2] = "y4"
                     ELSE c.scalarParams[1] = 0) /\ c.binWidth = 5

\* setPropFromBinding: an axis that has no room for a bin is not taken.
Dragged(c, binding, v) ==
    CASE binding = "radius" -> Changed([c EXCEPT !.scalarParams[1] = v])
      [] binding = "origin" -> Changed([c EXCEPT !.vectorParams[1] = v])
      [] binding = "axis" ->
            LET moved == [c EXCEPT !.vectorParams[2] = v]
            IN  IF NoBins(moved) THEN Uncleared(c, TRUE) ELSE Changed(moved)

Drags(c) ==
    UNION {{Dragged(c, b, v) : v \in Inputs(IF b = "axis" THEN "normal" ELSE b)}
           : b \in Bindings(c)}

\* initFilter.
InitFilter(c, range) == [c EXCEPT !.haveRangeParent = range # NoRange]

-----------------------------------------------------------------------------
Clone(c) == Taking(New, c, DOMAIN New \ {"minEvents", "haveRangeParent"})

\* The number of events below which a bin is empty is an attribute of another
\* element than the one where it is looked for.
Written ==
    <<Of("primitiveType"), Of("showPrimitive"), Of("lockAxisMag"), Of("vectorParams"),
      Of("scalarParams"), Element("normalise", {"normalise", "minEvents"}),
      Of("fixedBins"), Of("nBins"), Of("binWidth"), Of("rgba"), Of("plotStyle")>>
Wanted ==
    Each(<<"primitiveType", "showPrimitive", "lockAxisMag", "vectorParams",
           "scalarParams", "normalise", "fixedBins", "nBins", "binWidth", "rgba",
           "plotStyle">>)

ReadState(c) ==
    LET r == Restored(New, c, Written, Wanted)
    IN  [r EXCEPT !.ok = /\ r.ok
                         /\ Len(r.conf.vectorParams) =
                               IF r.conf.primitiveType = "sphere" THEN 1 ELSE 2
                         /\ Len(r.conf.scalarParams) = 1]

-----------------------------------------------------------------------------
\* The plots; whether a density was wanted makes no difference to them.
\* How the ions are put into bins, what the counts are divided by, and the plots.
Binned(c) ==
    <<c.primitiveType, c.vectorParams, c.scalarParams,
      IF c.fixedBins THEN <<c.nBins>> ELSE <<0, c.binWidth>>>>
Normalisation(c) == c.normalise
Plots(c) == <<c.minEvents, c.rgba, c.plotStyle, c.errMode, c.movingAverageNum>>
Output(c) == <<Binned(c), Normalisation(c), Plots(c)>>

Makes(c, in) ==
    {"plot"} \cup (IF c.showPrimitive THEN {"draw"} ELSE {})
Passes == StreamTypes \ {"ions"}
BlockMask == {}
EmitMask(c) == {"plot"} \cup (IF c.showPrimitive THEN {"draw"} ELSE {})
Streams(c, in, cached) == StreamsOf(Makes(c, in), Passes, BlockMask, EmitMask(c))

\* The places of the arrays that refresh and getProperties use; getProperties
\* asserts that a radial profile has no width of bins to show.
InBounds(c) ==
    /\ Len(c.vectorParams) = IF c.primitiveType = "sphere" THEN 1 ELSE 2
    /\ Len(c.scalarParams) = 1
    /\ c.primitiveType = "radial" => c.fixedBins
    /\ c.binWidth > 0 /\ c.nBins > 0
=============================================================================
