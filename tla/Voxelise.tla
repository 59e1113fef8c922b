------------------------------- MODULE Voxelise -------------------------------
(***************************************************************************)
(* VoxeliseFilter: counts ions in a grid, for all of them or for those of  *)
(* a numerator over those of a denominator, and shows the grid as a cloud, *)
(* a slice or an iso-surface.  Apart from the cache that every filter has, *)
(* it keeps the counts (voxelCache) and the grid of the surface (vdbCache).*)
(***************************************************************************)
EXTENDS FilterBase

\* Extents, the same in each direction: the box of a new filter, that of data.
Fictitious == 60
DataExtent == 120

\* The ways to normalise that need ranges.
NeedRanges == {"all atoms", "ratio"}

Infinite == 999
WidthOf(extent, n) == IF n = 0 THEN Infinite ELSE extent \div n
BinsOf(extent, w) == IF w = 0 THEN Infinite ELSE extent \div w + 1

\* enabledIons are the flags for numerator and denominator; of what is kept, it
\* is said what it was made of.
New == [voxelsize |-> 20, fixedWidth |-> FALSE, nBins |-> 3,
        binWidth |-> WidthOf(Fictitious, 3), bc |-> Fictitious, normaliseType |-> "none",
        numeratorAll |-> TRUE, denominatorAll |-> TRUE, enabledIons |-> <<<<>>, <<>>>>,
        filterMode |-> "none", filterRatio |-> 3, gaussDev |-> 1,
        representation |-> "cloud", splatSize |-> 1, rgba |-> "grey", alpha |-> 9,
        isoLevel |-> 5, colourMap |-> 0, autoColourMap |-> TRUE,
        colourMapBounds |-> <<0, 1>>, showColourBar |-> FALSE,
        sliceInterpolate |-> "none", sliceAxis |-> 0, sliceOffset |-> 5,
        incoming |-> NoRange, voxelCache |-> <<>>, vdbCache |-> <<>>]

\* getProperties: what there is of the look depends on the representation.
ShownLook(c) ==
    CASE c.representation = "cloud" -> {"splatSize", "alpha"}
      [] c.representation = "surface" ->
            IF c.incoming = NoRange THEN {} ELSE {"voxelsize", "isoLevel", "rgba"}
      [] c.representation = "slice" ->
            {"sliceAxis", "sliceOffset", "sliceInterpolate", "colourMap", "alpha",
             "showColourBar", "autoColourMap"}
            \cup IF c.autoColourMap THEN {} ELSE {"start", "end"}
ShownIons(c) ==
    IF c.incoming = NoRange THEN {}
    ELSE UNION {{<<"all", part>>} \cup
                {<<"ion", part, i>> : i \in DOMAIN c.incoming.enabled} :
                    part \in IF c.normaliseType = "ratio" THEN {1, 2} ELSE {1}}
Shown(c) ==
    {<<key>> : key \in {"fixedWidth", IF c.fixedWidth THEN "binWidth" ELSE "nBins",
                        "normaliseType", "filterMode", "representation"}
                       \cup (IF c.filterMode = "none" THEN {} ELSE {"gaussDev", "filterRatio"})
                       \cup ShownLook(c)}
    \cup ShownIons(c)

Inputs(c, key) ==
    CASE key = "normaliseType" ->
            {"none", "volume"} \cup IF c.incoming = NoRange THEN {} ELSE NeedRanges
      [] key = "filterMode" -> {"none", "gauss"}
      [] key = "representation" -> {"cloud", "surface", "slice"}
      [] key = "rgba" -> {"red"}
      [] key \in {"voxelsize", "isoLevel", "splatSize", "gaussDev", "filterRatio"} -> {0, 7}
      [] key \in {"nBins", "binWidth"} -> {0, 4}
      [] key \in {"sliceOffset", "alpha"} -> {8}
      [] key \in {"start", "end"} -> {1, 2}
      [] key \in {"sliceAxis", "colourMap"} -> {0, 1}
      [] key = "sliceInterpolate" -> {"none", "linear"}
      [] OTHER -> BOOLEAN

-----------------------------------------------------------------------------
\* Filter::clearCache leaves the counts, the filter's own clearCache does not,
\* and neither takes the surface's grid.
ClearCache(c) == [c EXCEPT !.voxelCache = <<>>]
WithCounts(a) == IF a.cache = "cleared" THEN [a EXCEPT !.conf = ClearCache(@)] ELSE a
WithGrid(a) ==
    IF a.cache = "cleared" THEN [WithCounts(a) EXCEPT !.conf.vdbCache = <<>>] ELSE a

\* A number of bins makes their width, and the other way round.
SetBins(c, key, v) ==
    LET a == WithCounts(ApplyPropertyNow(c, key, v)) IN
    IF key = "nBins" THEN [a EXCEPT !.conf.binWidth = WidthOf(c.bc, v)]
    ELSE [a EXCEPT !.conf.nBins = BinsOf(c.bc, v)]

\* A size of the surface's voxels is written into the stream, whatever was
\* counted in voxels of the former size; so is its level.
SetSurface(c, key, v) == IF v <= 0 THEN Refuse(c) ELSE Patched([c EXCEPT ![key] = v])

SetLookOther(c, key, v) ==
    CASE key = "splatSize" /\ v <= 0 -> Refuse(c)
      [] c[key] = v -> Ignore(c)
      [] OTHER -> Patched([c EXCEPT ![key] = v])

\* It is written into the cached stream as if that were a surface's, which it is
\* not whenever this property is shown.
SetTransparency(c, v, cached) ==
    LET new == [c EXCEPT !.alpha = v]
    IN  IF cached THEN Misfit(new, TRUE) ELSE Uncleared(new, TRUE)

\* The cached stream stays if there is one and the new representation is one that
\* can keep it; the former one is not asked.
SetRepresentation(c, v, cached) ==
    LET new == [c EXCEPT !.representation = v] IN
    IF ~cached \/ v = "surface" THEN WithGrid(Changed(new))
    ELSE IF v = c.representation THEN Patched(new)
    ELSE Misfit(new, TRUE)

AllFlag == <<"numeratorAll", "denominatorAll">>
SetAll(c, part, v) ==
    WithGrid(Changed([c EXCEPT !.enabledIons[part] = [i \in DOMAIN @ |-> v],
                               ![AllFlag[part]] = v]))
SetIon(c, part, i, v) ==
    WithGrid(Changed([c EXCEPT !.enabledIons[part][i] = v, ![AllFlag[part]] = @ /\ v]))

SetFilter(c, key, v) ==
    IF v = 0 THEN Refuse(c) ELSE WithCounts(ApplyPropertyNow(c, key, v))

\* The ends of the colour scale stay in order.
SetEnd(c, i, v) ==
    LET new == [c.colourMapBounds EXCEPT ![i] = v]
    IN  IF new[1] >= new[2] THEN Refuse(c) ELSE ApplyPropertyNow(c, "colourMapBounds", new)

SetProperty(c, p, v, cached) ==
    LET key == p[1] IN
    CASE key = "fixedWidth" -> WithCounts(ApplyPropertyNow(c, key, v))
      [] key \in {"nBins", "binWidth"} -> SetBins(c, key, v)
      [] key = "normaliseType" -> WithGrid(ApplyPropertyNow(c, key, v))
      [] key \in {"voxelsize", "isoLevel"} -> SetSurface(c, key, v)
      [] key \in {"splatSize", "rgba"} -> SetLookOther(c, key, v)
      [] key = "alpha" -> SetTransparency(c, v, cached)
      [] key = "representation" -> SetRepresentation(c, v, cached)
      [] key = "all" -> SetAll(c, p[2], v)
      [] key = "ion" -> SetIon(c, p[2], p[3], v)
      [] key \in {"gaussDev", "filterRatio"} -> SetFilter(c, key, v)
      [] key = "filterMode" -> WithCounts(ApplyPropertyNow(c, key, v))
      [] key = "colourMap" -> AssignOther(c, key, v)
      [] key = "start" -> SetEnd(c, 1, v)
      [] key = "end" -> SetEnd(c, 2, v)
      [] OTHER -> ApplyPropertyNow(c, key, v)

\* The answers to all that may be asked.
Answers(c, cached) ==
    UNION {{SetProperty(c, p, v, cached) : v \in Inputs(c, p[1])} : p \in Shown(c)}

\* setPropFromBinding: the slice is moved, not past the ends of the data.
Drags(c) ==
    IF c.representation # "slice" THEN {}
    ELSE {Uncleared([c EXCEPT !.sliceOffset = v], TRUE) : v \in {0, 10}}

-----------------------------------------------------------------------------
\* vector::resize, which keeps what is there.
Resized(flags, n, v) == [i \in 1..n |-> IF i \in DOMAIN flags THEN flags[i] ELSE v]

\* initFilter: without ranges, nothing that needs them; of another range file,
\* flags for its ions; of the same, no change.
InitFilter(c, range) ==
    LET n == Len(range.ions) IN
    IF range = NoRange
    THEN [c EXCEPT !.incoming = range, !.enabledIons = <<<<>>, <<>>>>,
                   !.normaliseType = IF @ \in NeedRanges THEN "none" ELSE @]
    ELSE IF c.incoming # NoRange /\ c.incoming.file = range.file THEN c
    ELSE [c EXCEPT !.incoming = range,
                   !.enabledIons = <<Resized(@[1], n, FALSE), Resized(@[2], n, TRUE)>>]

\* What counts and grid are made of.
Parts(c) ==
    IF c.incoming = NoRange THEN <<>>
    ELSE <<c.enabledIons[1],
           IF c.normaliseType = "ratio" THEN c.enabledIons[2] ELSE <<>>>>
Counts(c, range) ==
    <<c.nBins, c.normaliseType, Parts(c), range,
      IF c.filterMode = "none" THEN <<>> ELSE <<c.filterMode, c.gaussDev, c.filterRatio>>>>
Grid(c, range) ==
    <<c.voxelsize, c.normaliseType, range,
      IF c.normaliseType \in NeedRanges THEN Parts(c) ELSE <<>>>>

\* The bins are adapted to the data before they are counted.
Fitted(c) ==
    IF c.fixedWidth THEN [c EXCEPT !.bc = DataExtent, !.nBins = BinsOf(DataExtent, c.binWidth)]
    ELSE [c EXCEPT !.bc = DataExtent, !.binWidth = WidthOf(DataExtent, c.nBins)]

\* refresh: counts or grid are made if there are none; a grid needs ranges.
Refreshed(c, range) ==
    IF c.representation = "surface"
    THEN IF c.vdbCache # <<>> \/ c.incoming = NoRange THEN c
         ELSE [c EXCEPT !.vdbCache = Grid(c, range)]
    ELSE IF c.voxelCache # <<>> THEN c
    ELSE [Fitted(c) EXCEPT !.voxelCache = Counts(Fitted(c), range)]

\* The same filter, had nothing been kept.
Afresh(c, range) ==
    Refreshed([c EXCEPT !.voxelCache = <<>>, !.vdbCache = <<>>], range)

\* A grid was kept that was counted otherwise.
GridIsOld(c, range) ==
    c.representation = "surface" /\ c.vdbCache \notin {<<>>, Grid(c, range)}

\* A slice is not cached, nor is a surface that was not made.
MayCache(c) ==
    c.representation = "cloud" \/ (c.representation = "surface" /\ c.vdbCache # <<>>)

-----------------------------------------------------------------------------
NotCloned == {"fixedWidth", "voxelCache", "vdbCache"}
Clone(c) == Taking(New, c, DOMAIN New \ NotCloned)

Slice == Element("axialslice", {"sliceOffset", "sliceInterpolate", "sliceAxis",
                                "showColourBar", "autoColourMap", "colourMapBounds"})
Written ==
    <<Element("userstring", {})>>
    \o Each(<<"voxelsize", "fixedWidth", "nBins", "binWidth", "normaliseType",
              "enabledIons", "representation", "isoLevel">>)
    \o <<Element("colour", {"rgba", "alpha"}), Slice>>

\* The size of the voxels is looked for before what was written in front of it.
Wanted ==
    <<Of("voxelsize"), Element("userstring", {})>>
    \o Each(<<"fixedWidth", "nBins", "binWidth", "normaliseType", "enabledIons",
              "representation", "isoLevel">>)
    \o <<Element("colour", {"rgba", "alpha"}), [Slice EXCEPT !.optional = TRUE]>>

ReadState(c) == Restored(New, c, Written, Wanted)

-----------------------------------------------------------------------------
Output(c) ==
    CASE c.representation = "cloud" -> <<"cloud", c.voxelCache, c.splatSize, c.rgba, c.alpha>>
      [] c.representation = "surface" ->
            IF c.vdbCache = <<>> THEN <<"nothing">>
            ELSE <<"surface", c.vdbCache, c.voxelsize, c.isoLevel, c.rgba, c.alpha>>
      [] c.representation = "slice" ->
            <<"slice", c.voxelCache, c.sliceAxis, c.sliceOffset, c.sliceInterpolate,
              c.colourMap, c.autoColourMap, c.colourMapBounds, c.showColourBar, c.alpha>>

Makes(c, in) ==
    CASE c.representation = "cloud" -> {"voxel"}
      [] c.representation = "slice" -> {"draw"}
      [] c.representation = "surface" ->
            IF c.vdbCache # <<>> \/ c.incoming # NoRange THEN {"grid"} ELSE {}
Passes == StreamTypes \ {"plot", "voxel"}

BlockMask == {"plot", "voxel"}
EmitMask(c) ==
    IF c.representation = "surface" THEN {"grid", "ions", "range"} ELSE {"voxel", "draw"}
Streams(c, in, cached) == StreamsOf(Makes(c, in), Passes, BlockMask, EmitMask(c))

\* A flag for each ion, what needs ranges only with them, bins that divide the
\* data, a colour scale with ends in order.
InBounds(c, range) ==
    /\ \A part \in 1..2 :
          /\ Len(c.enabledIons[part]) = Len(c.incoming.enabled)
          /\ Len(c.enabledIons[part]) >= Len(range.ions)
    /\ c.normaliseType \in NeedRanges => c.incoming # NoRange
    /\ c.nBins \in 1..(Infinite - 1) /\ c.binWidth \in 1..(Infinite - 1)
    /\ c.colourMapBounds[1] < c.colourMapBounds[2] /\ c.sliceOffset \in 0..10
=============================================================================
