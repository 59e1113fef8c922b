--------------------------- MODULE SpatialAnalysis ---------------------------
(***************************************************************************)
(* SpatialAnalysisFilter: seven analyses of where ions are with regard to  *)
(* each other.  Those that tell ions apart have, for each ion that is      *)
(* enabled above, whether it counts as source, target or numerator.        *)
(***************************************************************************)
EXTENDS FilterBase

Algorithms ==
    {"density", "density filter", "rdf", "axial", "binomial", "replace", "local conc."}
WantsRange == {"density filter", "replace"}

Flags == {"ionSourceEnabled", "ionTargetEnabled", "ionNumeratorEnabled",
          "ionDenominatorEnabled"}

New == [algorithm |-> "density", stopMode |-> "neighbour", nnMax |-> 1, distMax |-> 1,
        numBins |-> 100, excludeSurface |-> FALSE, reductionDistance |-> 1,
        normaliseNNHist |-> TRUE, wantRandomNNHist |-> TRUE, rgba |-> "red",
        densityCutoff |-> 1, keepDensityUpper |-> TRUE,
        numIonsSegment |-> 200, maxBlockAspect |-> 2, extrusionDirection |-> "x",
        showBinomialFrequencies |-> TRUE, showNormalisedBinomialFrequencies |-> TRUE,
        showGridOverlay |-> TRUE, replaceFile |-> "", replaceMode |-> "subtract",
        replaceTolerance |-> 0, replaceMass |-> TRUE,
        vectorParams |-> <<>>, scalarParams |-> <<>>,
        haveRangeParent |-> FALSE, ionNames |-> <<>>, ionSourceEnabled |-> <<>>,
        ionTargetEnabled |-> <<>>, ionNumeratorEnabled |-> <<>>,
        ionDenominatorEnabled |-> <<>>]

\* getProperties: how far the neighbours are, what each algorithm has of its own,
\* and flags of ions.
ShownStop(c) ==
    IF c.algorithm \in {"binomial", "replace"} THEN {}
    ELSE {"stopMode"} \cup
         IF c.stopMode # "neighbour" THEN {"distMax"}
         ELSE {"nnMax"} \cup IF c.algorithm = "rdf"
                             THEN {"normaliseNNHist", "wantRandomNNHist"} ELSE {}
ShownOwn(c) ==
    CASE c.algorithm = "rdf" ->
            {"numBins", "excludeSurface", "rgba"}
            \cup IF c.excludeSurface THEN {"reductionDistance"} ELSE {}
      [] c.algorithm = "density filter" -> {"densityCutoff", "keepDensityUpper"}
      [] c.algorithm = "axial" -> {"numBins", "rgba", "origin", "normal", "radius"}
      [] c.algorithm = "binomial" ->
            {"numIonsSegment", "maxBlockAspect", "extrusionDirection",
             "showBinomialFrequencies", "showGridOverlay"}
            \cup IF c.showBinomialFrequencies
                 THEN {"showNormalisedBinomialFrequencies"} ELSE {}
      [] c.algorithm = "replace" ->
            {"replaceFile", "replaceTolerance", "replaceMode"}
            \cup IF c.replaceMode # "subtract" THEN {"replaceMass"} ELSE {}
      [] OTHER -> {}
ShownFlags(c) ==
    CASE ~c.haveRangeParent -> {}
      [] c.algorithm = "rdf" -> {"ionSourceEnabled", "ionTargetEnabled"}
      [] c.algorithm = "local conc." -> Flags \ {"ionDenominatorEnabled"}
      [] OTHER -> {}
Shown(c) ==
    {<<key, 0>> : key \in {"algorithm"} \cup ShownStop(c) \cup ShownOwn(c) \cup ShownFlags(c)}
    \cup {p \in ShownFlags(c) \X (1..Len(c.ionNames)) : p[2] \in DOMAIN c[p[1]]}

Inputs(key) ==
    CASE key = "algorithm" -> Algorithms
      [] key = "stopMode" -> {"neighbour", "radius"}
      [] key \in {"nnMax", "distMax", "numBins", "reductionDistance", "numIonsSegment",
                  "maxBlockAspect", "densityCutoff", "radius"} -> {0, 1, 3}
      [] key = "rgba" -> {"blue"}
      [] key = "extrusionDirection" -> {"x", "z"}
      [] key = "origin" -> {"o", "p"}
      [] key = "normal" -> {"none", "z", "u"}
      [] key = "replaceFile" -> {"", "ions.pos"}
      [] key = "replaceTolerance" -> {-1, 2}
      [] key = "replaceMode" -> {"subtract", "intersect", "union"}
      [] OTHER -> BOOLEAN

-----------------------------------------------------------------------------
\* resetParamsAsNeeded: the axial distribution has an axis and a radius.
WithParams(c) ==
    IF c.algorithm # "axial" THEN c
    ELSE [c EXCEPT !.vectorParams = IF Len(@) = 2 THEN @ ELSE <<"o", "z">>,
                   !.scalarParams = IF Len(@) = 1 THEN @ ELSE <<1>>]

\* A concentration is that of two ions at least.
SetAlgorithm(c, v) ==
    LET new == [c EXCEPT !.algorithm = v,
                         !.nnMax = IF v = "local conc." /\ @ < 2 THEN 2 ELSE @]
    IN  Changed(WithParams(new))

Least(c, key) ==
    IF key \in {"numIonsSegment", "maxBlockAspect"}
       \/ (key = "nnMax" /\ c.algorithm = "local conc.") THEN 2 ELSE 1
SetNumber(c, key, v) == IF v < Least(c, key) THEN Refuse(c) ELSE Assign(c, key, v)

SetCutoff(c, v) == IF v <= 0 THEN Refuse(c) ELSE ApplyPropertyNow(c, "densityCutoff", v)

\* The plots in the cache get the colour.
SetColour(c, v) == IF c.rgba = v THEN Ignore(c) ELSE Patched([c EXCEPT !.rgba = v])

SetRadius(c, v) == IF v <= 0 THEN Refuse(c) ELSE ApplyIth(c, "scalarParams", 1, v)
SetNormal(c, v) == IF v = "none" THEN Refuse(c) ELSE ApplyIth(c, "vectorParams", 2, v)

\* All ions, or none if it was all.
SetAll(c, of) ==
    LET every == \A i \in DOMAIN c[of] : c[of][i]
    IN  Assign(c, of, [i \in DOMAIN c[of] |-> ~every])

SetProperty(c, key, i, v) ==
    CASE key = "algorithm" -> SetAlgorithm(c, v)
      [] key \in {"stopMode", "extrusionDirection"} -> Assign(c, key, v)
      [] key \in {"nnMax", "distMax", "numBins", "reductionDistance", "numIonsSegment",
                  "maxBlockAspect"} -> SetNumber(c, key, v)
      [] key = "densityCutoff" -> SetCutoff(c, v)
      [] key = "rgba" -> SetColour(c, v)
      [] key = "radius" -> SetRadius(c, v)
      [] key = "normal" -> SetNormal(c, v)
      [] key = "origin" -> ApplyIth(c, "vectorParams", 1, v)
      [] key \in Flags -> IF i = 0 THEN SetAll(c, key) ELSE ApplyIth(c, key, i, v)
      [] OTHER -> ApplyPropertyNow(c, key, v)

\* The answers to all that may be asked.
Answers(c, cached) ==
    UNION {{SetProperty(c, p[1], p[2], v) : v \in Inputs(p[1])} : p \in Shown(c)}

\* createDevice, setPropFromBinding: the axis is drawn and dragged.
Drags(c) ==
    IF c.algorithm # "axial" THEN {}
    ELSE {Changed([c EXCEPT !.scalarParams = <<2>>]),
          Changed([c EXCEPT !.vectorParams[2] = "d"]),
          Changed([c EXCEPT !.vectorParams[1] = "d"])}

-----------------------------------------------------------------------------
EnabledNames(range) ==
    LET on == SelectSeq([i \in DOMAIN range.ions |-> <<range.ions[i], range.enabled[i]>>],
                        LAMBDA ion : ion[2])
    IN  [i \in DOMAIN on |-> on[i][1]]

\* vector::resize: the i-th flag stays the i-th one, whatever the ion.
Resized(flags, n) == [i \in 1..n |-> IF i \in DOMAIN flags THEN flags[i] ELSE TRUE]

InitFilter(c, range) ==
    LET names == EnabledNames(range)
        found == [c EXCEPT !.haveRangeParent = TRUE, !.ionNames = names]
    IN  IF range = NoRange THEN [c EXCEPT !.haveRangeParent = FALSE]
        ELSE IF c.haveRangeParent /\ c.ionNames = names THEN found
        ELSE [f \in DOMAIN c |-> IF f \in Flags THEN Resized(c[f], Len(names)) ELSE found[f]]

-----------------------------------------------------------------------------
NotCloned == {"ionNames", "haveRangeParent"}
Clone(c) == Taking(New, c, DOMAIN New \ NotCloned)

IonLists == <<Element("source", {"ionSourceEnabled"}), Element("target", {"ionTargetEnabled"}),
              Element("numerator", {"ionNumeratorEnabled"}),
              Element("denominator", {"ionDenominatorEnabled"})>>
BinomialShape == {"numIonsSegment", "maxBlockAspect", "extrusionDirection"}
BinomialDisplay == {"showBinomialFrequencies", "showNormalisedBinomialFrequencies"}
Numbers ==
    <<Of("algorithm"), Of("stopMode"), Of("nnMax"), MayLack("nnhist", {"normaliseNNHist"}),
      MayLack("random", {"wantRandomNNHist"})>>
    \o Each(<<"distMax", "numBins", "excludeSurface", "reductionDistance", "rgba",
              "densityCutoff", "keepDensityUpper">>)

\* The flags are written if the names of the ions are known.
Written(c) ==
    Numbers
    \o <<Element("replace", {"replaceFile", "replaceMode", "replaceTolerance", "replaceMass"}),
         Element("binomial", BinomialShape),
         Element("binomialdisplay", BinomialDisplay \cup {"showGridOverlay"}),
         Of("vectorParams"), Of("scalarParams")>>
    \o IF c.ionNames = <<>> THEN <<>> ELSE IonLists

\* The vectors are looked for behind the scalars, and not found there.
Wanted ==
    Numbers
    \o <<MayLack("replace", {"replaceFile", "replaceMode", "replaceTolerance"}),
         MayLack("binomial", BinomialShape), Element("binomialdisplay", BinomialDisplay),
         MayLack("scalarParams", {"scalarParams"}), MayLack("vectorParams", {"vectorParams"})>>
    \o [i \in DOMAIN IonLists |-> [IonLists[i] EXCEPT !.optional = TRUE]]

ReadState(c) ==
    LET r == Restored(New, c, Written(c), Wanted)
    IN  [ok |-> r.ok /\ c.replaceTolerance >= 0, conf |-> WithParams(r.conf)]

-----------------------------------------------------------------------------
NoneOf(flags) == \A i \in DOMAIN flags : ~flags[i]

\* refresh gives up, for every algorithm, if no ion is a source or a target.
NoneEnabled(c) ==
    c.haveRangeParent /\ (NoneOf(c.ionSourceEnabled) \/ NoneOf(c.ionTargetEnabled))

\* Of each algorithm: the settings that its result depends on, what it makes,
\* whether it passes on what is not blocked, and whether it can do without ranges.
Result(uses, makes, passes, needsRange) ==
    [uses |-> uses, makes |-> makes, passes |-> passes, needsRange |-> needsRange]

OfNeighbours(c) ==
    {"stopMode", IF c.stopMode = "neighbour" THEN "nnMax" ELSE "distMax"}
OfDensity(c) == Result(OfNeighbours(c), {"ions"}, TRUE, FALSE)
OfDensityFilter(c) ==
    Result(OfNeighbours(c) \cup {"densityCutoff", "keepDensityUpper"}, {"ions"}, TRUE, FALSE)
OfRDF(c) ==
    Result(OfNeighbours(c)
           \cup {"numBins", "excludeSurface", "rgba", "ionSourceEnabled", "ionTargetEnabled"}
           \cup (IF c.excludeSurface THEN {"reductionDistance"} ELSE {})
           \cup (IF c.stopMode = "neighbour"
                 THEN {"normaliseNNHist", "wantRandomNNHist"} ELSE {}),
           {"plot"}, c.stopMode # "neighbour", FALSE)
OfAxial(c) ==
    Result(OfNeighbours(c) \cup {"numBins", "rgba", "ionSourceEnabled", "ionTargetEnabled",
                                 "vectorParams", "scalarParams"},
           {"plot", "draw"}, TRUE, FALSE)
OfBinomial(c) ==
    Result(BinomialShape \cup BinomialDisplay \cup {"showGridOverlay"},
           {"plot", "draw"}, FALSE, TRUE)
OfReplace(c) ==
    Result({"replaceFile", "replaceTolerance", "replaceMode"}
           \cup (IF c.replaceMode = "intersect" THEN {"replaceMass"} ELSE {}),
           {"ions"}, FALSE, FALSE)
OfConcentration(c) ==
    Result(OfNeighbours(c)
           \cup {"ionSourceEnabled", "ionTargetEnabled", "ionNumeratorEnabled"},
           {"ions"}, FALSE, TRUE)

Algorithm(c) ==
    CASE c.algorithm = "density" -> OfDensity(c)
      [] c.algorithm = "density filter" -> OfDensityFilter(c)
      [] c.algorithm = "rdf" -> OfRDF(c)
      [] c.algorithm = "axial" -> OfAxial(c)
      [] c.algorithm = "binomial" -> OfBinomial(c)
      [] c.algorithm = "replace" -> OfReplace(c)
      [] c.algorithm = "local conc." -> OfConcentration(c)

Output(c) == IF NoneEnabled(c) THEN <<>> ELSE <<c.algorithm, [f \in Algorithm(c).uses |-> c[f]]>>

\* It returns before there is anything to cache, or without the ranges needed.
MayCache(c) == ~NoneEnabled(c) /\ (Algorithm(c).needsRange => c.haveRangeParent)

Makes(c, in) ==
    IF "ions" \notin in \/ ~MayCache(c) THEN {} ELSE Algorithm(c).makes

BlockMask(c) == {"ions"} \cup IF c.algorithm \in WantsRange THEN {} ELSE {"range"}

\* Analyses that pass nothing of what comes in; from the cache they do.
PassNothing(c) == NoneEnabled(c) \/ ~Algorithm(c).passes

\* Without ions, the types pass that are to be blocked.
Passes(c, in, cached) ==
    CASE cached -> StreamTypes \ BlockMask(c)
      [] ~cached /\ "ions" \notin in -> BlockMask(c)
      [] ~cached /\ "ions" \in in ->
            IF PassNothing(c) THEN {} ELSE StreamTypes \ BlockMask(c)

EmitMask(c) ==
    CASE c.algorithm = "rdf" -> {"ions", "plot"}
      [] c.algorithm = "axial" -> {"ions", "plot", "draw"}
      [] c.algorithm = "binomial" -> {"plot", "draw"}
      [] OTHER -> {"ions"}
Streams(c, in, cached) ==
    StreamsOf(Makes(c, in), Passes(c, in, cached), BlockMask(c), EmitMask(c))

\* What is told apart by ion has a flag for each; an axis is there for those that
\* have one, two neighbours for a concentration; there is a mode to replace by.
InBounds(c, range) ==
    /\ c.haveRangeParent => \A f \in Flags : Len(c[f]) = Len(c.ionNames)
    /\ c.algorithm \in {"rdf", "axial", "local conc."} /\ c.haveRangeParent =>
          \A i \in DOMAIN range.ions : range.enabled[i] => i \in DOMAIN c.ionSourceEnabled
    /\ c.algorithm = "axial" => Len(c.vectorParams) = 2 /\ Len(c.scalarParams) = 1
    /\ c.algorithm = "local conc." => c.nnMax >= 2
    /\ c.algorithm = "replace" => c.replaceMode # "union"
=============================================================================
