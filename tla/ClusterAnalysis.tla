--------------------------- MODULE ClusterAnalysis ---------------------------
(***************************************************************************)
(* ClusterAnalysisFilter: joins "core" ions to clusters, links "bulk" ions *)
(* to them and erodes those again, and reports sizes, compositions and     *)
(* shapes.  The user says of each ion whether it is core or bulk.          *)
(***************************************************************************)
EXTENDS FilterBase

MaxSize == 99 \* numeric_limits<size_t>::max()

\* Distances are in quarters.
New == [enableCoreClassify |-> FALSE, coreDist |-> 0, coreKNN |-> 1, linkDist |-> 2,
        enableBulkLink |-> FALSE, bulkLink |-> 1, enableErosion |-> FALSE, dErosion |-> 1,
        wantClusterID |-> FALSE, wantCropSize |-> FALSE, nMin |-> 0, nMax |-> MaxSize,
        wantClusterSizeDist |-> FALSE, logClusterSize |-> FALSE,
        wantClusterComposition |-> TRUE, normaliseComposition |-> TRUE,
        wantClusterMorphology |-> FALSE, haveRangeParent |-> FALSE,
        ionNames |-> <<>>, ionCoreEnabled |-> <<>>, ionBulkEnabled |-> <<>>]

\* getProperties: the parameters of the algorithm, ...
ShownLinking(c) ==
    {"enableCoreClassify", "linkDist", "enableBulkLink", "enableErosion"}
    \cup (IF c.enableCoreClassify THEN {"coreDist", "coreKNN"} ELSE {})
    \cup (IF c.enableBulkLink THEN {"bulkLink"} ELSE {})
    \cup (IF c.enableErosion THEN {"dErosion"} ELSE {})

\* ... what is made of the clusters, ...
ShownResults(c) ==
    {"wantCropSize", "wantClusterSizeDist", "wantClusterMorphology", "wantClusterID"}
    \cup (IF c.wantCropSize THEN {"nMin", "nMax"} ELSE {})
    \cup (IF c.wantClusterSizeDist THEN {"logClusterSize"} ELSE {})
    \cup (IF c.wantClusterID THEN {} ELSE {"wantClusterComposition"})
    \cup (IF ~c.wantClusterID /\ c.wantClusterComposition
          THEN {"normaliseComposition"} ELSE {})

\* ... and the ions.
ShownIons(c) ==
    IF ~c.haveRangeParent THEN {}
    ELSE {<<"core", i>> : i \in DOMAIN c.ionNames} \cup
         IF ~c.enableBulkLink \/ c.ionNames = <<>> THEN {}
         ELSE {<<"allBulk", 0>>} \cup {<<"bulk", i>> : i \in DOMAIN c.ionNames}

Shown(c) == {<<key, 0>> : key \in ShownLinking(c) \cup ShownResults(c)} \cup ShownIons(c)

Inputs(key) ==
    CASE key \in {"coreDist", "linkDist", "bulkLink", "dErosion", "coreKNN"} -> {0, 3}
      [] key \in {"nMin", "nMax"} -> {0, 5, 6}
      [] OTHER -> BOOLEAN

-----------------------------------------------------------------------------
SetDistance(c, key, v) ==
    IF v = 0 /\ key \in {"linkDist", "coreKNN"} THEN Refuse(c) ELSE Assign(c, key, v)

\* No maximum is the largest one.
SetCrop(c, key, v) ==
    LET limit == IF key = "nMax" /\ v = 0 THEN MaxSize ELSE v
        new == [c EXCEPT ![key] = limit]
    IN  IF new.nMin > new.nMax THEN Refuse(c) ELSE Changed(new)

\* Switched off, the plot is to leave the cache, but is looked for by the end of
\* its name and never found.
SetSizeDist(c, v) ==
    LET new == [c EXCEPT !.wantClusterSizeDist = v] IN
    IF v = c.wantClusterSizeDist THEN Ignore(c)
    ELSE IF v THEN Changed(new) ELSE Misfit(new, TRUE)

\* Mutant of SetComposition: the plots are not taken out of the cache.
SetComposition_KeepPlots(c, v) ==
    LET new == [c EXCEPT !.wantClusterComposition = v] IN
    IF v = c.wantClusterComposition THEN Ignore(c)
    ELSE IF v THEN Changed(new) ELSE Uncleared(new, TRUE)

\* Switched off, the plots leave the cache.
SetComposition(c, v) ==
    LET new == [c EXCEPT !.wantClusterComposition = v] IN
    IF v = c.wantClusterComposition THEN Ignore(c)
    ELSE IF v THEN Changed(new) ELSE Patched(new)

\* The plot in the cache gets the other axis.
SetLog(c, v) ==
    IF v = c.logClusterSize THEN Ignore(c)
    ELSE Patched([c EXCEPT !.logClusterSize = v])

\* Identifiers and compositions exclude each other, also if what is set is what
\* it was and nobody hears of it.
SetClusterID(c, v) ==
    LET new == [c EXCEPT !.wantClusterID = v, !.wantClusterComposition = FALSE] IN
    IF v # c.wantClusterID THEN Changed(new)
    ELSE IF new = c THEN Ignore(c) ELSE Misfit(new, FALSE)

SetNormalise(c, v) ==
    LET new == [c EXCEPT !.normaliseComposition = v, !.wantClusterID = FALSE] IN
    IF v = c.normaliseComposition THEN Uncleared(new, FALSE) ELSE Changed(new)

\* No ion is core and bulk.
SetIon(c, of, other, i, v) ==
    IF c[of][i] = v THEN Refuse(c)
    ELSE Changed([c EXCEPT ![of][i] = v, ![other][i] = @ /\ ~v])

\* All ions are bulk, or none; the cache is not thought of.
SetAllBulk(c, v) ==
    Misfit([c EXCEPT !.ionBulkEnabled = [i \in DOMAIN @ |-> v],
                     !.ionCoreEnabled = [i \in DOMAIN @ |-> @[i] /\ ~v]], FALSE)

SetProperty(c, key, i, v) ==
    CASE key \in {"coreDist", "coreKNN", "linkDist", "bulkLink", "dErosion"} ->
            SetDistance(c, key, v)
      [] key \in {"nMin", "nMax"} -> SetCrop(c, key, v)
      [] key = "wantClusterSizeDist" -> SetSizeDist(c, v)
      [] key = "wantClusterComposition" -> SetComposition(c, v)
      [] key = "logClusterSize" -> SetLog(c, v)
      [] key = "wantClusterID" -> SetClusterID(c, v)
      [] key = "normaliseComposition" -> SetNormalise(c, v)
      [] key = "core" -> SetIon(c, "ionCoreEnabled", "ionBulkEnabled", i, v)
      [] key = "bulk" -> SetIon(c, "ionBulkEnabled", "ionCoreEnabled", i, v)
      [] key = "allBulk" -> SetAllBulk(c, v)
      [] OTHER -> ApplyPropertyNow(c, key, v)

\* The answers to all that may be asked.
Answers(c, cached) ==
    UNION {{SetProperty(c, p[1], p[2], v) : v \in Inputs(p[1])} : p \in Shown(c)}

-----------------------------------------------------------------------------
EnabledNames(range) ==
    LET on == SelectSeq([i \in DOMAIN range.ions |-> <<range.ions[i], range.enabled[i]>>],
                        LAMBDA ion : ion[2])
    IN  [i \in DOMAIN on |-> on[i][1]]

\* The flags of the ions, by their names, from what they were.
Carried(c, names, flags, new) ==
    [i \in DOMAIN names |->
        LET was == {j \in DOMAIN c.ionNames : c.ionNames[j] = names[i]}
        IN  IF was = {} THEN new ELSE flags[CHOOSE j \in was : \A k \in was : k <= j]]

\* Whether the flags are still those of the ions: by the number of all ions,
\* enabled or not, if there was no range file before; else by the names.
Different(c, range) ==
    IF c.haveRangeParent THEN c.ionNames # EnabledNames(range)
    ELSE \/ Len(c.ionCoreEnabled) # Len(range.ions)
         \/ Len(c.ionBulkEnabled) # Len(range.ions)

InitFilter(c, range) ==
    LET names == EnabledNames(range)
        found == [c EXCEPT !.haveRangeParent = TRUE, !.ionNames = names]
    IN  IF range = NoRange THEN [c EXCEPT !.haveRangeParent = FALSE]
        ELSE IF ~Different(c, range) THEN found
        ELSE [found EXCEPT !.ionCoreEnabled = Carried(c, names, @, FALSE),
                           !.ionBulkEnabled = Carried(c, names, @, TRUE)]

-----------------------------------------------------------------------------
NotCloned == {"enableCoreClassify", "coreKNN", "enableBulkLink", "enableErosion",
              "wantClusterID", "haveRangeParent"}
Clone(c) == Taking(New, c, DOMAIN New \ NotCloned)

Written ==
    <<Of("coreDist"), Element("coreKNN", {"coreKNN", "enableCoreClassify"}),
      Of("linkDist"), Element("bulkLink", {"bulkLink", "enableBulkLink"}),
      Element("dErosion", {"dErosion", "enableErosion"}), Of("wantCropSize"), Of("nMin"),
      Of("nMax"), Element("wantClusterSizeDist", {"wantClusterSizeDist", "logClusterSize"}),
      Element("wantClusterComposition", {"wantClusterComposition", "normaliseComposition"}),
      Of("wantClusterMorphology"), Of("wantClusterID"),
      Element("enabledions", {"ionNames", "ionCoreEnabled", "ionBulkEnabled"})>>

\* What is read as it was written.
Wanted ==
    <<Of("coreDist"), Of("coreKNN"), Of("linkDist"), Of("bulkLink"), Of("dErosion"),
      Of("wantCropSize"), Of("nMin"), Of("nMax"),
      Element("wantClusterSizeDist", {"wantClusterSizeDist", "logClusterSize"}),
      Element("wantClusterComposition", {"normaliseComposition"}),
      Of("wantClusterMorphology"),
      Element("enabledions", {"ionNames", "ionCoreEnabled", "ionBulkEnabled"})>>

\* The flags of linking and erosion are guessed from the distances whenever they
\* are there; the identifiers are read where the shapes are, and switch the
\* compositions off.
ReadState(c) ==
    LET r == Restored(New, c, Written, Wanted)
    IN  [ok |-> r.ok /\ c.coreKNN > 0 /\ c.linkDist > 0,
         conf |-> [r.conf EXCEPT
                      !.enableCoreClassify = New.bulkLink # 0,
                      !.enableBulkLink = c.bulkLink # 0,
                      !.enableErosion = c.dErosion # 0,
                      !.wantClusterID = c.wantClusterMorphology,
                      !.wantClusterComposition = FALSE,
                      !.ionBulkEnabled = [i \in DOMAIN @ |-> @[i] /\ ~c.ionCoreEnabled[i]]]]

-----------------------------------------------------------------------------
\* The clusters, and what is made of them.
Clusters(c) ==
    <<IF c.enableCoreClassify THEN <<c.coreDist, c.coreKNN>> ELSE <<>>, c.linkDist,
      IF c.enableBulkLink
      THEN <<c.bulkLink, c.ionBulkEnabled, IF c.enableErosion THEN <<c.dErosion>> ELSE <<>>>>
      ELSE <<>>,
      IF c.wantCropSize THEN <<c.nMin, c.nMax>> ELSE <<>>, c.ionNames, c.ionCoreEnabled>>
\* The plots of sizes and of compositions, the shapes, and the clustered ions.
SizeDist(c) == IF c.wantClusterSizeDist THEN <<c.logClusterSize>> ELSE <<>>
Composition(c) == IF c.wantClusterComposition THEN <<c.normaliseComposition>> ELSE <<>>
Morphology(c) == c.wantClusterMorphology
Labelled(c) == c.wantClusterID
Output(c) == <<Clusters(c), SizeDist(c), Composition(c), Morphology(c), Labelled(c)>>

\* refresh makes nothing without ranges.
Makes(c, in) ==
    IF ~c.haveRangeParent \/ "ions" \notin in THEN {}
    ELSE {"ions"}
         \cup (IF c.wantClusterSizeDist \/ c.wantClusterComposition THEN {"plot"} ELSE {})
         \cup (IF c.wantClusterMorphology THEN {"plot2d", "draw"} ELSE {})
Passes == StreamTypes \ {"ions", "range"}

BlockMask == {"ions"}

\* Mutant of EmitMask: the shapes are forgotten.
EmitMask_NoShapes(c) ==
    {"ions"} \cup (IF c.wantClusterSizeDist \/ c.wantClusterComposition
                   THEN {"plot", "draw"} ELSE {})

EmitMask(c) ==
    {"ions"} \cup (IF c.wantClusterSizeDist \/ c.wantClusterComposition
                   THEN {"plot", "draw"} ELSE {})
    \cup (IF c.wantClusterMorphology THEN {"plot2d", "draw"} ELSE {})

Streams(c, in, cached) == StreamsOf(Makes(c, in), Passes, BlockMask, EmitMask(c))

\* What getProperties and refresh assert: a flag of each sort for each ion, none
\* of them both, and not identifiers and compositions at once.
InBounds(c) ==
    /\ c.haveRangeParent => /\ Len(c.ionCoreEnabled) = Len(c.ionNames)
                            /\ Len(c.ionBulkEnabled) = Len(c.ionNames)
    /\ \A i \in DOMAIN c.ionCoreEnabled : ~(c.ionCoreEnabled[i] /\ c.ionBulkEnabled[i])
    /\ ~(c.wantClusterID /\ c.wantClusterComposition)
    /\ c.nMin <= c.nMax /\ c.linkDist > 0 /\ c.coreKNN > 0
=============================================================================
