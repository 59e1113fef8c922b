--------------------------- MODULE FilterSettings ---------------------------
(***************************************************************************)
(* The settings of one filter of any kind, its own cache and the caches    *)
(* below it, while the user edits properties and drags, the tree is        *)
(* refreshed, the filter is copied (a tree that is kept for undo, a stash),*)
(* saved and read back, and the ranges above it change.                    *)
(***************************************************************************)
EXTENDS FilterBase

Clip == INSTANCE IonClip
Colour == INSTANCE IonColour
Downsample == INSTANCE IonDownsample
RangeFile == INSTANCE RangeFileFilter
Transf == INSTANCE Transform
Box == INSTANCE BoundingBox
Prof == INSTANCE Profile
Cluster == INSTANCE ClusterAnalysis
Info == INSTANCE IonInfo
Spectrum == INSTANCE SpectrumPlot
Data == INSTANCE DataLoad
Program == INSTANCE ExternalProgram
Proxi == INSTANCE Proxigram
Voxel == INSTANCE Voxelise
Spatial == INSTANCE SpatialAnalysis
Notes == INSTANCE Annotation

CONSTANTS
    Kinds,    \* kinds of filter
    RangeData,   \* what may come in as range data
    MaxEdits  \* bound on the changes of the settings

AllKinds ==
    {"ionClip", "ionColour", "ionDownsample", "rangeFile",
     "transform", "boundingBox", "profile", "clusterAnalysis",
     "ionInfo", "spectrumPlot", "dataLoad", "externalProgram",
     "proxigram", "voxelise", "spatialAnalysis", "annotation"}

ASSUME KindsAssumption == Kinds \subseteq AllKinds /\ MaxEdits \in Nat

\* Range data is that of a file, with a flag for each ion, and no two ions of it
\* have the same name.
ASSUME RangeDataAssumption ==
    \A r \in RangeData \ {NoRange} :
        /\ r \in [file : Nat \ {0}, ions : Seq(STRING), enabled : Seq(BOOLEAN)]
        /\ Len(r.enabled) = Len(r.ions)
        /\ LET names == Cluster!EnabledNames(r)
           IN  /\ names \in Seq(STRING)
               /\ \A i, j \in DOMAIN names : names[i] = names[j] => i = j

VARIABLES
    kind,
    conf,   \* the settings
    range,  \* the range data that comes in
    own,    \* what the filter's cache was made of, or <<>> if it has none
    below,  \* the same of the caches below it
    left,   \* what the filter still holds and no longer takes for its cache
    excused, \* whether a known fault has left a cache that does not fit
    edits   \* how often the settings were changed

settingsVars == <<kind, conf, range, own, below, left, excused, edits>>

-----------------------------------------------------------------------------
(* What each kind of filter does.                                          *)

New(k) ==
    CASE k = "ionClip" -> Clip!New
      [] k = "ionColour" -> Colour!New
      [] k = "ionDownsample" -> Downsample!New
      [] k = "rangeFile" -> RangeFile!New
      [] k = "transform" -> Transf!New
      [] k = "boundingBox" -> Box!New
      [] k = "profile" -> Prof!New
      [] k = "clusterAnalysis" -> Cluster!New
      [] k = "ionInfo" -> Info!New
      [] k = "spectrumPlot" -> Spectrum!New
      [] k = "dataLoad" -> Data!New
      [] k = "externalProgram" -> Program!New
      [] k = "proxigram" -> Proxi!New
      [] k = "voxelise" -> Voxel!New
      [] k = "spatialAnalysis" -> Spatial!New
      [] k = "annotation" -> Notes!New

\* The answers of setProperty to what may be asked of the properties shown.
Answers(k, c, cached) ==
    CASE k = "ionClip" -> Clip!Answers(c, cached)
      [] k = "ionColour" -> Colour!Answers(c, cached)
      [] k = "ionDownsample" -> Downsample!Answers(c, cached)
      [] k = "rangeFile" -> RangeFile!Answers(c, cached)
      [] k = "transform" -> Transf!Answers(c, cached)
      [] k = "boundingBox" -> Box!Answers(c, cached)
      [] k = "profile" -> Prof!Answers(c, cached)
      [] k = "clusterAnalysis" -> Cluster!Answers(c, cached)
      [] k = "ionInfo" -> Info!Answers(c, cached)
      [] k = "spectrumPlot" -> Spectrum!Answers(c, cached)
      [] k = "dataLoad" -> Data!Answers(c, cached)
      [] k = "externalProgram" -> Program!Answers(c, cached)
      [] k = "proxigram" -> Proxi!Answers(c, cached)
      [] k = "voxelise" -> Voxel!Answers(c, cached)
      [] k = "spatialAnalysis" -> Spatial!Answers(c, cached)
      [] k = "annotation" -> Notes!Answers(c, cached)

\* What comes of all drags that the bindings allow (setPropFromBinding,
\* setPropFromRegion).
Drags(k, c) ==
    CASE k = "ionClip" -> Clip!Drags(c)
      [] k = "rangeFile" -> RangeFile!Drags(c)
      [] k = "transform" -> Transf!Drags(c)
      [] k = "profile" -> Prof!Drags(c)
      [] k = "voxelise" -> Voxel!Drags(c)
      [] k = "spatialAnalysis" -> Spatial!Drags(c)
      [] k = "annotation" -> Notes!Drags(c)
      [] OTHER -> {}

InitFilter(k, c, r) ==
    CASE k = "ionDownsample" -> Downsample!InitFilter(c, r)
      [] k = "profile" -> Prof!InitFilter(c, r)
      [] k = "clusterAnalysis" -> Cluster!InitFilter(c, r)
      [] k = "ionInfo" -> Info!InitFilter(c, r)
      [] k = "proxigram" -> Proxi!InitFilter(c, r)
      [] k = "voxelise" -> Voxel!InitFilter(c, r)
      [] k = "spatialAnalysis" -> Spatial!InitFilter(c, r)
      [] OTHER -> c

\* What refresh makes of the settings themselves.
Refreshed(k, c, r) ==
    CASE k = "transform" -> Transf!Refreshed(c)
      [] k = "spectrumPlot" -> Spectrum!Refreshed(c, r)
      [] k = "voxelise" -> Voxel!Refreshed(c, r)
      [] OTHER -> c

\* What is kept apart from the cache, and goes with it; what refresh would make of
\* the settings had nothing been kept.
ClearCache(k, c) ==
    CASE k = "voxelise" -> Voxel!ClearCache(c)
      [] OTHER -> c

Afresh(k, c, r) ==
    CASE k = "voxelise" -> Voxel!Afresh(c, r)
      [] OTHER -> c

Clone(k, c) ==
    CASE k = "ionClip" -> Clip!Clone(c)
      [] k = "ionColour" -> Colour!Clone(c)
      [] k = "ionDownsample" -> Downsample!Clone(c)
      [] k = "rangeFile" -> RangeFile!Clone(c)
      [] k = "transform" -> Transf!Clone(c)
      [] k = "boundingBox" -> Box!Clone(c)
      [] k = "profile" -> Prof!Clone(c)
      [] k = "clusterAnalysis" -> Cluster!Clone(c)
      [] k = "ionInfo" -> Info!Clone(c)
      [] k = "spectrumPlot" -> Spectrum!Clone(c)
      [] k = "dataLoad" -> Data!Clone(c)
      [] k = "externalProgram" -> Program!Clone(c)
      [] k = "proxigram" -> Proxi!Clone(c)
      [] k = "voxelise" -> Voxel!Clone(c)
      [] k = "spatialAnalysis" -> Spatial!Clone(c)
      [] k = "annotation" -> Notes!Clone(c)

ReadState(k, c) ==
    CASE k = "ionClip" -> Clip!ReadState(c)
      [] k = "ionColour" -> Colour!ReadState(c)
      [] k = "ionDownsample" -> Downsample!ReadState(c)
      [] k = "rangeFile" -> RangeFile!ReadState(c)
      [] k = "transform" -> Transf!ReadState(c)
      [] k = "boundingBox" -> Box!ReadState(c)
      [] k = "profile" -> Prof!ReadState(c)
      [] k = "clusterAnalysis" -> Cluster!ReadState(c)
      [] k = "ionInfo" -> Info!ReadState(c)
      [] k = "spectrumPlot" -> Spectrum!ReadState(c)
      [] k = "dataLoad" -> Data!ReadState(c)
      [] k = "externalProgram" -> Program!ReadState(c)
      [] k = "proxigram" -> Proxi!ReadState(c)
      [] k = "voxelise" -> Voxel!ReadState(c)
      [] k = "spatialAnalysis" -> Spatial!ReadState(c)
      [] k = "annotation" -> Notes!ReadState(c)

Output(k, c) ==
    CASE k = "ionClip" -> Clip!Output(c)
      [] k = "ionColour" -> Colour!Output(c)
      [] k = "ionDownsample" -> Downsample!Output(c)
      [] k = "rangeFile" -> RangeFile!Output(c)
      [] k = "transform" -> Transf!Output(c)
      [] k = "boundingBox" -> Box!Output(c)
      [] k = "profile" -> Prof!Output(c)
      [] k = "clusterAnalysis" -> Cluster!Output(c)
      [] k = "ionInfo" -> Info!Output(c)
      [] k = "spectrumPlot" -> Spectrum!Output(c)
      [] k = "dataLoad" -> Data!Output(c)
      [] k = "externalProgram" -> Program!Output(c)
      [] k = "proxigram" -> Proxi!Output(c)
      [] k = "voxelise" -> Voxel!Output(c)
      [] k = "spatialAnalysis" -> Spatial!Output(c)
      [] k = "annotation" -> Notes!Output(c)

FilterStreams(k, c, in, cached) ==
    CASE k = "ionClip" -> Clip!Streams(c, in, cached)
      [] k = "ionColour" -> Colour!Streams(c, in, cached)
      [] k = "ionDownsample" -> Downsample!Streams(c, in, cached)
      [] k = "rangeFile" -> RangeFile!Streams(c, in, cached)
      [] k = "transform" -> Transf!Streams(c, in, cached)
      [] k = "boundingBox" -> Box!Streams(c, in, cached)
      [] k = "profile" -> Prof!Streams(c, in, cached)
      [] k = "clusterAnalysis" -> Cluster!Streams(c, in, cached)
      [] k = "ionInfo" -> Info!Streams(c, in, cached)
      [] k = "spectrumPlot" -> Spectrum!Streams(c, in, cached)
      [] k = "dataLoad" -> Data!Streams(c, in, cached)
      [] k = "externalProgram" -> Program!Streams(c, in, cached)
      [] k = "proxigram" -> Proxi!Streams(c, in, cached)
      [] k = "voxelise" -> Voxel!Streams(c, in, cached)
      [] k = "spatialAnalysis" -> Spatial!Streams(c, in, cached)
      [] k = "annotation" -> Notes!Streams(c, in, cached)

InBounds(k, c, r) ==
    CASE k = "ionClip" -> Clip!InBounds(c)
      [] k = "ionColour" -> Colour!InBounds(c)
      [] k = "ionDownsample" -> Downsample!InBounds(c, r)
      [] k = "rangeFile" -> RangeFile!InBounds(c)
      [] k = "transform" -> Transf!InBounds(c)
      [] k = "boundingBox" -> Box!InBounds(c)
      [] k = "profile" -> Prof!InBounds(c)
      [] k = "clusterAnalysis" -> Cluster!InBounds(c)
      [] k = "ionInfo" -> Info!InBounds(c)
      [] k = "spectrumPlot" -> Spectrum!InBounds(c)
      [] k = "dataLoad" -> Data!InBounds(c)
      [] k = "externalProgram" -> Program!InBounds(c)
      [] k = "proxigram" -> Proxi!InBounds(c, r)
      [] k = "voxelise" -> Voxel!InBounds(c, r)
      [] k = "spatialAnalysis" -> Spatial!InBounds(c, r)
      [] k = "annotation" -> Notes!InBounds(c)

\* Filters that put nothing into their cache.
NeverCache == {"boundingBox", "ionInfo", "proxigram", "annotation"}

MayCache(k, c) ==
    CASE k = "externalProgram" -> Program!MayCache(c)
      [] k = "voxelise" -> Voxel!MayCache(c)
      [] k = "spatialAnalysis" -> Spatial!MayCache(c)
      [] OTHER -> k \notin NeverCache

-----------------------------------------------------------------------------
(* One filter in the tree.                                                 *)

NoCaches(o, b, l, e) == o = <<>> /\ b = <<>> /\ l = <<>> /\ e = FALSE

SettingsInit ==
    /\ kind \in Kinds
    /\ range = NoRange
    /\ conf = InitFilter(kind, New(kind), range)
    /\ NoCaches(own, below, left, excused)
    /\ edits = 0

\* What is in the filter's cache after an answer.
CacheAfter(a) ==
    IF own = <<>> THEN <<>>
    ELSE CASE a.cache \in {"cleared", "dropped"} -> <<>>
           [] a.cache = "kept" -> own
           [] a.cache = "patched" -> [i \in DOMAIN own |-> Output(kind, a.conf)]
           [] a.cache = "legend" -> <<"legend">>

\* What it holds besides: what was dropped, until the cache is cleared.
LeftAfter(a) ==
    CASE a.cache = "cleared" -> <<>>
      [] a.cache = "dropped" -> own
      [] OTHER -> left

Excused(a) == (excused \/ a.misfit) /\ (own' # <<>> \/ below' # <<>> \/ left' # <<>>)

\* FilterTree::setFilterProperty: filters below are cleared if the answer asks
\* for an update.
SetProperty ==
    /\ edits < MaxEdits
    /\ \E a \in Answers(kind, conf, own # <<>>) :
          /\ a.ok
          /\ conf' = InitFilter(kind, a.conf, range)
          /\ own' = CacheAfter(a)
          /\ left' = LeftAfter(a)
          /\ below' = IF a.update THEN <<>> ELSE below
          /\ excused' = Excused(a)
    /\ edits' = edits + 1
    /\ UNCHANGED <<kind, range>>

\* TreeState::applyBindings, MathGLPane::OnMouseUp.
Drag ==
    /\ edits < MaxEdits
    /\ below' = <<>>
    /\ \E a \in Drags(kind, conf) :
          /\ conf' = a.conf
          /\ own' = CacheAfter(a)
          /\ left' = LeftAfter(a)
          /\ excused' = Excused(a)
    /\ edits' = edits + 1
    /\ UNCHANGED <<kind, range>>

\* FilterTree::refreshFilterTree: a filter that has a cache puts that out, the
\* others compute and may keep the result, next to what is left (cacheAsNeeded).
Refresh ==
    LET ready == InitFilter(kind, conf, range)
        done == IF own # <<>> THEN ready ELSE Refreshed(kind, ready, range)
        out == IF own # <<>> THEN own ELSE <<Output(kind, done)>>
    IN  /\ conf' = done
        /\ \/ own' = left \o out /\ left' = <<>> /\ MayCache(kind, done)
           \/ UNCHANGED <<own, left>>
        /\ below' = IF below = <<>> THEN out ELSE below
        /\ UNCHANGED <<kind, range, excused, edits>>

\* Filter::cloneUncached: the copy takes the filter's place.
Copy ==
    /\ edits < MaxEdits
    /\ conf' = Clone(kind, conf)
    /\ NoCaches(own', below', left', excused')
    /\ edits' = edits + 1
    /\ UNCHANGED <<kind, range>>

\* The filter as it comes back from a file that was saved.
Reload ==
    /\ edits < MaxEdits
    /\ LET r == ReadState(kind, conf) IN
          /\ r.ok
          /\ conf' = InitFilter(kind, r.conf, range)
    /\ NoCaches(own', below', left', excused')
    /\ edits' = edits + 1
    /\ UNCHANGED <<kind, range>>

\* A range filter above comes, goes or changes.
Upstream ==
    /\ edits < MaxEdits
    /\ \E r \in RangeData \ {range} :
          range' = r /\ conf' = InitFilter(kind, ClearCache(kind, conf), r)
    /\ NoCaches(own', below', left', excused')
    /\ edits' = edits + 1
    /\ UNCHANGED kind

SettingsNext == SetProperty \/ Drag \/ Refresh \/ Copy \/ Reload \/ Upstream

SettingsSpec == SettingsInit /\ [][SettingsNext]_settingsVars

-----------------------------------------------------------------------------
(* Properties.                                                             *)

\* Members that initFilter sets anew, and what is kept besides the cache.
Transient == {"incoming", "haveRangeParent", "voxelCache", "vdbCache"}

Alike(c, d, except) ==
    /\ DOMAIN c = DOMAIN d
    /\ \A f \in DOMAIN c \ (except \cup Transient) : c[f] = d[f]

\* The settings are those of the kind, and a cache is made of settings, one unless
\* it is excused.
SettingsTypeOK ==
    /\ kind \in Kinds /\ range \in RangeData \cup {NoRange} /\ edits \in 0..MaxEdits
    /\ DOMAIN conf = DOMAIN New(kind)
    /\ excused \in BOOLEAN
    /\ ~excused => Len(own) <= 1 /\ Len(below) <= 1 /\ left = <<>>

\* The grid of an iso-surface is kept when what it was counted from changes.
KnownStale == kind = "voxelise" /\ Voxel!GridIsOld(conf, range)

\* The cache of a filter is what refresh would compute anew, and so is what the
\* caches below were computed of, but for KnownStale and for the answers marked
\* misfit, which are:
\*   clusterAnalysis: the size distribution switched off; the identifiers set to
\*     what they are while compositions are wanted; all ions made bulk or none;
\*   rangeFile: a legend switched on while nothing is enabled;
\*   spectrumPlot: another look of a plot with its background, another axis of a
\*     fitted one; a bound of the normalisation set to what it is, after which the
\*     cache that refresh makes has the plots of the former one, too;
\*   voxelise: another transparency, or another representation but the surface.
CachesRight ==
    /\ SettingsTypeOK
    /\ \/ excused \/ KnownStale
       \/ {own, below} \subseteq {<<>>, <<Output(kind, Afresh(kind, conf, range))>>}

LostByCopy(k) ==
    CASE k = "rangeFile" -> {"showLegend"}
      [] k = "boundingBox" -> {"lineColour"}
      [] k = "profile" -> {"minEvents"}
      [] k = "clusterAnalysis" ->
            {"enableCoreClassify", "coreKNN", "enableBulkLink", "enableErosion",
             "wantClusterID"}
      [] k = "dataLoad" -> {"valueLabel", "endianMode"}
      [] k = "voxelise" -> {"fixedWidth"}
      [] k = "spatialAnalysis" -> {"ionNames"}
      [] OTHER -> {}

\* A copy of a filter has its settings, but for those of LostByCopy.
CopyKeepsSettings == Alike(Clone(kind, conf), conf, LostByCopy(kind))

LostByFile(k, c) ==
    CASE k = "ionColour" -> {"alpha"}
      [] k = "rangeFile" -> {"rng"}
      [] k = "transform" -> {"originMode", "noiseType", "showOrigin"}
      [] k = "profile" -> {"minEvents", "errMode", "wantDensity", "movingAverageNum"}
      [] k = "clusterAnalysis" ->
            {"enableCoreClassify", "enableBulkLink", "enableErosion", "wantClusterID",
             "wantClusterComposition"}
      [] k = "dataLoad" -> {"endianMode"}
      [] k = "spatialAnalysis" ->
            {"ionNames", "vectorParams", "replaceMass", "showGridOverlay"}
            \cup IF c.ionNames = <<>> THEN Spatial!Flags ELSE {}
      [] k = "proxigram" ->
            {"numeratorAll", "denominatorAll", "enabledIons", "weight_factor"}
      [] k = "annotation" ->
            {"angleFormat", "fontSizeLinearMeasure", "linearFixedTicks",
             "linearMeasureTicks", "linearMeasureSpacing"}
      [] OTHER -> {}

\* Saved before a refresh has narrowed the bins to the plot; with a size of the
\* ions or a number of columns, or sizes of an annotation, that are refused.
Unreadable ==
    CASE kind = "spectrumPlot" ->
            ~conf.autoExtrema /\ conf.binWidth > conf.maxPlot - conf.minPlot
      [] kind = "dataLoad" -> conf.ionSize = 0 \/ conf.numColumns = 0
      [] kind = "annotation" ->
            \E f \in {"annotateSize", "sphereMarkerSize", "lineSize"} : conf[f] < 0
      [] kind = "voxelise" -> TRUE
      [] kind = "spatialAnalysis" -> conf.replaceTolerance < 0
      [] OTHER -> FALSE

\* A filter that was saved can be read, and has its settings then, but for
\* those of LostByFile.
StateFileKeepsSettings ==
    LET r == ReadState(kind, conf) IN
    \/ Unreadable
    \/ r.ok /\ Alike(r.conf, conf, LostByFile(kind, conf))

\* Types that a filter holds back, or lets through, in spite of its mask.
Unmasked(k, c, in) ==
    CASE k = "rangeFile" -> IF RangeFile!Nothing(c) THEN StreamTypes ELSE {"range"}
      [] k = "transform" -> IF c.transformMode = "crop" THEN StreamTypes ELSE {}
      [] k = "profile" -> {"ions"}
      [] k = "clusterAnalysis" -> {"range"}
      [] k = "externalProgram" -> StreamTypes
      [] k = "spatialAnalysis" ->
            IF "ions" \notin in \/ Spatial!PassNothing(c) THEN StreamTypes ELSE {}
      [] OTHER -> {}

MasksFit(s, in) ==
    /\ s.block \cap in = in \ s.passes
    /\ s.makes \subseteq s.emit

\* What refresh passes on and makes is what the masks say, also from the cache,
\* but for the types of Unmasked.
MasksMatch ==
    \A in \in {StreamTypes} \cup {StreamTypes \ {t} : t \in StreamTypes}, cached \in BOOLEAN :
        LET s == FilterStreams(kind, conf, in, cached)
            except == Unmasked(kind, conf, in)
        IN  MasksFit([s EXCEPT !.block = @ \ except, !.passes = @ \cup except], in)

\* Where an array is known to be too short: a downsampling filter whose ranges
\* became one ion more, or whose range file was read again with fewer; a range
\* that was given an ion that is not there; the origin of a mode without one;
\* ions of which one was switched off while there were no ranges; data without
\* columns; a proxigram without ranges, whose range file became longer, or whose
\* shells end unevenly; a ruler whose marks are nothing apart.
KnownOverrun ==
    CASE kind = "ionDownsample" ->
            \/ Len(conf.ionLimits) = Len(range.ions)
            \/ Len(conf.incoming.enabled) # Len(range.enabled)
      [] kind = "rangeFile" ->
            \E i \in DOMAIN conf.rng.ionOf : conf.rng.ionOf[i] \notin DOMAIN conf.rng.ions
      [] kind = "transform" -> conf.originMode # "select" /\ conf.vectorParams = <<>>
      [] kind = "clusterAnalysis" -> Len(conf.ionNames) < Len(conf.ionCoreEnabled)
      [] kind = "dataLoad" -> conf.numColumns = 0
      [] kind = "proxigram" ->
            \/ range = NoRange \/ Proxi!Limits(conf) > Proxi!Centres(conf)
            \/ Len(conf.enabledIons[1]) < Len(range.ions)
      [] kind = "voxelise" ->
            \/ {conf.nBins, conf.binWidth} \cap {0, Voxel!Infinite} # {}
            \/ Len(conf.enabledIons[1]) # Len(range.ions)
      [] kind = "spatialAnalysis" ->
            \/ Spatial!EnabledNames(range) # range.ions \/ conf.replaceMode = "union"
      [] kind = "annotation" -> ~conf.linearFixedTicks /\ conf.linearMeasureSpacing = 0
      [] OTHER -> FALSE

\* No array is used past its end, and no number that is divided by is zero, but
\* for KnownOverrun.
IndicesInBounds == InBounds(kind, conf, range) \/ KnownOverrun

\* What a refresh sets itself: an origin or the ends of a plot that are to be
\* computed, the width of bins that do not fit, the flags of a copy that are more
\* or fewer than the ions they are for.
SetByRefresh ==
    CASE kind = "transform" /\ conf.originMode # "select" -> {"vectorParams"}
      [] kind = "spectrumPlot" /\ conf.autoExtrema -> {"minPlot", "maxPlot", "binWidth"}
      [] /\ kind = "spectrumPlot" /\ ~conf.autoExtrema
         /\ conf.binWidth > conf.maxPlot - conf.minPlot -> {"binWidth"}
      [] kind = "clusterAnalysis" /\ DOMAIN conf.ionCoreEnabled # DOMAIN conf.ionNames ->
            {"ionCoreEnabled", "ionBulkEnabled"}
      [] kind = "spatialAnalysis" -> {"ionNames"}
      [] kind = "voxelise" -> {"bc", IF conf.fixedWidth THEN "nBins" ELSE "binWidth"}
      [] OTHER -> {}

\* A refresh leaves what the user has set as it is, but for SetByRefresh.
RefreshKeepsSettings == [][edits' = edits => Alike(conf', conf, SetByRefresh)]_settingsVars
=============================================================================
