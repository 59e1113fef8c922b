---------------------------- MODULE LinkClustering ----------------------------
(***************************************************************************)
(* refreshLinkClustering and what refresh makes of it: "core" ions that    *)
(* are near each other are joined to clusters, "bulk" ions near those are  *)
(* put into them and eroded again at the border, clusters that are too     *)
(* small or too large are left out, and the rest is plotted and cached.    *)
(*                                                                         *)
(* An ion is its place.  Which clusters are begun first follows from the   *)
(* order of the ions in the tree, and that from the order in which threads *)
(* collect them: any.                                                      *)
(***************************************************************************)
EXTENDS Integers, Sequences, SequencesExt, FiniteSets, FiniteSetsExt

CONSTANTS Places,   \* where ions may be: triples of integers
          Settings  \* of the filter: records of the members named below
ASSUME PlacesAssumption == \A p \in Places : p \in Int \X Int \X Int

-----------------------------------------------------------------------------
(* K3DTreeMk2: points in space, split along one axis after the other, and  *)
(* two searches through the halves: for all points in a sphere, and for    *)
(* the nearest point without a tag.                                        *)
(*                                                                         *)
(* A tree is the set of its points: where a set is split, and so the whole *)
(* tree, follows from the set and the axis.  Of equal values std::sort may *)
(* put any last; CHOOSE takes one.  Points do not coincide.                *)
Axes == 1..3
NextAxis(axis) == (axis % 3) + 1

SqrDist(p, q) == LET d(a) == (p[a] - q[a]) * (p[a] - q[a]) IN d(1) + d(2) + d(3)

-----------------------------------------------------------------------------
BoundCube(pts) ==
    [a \in Axes |-> <<Min({p[a] : p \in pts}), Max({p[a] : p \in pts})>>]

\* Touching is intersecting.
Intersects(cube, pt, sqrRad) ==
    LET near == [a \in Axes |-> IF pt[a] <= cube[a][1] THEN cube[a][1]
                                ELSE IF pt[a] >= cube[a][2] THEN cube[a][2] ELSE pt[a]]
    IN  SqrDist(near, pt) <= sqrRad

ContainedInSphere(cube, pt, sqrRad) ==
    \A corner \in [Axes -> 1..2] :
        SqrDist(pt, [a \in Axes |-> cube[a][corner[a]]]) <= sqrRad

-----------------------------------------------------------------------------
\* build: the point in the middle along the axis, the last one of its value.
Split(pts, axis) ==
    LET middle == (Cardinality(pts) - 1) \div 2 IN
    CHOOSE p \in pts :
        /\ Cardinality({q \in pts : q[axis] < p[axis]}) <= middle
        /\ Cardinality({q \in pts : q[axis] <= p[axis]}) > middle

\* Mutant of childLeft: points of the same value as the one they are split at
\* are on neither side.
childLeft_Strict(pts, p, axis) == {q \in pts \ {p} : q[axis] < p[axis]}

\* The halves, and the parts of a cube that they are in.
childLeft(pts, p, axis) == {q \in pts \ {p} : q[axis] <= p[axis]}
childRight(pts, p, axis) == {q \in pts : q[axis] > p[axis]}
LeftCube(cube, p, axis) == [cube EXCEPT ![axis][2] = p[axis]]
RightCube(cube, p, axis) == [cube EXCEPT ![axis][1] = p[axis]]

-----------------------------------------------------------------------------
\* The points of a set, split along an axis, that are in a sphere: a half that
\* is all inside comes in whole.
RECURSIVE InSphere(_, _, _, _, _)
InSphere(pts, cube, axis, origin, sqrRadius) ==
    LET p == Split(pts, axis)
        Half(half, c) ==
            IF half = {} \/ ~Intersects(c, origin, sqrRadius) THEN {}
            ELSE IF ContainedInSphere(c, origin, sqrRadius) THEN half
            ELSE InSphere(half, c, NextAxis(axis), origin, sqrRadius)
    IN  {q \in {p} : SqrDist(q, origin) < sqrRadius}
        \cup Half(childLeft(pts, p, axis), LeftCube(cube, p, axis))
        \cup Half(childRight(pts, p, axis), RightCube(cube, p, axis))

\* ptsInSphere begins with a test of the whole cube, to which it gives the
\* radius where its square is asked for.
ptsInSphere(pts, origin, radius) ==
    IF ~Intersects(BoundCube(pts), origin, radius) THEN {}
    ELSE InSphere(pts, BoundCube(pts), 1, origin, radius * radius)

-----------------------------------------------------------------------------
\* findNearestUntagged found no point.
None == <<>>

\* A point without a tag that is nearer than the best so far is the best.
Promote(best, p, tagged, at) ==
    IF p \notin tagged /\ (best = None \/ SqrDist(p, at) < SqrDist(best, at)) THEN p ELSE best

\* Into the half where the place is, into the other, and then the point between
\* them; a half whose cube is further than the best is left out.
RECURSIVE Walk(_, _, _, _, _, _)
Walk(best, pts, cube, axis, tagged, at) ==
    LET p == Split(pts, axis)
        Visit(sofar, half, c) ==
            IF half = {} \/ (sofar # None /\ ~Intersects(c, at, SqrDist(sofar, at)))
            THEN sofar ELSE Walk(sofar, half, c, NextAxis(axis), tagged, at)
        Left(sofar) == Visit(sofar, childLeft(pts, p, axis), LeftCube(cube, p, axis))
        Right(sofar) == Visit(sofar, childRight(pts, p, axis), RightCube(cube, p, axis))
    IN  Promote(IF at[axis] < p[axis] THEN Right(Left(best)) ELSE Left(Right(best)),
                p, tagged, at)

findNearestUntagged(pts, tagged, at) ==
    IF pts = {} THEN None
    ELSE Walk(Promote(None, Split(pts, 1), tagged, at), pts, BoundCube(pts), 1, tagged, at)

-----------------------------------------------------------------------------
(* The filter.                                                             *)

VARIABLES ions,      \* place |-> "core", "bulk" or "none"
          conf,      \* the filter's settings
          step,      \* what comes next
          coreIons, bulkIons,  \* after the classification, those in the trees
          untagged,  \* core ions that are in no cluster yet
          clusters,  \* sequence of [core, bulk]
          at,        \* the cluster that is enveloped or looked at next
          cropCut    \* an abort ended stripClusterBySize, but not refresh

vars == <<ions, conf, step, coreIons, bulkIons, untagged, clusters, at, cropCut>>

OfRole(role) == {p \in Places : ions[p] = role}

Init ==
    /\ ions \in [Places -> {"core", "bulk", "none"}]
    /\ conf \in Settings
    /\ step = "collate"
    /\ coreIons = {} /\ bulkIons = {} /\ untagged = {}
    /\ clusters = <<>> /\ at = 1 /\ cropCut = FALSE

-----------------------------------------------------------------------------
\* createRangedIons; bulk ions are collected only if they are asked for.
createRangedIons ==
    /\ step = "collate"
    /\ coreIons' = OfRole("core")
    /\ bulkIons' = IF conf.enableBulkLink THEN OfRole("bulk") ELSE {}
    /\ step' = IF coreIons' = {} THEN "done" ELSE "build"
    /\ UNCHANGED <<ions, conf, untagged, clusters, at, cropCut>>

\* How often the next neighbour is looked for: the loop counts from one, and asks
\* after it has counted.
Lookups(k) == IF k = 1 THEN 1 ELSE k - 1

\* The last neighbour that is found, or None, and whether it is near enough.
Neighbour(p) ==
    LET seen[n \in 0..Lookups(conf.coreKNN)] ==
            IF n = 0 THEN [tags |-> {p}, last |-> p]
            ELSE LET prev == seen[n - 1]
                     found == findNearestUntagged(coreIons, prev.tags, p)
                 IN  IF prev.last = None THEN prev
                     ELSE [tags |-> prev.tags \cup ({found} \ {None}), last |-> found]
    IN  seen[Lookups(conf.coreKNN)].last
CoreOK(p) == Neighbour(p) # None /\ SqrDist(p, Neighbour(p)) < conf.coreDist * conf.coreDist

\* buildKDTrees: core ions without enough neighbours become bulk.
buildKDTrees ==
    /\ step = "build"
    /\ LET kept == IF conf.enableCoreClassify THEN {p \in coreIons : CoreOK(p)} ELSE coreIons
       IN  /\ coreIons' = kept /\ untagged' = kept
           /\ bulkIons' = bulkIons \cup (coreIons \ kept)
    /\ step' = "link"
    /\ UNCHANGED <<ions, conf, clusters, at, cropCut>>

\* All that the queue takes into a cluster, in sweeps: what of the untagged is
\* near what was taken in before.
RECURSIVE Grown(_, _)
Grown(cluster, queue) ==
    LET near == UNION {ptsInSphere(coreIons, p, conf.linkDist) : p \in queue}
        new == (near \cap untagged) \ cluster
    IN  IF queue = {} THEN cluster ELSE Grown(cluster \cup new, new)

Link ==
    /\ step = "link"
    /\ \E seed \in untagged :
          LET cluster == Grown({seed}, {seed}) IN
          /\ clusters' = Append(clusters, [core |-> cluster, bulk |-> {}])
          /\ untagged' = untagged \ cluster
    /\ UNCHANGED <<ions, conf, step, coreIons, bulkIons, at, cropCut>>

\* Clusters are cropped by their core ions alone.
WrongSize(cluster) ==
    conf.wantCropSize /\ (Cardinality(cluster.core) < conf.nMin
                          \/ Cardinality(cluster.core) > conf.nMax)

\* Without bulk ions clusters are cropped before the rest, and once more after it.
AllLinked ==
    /\ step = "link" /\ untagged = {}
    /\ clusters' = IF conf.enableBulkLink THEN clusters
                   ELSE SelectSeq(clusters, LAMBDA c : ~WrongSize(c))
    /\ step' = IF conf.enableBulkLink /\ bulkIons # {} THEN "envelope" ELSE "strip"
    /\ at' = IF step' = "strip" THEN Len(clusters') ELSE 1
    /\ UNCHANGED <<ions, conf, coreIons, bulkIons, untagged, cropCut>>

\* The bulk ions that are in a cluster have a tag.
Enveloped == UNION {clusters[i].bulk : i \in DOMAIN clusters}

\* The first cluster that reaches a bulk ion has it.
Envelope ==
    /\ step = "envelope"
    /\ IF at > Len(clusters)
       THEN step' = "erode" /\ UNCHANGED <<clusters, at>>
       ELSE /\ clusters' = [clusters EXCEPT ![at].bulk =
                    UNION {ptsInSphere(bulkIons, p, conf.bulkLink) : p \in clusters[at].core}
                    \ Enveloped]
            /\ at' = at + 1
            /\ UNCHANGED step
    /\ UNCHANGED <<ions, conf, coreIons, bulkIons, untagged, cropCut>>

\* Erosion takes a bulk ion out again if one without a tag is near; those taken
\* out keep theirs.
Eroded(p) ==
    LET other == findNearestUntagged(bulkIons, Enveloped, p)
    IN  conf.enableErosion /\ other # None /\ SqrDist(p, other) < conf.dErosion * conf.dErosion

Erode ==
    /\ step = "erode"
    /\ clusters' = [i \in DOMAIN clusters |->
                       [clusters[i] EXCEPT !.bulk = {p \in @ : ~Eroded(p)}]]
    /\ step' = "strip" /\ at' = Len(clusters)
    /\ UNCHANGED <<ions, conf, coreIons, bulkIons, untagged, cropCut>>

\* stripClusterBySize, from the last cluster to the first.  After each the user may
\* abort; but what it returns then is not looked at, and refresh goes on to its cache.
stripClusterBySize ==
    /\ step = "strip"
    /\ IF at = 0 \/ ~conf.wantCropSize
       THEN step' = "done" /\ UNCHANGED <<clusters, at, cropCut>>
       ELSE /\ clusters' = IF WrongSize(clusters[at]) THEN RemoveAt(clusters, at) ELSE clusters
            /\ at' = at - 1
            /\ cropCut' \in BOOLEAN
            /\ step' = IF cropCut' THEN "done" ELSE "strip"
    /\ UNCHANGED <<ions, conf, coreIons, bulkIons, untagged>>

\* Everywhere else an abort ends the filter.
Abort ==
    /\ step \in {"collate", "build", "link", "envelope", "erode"}
    /\ step' = "aborted" /\ clusters' = <<>>
    /\ UNCHANGED <<ions, conf, coreIons, bulkIons, untagged, at, cropCut>>

Next ==
    \/ createRangedIons \/ buildKDTrees \/ Link \/ AllLinked
    \/ Envelope \/ Erode \/ stripClusterBySize
    \/ Abort

Spec == Init /\ [][Next]_vars

-----------------------------------------------------------------------------
Size(cluster) == Cardinality(cluster.core) + Cardinality(cluster.bulk)
OfSize(n) == {i \in DOMAIN clusters : Size(clusters[i]) = n}

\* clusterSizeDistribution: size |-> number of clusters.
clusterSizeDistribution ==
    [n \in {Size(clusters[i]) : i \in DOMAIN clusters} |-> Cardinality(OfSize(n))]

\* genCompositionVersusSize: for an ion, size |-> how many of them.
genCompositionVersusSize(role) ==
    [n \in {Size(clusters[i]) : i \in DOMAIN clusters} |->
        Cardinality(UNION {(clusters[i].core \cup clusters[i].bulk) \cap OfRole(role)
                              : i \in OfSize(n)})]

-----------------------------------------------------------------------------
\* What is asked for, without a tree.  A core ion whose k-th neighbour is nearer
\* than the distance has k of them there.
EnoughNear(p, k) ==
    Cardinality({q \in OfRole("core") \ {p} : SqrDist(p, q) < conf.coreDist * conf.coreDist})
        >= k

\* Where the loop asks for the k-th neighbour ("seeing if the kth NN is within a given
\* radius"; so do the panel and manual.tex:973), it sees the one before it.
Miscounts == conf.coreKNN > 1
Backbone ==
    {p \in OfRole("core") : conf.enableCoreClassify =>
        EnoughNear(p, IF Miscounts THEN conf.coreKNN - 1 ELSE conf.coreKNN)}
Matrix == OfRole("bulk") \cup (OfRole("core") \ Backbone)

\* Whom one reaches from p in the backbone by steps shorter than the distance;
\* with "touching", as long as that are allowed too.
Within(p, q, dist, touching) ==
    SqrDist(p, q) < dist * dist \/ (touching /\ SqrDist(p, q) = dist * dist)
RECURSIVE Reach(_, _)
Reach(s, touching) ==
    LET more == {q \in Backbone : \E p \in s : Within(p, q, conf.linkDist, touching)}
    IN  IF more \subseteq s THEN s ELSE Reach(s \cup more, touching)

\* Each cluster is all that can be reached within it; of points at exactly the
\* distance the tree says this or that.
CoresAreComponents ==
    \A i \in DOMAIN clusters : \A p \in clusters[i].core :
        /\ p \in Backbone
        /\ Reach({p}, FALSE) \subseteq clusters[i].core
        /\ clusters[i].core \subseteq Reach({p}, TRUE)
        /\ WrongSize(clusters[i]) => cropCut /\ i <= at
\* None that has a right size is missing.
NoneMissing ==
    \A p \in Backbone :
        \/ \E i \in DOMAIN clusters : p \in clusters[i].core
        \/ conf.wantCropSize /\ ~(\A touching \in BOOLEAN :
              Cardinality(Reach({p}, touching)) \in conf.nMin..conf.nMax)

\* A core ion further from the cube of all bulk ions than the root of the distance
\* finds none of them.
Overlooks(p) == ~Intersects(BoundCube(Matrix), p, conf.bulkLink)
Reached(p, core, touching) ==
    \E q \in core : Within(p, q, conf.bulkLink, touching) /\ ~Overlooks(q)

\* A bulk ion is eroded if one that no cluster had reached, cropped since or not,
\* is nearer to it than the distance.
Erodes(p, touching) ==
    conf.enableErosion /\ \E q \in Matrix \ {p} :
        /\ ~Reached(q, Backbone, touching)
        /\ SqrDist(p, q) < conf.dErosion * conf.dErosion

\* A cluster that is cropped took it first, and it goes with that.
TakenByCropped(p) ==
    conf.wantCropSize /\
    Reached(p, Backbone \ UNION {clusters[i].core : i \in DOMAIN clusters}, TRUE)

\* A bulk ion is in one cluster at most, which reaches it, and was not to be
\* eroded; it is in one if one reaches it and it was not eroded.
BulkIsEnvelope ==
    /\ \A i, j \in DOMAIN clusters :
          i # j => clusters[i].bulk \cap clusters[j].bulk = {}
    /\ \A i \in DOMAIN clusters : \A p \in clusters[i].bulk :
          p \in Matrix /\ Reached(p, clusters[i].core, TRUE) /\ ~Erodes(p, TRUE)
    /\ conf.enableBulkLink =>
          \A p \in Matrix \ Enveloped : \A i \in DOMAIN clusters :
             Reached(p, clusters[i].core, FALSE) =>
                Erodes(p, FALSE) \/ TakenByCropped(p)
\* Clusters that cannot both reach a bulk ion do not share it out by chance.
NoChance ==
    2 * conf.bulkLink < conf.linkDist =>
        \A i, j \in DOMAIN clusters : \A p \in clusters[i].bulk :
            i # j => ~Reached(p, clusters[j].core, TRUE)

\* The ions of each size are those in the clusters of that size.
PlotsAddUp ==
    \A n \in DOMAIN clusterSizeDistribution :
        genCompositionVersusSize("core")[n] + genCompositionVersusSize("bulk")[n]
            = n * clusterSizeDistribution[n]

\* Safety: what the filter puts out and caches are the clusters as its settings
\* define them, for every arrangement of ions and in every order of threads: the
\* searches through trees, tags that are set and reset, two ways of cropping and
\* an abort in between change nothing, but for what is named here, of which it is
\* asserted how far it goes:
\*   Miscounts: the classification asks for one neighbour less than the setting
\*     says, if that is more than one (clusterAnalysis.cpp:2369);
\*   Overlooks: a core ion finds no bulk ions if it is further from their cube
\*     than the root of the distance (K3DTree-mk2.cpp:306);
\*   cropCut: an abort leaves the clusters that the cropping had not looked at
\*     yet, of any size, and refresh goes on (clusterAnalysis.cpp:570);
\*   TakenByCropped: a cluster that is cropped takes its bulk ions with it;
\*   points at exactly the distance may be found or not.
ClustersAsDefined ==
    step = "done" =>
        /\ CoresAreComponents /\ NoneMissing
        /\ BulkIsEnvelope /\ NoChance /\ PlotsAddUp
=============================================================================
