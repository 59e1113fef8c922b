--------------------------- MODULE MCLinkClustering ---------------------------
(* Six places, two or more apart along one axis or two; distances that are   *)
(* odd touch none of them, one that is even does.                            *)
EXTENDS LinkClustering

MCPlaces == {<<0, 0, 0>>, <<2, 0, 0>>, <<4, 2, 0>>, <<6, 2, 0>>, <<6, 2, 4>>, <<10, 0, 0>>}

Off == [enableCoreClassify |-> FALSE, coreDist |-> 0, coreKNN |-> 1, linkDist |-> 3,
        enableBulkLink |-> FALSE, bulkLink |-> 1, enableErosion |-> FALSE, dErosion |-> 1,
        wantCropSize |-> FALSE, nMin |-> 0, nMax |-> 99]
Linking(c) == {[c EXCEPT !.linkDist = d] : d \in {3, 4, 7}}
Classify(c) == {c} \cup {[c EXCEPT !.enableCoreClassify = TRUE, !.coreDist = 5, !.coreKNN = k]
                            : k \in {1, 3}}
Bulk(c) == {c} \cup {[c EXCEPT !.enableBulkLink = TRUE, !.bulkLink = d,
                               !.enableErosion = e > 0, !.dErosion = e]
                        : d \in {3, 5}, e \in {0, 3}}
Crop(c) == {c, [c EXCEPT !.wantCropSize = TRUE, !.nMin = 2, !.nMax = 3]}
MCSettings ==
    UNION {UNION {UNION {Crop(b) : b \in Bulk(k)} : k \in Classify(d)} : d \in Linking(Off)}
=============================================================================
