--------------------------- MODULE MCFilterRefresh ---------------------------
(* A data source with the filters on which the masks differ below it: caches *)
(* that block, that let pass, and two ion streams for a filter to be aborted *)
(* between.                                                                  *)
EXTENDS FilterRefresh

CONSTANTS first, second

F(kind, depth) == NewFilter(kind, first, depth)

MCTrees ==
    {<<F("data", 0), F("clip", 1), F("plot", 2), F("box", 1)>>}

MCFiles ==
    {[time |-> 1, size |-> 1], [time |-> 2, size |-> 1], [time |-> 3, size |-> 2]}
=============================================================================
