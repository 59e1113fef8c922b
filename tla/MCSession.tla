----------------------------- MODULE MCSession -----------------------------
(* One branch, two names for cameras and one for a stash; the disk holds  *)
(* an analysis with one branch and two cameras.                             *)
EXTENDS Session

MCFirstFile ==
    [tree |-> {"ions"}, savedCameras |-> <<NoName, "top">>, activeCamera |-> 2,
     stashedTrees |-> <<[name |-> "kept", tree |-> {"ions"}]>>]
=============================================================================
