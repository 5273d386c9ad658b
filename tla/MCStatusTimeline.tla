--------------------------- MODULE MCStatusTimeline ---------------------------
(* StatusTimeline for TLC.                                                   *)
EXTENDS StatusTimeline, TLC

\* The levels other than no alert are alike.
Alike == Permutations(Levels \ {""})
=============================================================================
