--------------------------- MODULE MCScoreHistory ---------------------------
(* Instances of ScoreHistory for TLC.                                      *)
EXTENDS ScoreHistory, TLC

Symmetry == Permutations(Threads)
=============================================================================
