-------------------------- MODULE MCLossesDetector ---------------------------
(* LossesDetector on small instances.                                      *)
EXTENDS LossesDetector, TLC

\* Numbers of both periods, and what an id of 2^64 - 1 is converted to.
MCSerials == {-1, 0, 2, 3}

MCSymmetry == Permutations(Readers)
=============================================================================
