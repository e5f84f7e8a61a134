--------------------------- MODULE MCTrafficPoints ---------------------------
(* TrafficPoints on small instances: the sets are model values, which the  *)
(* specification treats alike, so they may be permuted.                    *)
EXTENDS TrafficPoints, TLC

Symmetry == Permutations(Threads) \cup Permutations(Detectors)
=============================================================================
