---------------------------- MODULE MCNodeHealth ----------------------------
(* Instances of NodeHealth for TLC: probers are interchangeable.           *)
EXTENDS NodeHealth, TLC

ProberSymmetry == Permutations(Prober)
=============================================================================
