------------------------------ MODULE MCBridge ------------------------------
(* Guest values are interchangeable: no action or property names one.      *)
EXTENDS Bridge, TLC

ValueSymmetry == Permutations(Values)
=============================================================================
