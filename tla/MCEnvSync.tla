----------------------------- MODULE MCEnvSync ------------------------------
(* Instances of EnvSync for TLC: symmetric devices and contents.           *)
EXTENDS EnvSync, TLC

Symmetry ==
  Permutations(Devices) \cup Permutations(Contents \ {InitialRow, Empty})
=============================================================================
