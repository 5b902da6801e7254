--------------------------- MODULE MCModelRegistry ---------------------------
(* Two processes and the gate of a starting workflow; two versions, the one in   *)
(* use and one that replaces it and may be rolled back; three operations and one *)
(* fault.                                                                        *)
EXTENDS SafetyGate, TLC
Symmetry == Permutations(Process)
===============================================================================
