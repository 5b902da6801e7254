------------------------- MODULE MCEvolutionMemory -------------------------
(* Four updates leave one payload in the file, one in the worker's hands,  *)
(* one pending and one about to be saved.                                  *)
EXTENDS EvolutionMemory
=============================================================================
