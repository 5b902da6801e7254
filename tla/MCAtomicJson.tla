----------------------------- MODULE MCAtomicJson -----------------------------
(* Two writers and a reader of one file.                                       *)
EXTENDS AtomicJson
CONSTANTS w1, w2, r1
===============================================================================
