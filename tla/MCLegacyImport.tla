--------------------------- MODULE MCLegacyImport ---------------------------
(* Three alphas with a legacy record, one of them in both sources, and one  *)
(* that is backtested later; batches of two.  The table reports an error,   *)
(* the JSON pool is silent.                                                 *)
EXTENDS LegacyImport

CONSTANTS a1, a2, a3, a4, table, pool

MCAlpha  == {a1, a2, a3, a4}
MCLegacy == {a1, a2, a3}
MCSource == {table, pool}
MCSilent == {pool}
MCSourcesOf == [a \in MCAlpha |-> CASE a = a2 -> {table}
                                    [] a = a3 -> {pool}
                                    [] OTHER  -> {table, pool}]
=============================================================================
