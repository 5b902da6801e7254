--------------------------- MODULE MCTemplateLoop ---------------------------
(* Three codes, one of them invalid: enough for a code, its mutation and a *)
(* repair.  Five turns reach every limit, which the configuration lowers   *)
(* in proportion; the limits of the code are 12, 9, 3, 8 and 3.            *)
EXTENDS TemplateLoop

CONSTANTS alpha, beta, broken
=============================================================================
