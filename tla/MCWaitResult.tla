----------------------------- MODULE MCWaitResult -----------------------------
(* Three equal reads over two poll intervals as in the shipped configuration;   *)
(* the long times are shortened in the code's order: 20 seconds, 75, 180, 240.  *)
EXTENDS WaitResult
===============================================================================
