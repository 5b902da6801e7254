------------------------------ MODULE SafetyGate ------------------------------
(* The safety gate of a workflow that starts, beside the processes that change   *)
(* the registry: app/config_guard.py (apply_config_safety_gate) and              *)
(* governance/policy_gate.py (allow_hard_decision).  It asks the registry three  *)
(* times, with no lock and no transaction, and leaves the hard decision of the   *)
(* policy on after the third answer.                                             *)
EXTENDS ModelRegistry

VARIABLE gate   \* the gate of a workflow that starts

\* What it has done, the version it approves, the one it loaded, and as a history
\* the versions whose is_active changed between its first read and its last.
Gate == [at : {"idle", "check", "load", "done"}, version : 0..MaxVersion,
         loaded : 0..MaxVersion, since : SUBSET Versions]

GateOK == gate \in Gate

NoGate == [at |-> "idle", version |-> None, loaded |-> None, since |-> {}]

GateInit == Init /\ gate = NoGate

\* allow_hard_decision asks get_active_metadata which version there is, and goes on
\* with a limited one.
GateMeta ==
  /\ gate.at = "idle" /\ Current # None
  /\ (IF active # {} THEN row[Current] ELSE pointer.status) = "limited"
  /\ gate' = [NoGate EXCEPT !.at = "check", !.version = Current]
  /\ UNCHANGED vars

\* Mutant: the gate does not ask for consistency.
GateUnchecked ==
  /\ gate.at = "check"
  /\ gate' = [gate EXCEPT !.at = "load"]
  /\ UNCHANGED vars

GateCheck ==
  /\ gate.at = "check" /\ Consistent
  /\ gate' = [gate EXCEPT !.at = "load"]
  /\ UNCHANGED vars

\* apply_config_safety_gate asks for a model, too: the hard decision stays on.
GateLoad ==
  /\ gate.at = "load" /\ Loaded # None
  /\ gate' = [gate EXCEPT !.at = "done", !.loaded = Loaded]
  /\ UNCHANGED vars

\* The decision is off, for one of these reasons or another, or the workflow is over.
GateEnds ==
  /\ gate.at # "idle"
  /\ gate' = NoGate
  /\ UNCHANGED vars

\* What the other processes change meanwhile.
Watched ==
  gate' = IF gate.at \in {"check", "load"}
          THEN [gate EXCEPT !.since = @ \cup (active \ active') \cup (active' \ active)]
          ELSE gate

Others == Next /\ Watched

GateNext == Others \/ GateMeta \/ GateCheck \/ GateLoad \/ GateEnds

GateSpec == GateInit /\ [][GateNext]_<<vars, gate>>

\* The gate approves one version and loads another only if an activation or a
\* disable changed the row of one of the two between its first read and its last
\* (policy_gate.py 46-47, config_guard.py 83-87): a rollback in between is enough,
\* but no state of the registry that stands still is.
GateApprovesTheLoaded ==
  gate.at = "done" =>
    \/ gate.loaded = gate.version
    \/ {gate.loaded, gate.version} \cap gate.since # {}
===============================================================================
