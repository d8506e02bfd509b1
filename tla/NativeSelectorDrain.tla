-------------------------- MODULE NativeSelectorDrain --------------------------
(***************************************************************************)
(* The kubectl binding of intranet_native_handoff.py for the selector      *)
(* routes and for the drain of green.  Each operation is several commands, *)
(* so other actors may act between them.  `tool' is how far the operation  *)
(* the policy is waiting for has come.                                     *)
(*                                                                         *)
(* Each command may fail without applying, or apply and lose its response; *)
(* MaxFaults bounds such failures.  An operation ends in one of the        *)
(* actions of the caller: Succeed or Reject (parameters, as the adapter    *)
(* answers exitCode 0 or non-zero and the policy does the rest).           *)
(***************************************************************************)
EXTENDS HandoffCluster

CONSTANT MaxFaults  \* bound: native commands and tool calls that fail by themselves

ASSUME FaultAssumption == MaxFaults \in Nat

VARIABLES tool, faults

adapterVars == <<tool, faults>>

AdapterTypeOK ==
  /\ tool \in {"idle", "checked", "patched", "scaled", "proved", "created"}
  /\ faults \in 0..MaxFaults

AdapterInit == tool = "idle" /\ faults = 0

\* A command or tool call fails although its conditions hold.
Fault == faults < MaxFaults /\ faults' = faults + 1

\* The checks of route() before it patches: same Service at the version the
\* policy read, the selected backend still the one it read, and the target
\* still the Deployment to route to.
RouteAdmitted(read, selector, target) ==
  /\ svc.id = read.id
  /\ svc.rv = read.rv
  /\ svc.selector = read.selector
  /\ UidOf(read.selector) = read.uid
  /\ UidOf(selector) = target

\* (<Definition>_<slip>: see ApplicationHandoff.)
PatchTests_noVersion(read) == svc.id = read.id /\ svc.selector = read.selector

\* The JSON patch: its test operations and its replace are one API call.
PatchTests(read) ==
  /\ svc.id = read.id
  /\ svc.rv = read.rv
  /\ svc.selector = read.selector

Select(selector) == svc' = [svc EXCEPT !.selector = selector, !.rv = svc.rv + 1]

\* The read-back after the patch.
RouteConfirmed(read, selector, target) ==
  /\ svc.id = read.id
  /\ svc.rv > read.rv
  /\ svc.selector = selector
  /\ UidOf(selector) = target

OwnedGreen_byName(uid) == greenDep.uid # "none"

\* drain(): the scale patch tests uid, resourceVersion and replicas.
OwnedGreen(uid) == uid = "green" /\ greenDep.uid = uid
ScaleToZero == greenDep' = [greenDep EXCEPT !.running = FALSE, !.healthy = FALSE]

\* Delete with uid and resourceVersion preconditions, after the processes are
\* proved gone and replicas is 0.
DeleteAdmitted(uid) == OwnedGreen(uid) /\ ~greenDep.running
DeleteGreen == greenDep' = [greenDep EXCEPT !.uid = "none"]
=============================================================================
