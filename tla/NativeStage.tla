------------------------------ MODULE NativeStage ------------------------------
(***************************************************************************)
(* What Controller.run of normal_validation_controller.py promises run_all *)
(* of normal_validation_custody.py.  It returns only when the SDK has run  *)
(* to exit status 0 and all its processes have ended.  Where it raises, or *)
(* is killed, the SDK may still be running, or be about to: the gate that  *)
(* was sent its payload hashes the executable before it becomes the SDK.   *)
(* The SDK may end before the processes it started, which remain.  Nothing *)
(* else can start any more.  OwnedStage implements it.                     *)
(***************************************************************************)

VARIABLES
  outcome, \* of run: "running", "returned", or "none", also after an exception
  native   \* the SDK: "absent", "released" to the gate, "runs", "left" once only
           \* processes it started remain, or "passed" once all of it has ended
           \* well while run is still running

stageVars == <<outcome, native>>

StageTypeOK ==
  /\ outcome \in {"none", "running", "returned"}
  /\ native \in {"absent", "released", "runs", "left", "passed"}

\* What another stage has left goes on unseen.
Begin ==
  /\ outcome = "none" /\ outcome' = "running"
  /\ native' = IF native = "left" THEN "absent" ELSE native
-----------------------------------------------------------------------------
Release ==
  /\ outcome = "running" /\ outcome' = outcome
  /\ native = "absent" /\ native' = "released"

Exec == native = "released" /\ native' = "runs" /\ outcome' = outcome

\* By itself, by the controller's stop, or by its lease.
End ==
  /\ outcome' = outcome
  /\ \/ native = "runs" /\ native' = "left"
     \/ native \in {"released", "runs", "left"} /\ native' = "absent"
     \/ native \in {"runs", "left"} /\ outcome = "running" /\ native' = "passed"

NativeActs == Release \/ Exec \/ End
-----------------------------------------------------------------------------
Return ==
  /\ outcome = "running" /\ outcome' = "returned"
  /\ native = "passed" /\ native' = "absent"

Raise ==
  /\ outcome = "running" /\ outcome' = "none"
  /\ native' = IF native = "passed" THEN "absent" ELSE native

StageInit == outcome = "running" /\ native = "absent"
StageSpec == StageInit /\ [][NativeActs \/ Return \/ Raise]_stageVars
=============================================================================
