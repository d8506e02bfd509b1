--------------------------- MODULE ValidationGate ---------------------------
(***************************************************************************)
(* The step "Verify exact protected-main validation" of                     *)
(* .github/workflows/publish-image.yml: five reads of the GitHub API, one   *)
(* after the other, while runs of the same commit start, complete and are   *)
(* rerun.  A list of fewer than 100 rows is one read.                       *)
(*                                                                         *)
(* Definitions named <Definition>_<slip> are the definition they precede    *)
(* with a plausible slip in it; nothing uses them.                          *)
(***************************************************************************)
EXTENDS CiRuns

VARIABLE gate   \* step; run_id; attempt

gateVars == <<ci, gate>>

GateSteps == {"start", "listed", "bound", "jobsRead", "observedAgain",
          "verified", "refused"}

GateTypeOK ==
  /\ CiTypeOK
  /\ gate \in [pc : GateSteps, run : 0 .. RunCount, attempt : 0 .. MaxAttempt]

GateInit == CiInit /\ gate = [pc |-> "start", run |-> 0, attempt |-> 0]

-----------------------------------------------------------------------------
Moves(from, to) == gate.pc = from /\ gate' = [gate EXCEPT !.pc = to] /\ UNCHANGED ci

AllSucceeded == Existing # {} /\ \A r \in Existing : Succeeded(r)

(* The first list binds the latest run and the attempt it shows.            *)
ListRuns ==
  /\ gate.pc = "start"
  /\ AllSucceeded
  /\ \E r \in Existing :
       /\ IsLatest(r)
       /\ gate' = [pc |-> "listed", run |-> r, attempt |-> ci[r].attempt]
  /\ UNCHANGED ci

(* validate_run of runs/<run_id>, in the bound attempt.                     *)
SameAttempt == Succeeded(gate.run) /\ ci[gate.run].attempt = gate.attempt

ReadRun == Moves("listed", "bound") /\ SameAttempt

(* The jobs of the bound attempt, which stays readable after a rerun.       *)
ReadJobs ==
  /\ Moves("bound", "jobsRead")
  /\ JobsPassed(gate.run, gate.attempt)

ReadRunAgain == Moves("jobsRead", "observedAgain") /\ SameAttempt

(* The second list: nothing started, failed or was rerun meanwhile.         *)
ListAgain_anyAttempt ==
  /\ Moves("observedAgain", "verified")
  /\ AllSucceeded
  /\ IsLatest(gate.run)

ListAgain ==
  /\ Moves("observedAgain", "verified")
  /\ AllSucceeded
  /\ IsLatest(gate.run)
  /\ ci[gate.run].attempt = gate.attempt

(* A requirement does not hold, a call fails or times out.                  *)
RefuseStep ==
  /\ gate.pc \notin {"verified", "refused"}
  /\ gate' = [gate EXCEPT !.pc = "refused"]
  /\ UNCHANGED ci

GateStep ==
  \/ ListRuns \/ ReadRun \/ ReadJobs \/ ReadRunAgain \/ ListAgain \/ RefuseStep

GateNext == GateStep \/ (CiStep /\ UNCHANGED gate)

GateSpec == GateInit /\ [][GateNext]_gateVars

-----------------------------------------------------------------------------
Verdict == IF gate.pc \in {"verified", "refused"} THEN gate.pc ELSE "running"

Atomic == INSTANCE AtomicGate WITH verdict <- Verdict

(* The five reads together are as good as one look at a single moment: at   *)
(* the second list, every run of the commit, older ones and reruns that     *)
(* began in between included, is a success, and so are all jobs of the      *)
(* latest run's current attempt.                                           *)
LooksOnce == Atomic!AtomicSpec
=============================================================================
