------------------------------- MODULE CiRuns -------------------------------
(***************************************************************************)
(* The validation runs of one commit on GitHub, as the image publisher sees *)
(* them (external): runs of ci-main.yml for a push of that SHA to main, each *)
(* with numbered attempts.  A run may start, or be rerun, at any moment.    *)
(***************************************************************************)
EXTENDS Naturals

CONSTANTS
  RunCount,   \* bound: runs of the commit
  MaxAttempt  \* bound: attempts of a run

ASSUME CiBounds == RunCount \in Nat \ {0} /\ MaxAttempt \in Nat \ {0}

VARIABLE ci   \* ci[r]: attempt (0: not started), status, outcome per attempt

Runs == 1 .. RunCount

(* A completed attempt has "passed" when every job succeeded and there was  *)
(* one validate job; "thin" when the run succeeded with a job skipped or    *)
(* without its validate job.                                               *)
Outcomes == {"none", "passed", "thin", "failed"}

CiTypeOK ==
  ci \in [Runs -> [attempt : 0 .. MaxAttempt, status : {"active", "completed"},
                   outcome : [1 .. MaxAttempt -> Outcomes]]]

CiInit ==
  ci = [r \in Runs |-> [attempt |-> 0, status |-> "completed",
                        outcome |-> [a \in 1 .. MaxAttempt |-> "none"]]]

Existing == {r \in Runs : ci[r].attempt # 0}

Activate(r, n) ==
  ci' = [ci EXCEPT ![r] = [attempt |-> n, status |-> "active", outcome |-> ci[r].outcome]]

StartRun(r) ==
  /\ ci[r].attempt = 0
  /\ \A q \in Runs : q < r => q \in Existing
  /\ Activate(r, 1)

Rerun(r) ==
  /\ ci[r].attempt \in 1 .. (MaxAttempt - 1)
  /\ ci[r].status = "completed"
  /\ Activate(r, ci[r].attempt + 1)

Complete(r) ==
  /\ ci[r].status = "active"
  /\ \E o \in Outcomes \ {"none"} :
       ci' = [ci EXCEPT ![r].status = "completed", ![r].outcome[ci[r].attempt] = o]

CiStep == \E r \in Runs : StartRun(r) \/ Rerun(r) \/ Complete(r)

-----------------------------------------------------------------------------
(* status completed, conclusion success.                                   *)
Succeeded(r) ==
  ci[r].status = "completed" /\ ci[r].outcome[ci[r].attempt] \in {"passed", "thin"}

IsLatest(r) == r \in Existing /\ \A q \in Existing : q <= r

(* Every job of an attempt succeeded, and one of them is the validate job.  *)
JobsPassed(r, attempt) == ci[r].outcome[attempt] = "passed"

(* What the publisher wants to know: every run of the commit is a success   *)
(* now, and every job of the latest one too.                               *)
Green ==
  /\ Existing # {}
  /\ \A r \in Existing : Succeeded(r)
  /\ \A r \in Existing : IsLatest(r) => JobsPassed(r, ci[r].attempt)
=============================================================================
