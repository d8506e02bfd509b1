----------------------------- MODULE AtomicGate -----------------------------
(***************************************************************************)
(* What the validation gate of the publisher promises: it looks at the      *)
(* commit once, at some moment while it runs, and passes only a green one.  *)
(***************************************************************************)
EXTENDS CiRuns

VARIABLE verdict

AtomicInit == CiInit /\ verdict = "running"

Pass == verdict = "running" /\ Green /\ verdict' = "verified" /\ UNCHANGED ci
Refuse == verdict = "running" /\ verdict' = "refused" /\ UNCHANGED ci
World == CiStep /\ UNCHANGED verdict

AtomicSpec == AtomicInit /\ [][Pass \/ Refuse \/ World]_<<ci, verdict>>
=============================================================================
