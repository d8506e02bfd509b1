----------------------------- MODULE OwnedCommand -----------------------------
(***************************************************************************)
(* What Invoke-RedactedProcess of Publish-LegacyRepository.ps1 promises    *)
(* the publication: a command runs as one child process; when the call     *)
(* returns, the child is gone, and when it cannot be known to be gone, the *)
(* call throws and the child is kept.  OwnedNativeCommand implements it.   *)
(***************************************************************************)

VARIABLES
  phase, \* of the call: idle, running, or how it ended
  child, \* none, live, gone
  acted, \* the child has done what it was started for
  kept   \* the call has ended and holds on to its child

commandVars == <<phase, child, acted, kept>>

CommandTypeOK ==
  /\ phase \in {"idle", "running", "returned", "nonzero", "thrown"}
  /\ child \in {"none", "live", "gone"}
  /\ {acted, kept} \subseteq BOOLEAN

Fresh == phase = "idle" /\ child = "none" /\ acted = FALSE /\ kept = FALSE
Renew == phase' = "idle" /\ child' = "none" /\ acted' = FALSE /\ kept' = FALSE

Begin ==
  /\ phase = "idle" /\ phase' = "running"
  /\ child' \in {"none", "live"}
  /\ UNCHANGED <<acted, kept>>

ChildEnds ==
  /\ child = "live" /\ child' = "gone"
  /\ UNCHANGED <<phase, acted, kept>>

Work == child = "live" /\ ~acted /\ acted' = TRUE /\ UNCHANGED <<phase, child, kept>>

\* A call returns for status 0 or another one only over a child that is gone,
\* and for status 0 only when it has done its work.
Return ==
  /\ phase = "running" /\ child = "gone"
  /\ \/ acted /\ phase' = "returned"
     \/ phase' = "nonzero"
  /\ UNCHANGED <<child, acted, kept>>

Throw ==
  /\ phase = "running" /\ phase' = "thrown"
  /\ kept' \in BOOLEAN /\ (child = "live" => kept')
  /\ UNCHANGED <<child, acted>>

Call == Begin \/ Return \/ Throw

\* The next call has a child of its own.
Again == phase \in {"returned", "nonzero", "thrown"} /\ Renew

CommandNext == Call \/ ChildEnds \/ Work \/ Again
CommandSpec == Fresh /\ [][CommandNext]_commandVars
=============================================================================
