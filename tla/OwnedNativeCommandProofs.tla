----------------------- MODULE OwnedNativeCommandProofs -----------------------
(***************************************************************************)
(* Proofs about OwnedNativeCommand: types, that only the child is          *)
(* signalled, that a call ends settled or keeps its child, and that it     *)
(* implements OwnedCommand.                                                *)
(***************************************************************************)
EXTENDS OwnedNativeCommand, TLAPS

Reading == Capturing \cup {"read"}

\* What the first action finds, for every call anew.
Unused ==
  at = "idle" =>
    start = "no" /\ child = "none" /\ acted = FALSE /\ kept = FALSE /\ identity = "none"

\* A PID names its child as long as the child lives.
Birth == child = "live" => pid \in {"child", "execed"}

\* Why the identity is the child: the descriptor was opened while the child,
\* which lives at the confirmation, had its PID.
Opened == at = "confirm" /\ child = "live" => fd = "child"
Identified == identity # "stranger" /\ struck = FALSE

\* What is known of the child wherever the call stands.
Started ==
  /\ at \in Reading => start = "yes" /\ child # "none"
  /\ start = "no" => child = "none"

\* Only a call whose read came to the end has no failure afterwards.
Finished ==
  at \notin Reading \cup {"idle"} /\ failure = FALSE =>
    start = "yes" /\ child = "gone" /\ pipe = "closed"

Kept ==
  /\ kept = TRUE => at = "done" /\ faulty = TRUE
  /\ at = "done" /\ (child = "live" \/ settled = FALSE) => kept = TRUE
  /\ code0 = TRUE => acted = TRUE

IInv ==
  /\ CommandTypeOK
  /\ Unused /\ Birth /\ Opened /\ Identified /\ Started /\ Finished /\ Kept

USE DEF CommandTypeOK, WorldTypes, CallTypes, Flags, Capturing, Stopping, Processes,
        Observations
-----------------------------------------------------------------------------
\* The first call finds the invariant.
LEMMA InitInv == Fresh => IInv
  BY DEF Fresh, IInv, Unused, Birth, Opened, Identified, Started,
         Finished, Kept, Reading

\* What the system and the child do keeps it.
LEMMA SystemInv == IInv /\ (System \/ Work) => IInv'
<1> SUFFICES ASSUME IInv, System \/ Work PROVE IInv'
  OBVIOUS
<1> USE DEF IInv, Unused, Birth, Opened, Identified, Started,
            Finished, Kept, Reading, callVars
<1>1. CASE ChildEnds
  <2>1. WorldTypes' /\ CallTypes'
    BY <1>1 DEF ChildEnds
  <2>2. Flags'
    BY <1>1 DEF ChildEnds
  <2>3. Unused' /\ Birth' /\ Opened' /\ Identified' /\ Started' /\ Finished' /\ Kept'
    BY <1>1 DEF ChildEnds
  <2> QED
    BY <2>1, <2>2, <2>3
<1>2. CASE ReExecs
  BY <1>2 DEF ReExecs
<1>3. CASE PidReused
  BY <1>3 DEF PidReused
<1>4. CASE PipeCloses
  BY <1>4 DEF PipeCloses
<1>5. CASE TimePasses
  BY <1>5 DEF TimePasses
<1>6. CASE Work
  BY <1>6 DEF Work
<1> QED
  BY <1>1, <1>2, <1>3, <1>4, <1>5, <1>6 DEF System

\* Each action of the try block keeps it.
LEMMA ReadingInv ==
  IInv /\ (Start \/ Capture \/ Observe \/ OpenPidfd \/ Confirm \/ Read) => IInv'
<1> SUFFICES ASSUME IInv, Start \/ Capture \/ Observe \/ OpenPidfd \/ Confirm \/ Read
             PROVE  IInv'
  OBVIOUS
<1> USE DEF IInv, Unused, Birth, Opened, Identified, Started,
            Finished, Kept, Reading, worldVars, Goes, Raises, Reads
<1>1. CASE Start
  <2>1. WorldTypes' /\ CallTypes'
    BY <1>1 DEF Start
  <2>2. Flags'
    BY <1>1 DEF Start
  <2>3. Unused' /\ Birth' /\ Opened' /\ Identified' /\ Started' /\ Finished' /\ Kept'
    BY <1>1 DEF Start
  <2> QED
    BY <2>1, <2>2, <2>3
<1>2. CASE Capture
  <2>1. WorldTypes' /\ CallTypes'
    BY <1>2 DEF Capture
  <2>2. Flags'
    BY <1>2 DEF Capture
  <2>3. Unused' /\ Birth' /\ Opened' /\ Identified' /\ Started' /\ Finished' /\ Kept'
    BY <1>2 DEF Capture
  <2> QED
    BY <2>1, <2>2, <2>3
<1>3. CASE Observe
  <2>1. WorldTypes' /\ CallTypes'
    BY <1>3 DEF Observe, Retries
  <2>2. Flags'
    BY <1>3 DEF Observe, Retries
  <2>3. Unused' /\ Birth' /\ Opened' /\ Identified' /\ Started' /\ Finished' /\ Kept'
    BY <1>3 DEF Observe, Retries
  <2> QED
    BY <2>1, <2>2, <2>3
<1>4. CASE OpenPidfd
  <2>1. WorldTypes' /\ CallTypes'
    BY <1>4 DEF OpenPidfd, Retries, Named
  <2>2. Flags'
    BY <1>4 DEF OpenPidfd, Retries, Named
  <2>3. Unused' /\ Birth' /\ Opened' /\ Identified' /\ Started' /\ Finished' /\ Kept'
    BY <1>4 DEF OpenPidfd, Retries, Named
  <2> QED
    BY <2>1, <2>2, <2>3
<1>5. CASE Confirm
  <2>1. WorldTypes' /\ CallTypes'
    BY <1>5 DEF Confirm, Retries
  <2>2. Flags'
    BY <1>5 DEF Confirm, Retries
  <2>3. Unused' /\ Birth' /\ Opened' /\ Identified' /\ Started' /\ Finished' /\ Kept'
    BY <1>5 DEF Confirm, Retries
  <2> QED
    BY <2>1, <2>2, <2>3
<1>6. CASE Read
  <2>1. WorldTypes' /\ CallTypes'
    BY <1>6 DEF Read, ReadWhen
  <2>2. Flags'
    BY <1>6 DEF Read, ReadWhen
  <2>3. Unused' /\ Birth' /\ Opened' /\ Identified' /\ Started' /\ Finished' /\ Kept'
    BY <1>6 DEF Read, ReadWhen
  <2> QED
    BY <2>1, <2>2, <2>3
<1> QED
  BY <1>1, <1>2, <1>3, <1>4, <1>5, <1>6

\* Each action of the cleanup keeps it.
LEMMA CleanupInv ==
  ASSUME IInv,
         Stop \/ GracefulVerify \/ Graceful \/ EscalateVerify \/ Escalate \/ Wait \/ Settle \/ Close
  PROVE  IInv'
<1> USE DEF IInv, Unused, Birth, Opened, Identified, Started, Finished,
            Kept, Reading, worldVars, Goes, NextAction, FailsAt, Faults, KeepsCall
<1>1. CASE Stop
  <2>1. WorldTypes' /\ CallTypes'
    BY <1>1 DEF Stop
  <2>2. Flags'
    BY <1>1 DEF Stop
  <2>3. Unused' /\ Birth' /\ Opened' /\ Identified' /\ Started' /\ Finished' /\ Kept'
    BY <1>1 DEF Stop
  <2> QED
    BY <2>1, <2>2, <2>3
<1>2. CASE GracefulVerify \/ EscalateVerify
  BY <1>2 DEF GracefulVerify, EscalateVerify, Verify
<1>3. CASE Graceful \/ Escalate
  BY <1>3 DEF Graceful, Escalate, Signal, Strikes
<1>4. CASE Wait
  <2>1. WorldTypes' /\ CallTypes'
    BY <1>4 DEF Wait
  <2>2. Flags'
    BY <1>4 DEF Wait
  <2>3. Unused' /\ Birth' /\ Opened' /\ Identified' /\ Started' /\ Finished' /\ Kept'
    BY <1>4 DEF Wait
  <2> QED
    BY <2>1, <2>2, <2>3
<1>5. CASE Settle
  <2>1. WorldTypes' /\ CallTypes'
    BY <1>5 DEF Settle
  <2>2. Flags'
    BY <1>5 DEF Settle
  <2>3. Unused' /\ Birth' /\ Opened' /\ Identified' /\ Started' /\ Finished' /\ Kept'
    BY <1>5 DEF Settle
  <2> QED
    BY <2>1, <2>2, <2>3
<1>6. CASE Close
  <2>1. WorldTypes' /\ CallTypes'
    BY <1>6 DEF Close, CloseWhen, Exited
  <2>2. Flags'
    BY <1>6 DEF Close, CloseWhen, Exited
  <2>3. Unused' /\ Birth' /\ Opened' /\ Identified' /\ Started' /\ Finished' /\ Kept'
    BY <1>6 DEF Close, CloseWhen, Exited
  <2> QED
    BY <2>1, <2>2, <2>3
<1> QED
  BY <1>1, <1>2, <1>3, <1>4, <1>5, <1>6

\* Every step keeps it.
LEMMA NextInv == IInv /\ [Next]_commandVars => IInv'
<1> SUFFICES ASSUME IInv, [Next]_commandVars PROVE IInv'
  OBVIOUS
<1>1. CASE Invocation
  BY <1>1, ReadingInv, CleanupInv DEF Invocation
<1>2. CASE System \/ Work
  BY <1>2, SystemInv
<1>3. CASE Again
  BY <1>3 DEF Again, Renew, IInv, Unused, Birth, Opened, Identified,
              Started, Finished, Kept, Reading
<1>4. CASE UNCHANGED commandVars
  BY <1>4 DEF commandVars, worldVars, callVars, IInv, Unused, Birth,
              Opened, Identified, Started, Finished, Kept, Reading
<1> QED
  BY <1>1, <1>2, <1>3, <1>4 DEF Next

\* The invariant of every call.
THEOREM Invariance == Spec => []IInv
  BY InitInv, NextInv, PTL DEF Spec
-----------------------------------------------------------------------------
\* The state of a call keeps its types.
THEOREM TypeCorrect == Spec => []CommandTypeOK
<1>1. IInv => CommandTypeOK
  BY DEF IInv
<1> QED
  BY <1>1, Invariance, PTL

\* Whatever happens to the child and to its PID, no other process is signalled.
THEOREM OnlyChildIsStruck == Spec => []StrikesOnlyChild
<1>1. IInv => StrikesOnlyChild
  BY DEF IInv, Identified, StrikesOnlyChild
<1> QED
  BY <1>1, Invariance, PTL

\* A call that ends is over, or has thrown and keeps the child.
THEOREM CallSettles == Spec => []SettledOrKept
<1>1. IInv => SettledOrKept
  BY DEF IInv, Finished, Kept, SettledOrKept, Throws, Reading
<1> QED
  BY <1>1, Invariance, PTL
-----------------------------------------------------------------------------
(* OwnedNativeCommand implements OwnedCommand.                              *)

\* A step of a call under way, or of the world around it, shows nothing.
LEMMA StutterStep ==
  ASSUME IInv,
         \/ Capture \/ Observe \/ OpenPidfd \/ Confirm \/ Read \/ Stop \/ GracefulVerify
         \/ Graceful \/ EscalateVerify \/ Escalate \/ Wait \/ Settle
         \/ ReExecs \/ PidReused \/ PipeCloses \/ TimePasses \/ UNCHANGED commandVars
  PROVE  UNCHANGED Promise!commandVars
<1>1. CASE ReExecs \/ PidReused \/ PipeCloses \/ TimePasses \/ UNCHANGED commandVars
  BY <1>1 DEF ReExecs, PidReused, PipeCloses, TimePasses, Phase, Throws,
              Promise!commandVars, commandVars, callVars, worldVars
<1>2. CASE Capture \/ Observe \/ OpenPidfd \/ Confirm \/ Read
  BY <1>2 DEF Capture, Observe, OpenPidfd, Confirm, Read, ReadWhen, Retries, Reads,
              Phase, Promise!commandVars, worldVars
<1>3. CASE Stop \/ GracefulVerify \/ Graceful \/ EscalateVerify \/ Escalate \/ Wait \/ Settle
  BY <1>3 DEF Stop, GracefulVerify, Graceful, EscalateVerify, Escalate, Verify, Signal,
              Wait, Settle, Goes, NextAction, FailsAt, KeepsCall, Phase,
              Promise!commandVars, worldVars
<1> QED
  BY <1>1, <1>2, <1>3

\* Every step is one of OwnedCommand, or shows nothing.
LEMMA StepSimulation == IInv /\ [Next]_commandVars => [Promise!CommandNext]_Promise!commandVars
<1> SUFFICES ASSUME IInv, [Next]_commandVars
             PROVE  [Promise!CommandNext]_Promise!commandVars
  OBVIOUS
<1>1. CASE Start
  <2>1. Promise!Begin
    BY <1>1 DEF Start, Goes, Phase, IInv, Unused, Promise!Begin
  <2> QED
    BY <2>1 DEF Promise!CommandNext, Promise!Call
<1>2. CASE Close
  <2>1. Phase = "running" /\ Phase' \in {"thrown", "returned", "nonzero"}
    BY <1>2 DEF Close, CloseWhen, Goes, Phase
  <2>2. CASE Phase' = "thrown"
    <3>1. child = "live" => kept'
      BY <1>2 DEF Close, CloseWhen, Exited, IInv, Started
    <3>2. kept' \in BOOLEAN /\ UNCHANGED <<child, acted>>
      BY <1>2 DEF Close, CloseWhen, worldVars
    <3> QED
      BY <2>1, <2>2, <3>1, <3>2 DEF Promise!Throw, Promise!Call, Promise!CommandNext
  <2>3. CASE Phase' # "thrown"
    <3>1. failure = FALSE /\ kept' = FALSE /\ UNCHANGED <<child, acted, code0>>
      BY <1>2, <2>3 DEF Close, CloseWhen, Goes, Phase, Throws, IInv, worldVars
    <3>2. child = "gone" /\ kept = FALSE
      BY <1>2, <3>1 DEF Close, CloseWhen, Goes, IInv, Finished, Kept, Reading
    <3>3. Phase' = "returned" => acted
      BY <1>2, <3>1 DEF Phase, IInv, Kept
    <3> QED
      BY <2>1, <2>3, <3>1, <3>2, <3>3 DEF Promise!Return, Promise!Call, Promise!CommandNext
  <2> QED
    BY <2>2, <2>3
<1>3. CASE ChildEnds
  <2>1. Phase' = Phase
    BY <1>3 DEF ChildEnds, callVars, Phase, Throws, IInv, Finished, Reading
  <2> QED
    BY <1>3, <2>1 DEF ChildEnds, callVars, Promise!ChildEnds, Promise!CommandNext
<1>4. CASE Work
  BY <1>4 DEF Work, callVars, Phase, Throws, Promise!Work, Promise!CommandNext
<1>5. CASE Again
  BY <1>5 DEF Again, Renew, Phase, Promise!Again, Promise!Renew, Promise!CommandNext
<1>6. CASE ~(Start \/ Close \/ ChildEnds \/ Work \/ Again)
  BY <1>6, StutterStep DEF Next, Invocation, System
<1> QED
  BY <1>1, <1>2, <1>3, <1>4, <1>5, <1>6

\* The publication may rely on OwnedCommand.
THEOREM CallKeepsPromise == Spec => KeepsPromise
<1>1. Fresh => Promise!Fresh
  BY DEF Fresh, Phase, Promise!Fresh
<1> QED
  BY <1>1, Invariance, StepSimulation, PTL DEF Spec, KeepsPromise, Promise!CommandSpec
=============================================================================
