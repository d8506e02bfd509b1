-------------------------- MODULE OwnedNativeCommand --------------------------
(***************************************************************************)
(* Invoke-RedactedProcess and Complete-RedactedProcessCleanup of           *)
(* Publish-LegacyRepository.ps1, with the process identity of              *)
(* OwnedNativeCommandProcess.cs: one child process is started, identified, *)
(* read to the end of its output, stopped if need be, and either settled   *)
(* or kept in unresolved custody.  Both output streams are one `pipe', as  *)
(* the code waits for both.  A deadline may pass at any moment.            *)
(*                                                                         *)
(* The publication itself is stated over OwnedCommand, which this          *)
(* implements.                                                             *)
(*                                                                         *)
(* Definitions named <Definition>_<slip> are the definition they precede   *)
(* with a plausible slip in it; nothing uses them.                         *)
(***************************************************************************)

VARIABLES
  child,   \* none, live, gone (and reaped: its PID is free)
  pid,     \* what an observation of the child's PID shows
  acted,   \* the child has done what it was started for
  code0,   \* it has exited with status 0
  pipe,    \* its output: open until nobody holds it any more
  overdue, \* the two seconds for the capture have passed
  struck   \* a signal has reached a process that is not the child

worldVars == <<child, pid, acted, code0, pipe, overdue, struck>>

VARIABLES
  at,       \* where the invocation stands
  start,    \* no attempt, attempted ($null -eq StartResult), started
  seen,     \* the observation that identifies the child
  fd,       \* the process behind the pidfd being opened
  identity, \* the process behind the pidfd of the retained identity
  settled,  \* no read is pending
  failure,  \* an exception was caught
  faulty,   \* CleanupFailed
  kept      \* NativeCommandUnresolvedCustody holds the child

callVars == <<at, start, seen, fd, identity, settled, failure, faulty, kept>>
commandVars == <<worldVars, callVars>>

Capturing == {"capture", "observe", "open", "confirm"}
Stopping == {"stop", "term", "sigterm", "termwait", "kill", "sigkill", "killwait"}
Processes == {"none", "child", "stranger"}
Observations == {"nobody", "child", "execed", "stranger"}

WorldTypes ==
  child \in {"none", "live", "gone"} /\ pid \in Observations /\ pipe \in {"open", "closed"}
CallTypes ==
  /\ at \in {"idle", "read", "settle", "close", "done"} \cup Capturing \cup Stopping
  /\ start \in {"no", "attempted", "yes"} /\ seen \in Observations \cup {"none"}
  /\ fd \in Processes /\ identity \in Processes
Flags ==
  /\ acted \in BOOLEAN /\ code0 \in BOOLEAN /\ overdue \in BOOLEAN /\ struck \in BOOLEAN
  /\ settled \in BOOLEAN /\ failure \in BOOLEAN /\ faulty \in BOOLEAN /\ kept \in BOOLEAN
CommandTypeOK == WorldTypes /\ CallTypes /\ Flags

Fresh ==
  /\ child = "none" /\ pid = "nobody" /\ acted = FALSE /\ code0 = FALSE
  /\ pipe = "closed" /\ overdue = FALSE /\ struck = FALSE
  /\ at = "idle" /\ start = "no" /\ seen = "none" /\ fd = "none" /\ identity = "none"
  /\ settled = TRUE /\ failure = FALSE /\ faulty = FALSE /\ kept = FALSE

\* The next call has objects of its own.
Renew ==
  /\ child' = "none" /\ pid' = "nobody" /\ acted' = FALSE /\ code0' = FALSE
  /\ pipe' = "closed" /\ overdue' = FALSE /\ UNCHANGED struck
  /\ at' = "idle" /\ start' = "no" /\ seen' = "none" /\ fd' = "none" /\ identity' = "none"
  /\ settled' = TRUE /\ failure' = FALSE /\ faulty' = FALSE /\ kept' = FALSE
-----------------------------------------------------------------------------
(* The operating system.                                                    *)

\* The child ends, by itself or by a signal; status 0 only after its work.
ChildEnds ==
  /\ child = "live" /\ child' = "gone" /\ pid' = "nobody"
  /\ \/ acted /\ code0' = TRUE
     \/ UNCHANGED code0
  /\ UNCHANGED <<acted, pipe, overdue, struck, callVars>>

\* A launcher replaces itself by another program.
ReExecs ==
  /\ pid = "child" /\ pid' = "execed"
  /\ UNCHANGED <<child, acted, code0, pipe, overdue, struck, callVars>>

PidReused ==
  /\ child = "gone" /\ pid = "nobody" /\ pid' = "stranger"
  /\ UNCHANGED <<child, acted, code0, pipe, overdue, struck, callVars>>

\* A descendant may hold the output longer than the child lives.
PipeCloses ==
  /\ child = "gone" /\ pipe = "open" /\ pipe' = "closed"
  /\ UNCHANGED <<child, pid, acted, code0, overdue, struck, callVars>>

TimePasses ==
  /\ ~overdue /\ overdue' = TRUE
  /\ UNCHANGED <<child, pid, acted, code0, pipe, struck, callVars>>

System == ChildEnds \/ ReExecs \/ PidReused \/ PipeCloses \/ TimePasses
-----------------------------------------------------------------------------
(* The try block.                                                           *)

Goes(from, to) == at = from /\ at' = to
Raises == failure' = TRUE

\* Process.Start: not reached, returned, or thrown with or without a child.
Start ==
  /\ \/ /\ Goes("idle", "stop") /\ Raises
        /\ UNCHANGED <<child, pid, pipe, start>>
     \/ /\ Goes("idle", "capture") /\ UNCHANGED failure
        /\ start' = "yes" /\ child' = "live" /\ pid' = "child" /\ pipe' = "open"
     \/ /\ Goes("idle", "stop") /\ Raises
        /\ start' = "attempted"
        /\ \/ child' = "live" /\ pid' = "child" /\ pipe' = "open"
           \/ UNCHANGED <<child, pid, pipe>>
  /\ UNCHANGED <<acted, code0, overdue, struck, seen, fd, identity, settled, faulty, kept>>

\* Once identified, or gone before that, both streams are read.
Reads == at' = "read" /\ settled' = FALSE

Capture ==
  /\ at = "capture"
  /\ \/ child = "live" /\ at' = "observe" /\ UNCHANGED settled
     \/ child = "gone" /\ Reads
  /\ UNCHANGED <<worldVars, start, seen, fd, identity, failure, faulty, kept>>

\* An attempt fails: the pidfd is closed and, within the two seconds, the
\* capture is tried again.
Retries_forever ==
  /\ seen' = "none" /\ fd' = "none"
  /\ \/ child = "gone" /\ Reads /\ UNCHANGED failure
     \/ child = "live" /\ at' = "capture" /\ UNCHANGED <<settled, failure>>

Retries ==
  /\ seen' = "none" /\ fd' = "none"
  /\ \/ child = "gone" /\ Reads /\ UNCHANGED failure
     \/ child = "live" /\ ~overdue /\ at' = "capture" /\ UNCHANGED <<settled, failure>>
     \/ child = "live" /\ overdue /\ at' = "stop" /\ Raises /\ UNCHANGED settled

\* ObserveFresh: birth and executable of the process the PID names now.
Observe ==
  /\ at = "observe"
  /\ \/ pid # "nobody" /\ seen' = pid /\ at' = "open" /\ UNCHANGED <<fd, settled, failure>>
     \/ Retries
  /\ UNCHANGED <<worldVars, start, identity, faulty, kept>>

Named == CASE pid \in {"child", "execed"} -> "child"
           [] pid = "stranger" -> "stranger"
           [] OTHER -> "none"

OpenPidfd ==
  /\ at = "open"
  /\ \/ pid # "nobody" /\ fd' = Named /\ at' = "confirm" /\ UNCHANGED <<seen, settled, failure>>
     \/ Retries
  /\ UNCHANGED <<worldVars, start, identity, faulty, kept>>

\* RequireSame of a second observation, and the child has not exited.
Confirm ==
  /\ at = "confirm"
  /\ \/ /\ pid = seen /\ child = "live"
        /\ identity' = fd /\ Reads /\ UNCHANGED <<seen, fd, failure>>
     \/ Retries /\ UNCHANGED identity
  /\ UNCHANGED <<worldVars, start, faulty, kept>>

\* The loop ends when the child has exited and both streams are at their end.
ReadWhen(finished) ==
  /\ at = "read" /\ at' = "stop"
  /\ \/ finished /\ settled' = (pipe = "closed") /\ UNCHANGED failure
     \/ Raises /\ settled' = (pipe = "closed")  \* deadline, bound or a read failed
  /\ UNCHANGED <<worldVars, start, seen, fd, identity, faulty, kept>>

Read == ReadWhen(child = "gone" /\ pipe = "closed")
-----------------------------------------------------------------------------
(* Complete-RedactedProcessCleanup: every action is tried, a failing one    *)
(* is remembered.                                                           *)

Faults == faulty' = TRUE
NextAction(from, to) == Goes(from, to) /\ UNCHANGED faulty
FailsAt(from) == Goes(from, "settle") /\ Faults
KeepsCall == UNCHANGED <<start, seen, fd, identity, settled, failure, kept>>

\* HasExited throws for a process whose start was uncertain.
Stop ==
  /\ \/ start = "no" /\ NextAction("stop", "settle")
     \/ start = "yes" /\ child = "gone" /\ NextAction("stop", "settle")
     \/ start = "yes" /\ child = "live" /\ identity # "none" /\ NextAction("stop", "term")
     \/ start = "attempted" /\ FailsAt("stop")
     \/ start = "yes" /\ child = "live" /\ identity = "none" /\ FailsAt("stop")
  /\ KeepsCall /\ UNCHANGED worldVars

\* VerifyFresh: the PID must still show what identified the child.
Verify(from, to) ==
  /\ \/ pid = seen /\ NextAction(from, to)
     \/ pid # seen /\ FailsAt(from)
  /\ KeepsCall /\ UNCHANGED worldVars

Strikes(target) == struck' = (struck \/ target = "stranger")

\* pidfd_send_signal; a child that has exited meanwhile is not an error.
Signal_byPid(from, to) ==
  /\ \/ Strikes(Named) /\ NextAction(from, to)
     \/ UNCHANGED struck /\ FailsAt(from)
  /\ KeepsCall /\ UNCHANGED <<child, pid, acted, code0, pipe, overdue>>

Signal(from, to) ==
  /\ \/ Strikes(identity) /\ NextAction(from, to)
     \/ UNCHANGED struck /\ FailsAt(from)
  /\ KeepsCall /\ UNCHANGED <<child, pid, acted, code0, pipe, overdue>>

GracefulVerify == Verify("term", "sigterm")
Graceful == Signal("sigterm", "termwait")
EscalateVerify == Verify("kill", "sigkill")
Escalate == Signal("sigkill", "killwait")

\* WaitForExit: two seconds after the first signal, ten after the second.
Wait ==
  /\ \/ child = "gone" /\ NextAction("termwait", "settle")
     \/ child = "live" /\ NextAction("termwait", "kill")
     \/ child = "gone" /\ NextAction("killwait", "settle")
     \/ child = "live" /\ FailsAt("killwait")
  /\ KeepsCall /\ UNCHANGED worldVars

\* The reads are cancelled and given five seconds.
Settle ==
  /\ Goes("settle", "close")
  /\ \/ settled' = TRUE /\ UNCHANGED faulty
     \/ ~settled /\ UNCHANGED settled /\ Faults
     \/ failure /\ settled' = TRUE /\ Faults  \* a read has faulted
  /\ UNCHANGED <<worldVars, start, seen, fd, identity, failure, kept>>

Exited == start = "no" \/ (start = "yes" /\ child = "gone")

\* Everything is disposed, or all of it is kept.
CloseWhen(released) ==
  /\ Goes("close", "done")
  /\ \E disposed \in BOOLEAN :
       LET loose == ~(released /\ settled /\ disposed) IN
         kept' = loose /\ faulty' = (faulty \/ loose)
  /\ UNCHANGED <<worldVars, start, seen, fd, identity, settled, failure>>

Close_started == CloseWhen(start # "attempted")
Close == CloseWhen(Exited)

Invocation ==
  \/ Start \/ Capture \/ Observe \/ OpenPidfd \/ Confirm \/ Read
  \/ Stop \/ GracefulVerify \/ Graceful \/ EscalateVerify \/ Escalate \/ Wait
  \/ Settle \/ Close

\* How the invocation has ended: it throws, or returns for the exit status.
Throws == failure \/ faulty
Phase == IF at = "idle" THEN "idle"
         ELSE IF at # "done" THEN "running"
         ELSE IF Throws THEN "thrown"
         ELSE IF code0 THEN "returned" ELSE "nonzero"

\* The child's own work, and the next call of the publisher.
Work ==
  /\ child = "live" /\ ~acted /\ acted' = TRUE
  /\ UNCHANGED <<child, pid, code0, pipe, overdue, struck, callVars>>
Again == at = "done" /\ Renew

Next == Invocation \/ System \/ Work \/ Again
Spec == Fresh /\ [][Next]_commandVars

\* The publisher's process runs, and its deadlines pass.
FairSpec == Spec /\ WF_commandVars(Invocation) /\ WF_commandVars(TimePasses)
-----------------------------------------------------------------------------
\* Whatever happens to the child and to its PID, no other process is signalled.
StrikesOnlyChild == ~struck

\* A call that ends is over, with its output read to the end, or has thrown
\* and keeps the child that may still run.
SettledOrKept ==
  at = "done" =>
    /\ child = "live" \/ ~settled => kept
    /\ kept => Throws
    /\ ~Throws => start = "yes" /\ child = "gone" /\ pipe = "closed"

\* The publication may rely on OwnedCommand.
Promise == INSTANCE OwnedCommand WITH phase <- Phase
KeepsPromise == Promise!CommandSpec

\* Every call ends, however long its child lives or holds its output.
CallEnds == at # "idle" ~> at = "done"
=============================================================================
