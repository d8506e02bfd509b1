------------------------------- MODULE OwnedStage -------------------------------
(***************************************************************************)
(* Controller.run of normal_validation_controller.py, with its cleanup and *)
(* cleanup_wrapper, and the exec gate of normal_validation_exec_gate.py:   *)
(* one validation stage under kernel custody.  The controller may fail at  *)
(* any call, be cancelled by a signal (install_cancellation of             *)
(* normal_validation_custody.py), or be killed at any point.               *)
(*                                                                         *)
(* `receipt' is the custody record in memory, `disk' the one last saved.   *)
(***************************************************************************)
EXTENDS UserManager

CONSTANTS SetupDelay,  \* bound: the longest way from the preflight to Popen
          MaxFaults    \* bound: calls of the controller that fail by themselves

ASSUME StageAssumption ==
  /\ SetupDelay \in Nat /\ SetupDelay + ActivationDelay <= Reserve
  /\ MaxFaults \in Nat

VARIABLES pc,
          receipt,    \* the custody record
          disk,       \* its last saved version, NoRecord before the first
          pending,    \* a failed save left its exclusive .pending file behind
          payload,    \* the exec vector: none, sent, or the peer closed
          started,    \* startedMono
          expiry,     \* expiryMono
          failed,     \* an exception is propagating
          cancelled,  \* the first cancellation has been delivered
          faults

stageVars == <<pc, receipt, disk, pending, payload, started, expiry, failed, cancelled, faults>>
vars == <<managerVars, stageVars>>

Receipt == [invocation : BOOLEAN,     \* pre-exec custody proven: invocation, scope, helper
            native : BOOLEAN,         \* helper to SDK transition observed
            terminal : BOOLEAN,       \* terminalBeforeStop
            cleanTerminal : BOOLEAN,  \* cleanupTerminal
            absent : BOOLEAN,         \* scopeAbsent, nativeExitVerified, unitTerminal
            wrapperExit : BOOLEAN]    \* wrapperExitVerified, wrapperPidfdExited
Intent == [invocation |-> FALSE, native |-> FALSE, terminal |-> FALSE,
           cleanTerminal |-> FALSE, absent |-> FALSE, wrapperExit |-> FALSE]
NoRecord == [none |-> TRUE]

Before == {"PREFLIGHT", "INTENT"}
Body == {"LAUNCH", "WRAP", "ACCEPT", "PROVE", "SAVE", "SEND", "TRANSITION", "WATCH",
         "STOP", "WAIT"}
Cleaning == {"REACQUIRE", "CLEAN", "CLEANSTOP", "SETTLE"}
Ended == {"RETURNED", "RAISED", "KILLED"}

StageTypeOK ==
  /\ ManagerTypeOK
  /\ pc \in Before \cup Body \cup Cleaning \cup {"WRAPPER", "FINAL"} \cup Ended
  /\ receipt \in Receipt
  /\ disk \in Receipt \cup {NoRecord}
  /\ pending \in BOOLEAN
  /\ payload \in {"none", "sent", "closed"}
  /\ started \in Nat /\ expiry \in Nat
  /\ failed \in BOOLEAN
  /\ cancelled \in BOOLEAN
  /\ faults \in 0..MaxFaults

Init ==
  /\ ManagerInit
  /\ pc = "PREFLIGHT"
  /\ receipt = Intent
  /\ disk = NoRecord
  /\ pending = FALSE
  /\ payload = "none"
  /\ started = 0 /\ expiry = 0
  /\ failed = FALSE
  /\ cancelled = FALSE
  /\ faults = 0
-----------------------------------------------------------------------------
\* Budget.remaining: native work stops RESERVE before the job ends, cleanup
\* may use the reserve.
InBudget == now < NativeEnd
InCleanup == now < JobEnd

\* The call at hand raises by itself, or the first cancellation arrives in it.
Trip ==
  \/ faults < MaxFaults /\ faults' = faults + 1 /\ UNCHANGED cancelled
  \/ ~cancelled /\ cancelled' = TRUE /\ UNCHANGED faults
NoTrip == UNCHANGED <<faults, cancelled>>

\* An exception leaves the block it is raised in for the next `finally'.
Abort ==
  /\ failed' = TRUE
  /\ pc' = CASE pc \in Before \cup {"FINAL"} -> "RAISED"
             [] pc \in Body -> "REACQUIRE"
             [] pc \in Cleaning -> "WRAPPER"
             [] OTHER -> "FINAL"
  \* the gate's peer is closed first
  /\ payload' = IF payload = "none" THEN "closed" ELSE payload

Proceed(step) == pc' = step /\ NoTrip /\ UNCHANGED <<failed, payload>>

\* save(): an exclusive .pending file renamed over the record.
Saved == ~pending /\ disk' = receipt' /\ UNCHANGED pending
SaveFails == UNCHANGED disk /\ (UNCHANGED pending \/ pending' = TRUE)
SaveTried == Saved \/ SaveFails

\* The record is saved and the step goes on, or an exception is raised.
SaveAndProceed(next) ==
  \/ Saved /\ Proceed(next)
  \/ pending /\ SaveFails /\ Abort /\ NoTrip
  \/ SaveTried /\ Trip /\ Abort

\* An exception that leaves the records alone.
RaiseIf(doomed) ==
  /\ \/ doomed /\ NoTrip
     \/ Trip
  /\ Abort
  /\ UNCHANGED <<receipt, disk, pending>>
-----------------------------------------------------------------------------
Smaller(a, b) == IF a <= b THEN a ELSE b
StageSeconds_untilDeadline == Smaller(StageCap, JobEnd - now)
StageSeconds == Smaller(StageCap, NativeEnd - now)

Preflight ==
  /\ pc = "PREFLIGHT"
  /\ \/ /\ InBudget /\ Proceed("INTENT")
        /\ started' = now /\ expiry' = now + StageSeconds
        /\ UNCHANGED <<receipt, disk, pending>>
     \/ RaiseIf(~InBudget) /\ UNCHANGED <<started, expiry>>
  /\ UNCHANGED managerVars

\* A record that must be on disk before the next step.
SaveStep(step, next) ==
  /\ pc = step
  /\ UNCHANGED <<managerVars, receipt, started, expiry>>
  /\ SaveAndProceed(next)

SaveIntent == SaveStep("INTENT", "LAUNCH")

\* Popen of systemd-run, with the whole of the stage's seconds as RuntimeMaxSec:
\* the lease begins with the unit.  An exception inside Popen loses the handle
\* of a wrapper that may be running all the same.
LeaseSeconds_none == MaxTime
LeaseSeconds == expiry - started
Requested == unit' = [state |-> "activating", due |-> now + ActivationDelay,
                      runtime |-> LeaseSeconds]

Launch ==
  /\ pc = "LAUNCH"
  /\ \/ InBudget /\ Requested /\ wrapper' = "running" /\ Proceed("WRAP")
     \/ InBudget /\ Requested /\ UNCHANGED wrapper /\ Trip /\ Abort
     \/ UNCHANGED <<unit, wrapper>> /\ Trip /\ Abort
     \/ ~InBudget /\ UNCHANGED <<unit, wrapper>> /\ Abort /\ NoTrip
  /\ UNCHANGED <<procs, program, exit0, now, receipt, disk, pending, started, expiry>>

\* pidfd and identity of the wrapper, and their record.
Wrap ==
  /\ pc = "WRAP"
  /\ UNCHANGED <<managerVars, receipt, started, expiry>>
  /\ \/ wrapper = "running" /\ SaveAndProceed("ACCEPT")
     \/ RaiseIf(wrapper # "running")

GateWaits == unit.state = "running" /\ program = "gate" /\ "main" \in procs

\* The gate connects and says READY, or the socket times out.
Accept ==
  /\ pc = "ACCEPT"
  /\ \/ GateWaits /\ InBudget /\ Proceed("PROVE") /\ UNCHANGED <<receipt, disk, pending>>
     \/ RaiseIf(~GateWaits \/ ~InBudget)
  /\ UNCHANGED <<managerVars, started, expiry>>

\* prove(): the unit's properties, its main process and the kernel limits.
Proven == unit.state = "running" /\ "main" \in procs

Prove ==
  /\ pc = "PROVE"
  /\ \/ /\ Proven /\ InBudget /\ Proceed("SAVE")
        /\ receipt' = [receipt EXCEPT !.invocation = TRUE]
        /\ UNCHANGED <<disk, pending>>
     \/ RaiseIf(~Proven \/ ~InBudget)
  /\ UNCHANGED <<managerVars, started, expiry>>

SaveCustody == SaveStep("SAVE", "SEND")

\* The payload releases the gate; the exception may come after the send.
Send ==
  /\ pc = "SEND"
  /\ \/ /\ InBudget /\ GateWaits /\ payload' = "sent"
        /\ \/ pc' = "TRANSITION" /\ NoTrip /\ UNCHANGED failed
           \/ pc' = "REACQUIRE" /\ Trip /\ failed' = TRUE
        /\ UNCHANGED <<receipt, disk, pending>>
     \/ RaiseIf(~InBudget \/ ~GateWaits)
  /\ UNCHANGED <<managerVars, started, expiry>>

\* The same kernel identity must be seen executing the SDK within five seconds.
Transition ==
  /\ pc = "TRANSITION"
  /\ \/ /\ program = "sdk" /\ "main" \in procs
        /\ receipt' = [receipt EXCEPT !.native = TRUE]
        /\ SaveAndProceed("WATCH")
     \/ RaiseIf(program # "sdk" \/ "main" \notin procs)
  /\ UNCHANGED <<managerVars, started, expiry>>
-----------------------------------------------------------------------------
\* terminal_authority of the observed unit, and owned(): a unit that is gone is
\* admitted only on a retained terminal observation of this invocation.
TerminalState == unit.state \in {"exited", "dead", "failed"}
Owned == Loaded \/ (receipt.invocation /\ (receipt.terminal \/ receipt.cleanTerminal))

KernelAbsent_mainOnly == "main" \notin procs

\* kernel_absent: no process in the scope or below it.
KernelAbsent == procs = {}

Succeeded == unit.state = "exited" /\ exit0 /\ "main" \notin procs

\* Poll the unit until it has exited with success; any other end is waited for
\* until the stage expires.  The terminal observation is kept also where the
\* scope turns out to be populated.
Watch ==
  /\ pc = "WATCH"
  /\ \/ /\ InBudget /\ Succeeded
        /\ receipt' = [receipt EXCEPT !.terminal = TRUE]
        /\ IF KernelAbsent THEN SaveAndProceed("STOP")
           ELSE Abort /\ NoTrip /\ UNCHANGED <<disk, pending>>
     \/ RaiseIf(~InBudget \/ ~Owned \/ (~Succeeded /\ now >= expiry))
  /\ UNCHANGED <<managerVars, started, expiry>>

\* systemctl stop by name; the call may fail before it or after it.
StopUnit == IF unit.state \in {"running", "exited"} THEN Kill("dead")
                                                    ELSE UNCHANGED managerVars

StopStep(step, inTime, next) ==
  /\ pc = step
  /\ \/ /\ inTime /\ StopUnit
        /\ \/ Proceed(next)
           \/ Trip /\ Abort
        /\ UNCHANGED <<receipt, disk, pending>>
     \/ RaiseIf(~inTime) /\ UNCHANGED managerVars
  /\ UNCHANGED <<started, expiry>>

Stop == StopStep("STOP", InBudget, "WAIT")

WrapperSeen == receipt' = [receipt EXCEPT !.wrapperExit = TRUE]

\* The wrapper's status within ten seconds, then the end of the output reader.
Wait_anyStatus ==
  /\ pc = "WAIT"
  /\ \/ /\ InBudget /\ wrapper # "running" /\ WrapperSeen /\ Proceed("REACQUIRE")
        /\ UNCHANGED <<disk, pending>>
     \/ RaiseIf(~InBudget \/ wrapper = "running")
  /\ UNCHANGED <<managerVars, started, expiry>>

Wait ==
  /\ pc = "WAIT"
  /\ \/ /\ InBudget /\ wrapper # "running" /\ WrapperSeen
        /\ \/ wrapper = "ok" /\ Proceed("REACQUIRE")
           \/ wrapper = "bad" /\ Abort /\ NoTrip
        /\ UNCHANGED <<disk, pending>>
     \/ RaiseIf(~InBudget \/ wrapper = "running")
  /\ UNCHANGED <<managerVars, started, expiry>>
-----------------------------------------------------------------------------
(***************************************************************************)
(* The finally blocks.                                                     *)
(***************************************************************************)
\* An early failure looks for the exact named service once more, on the
\* native budget.
Reacquire ==
  /\ pc = "REACQUIRE"
  /\ LET early == wrapper # "none" /\ ~receipt.invocation IN
       \/ /\ early => InBudget
          /\ receipt' = [receipt EXCEPT !.invocation = @ \/ (early /\ Proven)]
          /\ Proceed("CLEAN") /\ UNCHANGED <<disk, pending>>
       \/ RaiseIf(early /\ ~InBudget)
  /\ UNCHANGED <<managerVars, started, expiry>>

\* Only proven custody is stopped; anything else is left to its expiry.
Clean ==
  /\ pc = "CLEAN"
  /\ LET admitted == InCleanup /\ receipt.invocation /\ Owned IN
       \/ /\ admitted /\ Proceed(IF Loaded THEN "CLEANSTOP" ELSE "SETTLE")
          /\ UNCHANGED <<receipt, disk, pending>>
       \/ RaiseIf(~admitted)
  /\ UNCHANGED <<managerVars, started, expiry>>

CleanStop == StopStep("CLEANSTOP", InCleanup, "SETTLE")

\* Poll until the unit is terminal and its scope empty; every poll and every
\* sleep is on the job's clock.
SettleWhile(inTime) ==
  /\ pc = "SETTLE"
  /\ LET seen == [receipt EXCEPT !.cleanTerminal = @ \/ Loaded]
         polled == inTime /\ Owned /\ (Loaded => TerminalState)
     IN \/ /\ polled /\ KernelAbsent /\ unit.state # "exited"
           /\ receipt' = [seen EXCEPT !.absent = TRUE]
           /\ Proceed("WRAPPER") /\ UNCHANGED <<disk, pending>>
        \/ /\ polled /\ ~KernelAbsent /\ receipt' = seen
           /\ Proceed("SETTLE") /\ UNCHANGED <<disk, pending>>
        \/ RaiseIf(~inTime \/ ~Owned \/ (unit.state = "exited" /\ KernelAbsent))
  /\ UNCHANGED <<managerVars, started, expiry>>

SettleScope_patient == SettleWhile(TRUE)
SettleScope == SettleWhile(InCleanup)

\* cleanup_wrapper: the owned child is signalled and waited for twice ten
\* seconds; a wrapper whose handle was lost is not waited for.
CleanWrapper ==
  /\ pc = "WRAPPER"
  /\ \/ wrapper = "none" /\ Proceed("FINAL") /\ UNCHANGED <<receipt, disk, pending>>
     \/ /\ wrapper \in {"ok", "bad"} /\ InCleanup /\ WrapperSeen
        /\ Proceed("FINAL") /\ UNCHANGED <<disk, pending>>
     \/ RaiseIf(wrapper = "running" \/ (wrapper # "none" /\ ~InCleanup))
  /\ UNCHANGED <<managerVars, started, expiry>>

\* The reader is joined and the last save is made whatever has failed; run
\* returns only when nothing has.
FinalWith(settled, unfailed) ==
  /\ pc = "FINAL"
  /\ UNCHANGED <<managerVars, receipt, started, expiry>>
  /\ \/ settled /\ InCleanup /\ unfailed /\ Proceed("RETURNED")
     \/ /\ SaveTried /\ Abort
        /\ \/ Trip
           \/ (failed \/ ~InCleanup \/ pending) /\ NoTrip

Final_ignoresSave == FinalWith(SaveTried, ~failed)
Final_swallows == FinalWith(Saved, TRUE)
Final == FinalWith(Saved, ~failed)

\* The controller's process is killed; its sockets close.
Killed ==
  /\ pc \notin Ended
  /\ pc' = "KILLED"
  /\ payload' = IF payload = "none" THEN "closed" ELSE payload
  /\ UNCHANGED <<managerVars, receipt, disk, pending, started, expiry, failed, cancelled, faults>>
-----------------------------------------------------------------------------
\* The gate executes the SDK on the payload and nothing else.
GateExec ==
  /\ program = "gate" /\ "main" \in procs /\ payload = "sent"
  /\ program' = "sdk"
  /\ UNCHANGED <<unit, procs, exit0, wrapper, now, stageVars>>

\* Its socket timed out or closed, or it refused the payload.
GateQuits ==
  /\ program = "gate" /\ "main" \in procs
  /\ procs' = procs \ {"main"}
  /\ exit0' = FALSE
  /\ UNCHANGED <<unit, program, wrapper, now, stageVars>>

Run == Preflight \/ SaveIntent \/ Launch \/ Wrap \/ Accept \/ Prove \/ SaveCustody \/ Send
         \/ Transition \/ Watch \/ Stop \/ Wait
Cleanup == Reacquire \/ Clean \/ CleanStop \/ SettleScope \/ CleanWrapper \/ Final
Controller == Run \/ Cleanup

\* The way from the preflight to Popen is short of the cleanup reserve.
TickStage == Tick /\ (pc \in {"INTENT", "LAUNCH"} => now < started + SetupDelay)

Surroundings == \/ Manager \/ Fork \/ SdkExit \/ ProcessEnds \/ Collect \/ WrapperExits
                \/ TickStage
Finished == pc \in Ended /\ now = MaxTime /\ UNCHANGED vars

Next == Controller \/ Killed \/ GateExec \/ GateQuits
          \/ (Surroundings /\ UNCHANGED stageVars) \/ Finished
Spec == Init /\ [][Next]_vars
-----------------------------------------------------------------------------
(* What the records are worth, to whoever has them.                         *)

\* What the receipt and its saved copy claim is so, and stays so: no process of
\* the scope is left, and none can start any more.
ClaimsAreTrue ==
  receipt.absent \/ (disk # NoRecord /\ disk.absent)
    => procs = {} /\ unit.state \notin {"activating", "running"}

\* Whoever finds the job after a crash can find what it started: the unit is
\* named on disk before it can exist, its proven invocation and scope are there
\* before the SDK can run.
DurableCustody ==
  /\ Loaded \/ procs # {} => disk # NoRecord
  /\ program = "sdk" => disk # NoRecord /\ disk.invocation

RecordsAreTrue == ClaimsAreTrue /\ DurableCustody

\* A stage that returns ran the SDK to exit status 0, saw all of it end, and
\* left exactly that on disk.
PassIsClean ==
  pc = "RETURNED" =>
    /\ program = "sdk" /\ exit0 /\ procs = {} /\ wrapper = "ok"
    /\ receipt.invocation /\ receipt.native /\ receipt.terminal
    /\ receipt.absent /\ receipt.wrapperExit
    /\ disk = receipt

\* The run promises no more than it keeps (NativeStage): while it lasts, once it
\* has returned, and once it has raised or was killed, where only a gate that was
\* sent its payload can still become the SDK.
Running == pc \notin Ended
Released == program = "gate" /\ payload = "sent" /\ "main" \in procs
SdkOf ==
  IF program = "sdk" /\ "main" \in procs THEN "runs"
  ELSE IF program = "sdk" /\ procs # {} THEN "left"
  ELSE IF Released THEN "released"
  ELSE IF Running /\ program = "sdk" /\ exit0 THEN "passed" ELSE "absent"
OutcomeOf == IF Running THEN "running" ELSE IF pc = "RETURNED" THEN "returned" ELSE "none"
Stage == INSTANCE NativeStage WITH outcome <- OutcomeOf, native <- SdkOf
KeepsPromise == Stage!StageSpec

\* Also when the controller is dead the stage is over before the job is: its
\* own lease ends inside the cleanup reserve.
ReserveHolds == unit.state = "running" => now <= JobEnd

(***************************************************************************)
(* What may be relied on: the manager serves what is due and time goes on; *)
(* a controller whose call returns takes its next step; the processes of a *)
(* unit that was killed for its lease end.                                 *)
(***************************************************************************)
ManagerActs == /\ WF_vars(Manager /\ UNCHANGED stageVars)
               /\ WF_vars(TickStage /\ UNCHANGED stageVars)
ControllerActs == WF_vars(NoTrip /\ Controller)
KilledProcessesEnd == WF_vars(unit.state = "failed" /\ ProcessEnds /\ UNCHANGED stageVars)

\* The controller ends however long the SDK, the wrapper or an unkillable
\* process hang: every wait is on the job's clock.
Terminates == ManagerActs /\ ControllerActs => <>(pc \in Ended)

\* Nothing of the stage runs forever, whatever becomes of the controller, also
\* when it hangs: the manager's lease ends it.
LeaseEnds ==
  ManagerActs /\ KilledProcessesEnd =>
    <>[](procs = {} /\ unit.state \notin {"activating", "running"})
=============================================================================
