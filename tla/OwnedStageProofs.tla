---------------------------- MODULE OwnedStageProofs ----------------------------
(***************************************************************************)
(* Theorems about OwnedStage for every job clock, stage length, activation *)
(* and setup delay, and any number of failing calls.                       *)
(***************************************************************************)
EXTENDS OwnedStage, TLAPS

Steps == Before \cup Body \cup Cleaning \cup {"WRAPPER", "FINAL"} \cup Ended
UnitStates == {"not-found", "activating", "running", "exited", "dead", "failed"}

\* A receipt is never the absent record.
LEMMA RecordsExist == \A r \in Receipt : r # NoRecord
<1> SUFFICES ASSUME NEW r \in Receipt, r = NoRecord PROVE FALSE
  OBVIOUS
<1>1. "absent" \in DOMAIN r
  BY DEF Receipt
<1>2. DOMAIN NoRecord = {"none"}
  BY DEF NoRecord
<1> QED BY <1>1, <1>2

\* The bookkeeping of a call that raises or does not.
LEMMA TripType ==
  ASSUME StageTypeOK, Trip \/ NoTrip
  PROVE  cancelled' \in BOOLEAN /\ faults' \in 0..MaxFaults
<1>1. cancelled' \in BOOLEAN
  BY Zenon DEF StageTypeOK, Trip, NoTrip
<1>2. faults' = faults \/ (faults < MaxFaults /\ faults' = faults + 1)
  BY Zenon DEF Trip, NoTrip
<1>3. faults \in 0..MaxFaults /\ MaxFaults \in Nat
  BY StageAssumption DEF StageTypeOK
<1> QED BY <1>1, <1>2, <1>3

LEMMA AbortType ==
  ASSUME StageTypeOK, Abort
  PROVE  /\ pc' \in Cleaning \cup {"WRAPPER", "FINAL", "RAISED"}
         /\ failed' = TRUE
         /\ payload' \in {"sent", "closed"}
BY DEF StageTypeOK, Abort, Before, Body, Cleaning, Ended

\* Where an exception leads from each block, and what it does to the peer.
LEMMA AbortMoves ==
  ASSUME Abort, pc \notin Ended
  PROVE  /\ pc \in Before \cup {"FINAL"} => pc' = "RAISED"
         /\ pc \in Body => pc' = "REACQUIRE"
         /\ pc \in Cleaning => pc' = "WRAPPER"
         /\ pc = "WRAPPER" => pc' = "FINAL"
         /\ payload' = "sent" => payload = "sent"
<1> USE DEF Before, Body, Cleaning, Ended
<1>1. CASE pc \in Before \cup {"FINAL"}
  BY <1>1 DEF Abort
<1>2. CASE pc \in Body
  BY <1>2 DEF Abort
<1>3. CASE pc \in Cleaning
  BY <1>3 DEF Abort
<1>4. CASE pc \notin Before \cup Body \cup Cleaning \cup {"FINAL"}
  BY <1>4 DEF Abort
<1> QED BY <1>1, <1>2, <1>3, <1>4

\* The two values the saved record can take in a step.
LEMMA SaveType ==
  ASSUME StageTypeOK, receipt' \in Receipt,
         SaveTried \/ UNCHANGED <<disk, pending>>
  PROVE  disk' \in Receipt \cup {NoRecord} /\ pending' \in BOOLEAN
BY DEF StageTypeOK, SaveTried, Saved, SaveFails

\* What every step of the controller leaves of the bookkeeping and the records.
CallTypes == /\ pc' \in Steps /\ payload' \in {"none", "sent", "closed"}
             /\ failed' \in BOOLEAN
             /\ cancelled' \in BOOLEAN
             /\ faults' \in 0..MaxFaults
RecordTypes == receipt' \in Receipt /\ disk' \in Receipt \cup {NoRecord} /\ pending' \in BOOLEAN

LEMMA ProceedCall ==
  ASSUME StageTypeOK, NEW step \in Steps, Proceed(step)
  PROVE  CallTypes
<1>1. cancelled' \in BOOLEAN /\ faults' \in 0..MaxFaults
  BY TripType DEF Proceed
<1>2. pc' \in Steps /\ payload' \in {"none", "sent", "closed"} /\ failed' \in BOOLEAN
  BY Zenon DEF Proceed, StageTypeOK
<1> QED BY <1>1, <1>2 DEF CallTypes

LEMMA AbortCall ==
  ASSUME StageTypeOK, Abort, Trip \/ NoTrip
  PROVE  CallTypes
<1>1. cancelled' \in BOOLEAN /\ faults' \in 0..MaxFaults
  BY TripType
<1>2. pc' \in Steps /\ payload' \in {"none", "sent", "closed"}
  BY AbortType DEF Steps, Cleaning, Ended
<1>3. failed' \in BOOLEAN
  BY AbortType
<1> QED BY <1>1, <1>2, <1>3 DEF CallTypes

LEMMA RaiseCall ==
  ASSUME StageTypeOK, NEW doomed, RaiseIf(doomed)
  PROVE  CallTypes /\ RecordTypes
<1>1. CallTypes
  BY AbortCall DEF RaiseIf
<1>2. receipt' = receipt /\ disk' = disk /\ pending' = pending
  BY DEF RaiseIf
<1> QED BY <1>1, <1>2, Zenon DEF StageTypeOK, RecordTypes

LEMMA SaveCall ==
  ASSUME StageTypeOK, receipt' \in Receipt, NEW next \in Steps, SaveAndProceed(next)
  PROVE  CallTypes /\ RecordTypes
<1>1. CallTypes
  BY ProceedCall, AbortCall DEF SaveAndProceed
<1>2. SaveTried
  BY DEF SaveAndProceed, SaveTried
<1> QED BY <1>1, <1>2, SaveType DEF RecordTypes

\* Updates of the receipt.
LEMMA ReceiptUpdates ==
  ASSUME StageTypeOK, NEW b \in BOOLEAN
  PROVE  /\ [receipt EXCEPT !.invocation = b] \in Receipt
         /\ [receipt EXCEPT !.native = TRUE] \in Receipt
         /\ [receipt EXCEPT !.terminal = TRUE] \in Receipt
         /\ [receipt EXCEPT !.wrapperExit = TRUE] \in Receipt
         /\ [receipt EXCEPT !.cleanTerminal = b] \in Receipt
         /\ [[receipt EXCEPT !.cleanTerminal = b] EXCEPT !.absent = TRUE] \in Receipt
         /\ receipt.invocation \in BOOLEAN /\ receipt.cleanTerminal \in BOOLEAN
BY DEF StageTypeOK, Receipt

LEMMA ControllerStep ==
  ASSUME StageTypeOK, Controller
  PROVE  CallTypes /\ RecordTypes
<1> USE DEF Steps, Before, Body, Cleaning
<1>s. receipt \in Receipt /\ disk \in Receipt \cup {NoRecord} /\ pending \in BOOLEAN
  BY Zenon DEF StageTypeOK
<1>u. UNCHANGED <<receipt, disk, pending>> => RecordTypes
  BY <1>s, Zenon DEF RecordTypes
<1>d. receipt' \in Receipt /\ UNCHANGED <<disk, pending>> => RecordTypes
  BY <1>s, Zenon DEF RecordTypes
<1>v. ASSUME NEW step, NEW next \in Steps, SaveStep(step, next)
      PROVE  CallTypes /\ RecordTypes
  BY <1>s, <1>v, SaveCall DEF SaveStep
<1>t. ASSUME NEW step, NEW inTime, NEW next \in Steps, StopStep(step, inTime, next)
      PROVE  CallTypes /\ RecordTypes
  BY <1>t, <1>u, ProceedCall, AbortCall, RaiseCall DEF StopStep
<1>1. CASE Preflight
  BY <1>1, <1>u, ProceedCall, RaiseCall DEF Preflight
<1>2. CASE SaveIntent
  BY <1>2, <1>v DEF SaveIntent
<1>3. CASE Launch
  BY <1>3, <1>u, ProceedCall, AbortCall DEF Launch
<1>4. CASE Wrap
  BY <1>4, <1>s, SaveCall, RaiseCall DEF Wrap
<1>5. CASE Accept
  BY <1>5, <1>u, ProceedCall, RaiseCall DEF Accept
<1>6. CASE Prove
  BY <1>6, <1>d, ReceiptUpdates, ProceedCall, RaiseCall DEF Prove
<1>7. CASE SaveCustody
  BY <1>7, <1>v DEF SaveCustody
<1>8. CASE Send
  <2>1. CASE RaiseIf(~InBudget \/ ~GateWaits)
    BY <2>1, RaiseCall
  <2>2. CASE /\ payload' = "sent" /\ UNCHANGED <<receipt, disk, pending>>
             /\ \/ pc' = "TRANSITION" /\ NoTrip /\ UNCHANGED failed
                \/ pc' = "REACQUIRE" /\ Trip /\ failed' = TRUE
    <3>1. failed' \in BOOLEAN
      BY <2>2, Zenon DEF StageTypeOK
    <3>2. cancelled' \in BOOLEAN /\ faults' \in 0..MaxFaults
      BY <2>2, TripType
    <3> QED BY <2>2, <3>1, <3>2, <1>u DEF CallTypes
  <2> QED BY <1>8, <2>1, <2>2 DEF Send
<1>9. CASE Transition
  BY <1>9, ReceiptUpdates, SaveCall, RaiseCall DEF Transition
<1>10. CASE Watch
  <2>1. CASE receipt' = [receipt EXCEPT !.terminal = TRUE] /\ SaveAndProceed("STOP")
    BY <2>1, ReceiptUpdates, SaveCall
  <2>3. CASE /\ receipt' = [receipt EXCEPT !.terminal = TRUE]
             /\ Abort /\ NoTrip /\ UNCHANGED <<disk, pending>>
    BY <2>3, <1>d, ReceiptUpdates, AbortCall
  <2>2. ASSUME NEW doomed, RaiseIf(doomed) PROVE CallTypes /\ RecordTypes
    BY <2>2, RaiseCall
  <2> QED BY <1>10, <2>1, <2>2, <2>3 DEF Watch
<1>11. CASE Stop
  BY <1>11, <1>t DEF Stop
<1>12. CASE Wait
  BY <1>12, <1>d, ReceiptUpdates, ProceedCall, AbortCall, RaiseCall DEF Wait, WrapperSeen
<1>13. CASE Reacquire
  <2> DEFINE early == wrapper # "none" /\ ~receipt.invocation
  <2>1. receipt.invocation \/ (early /\ Proven) \in BOOLEAN
    BY ReceiptUpdates DEF Proven
  <2>2. [receipt EXCEPT !.invocation = @ \/ (early /\ Proven)] \in Receipt
    BY <2>1, ReceiptUpdates
  <2>3. CASE /\ receipt' = [receipt EXCEPT !.invocation = @ \/ (early /\ Proven)]
             /\ Proceed("CLEAN") /\ UNCHANGED <<disk, pending>>
    BY <2>2, <2>3, <1>d, ProceedCall
  <2>4. CASE RaiseIf(early /\ ~InBudget)
    BY <2>4, RaiseCall
  <2> QED BY <1>13, <2>3, <2>4 DEF Reacquire
<1>14. CASE Clean
  <2>1. ASSUME NEW doomed, RaiseIf(doomed) PROVE CallTypes /\ RecordTypes
    BY <2>1, RaiseCall
  <2>2. CASE /\ Proceed(IF Loaded THEN "CLEANSTOP" ELSE "SETTLE")
             /\ UNCHANGED <<receipt, disk, pending>>
    BY <2>2, <1>u, ProceedCall
  <2> QED BY <1>14, <2>1, <2>2 DEF Clean
<1>15. CASE CleanStop
  BY <1>15, <1>t DEF CleanStop
<1>16. CASE SettleScope
  <2> DEFINE seen == [receipt EXCEPT !.cleanTerminal = @ \/ Loaded]
  <2>1. receipt.cleanTerminal \/ Loaded \in BOOLEAN
    BY ReceiptUpdates DEF Loaded
  <2>2. seen \in Receipt /\ [seen EXCEPT !.absent = TRUE] \in Receipt
    BY <2>1, ReceiptUpdates
  <2>3. ASSUME NEW step \in Steps, Proceed(step), UNCHANGED <<disk, pending>>,
               receipt' = seen \/ receipt' = [seen EXCEPT !.absent = TRUE]
        PROVE  CallTypes /\ RecordTypes
    BY <2>2, <2>3, <1>d, ProceedCall
  <2>4. ASSUME NEW doomed, RaiseIf(doomed) PROVE CallTypes /\ RecordTypes
    BY <2>4, RaiseCall
  <2> QED BY <1>16, <2>3, <2>4 DEF SettleScope, SettleWhile
<1>17. CASE CleanWrapper
  BY <1>17, <1>u, <1>d, ReceiptUpdates, ProceedCall, RaiseCall
     DEF CleanWrapper, WrapperSeen
<1>18. CASE Final
  <2>1. CallTypes
    BY <1>18, ProceedCall, AbortCall DEF Final, FinalWith, Ended
  <2>2. SaveTried /\ receipt' = receipt
    BY <1>18 DEF Final, FinalWith, SaveTried
  <2> QED BY <2>1, <2>2, <1>s, SaveType DEF RecordTypes
<1> QED
  BY <1>1, <1>2, <1>3, <1>4, <1>5, <1>6, <1>7, <1>8, <1>9, <1>10, <1>11, <1>12,
     <1>13, <1>14, <1>15, <1>16, <1>17, <1>18 DEF Controller, Run, Cleanup
-----------------------------------------------------------------------------
(***************************************************************************)
(* The manager's side: states and dates of the unit.                       *)
(***************************************************************************)
Units == [state : UnitStates, due : Nat, runtime : Nat]

LEMMA ClockTypes ==
  /\ NativeEnd \in Nat \ {0} /\ Reserve \in Nat \ {0} /\ StageCap \in Nat \ {0}
  /\ ActivationDelay \in Nat /\ SetupDelay \in Nat /\ MaxTime \in Nat
  /\ SetupDelay + ActivationDelay <= Reserve
  /\ JobEnd = NativeEnd + Reserve
BY ClockAssumption, StageAssumption DEF JobEnd

LEMMA UnitTypes ==
  ASSUME ManagerTypeOK
  PROVE  /\ unit \in Units
         /\ unit.state \in UnitStates /\ unit.due \in Nat /\ unit.runtime \in Nat
         /\ now \in Nat
         /\ \A s \in UnitStates : [unit EXCEPT !.state = s] \in Units
<1>1. unit \in Units
  BY Zenon DEF ManagerTypeOK, Units, UnitStates
<1>2. now \in Nat
  BY ClockTypes DEF ManagerTypeOK
<1>3. unit.state \in UnitStates /\ unit.due \in Nat /\ unit.runtime \in Nat
  BY <1>1 DEF Units
<1>4. ASSUME NEW s \in UnitStates PROVE [unit EXCEPT !.state = s] \in Units
  BY <1>1 DEF Units
<1> QED BY <1>1, <1>2, <1>3, <1>4

\* The kill of a control group.
LEMMA KillTypes ==
  ASSUME ManagerTypeOK, NEW state \in {"dead", "failed"}, Kill(state)
  PROVE  ManagerTypeOK'
<1>1. unit' \in Units
  BY UnitTypes DEF Kill, UnitStates
<1>2. procs' \subseteq {"main", "child"}
  BY DEF Kill, ManagerTypeOK
<1>3. exit0' \in BOOLEAN
  BY Zenon DEF Kill, ManagerTypeOK
<1>4. program' = program /\ wrapper' = wrapper /\ now' = now
  BY DEF Kill
<1> QED
  BY <1>1, <1>2, <1>3, <1>4, Zenon DEF ManagerTypeOK, Units, UnitStates

\* The controller's own effects on the manager: a request, or the stop of a unit.
LEMMA ControllerOnManager ==
  ASSUME Controller
  PROVE  \/ UNCHANGED managerVars
         \/ Kill("dead")
         \/ /\ pc = "LAUNCH" /\ Requested /\ wrapper' \in {"running", wrapper}
            /\ UNCHANGED <<procs, program, exit0, now>>
<1>t. ASSUME NEW step, NEW inTime, NEW next, StopStep(step, inTime, next)
      PROVE  UNCHANGED managerVars \/ Kill("dead")
  BY <1>t DEF StopStep, StopUnit
<1>1. CASE Launch
  BY <1>1 DEF Launch, managerVars
<1>2. CASE Stop \/ CleanStop
  BY <1>2, <1>t DEF Stop, CleanStop
<1>3. CASE ~Launch /\ ~Stop /\ ~CleanStop
  BY <1>3 DEF Controller, Run, Cleanup, Preflight, SaveIntent, SaveStep, Wrap, Accept,
     Prove, SaveCustody, Send, Transition, Watch, Wait, Reacquire, Clean,
     SettleScope, SettleWhile, CleanWrapper, Final, FinalWith
<1> QED BY <1>1, <1>2, <1>3

\* The controller dates a stage once, inside the native budget.
LEMMA ControllerDates ==
  ASSUME Controller
  PROVE  \/ /\ UNCHANGED <<started, expiry>>
            /\ pc = "PREFLIGHT" => pc' = "RAISED" /\ UNCHANGED managerVars
         \/ /\ pc = "PREFLIGHT" /\ pc' = "INTENT" /\ InBudget
            /\ started' = now /\ expiry' = now + StageSeconds
            /\ UNCHANGED managerVars
<1>1. CASE Preflight
  BY <1>1, AbortMoves DEF Preflight, Proceed, RaiseIf, Before, Ended
<1>2. CASE ~Preflight
  <2>1. UNCHANGED <<started, expiry>>
    BY <1>2 DEF Controller, Run, Cleanup, SaveIntent, SaveStep, Launch, Wrap, Accept,
       Prove, SaveCustody, Send, Transition, Watch, Stop, StopStep, Wait,
       Reacquire, Clean, CleanStop, SettleScope, SettleWhile, CleanWrapper, Final, FinalWith
  <2>2. pc # "PREFLIGHT"
    BY <1>2 DEF Controller, Run, Cleanup, SaveIntent, SaveStep, Launch, Wrap, Accept,
       Prove, SaveCustody, Send, Transition, Watch, Stop, StopStep, Wait,
       Reacquire, Clean, CleanStop, SettleScope, SettleWhile, CleanWrapper, Final, FinalWith
  <2> QED BY <2>1, <2>2
<1> QED BY <1>1, <1>2

LEMMA StageSecondsBound ==
  ASSUME now \in Nat, InBudget
  PROVE  StageSeconds \in Nat /\ now + StageSeconds <= NativeEnd
BY ClockTypes DEF StageSeconds, Smaller, InBudget

\* What the manager, the kernel and the clock do by themselves keeps its types.
LEMMA SurroundingsTypes ==
  ASSUME ManagerTypeOK, Surroundings
  PROVE  ManagerTypeOK'
<1> USE DEF UnitStates
<1>1. CASE Activate
  <2>1. now + unit.runtime \in Nat
    BY UnitTypes
  <2>2. unit' \in Units
    <3>1. ASSUME NEW d \in Nat PROVE [unit EXCEPT !.state = "running", !.due = d] \in Units
      BY UnitTypes DEF Units
    <3>2. \/ unit' = [unit EXCEPT !.state = "running", !.due = now + unit.runtime]
          \/ \E s \in {"failed", "not-found"} : unit' = [unit EXCEPT !.state = s]
      BY <1>1 DEF Activate
    <3> QED BY <2>1, <3>1, <3>2, UnitTypes
  <2>3. procs' \subseteq {"main", "child"} /\ program' \in {"none", "gate", "sdk"}
    BY <1>1 DEF Activate, ManagerTypeOK
  <2>4. exit0' = exit0 /\ wrapper' = wrapper /\ now' = now
    BY <1>1 DEF Activate
  <2> QED BY <2>2, <2>3, <2>4, Zenon DEF ManagerTypeOK, Units
<1>2. CASE Settle
  <2>1. unit' \in Units
    BY <1>2, UnitTypes DEF Settle
  <2>2. UNCHANGED <<procs, program, exit0, wrapper, now>>
    BY <1>2 DEF Settle
  <2> QED BY <2>1, <2>2, Zenon DEF ManagerTypeOK, Units
<1>3. CASE Expire
  BY <1>3, KillTypes DEF Expire
<1>4. CASE Fork
  <2>1. procs' \subseteq {"main", "child"}
    BY <1>4 DEF Fork, ManagerTypeOK
  <2>2. UNCHANGED <<unit, program, exit0, wrapper, now>>
    BY <1>4 DEF Fork
  <2> QED BY <2>1, <2>2, Zenon DEF ManagerTypeOK
<1>5. CASE SdkExit
  <2>1. procs' \subseteq {"main", "child"}
    BY <1>5 DEF SdkExit, ManagerTypeOK
  <2>2. exit0' \in BOOLEAN /\ UNCHANGED <<unit, program, wrapper, now>>
    BY <1>5, Zenon DEF SdkExit
  <2> QED BY <2>1, <2>2, Zenon DEF ManagerTypeOK
<1>6. CASE ProcessEnds
  <2>1. procs' \subseteq {"main", "child"}
    BY <1>6 DEF ProcessEnds, ManagerTypeOK
  <2>2. UNCHANGED <<unit, program, exit0, wrapper, now>>
    BY <1>6 DEF ProcessEnds
  <2> QED BY <2>1, <2>2, Zenon DEF ManagerTypeOK
<1>7. CASE Collect
  <2>1. unit' \in Units
    BY <1>7, UnitTypes DEF Collect
  <2>2. UNCHANGED <<procs, program, exit0, wrapper, now>>
    BY <1>7 DEF Collect
  <2> QED BY <2>1, <2>2, Zenon DEF ManagerTypeOK, Units
<1>8. CASE WrapperExits
  <2>1. wrapper' \in {"none", "running", "ok", "bad"}
    BY <1>8 DEF WrapperExits
  <2>2. UNCHANGED <<unit, procs, program, exit0, now>>
    BY <1>8 DEF WrapperExits
  <2> QED BY <2>1, <2>2, Zenon DEF ManagerTypeOK
<1>9. CASE TickStage
  <2>1. now' \in 0..MaxTime
    BY <1>9, ClockTypes DEF TickStage, Tick, ManagerTypeOK
  <2>2. UNCHANGED <<unit, procs, program, exit0, wrapper>>
    BY <1>9 DEF TickStage, Tick
  <2> QED BY <2>1, <2>2, Zenon DEF ManagerTypeOK
<1> QED
  BY <1>1, <1>2, <1>3, <1>4, <1>5, <1>6, <1>7, <1>8, <1>9 DEF Surroundings, Manager
-----------------------------------------------------------------------------
(***************************************************************************)
(* Type correctness, and the lease.  The manager's dates stay inside the   *)
(* job because the stage's seconds are counted to the end of native work   *)
(* and the setup and the activation delay fit in the reserve.              *)
(***************************************************************************)
Lease ==
  /\ started <= expiry /\ expiry <= NativeEnd
  /\ pc \in {"INTENT", "LAUNCH"} => now <= started + SetupDelay
  /\ unit.state = "activating" => now <= unit.due /\ unit.due + unit.runtime <= JobEnd
  /\ unit.state = "running" => now <= unit.due /\ unit.due <= JobEnd

\* What Next does, by who does it.
LEMMA Actors ==
  ASSUME [Next]_vars
  PROVE  \/ Controller
         \/ Killed
         \/ (GateExec \/ GateQuits) /\ UNCHANGED stageVars
         \/ Surroundings /\ UNCHANGED stageVars
         \/ UNCHANGED vars
<1>1. GateExec \/ GateQuits => UNCHANGED stageVars
  BY DEF GateExec, GateQuits, stageVars
<1> QED BY <1>1 DEF Next, Finished

LEMMA KeepTypes ==
  ASSUME StageTypeOK, UNCHANGED stageVars, ManagerTypeOK'
  PROVE  StageTypeOK'
BY Zenon DEF StageTypeOK, stageVars

LEMMA KeepManagerTypes ==
  ASSUME ManagerTypeOK, UNCHANGED managerVars
  PROVE  ManagerTypeOK'
BY Zenon DEF ManagerTypeOK, managerVars

LEMMA TypeInit == Init => StageTypeOK /\ Lease
<1> SUFFICES ASSUME Init PROVE StageTypeOK /\ Lease
  OBVIOUS
<1>1. ManagerTypeOK
  <2>1. 0 \in 0..MaxTime /\ 0 \in Nat
    BY ClockTypes
  <2> QED BY <2>1 DEF Init, ManagerInit, ManagerTypeOK
<1>2. faults \in 0..MaxFaults
  BY StageAssumption DEF Init
<1>3. StageTypeOK
  BY <1>1, <1>2 DEF Init, StageTypeOK, Intent, Receipt, Before
<1>4. Lease
  BY ClockTypes DEF Init, ManagerInit, Lease
<1> QED BY <1>3, <1>4

LEMMA TypeStep ==
  ASSUME StageTypeOK, Lease, [Next]_vars
  PROVE  StageTypeOK'
<1>m. ManagerTypeOK /\ now \in Nat /\ started \in Nat /\ expiry \in Nat
  BY UnitTypes DEF StageTypeOK
<1>1. CASE Controller
  <2>1. CallTypes /\ RecordTypes
    BY <1>1, ControllerStep
  <2>2. started' \in Nat /\ expiry' \in Nat
    BY <1>1, <1>m, ControllerDates, StageSecondsBound
  <2>3. CASE UNCHANGED managerVars
    BY <2>1, <2>2, <2>3, <1>m, KeepManagerTypes, Zenon
       DEF CallTypes, RecordTypes, StageTypeOK, Steps
  <2>4. CASE Kill("dead")
    BY <2>1, <2>2, <2>4, <1>m, KillTypes, Zenon
       DEF CallTypes, RecordTypes, StageTypeOK, Steps
  <2>5. CASE /\ Requested /\ wrapper' \in {"running", wrapper}
             /\ UNCHANGED <<procs, program, exit0, now>>
    <3>1. LeaseSeconds \in Nat /\ now + ActivationDelay \in Nat
      BY <1>m, ClockTypes DEF LeaseSeconds, Lease
    <3>2. unit' \in Units
      BY <2>5, <3>1 DEF Requested, Units, UnitStates
    <3>3. wrapper' \in {"none", "running", "ok", "bad"}
      BY <2>5, <1>m DEF ManagerTypeOK
    <3>4. ManagerTypeOK'
      BY <2>5, <3>2, <3>3, <1>m, Zenon DEF ManagerTypeOK, Units, UnitStates
    <3> QED BY <2>1, <2>2, <3>4, Zenon DEF CallTypes, RecordTypes, StageTypeOK, Steps
  <2> QED BY <1>1, <2>3, <2>4, <2>5, ControllerOnManager
<1>2. CASE Killed
  <2>1. ManagerTypeOK'
    BY <1>2, <1>m, KeepManagerTypes DEF Killed
  <2>2. pc' \in Ended /\ payload' \in {"none", "sent", "closed"}
    BY <1>2 DEF Killed, Ended, StageTypeOK
  <2> QED BY <1>2, <2>1, <2>2, Zenon DEF Killed, StageTypeOK
<1>3. CASE (GateExec \/ GateQuits) /\ UNCHANGED stageVars
  <2>1. procs' \subseteq {"main", "child"} /\ program' \in {"none", "gate", "sdk"}
    BY <1>3, <1>m DEF GateExec, GateQuits, ManagerTypeOK
  <2>2. exit0' \in BOOLEAN /\ UNCHANGED <<unit, wrapper, now>>
    BY <1>3, <1>m, Zenon DEF GateExec, GateQuits, ManagerTypeOK
  <2>3. ManagerTypeOK'
    BY <2>1, <2>2, <1>m, Zenon DEF ManagerTypeOK
  <2> QED BY <1>3, <2>3, KeepTypes
<1>4. CASE Surroundings /\ UNCHANGED stageVars
  BY <1>4, <1>m, SurroundingsTypes, KeepTypes
<1>5. CASE UNCHANGED vars
  BY <1>5, <1>m, KeepManagerTypes, KeepTypes DEF vars
<1> QED BY <1>1, <1>2, <1>3, <1>4, <1>5, Actors

\* No step moves a date of the lease past the end of the job.
LEMMA LeaseStep ==
  ASSUME StageTypeOK, Lease, [Next]_vars
  PROVE  Lease'
<1> USE ClockTypes
<1>m. /\ unit \in Units /\ unit.due \in Nat /\ unit.runtime \in Nat
      /\ now \in Nat /\ started \in Nat /\ expiry \in Nat /\ JobEnd \in Nat
  BY UnitTypes DEF StageTypeOK
<1>k. ASSUME NEW state \in {"dead", "failed"}, Kill(state)
      PROVE  /\ unit'.state \in {"dead", "failed"}
             /\ now' = now
  BY <1>k, <1>m DEF Kill, Units
<1>u. unit' = unit /\ now' = now /\ started' = started /\ expiry' = expiry
        /\ (pc' \in {"INTENT", "LAUNCH"} => pc \in {"INTENT", "LAUNCH"}) => Lease'
  BY DEF Lease
<1>1. CASE Controller
  <2>p. pc' \in {"INTENT", "LAUNCH"} => pc \in {"PREFLIGHT", "INTENT"}
    BY <1>1 DEF Controller, Run, Cleanup, Preflight, SaveIntent, SaveStep, Launch, Wrap,
       Accept, Prove, SaveCustody, Send, Transition, Watch, Stop, StopStep, Wait,
       Reacquire, Clean, CleanStop, SettleScope, SettleWhile, CleanWrapper, Final,
       FinalWith, Proceed, Abort, SaveAndProceed, RaiseIf, Before, Body, Cleaning
  <2>1. CASE /\ pc' = "INTENT" /\ InBudget /\ UNCHANGED managerVars
             /\ started' = now /\ expiry' = now + StageSeconds
    <3>1. StageSeconds \in Nat /\ now + StageSeconds <= NativeEnd
      BY <2>1, <1>m, StageSecondsBound
    <3>2. unit' = unit /\ now' = now
      BY <2>1 DEF managerVars
    <3> QED BY <2>1, <3>1, <3>2, <1>m DEF Lease
  <2>2. CASE UNCHANGED <<started, expiry>> /\ UNCHANGED managerVars /\ pc # "PREFLIGHT"
    BY <2>2, <2>p, <1>u DEF managerVars
  <2>3. CASE UNCHANGED <<started, expiry>> /\ Kill("dead") /\ pc # "PREFLIGHT"
    <3>1. unit'.state \in {"dead", "failed"} /\ now' = now
      BY <2>3, <1>k
    <3> QED BY <2>3, <2>p, <3>1, <1>m DEF Lease
  <2>4. CASE /\ UNCHANGED <<started, expiry>> /\ pc = "LAUNCH" /\ Requested
             /\ UNCHANGED <<procs, program, exit0, now>>
    <3>1. /\ unit'.state = "activating" /\ unit'.due = now + ActivationDelay
          /\ unit'.runtime = expiry - started
      BY <2>4 DEF Requested, LeaseSeconds
    <3>2. now <= started + SetupDelay /\ started <= expiry /\ expiry <= NativeEnd
      BY <2>4 DEF Lease
    <3>3. pc' \notin {"INTENT", "LAUNCH"} /\ now' = now
      BY <2>4, <2>p
    <3> QED BY <2>4, <3>1, <3>2, <3>3, <1>m DEF Lease
  <2>5. CASE UNCHANGED <<started, expiry>> /\ UNCHANGED managerVars /\ pc' = "RAISED"
    BY <2>5, <1>u DEF managerVars
  <2> QED BY <1>1, <2>1, <2>2, <2>3, <2>4, <2>5, ControllerOnManager, ControllerDates
<1>2. CASE Killed
  BY <1>2, <1>u DEF Killed, managerVars
<1>3. CASE (GateExec \/ GateQuits) /\ UNCHANGED stageVars
  BY <1>3, <1>u DEF GateExec, GateQuits, stageVars
<1>4. CASE Surroundings /\ UNCHANGED stageVars
  <2>s. started' = started /\ expiry' = expiry /\ pc' = pc
    BY <1>4 DEF stageVars
  <2>1. CASE Activate
    <3>1. unit.state = "activating" /\ now' = now
      BY <2>1 DEF Activate
    <3>2. \/ unit'.state = "running" /\ unit'.due = now + unit.runtime
          \/ unit'.state \in {"failed", "not-found"}
      <4>1. ASSUME NEW d, unit' = [unit EXCEPT !.state = "running", !.due = d]
            PROVE  unit'.state = "running" /\ unit'.due = d
        BY <4>1, <1>m DEF Units
      <4>2. ASSUME NEW s \in {"failed", "not-found"}, unit' = [unit EXCEPT !.state = s]
            PROVE  unit'.state = s
        BY <4>2, <1>m DEF Units
      <4>3. \/ unit' = [unit EXCEPT !.state = "running", !.due = now + unit.runtime]
            \/ \E s \in {"failed", "not-found"} : unit' = [unit EXCEPT !.state = s]
        BY <2>1 DEF Activate
      <4> QED BY <4>1, <4>2, <4>3
    <3> QED BY <3>1, <3>2, <2>s, <1>m DEF Lease
  <2>2. CASE Settle \/ Collect
    <3>1. unit'.state \in {"exited", "failed", "not-found"} /\ now' = now
      BY <2>2, <1>m DEF Settle, Collect, Units
    <3> QED BY <3>1, <2>s, <1>m DEF Lease
  <2>3. CASE Expire
    <3>1. unit'.state \in {"dead", "failed"} /\ now' = now
      BY <2>3, <1>k DEF Expire
    <3> QED BY <3>1, <2>s, <1>m DEF Lease
  <2>4. CASE Fork \/ SdkExit \/ ProcessEnds \/ WrapperExits
    BY <2>4, <2>s, <1>u DEF Fork, SdkExit, ProcessEnds, WrapperExits
  <2>5. CASE TickStage
    <3>1. /\ now' = now + 1 /\ unit' = unit
          /\ unit.state \in {"activating", "running"} => now < unit.due
          /\ pc \in {"INTENT", "LAUNCH"} => now < started + SetupDelay
      BY <2>5 DEF TickStage, Tick
    <3> QED BY <3>1, <2>s, <1>m DEF Lease
  <2> QED BY <1>4, <2>1, <2>2, <2>3, <2>4, <2>5 DEF Surroundings, Manager
<1>5. CASE UNCHANGED vars
  BY <1>5, <1>u DEF vars, stageVars, managerVars
<1> QED BY <1>1, <1>2, <1>3, <1>4, <1>5, Actors

\* The states and records of a stage, of its unit and of its clock are always
\* of the types the code gives them.
THEOREM TypeCorrect == Spec => []StageTypeOK
<1>1. StageTypeOK /\ Lease /\ [Next]_vars => (StageTypeOK /\ Lease)'
  BY TypeStep, LeaseStep
<1> QED BY <1>1, TypeInit, PTL DEF Spec

\* A unit runs no longer than to the end of the job, whether or not its
\* controller is alive: the code never shortens a lease, it dates it so.
THEOREM LeaseWithinJob == Spec => []ReserveHolds
<1>1. StageTypeOK /\ Lease /\ [Next]_vars => (StageTypeOK /\ Lease)'
  BY TypeStep, LeaseStep
<1>2. StageTypeOK /\ Lease => ReserveHolds
  <2> SUFFICES ASSUME StageTypeOK, Lease, unit.state = "running" PROVE now <= JobEnd
    BY DEF ReserveHolds
  <2>1. now \in Nat /\ unit.due \in Nat /\ JobEnd \in Nat
    BY UnitTypes, ClockTypes DEF StageTypeOK
  <2> QED BY <2>1 DEF Lease
<1> QED BY <1>1, <1>2, TypeInit, PTL DEF Spec
-----------------------------------------------------------------------------
(***************************************************************************)
(* What the records say.  Custody is on disk before what it names can run, *)
(* and absence is recorded only once it can no longer be undone.           *)
(***************************************************************************)
OnDisk == disk # NoRecord

Custody ==
  /\ ~OnDisk => pc \in Before \cup {"RAISED", "KILLED"} /\ ~Loaded /\ procs = {}
  /\ OnDisk /\ disk.invocation => receipt.invocation
  /\ pc = "SAVE" => receipt.invocation
  /\ pc = "SEND" \/ payload = "sent" => OnDisk /\ disk.invocation
  /\ program = "sdk" => payload = "sent"

Gone == procs = {} /\ unit.state \notin {"activating", "running"}

Absence ==
  /\ receipt.absent => pc \in {"WRAPPER", "FINAL"} \cup Ended /\ Gone
  /\ OnDisk /\ disk.absent => receipt.absent

\* How a step of the controller moves its records, relative to where it is.
Moves ==
  /\ pc \notin Ended
  /\ disk' = disk \/ disk' = receipt'
  /\ receipt.invocation => receipt'.invocation
  /\ receipt'.absent => \/ receipt.absent
                        \/ pc' = "WRAPPER" /\ Gone
  /\ pc \in Before => \/ pc' \in {"INTENT", "RAISED"}
                      \/ pc' = "LAUNCH" /\ disk' = receipt'
  /\ pc \notin Before => pc' \notin Before \cup {"LAUNCH"}
  /\ pc' = "SAVE" => receipt'.invocation
  /\ pc' = "SEND" => pc = "SAVE" /\ disk' = receipt'
  /\ payload' = "sent" => payload = "sent" \/ (pc = "SEND" /\ disk' = disk)
  /\ pc = "WRAPPER" => pc' = "FINAL"
  /\ pc = "FINAL" => pc' \in Ended

\* Steps that leave the receipt alone, or change other parts of it.
LEMMA Untouched ==
  ASSUME StageTypeOK
  PROVE  /\ \A b \in BOOLEAN : [receipt EXCEPT !.invocation = b].absent = receipt.absent
         /\ [receipt EXCEPT !.invocation = TRUE].invocation
         /\ \A r \in {[receipt EXCEPT !.native = TRUE], [receipt EXCEPT !.terminal = TRUE],
                      [receipt EXCEPT !.wrapperExit = TRUE]} :
              r.invocation = receipt.invocation /\ r.absent = receipt.absent
         /\ \A b \in BOOLEAN :
              /\ [receipt EXCEPT !.cleanTerminal = b].invocation = receipt.invocation
              /\ [receipt EXCEPT !.cleanTerminal = b].absent = receipt.absent
              /\ [[receipt EXCEPT !.cleanTerminal = b] EXCEPT !.absent = TRUE].invocation
                   = receipt.invocation
BY DEF StageTypeOK, Receipt

LEMMA RaiseMoves ==
  ASSUME StageTypeOK, NEW doomed, RaiseIf(doomed), pc \notin Ended
  PROVE  Moves
<1>1. pc \in Steps
  BY DEF StageTypeOK, Steps
<1>2. disk' = disk /\ receipt' = receipt /\ Abort
  BY DEF RaiseIf
<1> QED
  BY <1>1, <1>2, AbortMoves DEF Moves, Steps, Before, Body, Cleaning, Ended

\* An exception after the record has been touched, inside the protected blocks.
LEMMA AbortRecordMoves ==
  ASSUME StageTypeOK, Abort, pc \notin Ended, pc \notin {"PREFLIGHT"},
         disk' \in {disk, receipt'}, receipt'.absent = receipt.absent,
         receipt.invocation => receipt'.invocation
  PROVE  Moves
<1>1. pc \in Steps
  BY DEF StageTypeOK, Steps
<1> QED
  BY <1>1, AbortMoves DEF Moves, Steps, Before, Body, Cleaning, Ended

\* A saved record, or an exception.
LEMMA SaveMoves ==
  ASSUME StageTypeOK, NEW next, SaveAndProceed(next), pc \notin Ended \cup {"PREFLIGHT"},
         receipt'.absent = receipt.absent, receipt.invocation => receipt'.invocation,
         \/ pc = "INTENT" /\ next = "LAUNCH"
         \/ pc = "SAVE" /\ next = "SEND"
         \/ pc \in Body /\ next \in {"ACCEPT", "WATCH", "STOP"}
  PROVE  Moves
<1>1. CASE Saved /\ Proceed(next)
  BY <1>1 DEF Saved, Proceed, Moves, Before, Body, Cleaning, Ended
<1>2. CASE SaveTried /\ Abort
  BY <1>2, AbortRecordMoves DEF SaveTried, Saved, SaveFails
<1> QED BY <1>1, <1>2 DEF SaveAndProceed, SaveTried

\* A step inside the blocks that leaves the saved record alone.
LEMMA ProceedMoves ==
  ASSUME NEW next, Proceed(next), pc \in Body \cup Cleaning \cup {"WRAPPER"},
         disk' = disk, receipt.invocation => receipt'.invocation,
         receipt'.absent => receipt.absent \/ (next = "WRAPPER" /\ Gone),
         next \in Body \cup Cleaning \cup {"WRAPPER", "FINAL"},
         next \notin {"LAUNCH", "SEND"}, next = "SAVE" => receipt'.invocation,
         pc = "WRAPPER" => next = "FINAL"
  PROVE  Moves
BY DEF Proceed, Moves, Before, Body, Cleaning, Ended

LEMMA ControllerMoves ==
  ASSUME StageTypeOK, Controller
  PROVE  Moves
<1> USE Untouched, TRUE \in BOOLEAN
<1> USE DEF Body, Cleaning, Ended
<1>t. ASSUME NEW step \in {"STOP", "CLEANSTOP"}, NEW inTime,
             NEW next \in {"WAIT", "SETTLE"}, StopStep(step, inTime, next)
      PROVE  Moves
  <2>1. CASE RaiseIf(~inTime)
    BY <1>t, <2>1, RaiseMoves DEF StopStep
  <2>2. CASE Proceed(next) /\ UNCHANGED <<receipt, disk, pending>>
    BY <1>t, <2>2, ProceedMoves DEF StopStep
  <2>3. CASE Abort /\ UNCHANGED <<receipt, disk, pending>>
    BY <1>t, <2>3, AbortRecordMoves DEF StopStep
  <2> QED BY <1>t, <2>1, <2>2, <2>3 DEF StopStep
<1>r. ASSUME NEW doomed, RaiseIf(doomed), pc \notin Ended PROVE Moves
  BY <1>r, RaiseMoves
<1>1. CASE Preflight
  <2>1. CASE Proceed("INTENT") /\ pc = "PREFLIGHT" /\ UNCHANGED <<receipt, disk, pending>>
    BY <2>1 DEF Proceed, Moves, Before
  <2> QED BY <1>1, <2>1, <1>r DEF Preflight
<1>2. CASE SaveIntent
  BY <1>2, SaveMoves DEF SaveIntent, SaveStep
<1>3. CASE Launch
  <2>1. CASE Proceed("WRAP")
    BY <1>3, <2>1, ProceedMoves DEF Launch
  <2>2. CASE Abort
    BY <1>3, <2>2, AbortRecordMoves DEF Launch
  <2> QED BY <1>3, <2>1, <2>2 DEF Launch
<1>4. CASE Wrap
  BY <1>4, <1>r, SaveMoves DEF Wrap
<1>5. CASE Accept
  BY <1>5, <1>r, ProceedMoves DEF Accept
<1>6. CASE Prove
  BY <1>6, <1>r, ProceedMoves DEF Prove
<1>7. CASE SaveCustody
  BY <1>7, SaveMoves DEF SaveCustody, SaveStep
<1>8. CASE Send
  <2>1. CASE pc = "SEND" /\ pc' \in {"TRANSITION", "REACQUIRE"}
             /\ UNCHANGED <<receipt, disk, pending>>
    BY <2>1 DEF Moves, Before
  <2> QED BY <1>8, <2>1, <1>r DEF Send
<1>9. CASE Transition
  BY <1>9, <1>r, SaveMoves DEF Transition
<1>10. CASE Watch
  <2>1. CASE receipt' = [receipt EXCEPT !.terminal = TRUE] /\ SaveAndProceed("STOP")
    BY <1>10, <2>1, SaveMoves DEF Watch
  <2>2. CASE receipt' = [receipt EXCEPT !.terminal = TRUE] /\ Abort /\ UNCHANGED <<disk, pending>>
    BY <1>10, <2>2, AbortRecordMoves DEF Watch
  <2> QED BY <1>10, <2>1, <2>2, <1>r DEF Watch
<1>11. CASE Stop
  BY <1>11, <1>t DEF Stop
<1>12. CASE Wait
  <2>1. CASE WrapperSeen /\ Proceed("REACQUIRE") /\ UNCHANGED <<disk, pending>>
    BY <1>12, <2>1, ProceedMoves DEF Wait, WrapperSeen
  <2>2. CASE WrapperSeen /\ Abort /\ UNCHANGED <<disk, pending>>
    BY <1>12, <2>2, AbortRecordMoves DEF Wait, WrapperSeen
  <2> QED BY <1>12, <2>1, <2>2, <1>r DEF Wait
<1>13. CASE Reacquire
  <2> DEFINE early == wrapper # "none" /\ ~receipt.invocation
             held == receipt.invocation \/ (early /\ Proven)
  <2>1. held \in BOOLEAN
    BY ReceiptUpdates DEF Proven
  <2>2. CASE receipt' = [receipt EXCEPT !.invocation = held]
             /\ Proceed("CLEAN") /\ UNCHANGED <<disk, pending>>
    <3>1. receipt'.absent = receipt.absent
      BY <2>1, <2>2
    <3>2. receipt.invocation => receipt'.invocation
      <4> SUFFICES ASSUME receipt.invocation PROVE receipt'.invocation
        OBVIOUS
      <4>1. receipt' = [receipt EXCEPT !.invocation = TRUE]
        BY <2>2
      <4> QED BY <4>1
    <3> QED BY <1>13, <2>2, <3>1, <3>2, ProceedMoves DEF Reacquire
  <2> QED BY <1>13, <2>2, <1>r DEF Reacquire
<1>14. CASE Clean
  <2>1. CASE /\ pc = "CLEAN" /\ UNCHANGED <<receipt, disk, pending>>
             /\ Proceed(IF Loaded THEN "CLEANSTOP" ELSE "SETTLE")
    BY <2>1, ProceedMoves
  <2> QED BY <1>14, <2>1, <1>r DEF Clean
<1>15. CASE CleanStop
  BY <1>15, <1>t DEF CleanStop
<1>16. CASE SettleScope
  <2> DEFINE b == receipt.cleanTerminal \/ Loaded
             seen == [receipt EXCEPT !.cleanTerminal = b]
  <2>1. b \in BOOLEAN
    BY ReceiptUpdates DEF Loaded
  <2>2. /\ seen.invocation = receipt.invocation /\ seen.absent = receipt.absent
        /\ [seen EXCEPT !.absent = TRUE].invocation = receipt.invocation
    BY <2>1
  <2>3. CASE /\ Loaded => TerminalState
             /\ KernelAbsent /\ unit.state # "exited"
             /\ receipt' = [seen EXCEPT !.absent = TRUE]
             /\ Proceed("WRAPPER") /\ UNCHANGED <<disk, pending>>
    <3>1. Gone
      BY <2>3 DEF Gone, Loaded, TerminalState, KernelAbsent
    <3> HIDE DEF seen
    <3> QED BY <1>16, <2>2, <2>3, <3>1, ProceedMoves DEF SettleScope, SettleWhile
  <2>4. CASE receipt' = seen /\ Proceed("SETTLE") /\ UNCHANGED <<disk, pending>>
    BY <1>16, <2>2, <2>4, ProceedMoves DEF SettleScope, SettleWhile
  <2> QED BY <1>16, <2>3, <2>4, <1>r DEF SettleScope, SettleWhile
<1>17. CASE CleanWrapper
  <2>1. CASE pc = "WRAPPER" /\ Proceed("FINAL") /\ UNCHANGED <<receipt, disk, pending>>
    BY <2>1, ProceedMoves
  <2>2. CASE pc = "WRAPPER" /\ WrapperSeen /\ Proceed("FINAL") /\ UNCHANGED <<disk, pending>>
    BY <2>2, ProceedMoves DEF WrapperSeen
  <2> QED BY <1>17, <2>1, <2>2, <1>r DEF CleanWrapper
<1>18. CASE Final
  <2>1. pc = "FINAL" /\ receipt' = receipt /\ disk' \in {disk, receipt'}
    BY <1>18 DEF Final, FinalWith, SaveTried, Saved, SaveFails
  <2>2. CASE Proceed("RETURNED")
    BY <2>1, <2>2 DEF Proceed, Moves, Before
  <2>3. CASE Abort
    BY <2>1, <2>3, AbortRecordMoves
  <2> QED BY <1>18, <2>2, <2>3 DEF Final, FinalWith
<1> QED
  BY <1>1, <1>2, <1>3, <1>4, <1>5, <1>6, <1>7, <1>8, <1>9, <1>10, <1>11, <1>12,
     <1>13, <1>14, <1>15, <1>16, <1>17, <1>18 DEF Controller, Run, Cleanup

\* What a step of the controller keeps of absence, and where it acts on units.
LEMMA KeepsAbsent ==
  ASSUME StageTypeOK, Controller, receipt.absent
  PROVE  receipt'.absent
<1> USE Untouched, TRUE \in BOOLEAN
<1>1. CASE Reacquire
  <2> DEFINE held == receipt.invocation \/ ((wrapper # "none" /\ ~receipt.invocation) /\ Proven)
  <2>1. held \in BOOLEAN
    BY ReceiptUpdates DEF Proven
  <2>2. receipt' = receipt \/ receipt' = [receipt EXCEPT !.invocation = held]
    BY <1>1 DEF Reacquire, RaiseIf
  <2> QED BY <2>1, <2>2
<1>2. CASE SettleScope
  <2> DEFINE b == receipt.cleanTerminal \/ Loaded
             seen == [receipt EXCEPT !.cleanTerminal = b]
  <2>1. b \in BOOLEAN
    BY ReceiptUpdates DEF Loaded
  <2>2. seen.absent /\ seen \in Receipt
    BY <2>1, ReceiptUpdates
  <2>3. [seen EXCEPT !.absent = TRUE].absent
    BY <2>2 DEF Receipt
  <2>4. receipt' \in {receipt, seen, [seen EXCEPT !.absent = TRUE]}
    BY <1>2 DEF SettleScope, SettleWhile, RaiseIf
  <2> QED BY <2>2, <2>3, <2>4
<1>3. CASE ~Reacquire /\ ~SettleScope
  <2>1. receipt' \in {receipt, [receipt EXCEPT !.invocation = TRUE],
                      [receipt EXCEPT !.native = TRUE], [receipt EXCEPT !.terminal = TRUE],
                      [receipt EXCEPT !.wrapperExit = TRUE]}
    BY <1>3 DEF Controller, Run, Cleanup, Preflight, SaveIntent, SaveStep, Launch, Wrap,
       Accept, Prove, SaveCustody, Send, Transition, Watch, Stop, StopStep,
       Wait, WrapperSeen, Clean, CleanStop, CleanWrapper, Final, FinalWith, RaiseIf
  <2> QED BY <2>1
<1> QED BY <1>1, <1>2, <1>3

LEMMA UnitSteps ==
  ASSUME StageTypeOK, Controller
  PROVE  /\ pc \in {"WRAPPER", "FINAL"} => UNCHANGED managerVars
         /\ pc = "LAUNCH" => pc' # "WRAPPER"
<1>1. CASE pc \in {"WRAPPER", "FINAL"}
  <2>1. ~Launch /\ ~Stop /\ ~CleanStop
    BY <1>1 DEF Launch, Stop, CleanStop, StopStep
  <2> QED
    BY <1>1, <2>1 DEF Controller, Run, Cleanup, Preflight, SaveIntent, SaveStep,
       Wrap, Accept, Prove, SaveCustody, Send, Transition, Watch, Wait,
       Reacquire, Clean, SettleScope, SettleWhile, CleanWrapper, Final, FinalWith
<1>2. CASE pc = "LAUNCH"
  <2>1. Launch
    BY <1>2 DEF Controller, Run, Cleanup, Preflight, SaveIntent, SaveStep, Wrap, Accept,
       Prove, SaveCustody, Send, Transition, Watch, Stop, StopStep, Wait,
       Reacquire, Clean, CleanStop, SettleScope, SettleWhile, CleanWrapper, Final, FinalWith
  <2> QED BY <1>2, <2>1, AbortMoves DEF Launch, Proceed, Body, Ended
<1>3. CASE pc \notin {"WRAPPER", "FINAL", "LAUNCH"}
  BY <1>3
<1> QED BY <1>1, <1>2, <1>3

\* The manager touches neither the records nor the controller.
LEMMA CustodyStep ==
  ASSUME StageTypeOK, Custody, [Next]_vars
  PROVE  Custody'
<1>m. unit \in Units /\ receipt \in Receipt
  BY UnitTypes DEF StageTypeOK
<1>k. ASSUME NEW state, Kill(state)
      PROVE  procs' \subseteq procs /\ program' = program
  BY <1>k DEF Kill
<1>1. CASE Controller
  <2>1. Moves
    BY <1>1, ControllerMoves
  <2>2. receipt' \in Receipt
    BY <1>1, ControllerStep DEF RecordTypes
  <2>3. receipt' # NoRecord
    BY <2>2, RecordsExist
  <2>4. program' = program
    BY <1>1, <1>k, ControllerOnManager DEF managerVars
  <2>5. ~OnDisk' => pc' \in Before \cup {"RAISED", "KILLED"} /\ ~Loaded' /\ procs' = {}
    <3> SUFFICES ASSUME ~OnDisk'
                 PROVE  pc' \in Before \cup {"RAISED", "KILLED"} /\ ~Loaded' /\ procs' = {}
      OBVIOUS
    <3>1. disk' = disk /\ ~OnDisk
      BY <2>1, <2>3 DEF OnDisk, Moves
    <3>2. pc \in Before /\ ~Loaded /\ procs = {}
      BY <2>1, <3>1 DEF Custody, Moves, Ended
    <3>3. pc' \in {"INTENT", "RAISED"}
      BY <2>1, <2>3, <3>1, <3>2 DEF Moves, OnDisk
    <3>4. UNCHANGED managerVars
      <4>1. ~Stop /\ ~CleanStop
        BY <3>2 DEF Stop, CleanStop, StopStep, Before
      <4>2. ~Launch
        BY <3>2 DEF Launch, Before
      <4> QED
        BY <1>1, <4>1, <4>2 DEF Controller, Run, Cleanup, Preflight, SaveIntent, SaveStep,
           Wrap, Accept, Prove, SaveCustody, Send, Transition, Watch, Wait,
           Reacquire, Clean, SettleScope, SettleWhile, CleanWrapper, Final, FinalWith
    <3> QED BY <3>2, <3>3, <3>4 DEF Before, managerVars, Loaded
  <2>6. OnDisk' /\ disk'.invocation => receipt'.invocation
    BY <2>1 DEF Moves, Custody, OnDisk
  <2>7. pc' = "SEND" \/ payload' = "sent" => OnDisk' /\ disk'.invocation
    <3>1. ASSUME pc' = "SEND" PROVE OnDisk' /\ disk'.invocation
      BY <2>1, <2>3, <3>1 DEF Moves, Custody, OnDisk
    <3>2. ASSUME payload' = "sent" PROVE OnDisk' /\ disk'.invocation
      <4>1. OnDisk /\ disk.invocation
        BY <2>1, <3>2 DEF Moves, Custody
      <4> QED BY <2>1, <2>3, <4>1 DEF Moves, Custody, OnDisk
    <3> QED BY <3>1, <3>2
  <2>8. program' = "sdk" => payload' = "sent"
    <3>1. payload = "sent" => payload' = "sent"
      BY <1>1 DEF Controller, Run, Cleanup, Preflight, SaveIntent, SaveStep, Launch,
         Wrap, Accept, Prove, SaveCustody, Send, Transition, Watch, Stop,
         StopStep, Wait, Reacquire, Clean, CleanStop, SettleScope, SettleWhile,
         CleanWrapper, Final, FinalWith, Proceed, Abort, RaiseIf, SaveAndProceed
    <3> QED BY <2>4, <3>1 DEF Custody
  <2>9. pc' = "SAVE" => receipt'.invocation
    BY <2>1 DEF Moves
  <2> QED BY <2>5, <2>6, <2>7, <2>8, <2>9 DEF Custody
<1>2. CASE Killed
  BY <1>2 DEF Killed, managerVars, Custody, OnDisk, Loaded, Ended
<1>3. CASE (GateExec \/ GateQuits) /\ UNCHANGED stageVars
  <2>1. "main" \in procs /\ procs' \subseteq procs /\ unit' = unit
        /\ program' \in {program, "sdk"} /\ (program' # program => payload = "sent")
    BY <1>3 DEF GateExec, GateQuits
  <2> QED BY <1>3, <2>1 DEF stageVars, Custody, OnDisk, Loaded
<1>4. CASE Surroundings /\ UNCHANGED stageVars
  <2>1. ASSUME ~OnDisk PROVE ~Loaded' /\ procs' = {}
    <3>1. unit.state = "not-found" /\ procs = {}
      BY <2>1 DEF Custody, Loaded
    <3>2. unit' = unit /\ procs' = procs
      BY <1>4, <3>1 DEF Surroundings, Manager, Activate, Settle, Expire, Fork, SdkExit,
         ProcessEnds, Collect, WrapperExits, TickStage, Tick
    <3> QED BY <3>1, <3>2 DEF Loaded
  <2>2. program' = "sdk" => program = "sdk"
    BY <1>4, <1>k DEF Surroundings, Manager, Activate, Settle, Expire, Fork, SdkExit,
       ProcessEnds, Collect, WrapperExits, TickStage, Tick
  <2> QED BY <1>4, <2>1, <2>2 DEF stageVars, Custody, OnDisk
<1>5. CASE UNCHANGED vars
  BY <1>5 DEF vars, stageVars, managerVars, Custody, OnDisk, Loaded
<1> QED BY <1>1, <1>2, <1>3, <1>4, <1>5, Actors

\* A scope that is gone stays gone: only a request can bring its unit back.
LEMMA AbsenceStep ==
  ASSUME StageTypeOK, Absence, [Next]_vars
  PROVE  Absence'
<1>m. unit \in Units
  BY UnitTypes DEF StageTypeOK
<1>k. ASSUME NEW state \in {"dead", "failed"}, Kill(state), Gone PROVE Gone'
  BY <1>k, <1>m DEF Kill, Gone, Units
<1>1. CASE Controller
  <2>1. Moves
    BY <1>1, ControllerMoves
  <2>2. ASSUME receipt.absent
        PROVE  pc' \in {"WRAPPER", "FINAL"} \cup Ended /\ Gone'
    <3>1. pc \in {"WRAPPER", "FINAL"} /\ Gone
      BY <2>1, <2>2 DEF Moves, Absence
    <3>2. pc' \in {"FINAL"} \cup Ended
      BY <2>1, <3>1 DEF Moves
    <3>3. UNCHANGED managerVars
      BY <1>1, <3>1, UnitSteps
    <3> QED BY <3>1, <3>2, <3>3 DEF Gone, managerVars
  <2>3. ASSUME receipt'.absent, ~receipt.absent
        PROVE  pc' = "WRAPPER" /\ Gone'
    <3>1. pc' = "WRAPPER" /\ Gone
      BY <2>1, <2>3 DEF Moves
    <3>2. UNCHANGED managerVars \/ Kill("dead")
      BY <1>1, <3>1, ControllerOnManager, UnitSteps
    <3> QED BY <3>1, <3>2, <1>k DEF Gone, managerVars
  <2>4. OnDisk' /\ disk'.absent => receipt'.absent
    <3>1. receipt.absent => receipt'.absent
      BY <1>1, KeepsAbsent
    <3> QED BY <2>1, <3>1 DEF Moves, Absence, OnDisk
  <2> QED BY <2>2, <2>3, <2>4 DEF Absence
<1>2. CASE Killed
  BY <1>2 DEF Killed, managerVars, Absence, OnDisk, Gone, Ended
<1>3. CASE (GateExec \/ GateQuits) /\ UNCHANGED stageVars
  <2>1. procs # {} /\ unit' = unit /\ procs' \subseteq procs
    BY <1>3 DEF GateExec, GateQuits
  <2> QED BY <1>3, <2>1 DEF stageVars, Absence, OnDisk, Gone
<1>4. CASE Surroundings /\ UNCHANGED stageVars
  <2>1. ASSUME Gone PROVE Gone'
    <3>1. CASE Expire
      BY <3>1, <2>1, <1>k DEF Expire
    <3>2. CASE Collect
      BY <3>2, <2>1, <1>m DEF Collect, Gone, Units
    <3>3. CASE ~Expire /\ ~Collect
      BY <1>4, <2>1, <3>3 DEF Surroundings, Manager, Activate, Settle, Fork, SdkExit,
         ProcessEnds, WrapperExits, TickStage, Tick, Gone
    <3> QED BY <3>1, <3>2, <3>3
  <2> QED BY <1>4, <2>1 DEF stageVars, Absence, OnDisk
<1>5. CASE UNCHANGED vars
  BY <1>5 DEF vars, stageVars, managerVars, Absence, OnDisk, Gone
<1> QED BY <1>1, <1>2, <1>3, <1>4, <1>5, Actors

Inv == StageTypeOK /\ Lease /\ Custody /\ Absence

LEMMA InvHolds == Spec => []Inv
<1>1. Init => Inv
  <2> SUFFICES ASSUME Init PROVE Inv
    OBVIOUS
  <2>1. Custody /\ Absence
    BY DEF Init, ManagerInit, Intent, Custody, Absence, OnDisk, Loaded, Before
  <2> QED BY <2>1, TypeInit DEF Inv
<1>2. Inv /\ [Next]_vars => Inv'
  BY TypeStep, LeaseStep, CustodyStep, AbsenceStep DEF Inv
<1> QED BY <1>1, <1>2, PTL DEF Spec

\* Whoever finds the job after a crash at any point finds on disk the unit that
\* may exist, and its proven custody as soon as the SDK may run.
THEOREM CustodySurvives == Spec => []DurableCustody
<1>1. Inv => DurableCustody
  BY DEF Inv, Custody, DurableCustody, OnDisk
<1> QED BY <1>1, InvHolds, PTL

\* A record of absence, in memory or on disk, is true and stays true.
THEOREM AbsenceIsFinal == Spec => []ClaimsAreTrue
<1>1. Inv => ClaimsAreTrue
  BY DEF Inv, Absence, ClaimsAreTrue, OnDisk, Gone
<1> QED BY <1>1, InvHolds, PTL

(* Both, which is what the records are worth to whoever has them.           *)
THEOREM RecordsTrue == Spec => []RecordsAreTrue
<1>1. DurableCustody /\ ClaimsAreTrue => RecordsAreTrue
  BY DEF RecordsAreTrue
<1> QED BY <1>1, CustodySurvives, AbsenceIsFinal, PTL
-----------------------------------------------------------------------------
(***************************************************************************)
(* What a stage has established by the time no call has failed yet.  Each  *)
(* block of run leaves a fact behind that no later step, of whoever, can   *)
(* take back: the SDK was seen, it ended with status 0 and its scope was   *)
(* empty, its wrapper ended with status 0, its absence was settled.        *)
(***************************************************************************)
Closing == {"WRAPPER", "FINAL", "RETURNED"}
Ran == {"STOP", "WAIT"} \cup Cleaning \cup Closing
Seen == {"WATCH"} \cup Ran
Held == {"SAVE", "SEND", "TRANSITION"} \cup Seen

\* Before the request there is no unit, and an activating unit has no process.
Fresh ==
  /\ pc \in Before \cup {"LAUNCH"} => unit.state = "not-found" /\ procs = {} /\ program = "none"
  /\ unit.state = "activating" => procs = {} /\ program = "none"

Unbroken ==
  ~failed =>
    /\ pc \in Held => receipt.invocation
    /\ pc \in Seen => receipt.native /\ program = "sdk"
    /\ pc \in Ran => receipt.terminal /\ exit0 /\ Gone
    /\ pc \in Cleaning \cup Closing => receipt.wrapperExit /\ wrapper = "ok"
    /\ pc \in Closing => receipt.absent
    /\ pc = "RETURNED" => disk = receipt

\* The custody record only ever learns.
Learns(r, s) ==
  /\ r.invocation => s.invocation
  /\ r.native => s.native
  /\ r.terminal => s.terminal
  /\ r.absent => s.absent
  /\ r.wrapperExit => s.wrapperExit

LEMMA LearnsUpdates ==
  ASSUME NEW r \in Receipt, NEW b \in BOOLEAN, r.invocation => b
  PROVE  /\ Learns(r, r)
         /\ Learns(r, [r EXCEPT !.invocation = b])
         /\ Learns(r, [r EXCEPT !.native = TRUE])
         /\ Learns(r, [r EXCEPT !.terminal = TRUE])
         /\ Learns(r, [r EXCEPT !.wrapperExit = TRUE])
BY DEF Learns, Receipt

LEMMA LearnsPolled ==
  ASSUME NEW r \in Receipt, NEW b \in BOOLEAN
  PROVE  /\ Learns(r, [r EXCEPT !.cleanTerminal = b])
         /\ Learns(r, [[r EXCEPT !.cleanTerminal = b] EXCEPT !.absent = TRUE])
BY DEF Learns, Receipt

LEMMA ReceiptLearns ==
  ASSUME StageTypeOK, Controller
  PROVE  Learns(receipt, receipt')
<1>r. receipt \in Receipt
  BY Zenon DEF StageTypeOK
<1>1. CASE Reacquire
  <2> DEFINE held == receipt.invocation \/ ((wrapper # "none" /\ ~receipt.invocation) /\ Proven)
  <2>1. held \in BOOLEAN /\ (receipt.invocation => held)
    BY ReceiptUpdates DEF Proven
  <2>2. receipt' = receipt \/ receipt' = [receipt EXCEPT !.invocation = held]
    BY <1>1 DEF Reacquire, RaiseIf
  <2> HIDE DEF held
  <2> QED BY <1>r, <2>1, <2>2, LearnsUpdates
<1>2. CASE SettleScope
  <2> DEFINE b == receipt.cleanTerminal \/ Loaded
  <2>1. b \in BOOLEAN
    BY ReceiptUpdates DEF Loaded
  <2>2. receipt' \in {receipt, [receipt EXCEPT !.cleanTerminal = b],
                      [[receipt EXCEPT !.cleanTerminal = b] EXCEPT !.absent = TRUE]}
    BY <1>2 DEF SettleScope, SettleWhile, RaiseIf
  <2> HIDE DEF b
  <2> QED BY <1>r, <2>1, <2>2, LearnsUpdates, LearnsPolled
<1>3. CASE ~Reacquire /\ ~SettleScope
  <2>1. receipt' \in {receipt, [receipt EXCEPT !.invocation = TRUE],
                      [receipt EXCEPT !.native = TRUE], [receipt EXCEPT !.terminal = TRUE],
                      [receipt EXCEPT !.wrapperExit = TRUE]}
    BY <1>3 DEF Controller, Run, Cleanup, Preflight, SaveIntent, SaveStep, Launch, Wrap,
       Accept, Prove, SaveCustody, Send, Transition, Watch, Stop, StopStep,
       Wait, WrapperSeen, Clean, CleanStop, CleanWrapper, Final, FinalWith, RaiseIf
  <2> QED BY <1>r, <2>1, LearnsUpdates
<1> QED BY <1>1, <1>2, <1>3

\* The steps that fail nothing, and what each has seen.
Advances ==
  \/ pc' \in Before \cup {"LAUNCH", "WRAP", "ACCEPT", "PROVE"}
  \/ pc = "PROVE" /\ pc' = "SAVE" /\ receipt'.invocation
  \/ pc = "SAVE" /\ pc' = "SEND"
  \/ pc = "SEND" /\ pc' = "TRANSITION"
  \/ pc = "TRANSITION" /\ pc' = "WATCH" /\ receipt'.native /\ program = "sdk"
  \/ pc = "WATCH" /\ pc' = "STOP" /\ receipt'.terminal /\ exit0 /\ Gone
  \/ pc = "STOP" /\ pc' = "WAIT"
  \/ pc = "WAIT" /\ pc' = "REACQUIRE" /\ receipt'.wrapperExit /\ wrapper = "ok"
  \/ pc \in Cleaning /\ pc' \in Cleaning
  \/ pc \in Cleaning /\ pc' = "WRAPPER" /\ receipt'.absent
  \/ pc = "WRAPPER" /\ pc' = "FINAL"
  \/ pc = "FINAL" /\ pc' = "RETURNED" /\ disk' = receipt'

LEMMA Successes ==
  ASSUME StageTypeOK, Controller, ~failed'
  PROVE  ~failed /\ Advances
<1> USE DEF Before, Cleaning
<1>a. ~Abort
  BY DEF Abort
<1>p. ASSUME NEW step, Proceed(step) PROVE pc' = step /\ ~failed
  BY <1>p DEF Proceed
<1>r. ASSUME NEW doomed PROVE ~RaiseIf(doomed)
  BY <1>a DEF RaiseIf
<1>s. ASSUME NEW next, SaveAndProceed(next) PROVE pc' = next /\ ~failed
  BY <1>s, <1>a, <1>p DEF SaveAndProceed
<1>v. ASSUME NEW step, NEW next, SaveStep(step, next)
      PROVE  pc = step /\ pc' = next /\ ~failed
  BY <1>v, <1>s DEF SaveStep
<1>t. ASSUME NEW step, NEW inTime, NEW next, StopStep(step, inTime, next)
      PROVE  pc = step /\ pc' = next /\ ~failed
  BY <1>t, <1>a, <1>p, <1>r DEF StopStep
<1>u. receipt \in Receipt
  BY Zenon DEF StageTypeOK
<1>1. CASE Preflight
  BY <1>1, <1>p, <1>r DEF Preflight, Advances
<1>2. CASE SaveIntent
  BY <1>2, <1>v DEF SaveIntent, Advances
<1>3. CASE Launch
  BY <1>3, <1>a, <1>p DEF Launch, Advances
<1>4. CASE Wrap
  BY <1>4, <1>s, <1>r DEF Wrap, Advances
<1>5. CASE Accept
  BY <1>5, <1>p, <1>r DEF Accept, Advances
<1>6. CASE Prove
  <2>1. pc = "PROVE" /\ pc' = "SAVE" /\ ~failed /\ receipt' = [receipt EXCEPT !.invocation = TRUE]
    BY <1>6, <1>p, <1>r DEF Prove
  <2>2. receipt'.invocation
    BY <1>u, <2>1 DEF Receipt
  <2> QED BY <2>1, <2>2 DEF Advances
<1>7. CASE SaveCustody
  BY <1>7, <1>v DEF SaveCustody, Advances
<1>8. CASE Send
  BY <1>8, <1>r DEF Send, Advances
<1>9. CASE Transition
  <2>1. /\ pc = "TRANSITION" /\ pc' = "WATCH" /\ ~failed /\ program = "sdk"
        /\ receipt' = [receipt EXCEPT !.native = TRUE]
    BY <1>9, <1>s, <1>r DEF Transition
  <2>2. receipt'.native
    BY <1>u, <2>1 DEF Receipt
  <2> QED BY <2>1, <2>2 DEF Advances
<1>10. CASE Watch
  <2>1. /\ pc = "WATCH" /\ pc' = "STOP" /\ ~failed /\ Succeeded /\ KernelAbsent
        /\ receipt' = [receipt EXCEPT !.terminal = TRUE]
    BY <1>10, <1>a, <1>s, <1>r DEF Watch
  <2>2. receipt'.terminal
    BY <1>u, <2>1 DEF Receipt
  <2> QED BY <2>1, <2>2 DEF Advances, Succeeded, KernelAbsent, Gone
<1>11. CASE Stop
  BY <1>11, <1>t DEF Stop, Advances
<1>12. CASE Wait
  <2>1. /\ pc = "WAIT" /\ pc' = "REACQUIRE" /\ ~failed /\ wrapper = "ok"
        /\ receipt' = [receipt EXCEPT !.wrapperExit = TRUE]
    BY <1>12, <1>a, <1>p, <1>r DEF Wait, WrapperSeen
  <2>2. receipt'.wrapperExit
    BY <1>u, <2>1 DEF Receipt
  <2> QED BY <2>1, <2>2 DEF Advances
<1>13. CASE Reacquire
  BY <1>13, <1>p, <1>r DEF Reacquire, Advances
<1>14. CASE Clean
  BY <1>14, <1>p, <1>r DEF Clean, Advances
<1>15. CASE CleanStop
  BY <1>15, <1>t DEF CleanStop, Advances
<1>16. CASE SettleScope
  <2> DEFINE b == receipt.cleanTerminal \/ Loaded
             seen == [receipt EXCEPT !.cleanTerminal = b]
  <2>1. b \in BOOLEAN
    BY ReceiptUpdates DEF Loaded
  <2>2. [seen EXCEPT !.absent = TRUE].absent
    BY <1>u, <2>1 DEF Receipt
  <2>3. pc = "SETTLE"
    BY <1>16 DEF SettleScope, SettleWhile
  <2>4. CASE receipt' = [seen EXCEPT !.absent = TRUE] /\ Proceed("WRAPPER")
    BY <2>2, <2>3, <2>4, <1>p DEF Advances
  <2>5. CASE Proceed("SETTLE")
    BY <2>3, <2>5, <1>p DEF Advances
  <2> QED BY <1>16, <1>r, <2>4, <2>5 DEF SettleScope, SettleWhile
<1>17. CASE CleanWrapper
  BY <1>17, <1>p, <1>r DEF CleanWrapper, Advances
<1>18. CASE Final
  <2>1. pc = "FINAL" /\ Saved /\ Proceed("RETURNED") /\ receipt' = receipt
    BY <1>18, <1>a DEF Final, FinalWith
  <2> QED BY <2>1, <1>p DEF Saved, Advances
<1> QED
  BY <1>1, <1>2, <1>3, <1>4, <1>5, <1>6, <1>7, <1>8, <1>9, <1>10, <1>11, <1>12,
     <1>13, <1>14, <1>15, <1>16, <1>17, <1>18 DEF Controller, Run, Cleanup

\* What a step of the manager, the kernel, the gate or a stop leaves as it was.
Lasting ==
  /\ Gone /\ exit0 => Gone' /\ exit0'
  /\ program = "sdk" => program' = "sdk" \/ unit.state = "activating"
  /\ wrapper = "ok" => wrapper' = "ok"
  /\ unit'.state = "activating" => unit.state = "activating" /\ procs' \subseteq procs
                                   /\ program' \in {program, "sdk"}
                                   /\ (procs = {} => program' = program)

LEMMA KillLasts ==
  ASSUME StageTypeOK, NEW state \in {"dead", "failed"}, Kill(state)
  PROVE  Lasting
<1>1. unit \in Units
  BY UnitTypes DEF StageTypeOK
<1>2. unit'.state \in {"dead", "failed"} /\ procs' \subseteq procs
        /\ program' = program /\ wrapper' = wrapper
  BY <1>1 DEF Kill, Units
<1>3. exit0 /\ procs = {} => exit0'
  BY DEF Kill
<1> QED BY <1>2, <1>3 DEF Lasting, Gone

LEMMA OthersLast ==
  ASSUME StageTypeOK, GateExec \/ GateQuits \/ Surroundings
  PROVE  Lasting
<1>m. unit \in Units
  BY UnitTypes DEF StageTypeOK
<1>1. CASE GateExec
  BY <1>1 DEF GateExec, Lasting, Gone
<1>2. CASE GateQuits
  <2>1. /\ procs # {} /\ procs' \subseteq procs /\ program = "gate"
        /\ UNCHANGED <<unit, program, wrapper>>
    BY <1>2 DEF GateQuits
  <2> QED BY <2>1 DEF Lasting, Gone
<1>3. CASE Activate
  <2>1. unit.state = "activating" /\ UNCHANGED wrapper
    BY <1>3 DEF Activate
  <2>2. unit'.state \in {"running", "failed", "not-found"}
    <3>1. ASSUME NEW d, unit' = [unit EXCEPT !.state = "running", !.due = d]
          PROVE  unit'.state = "running"
      BY <3>1, <1>m DEF Units
    <3>2. ASSUME NEW u \in {"failed", "not-found"}, unit' = [unit EXCEPT !.state = u]
          PROVE  unit'.state = u
      BY <3>2, <1>m DEF Units
    <3>3. \/ unit' = [unit EXCEPT !.state = "running", !.due = now + unit.runtime]
          \/ \E u \in {"failed", "not-found"} : unit' = [unit EXCEPT !.state = u]
      BY <1>3 DEF Activate
    <3> QED BY <3>1, <3>2, <3>3
  <2> QED BY <2>1, <2>2 DEF Lasting, Gone
<1>4. CASE Expire
  BY <1>4, KillLasts DEF Expire
<1>5. CASE Settle \/ Collect
  <2>1. /\ unit'.state \in {"exited", "failed", "not-found"}
        /\ UNCHANGED <<procs, program, exit0, wrapper>>
    BY <1>5, <1>m DEF Settle, Collect, Units
  <2> QED BY <2>1, Zenon DEF Lasting, Gone
<1>6. CASE Fork \/ SdkExit
  BY <1>6 DEF Fork, SdkExit, Lasting, Gone
<1>7. CASE ProcessEnds
  <2>1. procs' \subseteq procs /\ UNCHANGED <<unit, program, exit0, wrapper>>
    BY <1>7 DEF ProcessEnds
  <2>2. Gone => Gone'
    BY <2>1 DEF Gone
  <2> QED BY <2>1, <2>2, Zenon DEF Lasting
<1>8. CASE WrapperExits
  BY <1>8 DEF WrapperExits, Lasting, Gone
<1>9. CASE TickStage
  BY <1>9 DEF TickStage, Tick, Lasting, Gone
<1> QED
  BY <1>1, <1>2, <1>3, <1>4, <1>5, <1>6, <1>7, <1>8, <1>9 DEF Surroundings, Manager

\* Only the request touches a unit that is not there yet.
LEMMA FreshStep ==
  ASSUME StageTypeOK, Fresh, [Next]_vars
  PROVE  Fresh'
<1>m. unit \in Units
  BY UnitTypes DEF StageTypeOK
<1>1. CASE Controller
  <2>1. pc' \in Before \cup {"LAUNCH"} => pc \in Before
    BY <1>1, ControllerMoves DEF Moves, Before
  <2>2. pc \in Before => UNCHANGED managerVars
    BY <1>1 DEF Controller, Run, Cleanup, Preflight, SaveIntent, SaveStep, Launch, Wrap,
       Accept, Prove, SaveCustody, Send, Transition, Watch, Stop, StopStep, Wait,
       Reacquire, Clean, CleanStop, SettleScope, SettleWhile, CleanWrapper, Final,
       FinalWith, Before
  <2>3. CASE UNCHANGED managerVars
    BY <2>1, <2>3 DEF managerVars, Fresh
  <2>4. CASE Kill("dead") /\ pc \notin Before
    <3>1. unit'.state \in {"dead", "failed"}
      BY <2>4, <1>m DEF Kill, Units
    <3> QED BY <2>1, <2>4, <3>1 DEF Fresh
  <2>5. CASE pc = "LAUNCH" /\ UNCHANGED <<procs, program, exit0, now>>
    BY <2>1, <2>5 DEF Fresh, Before
  <2> QED BY <1>1, <2>2, <2>3, <2>4, <2>5, ControllerOnManager
<1>2. CASE Killed
  BY <1>2 DEF Killed, managerVars, Fresh, Before
<1>3. CASE (GateExec \/ GateQuits \/ Surroundings) /\ UNCHANGED stageVars
  <2>1. Lasting
    BY <1>3, OthersLast
  <2>2. pc' = pc
    BY <1>3 DEF stageVars
  <2>3. unit'.state = "activating" => procs' = {} /\ program' = "none"
    BY <2>1 DEF Lasting, Fresh
  <2>4. ASSUME pc \in Before \cup {"LAUNCH"}
        PROVE  unit' = unit /\ procs' = procs /\ program' = program
    <3>1. unit.state = "not-found" /\ procs = {}
      BY <2>4 DEF Fresh
    <3> QED
      BY <1>3, <3>1 DEF GateExec, GateQuits, Surroundings, Manager, Activate, Settle, Expire,
         Fork, SdkExit, ProcessEnds, Collect, WrapperExits, TickStage, Tick
  <2> QED BY <2>2, <2>3, <2>4 DEF Fresh
<1>4. CASE UNCHANGED vars
  BY <1>4 DEF vars, stageVars, managerVars, Fresh
<1> QED BY <1>1, <1>2, <1>3, <1>4, Actors

\* Every fact a block of run leaves behind holds until the stage returns.
LEMMA UnbrokenStep ==
  ASSUME StageTypeOK, Fresh, Unbroken, [Next]_vars
  PROVE  Unbroken'
<1> SUFFICES ASSUME ~failed' PROVE Unbroken'
  BY DEF Unbroken
<1>s. ASSUME Lasting, ~failed, pc \in Held
      PROVE  /\ pc \in Seen => program' = "sdk"
             /\ pc \in Ran => exit0' /\ Gone'
             /\ pc \in Cleaning \cup Closing => wrapper' = "ok"
  <2>1. pc \in Seen => program' = "sdk"
    BY <1>s DEF Unbroken, Lasting, Fresh
  <2> QED BY <1>s, <2>1 DEF Unbroken, Lasting, Ran, Seen
<1>1. CASE Controller
  <2>1. ~failed /\ Advances /\ Learns(receipt, receipt')
    BY <1>1, Successes, ReceiptLearns
  <2>2. pc' \in Held => pc \in Held \cup {"PROVE"}
    BY <2>1 DEF Advances, Held, Seen, Ran, Closing, Cleaning, Before
  <2>3. pc' \in Held => Lasting
    <3>1. UNCHANGED managerVars => Lasting
      BY DEF managerVars, Lasting, Gone
    <3>2. Kill("dead") => Lasting
      BY KillLasts
    <3>3. pc' \in Held => pc # "LAUNCH"
      BY <2>2 DEF Held, Seen, Ran, Closing, Cleaning
    <3> QED BY <1>1, <3>1, <3>2, <3>3, ControllerOnManager
  <2>4. pc' \in Held => receipt'.invocation
    BY <2>1, <2>2 DEF Advances, Learns, Unbroken, Held, Seen, Ran, Closing, Cleaning, Before
  <2>5. pc' \in Seen => receipt'.native /\ program' = "sdk"
    <3>1. pc' \in Seen => pc \in Seen \/ pc = "TRANSITION"
      BY <2>1 DEF Advances, Seen, Ran, Closing, Cleaning, Before
    <3>2. pc' \in Seen => receipt'.native
      BY <2>1, <3>1 DEF Advances, Learns, Unbroken, Seen, Ran, Closing, Cleaning, Before
    <3>3. pc' \in Seen => program = "sdk"
      BY <2>1, <3>1 DEF Advances, Unbroken, Seen, Ran, Closing, Cleaning, Before
    <3>4. pc' \in Seen => unit.state # "activating"
      BY <3>3 DEF Fresh
    <3>5. pc' \in Seen => Lasting
      BY <2>3 DEF Held
    <3> QED BY <3>2, <3>3, <3>4, <3>5 DEF Lasting
  <2>6. pc' \in Ran => receipt'.terminal /\ exit0' /\ Gone'
    <3>1. pc' \in Ran => pc \in Ran \/ pc = "WATCH"
      BY <2>1 DEF Advances, Ran, Closing, Cleaning, Before
    <3>2. pc' \in Ran => receipt'.terminal
      BY <2>1, <3>1 DEF Advances, Learns, Unbroken, Ran, Closing, Cleaning, Before
    <3>3. pc' \in Ran => exit0 /\ Gone
      BY <2>1, <3>1 DEF Advances, Unbroken, Ran, Closing, Cleaning, Before
    <3>4. pc' \in Ran => Lasting
      BY <2>3 DEF Held, Seen
    <3> QED BY <3>2, <3>3, <3>4 DEF Lasting
  <2>7. pc' \in Cleaning \cup Closing => receipt'.wrapperExit /\ wrapper' = "ok"
    <3>1. pc' \in Cleaning \cup Closing => pc \in Cleaning \cup Closing \/ pc = "WAIT"
      BY <2>1 DEF Advances, Closing, Cleaning, Before
    <3>2. pc' \in Cleaning \cup Closing => receipt'.wrapperExit
      BY <2>1, <3>1 DEF Advances, Learns, Unbroken, Closing, Cleaning, Before
    <3>3. pc' \in Cleaning \cup Closing => wrapper = "ok"
      BY <2>1, <3>1 DEF Advances, Unbroken, Closing, Cleaning, Before
    <3>4. pc' \in Cleaning \cup Closing => Lasting
      BY <2>3 DEF Held, Seen, Ran
    <3> QED BY <3>2, <3>3, <3>4 DEF Lasting
  <2>8. pc' \in Closing => receipt'.absent
    BY <2>1 DEF Advances, Learns, Unbroken, Closing, Cleaning, Before
  <2>9. pc' = "RETURNED" => disk' = receipt'
    BY <2>1 DEF Advances, Cleaning, Before
  <2> QED BY <2>4, <2>5, <2>6, <2>7, <2>8, <2>9 DEF Unbroken
<1>2. CASE Killed
  BY <1>2 DEF Killed, Unbroken, Held, Seen, Ran, Closing, Cleaning
<1>3. CASE (GateExec \/ GateQuits \/ Surroundings) /\ UNCHANGED stageVars
  <2>1. Lasting
    BY <1>3, OthersLast
  <2>2. ~failed /\ pc' = pc /\ receipt' = receipt /\ disk' = disk
    BY <1>3 DEF stageVars
  <2>3. Ran \subseteq Seen /\ Seen \subseteq Held /\ Cleaning \cup Closing \subseteq Ran
    BY DEF Held, Seen, Ran
  <2>4. /\ pc \in Seen => program' = "sdk"
        /\ pc \in Ran => exit0' /\ Gone'
        /\ pc \in Cleaning \cup Closing => wrapper' = "ok"
    BY <1>s, <2>1, <2>2, <2>3
  <2> QED BY <2>2, <2>4 DEF Unbroken
<1>4. CASE UNCHANGED vars
  BY <1>4 DEF vars, stageVars, managerVars, Unbroken, Gone
<1> QED BY <1>1, <1>2, <1>3, <1>4, Actors

\* No way of failing ends in a return.
ReturnsUnfailed == pc = "RETURNED" => ~failed

LEMMA ReturnStep ==
  ASSUME StageTypeOK, ReturnsUnfailed, [Next]_vars
  PROVE  ReturnsUnfailed'
<1>1. CASE Controller
  <2> SUFFICES ASSUME pc' = "RETURNED" PROVE ~failed'
    BY DEF ReturnsUnfailed
  <2>1. ~Abort
    BY AbortType DEF Cleaning
  <2>2. Proceed("RETURNED") /\ ~failed
    BY <1>1, <2>1 DEF Controller, Run, Cleanup, Preflight, SaveIntent, SaveStep, Launch,
       Wrap, Accept, Prove, SaveCustody, Send, Transition, Watch, Stop, StopStep,
       Wait, Reacquire, Clean, CleanStop, SettleScope, SettleWhile, CleanWrapper, Final,
       FinalWith, SaveAndProceed, RaiseIf, Proceed
  <2> QED BY <2>2 DEF Proceed
<1>2. CASE Killed
  BY <1>2 DEF Killed, ReturnsUnfailed
<1>3. CASE UNCHANGED stageVars
  BY <1>3 DEF stageVars, ReturnsUnfailed
<1> QED BY <1>1, <1>2, <1>3, Actors DEF vars

\* Only a gate that waits is sent the payload.
SentToGate == payload = "sent" => program # "none"

LEMMA PayloadSteps ==
  ASSUME Controller
  PROVE  \/ (payload' = "sent") = (payload = "sent")
         \/ Send /\ payload' = "sent"
<1>1. Abort => (payload' = "sent") = (payload = "sent")
  BY DEF Abort
<1>2. CASE Send
  BY <1>1, <1>2 DEF Send, RaiseIf
<1>3. ASSUME ~Send, ~UNCHANGED payload PROVE Abort
  BY <1>3 DEF Controller, Run, Cleanup, Preflight, SaveIntent, SaveStep, Launch, Wrap, Accept,
     Prove, SaveCustody, Transition, Watch, Stop, StopStep, Wait, Reacquire, Clean, CleanStop,
     SettleScope, SettleWhile, CleanWrapper, Final, FinalWith, SaveAndProceed, RaiseIf, Proceed
<1> QED BY <1>1, <1>2, <1>3

LEMMA ControllerProgram ==
  ASSUME StageTypeOK, Controller
  PROVE  /\ program' = program /\ procs' \subseteq procs
         /\ procs = {} => exit0' = exit0
<1>1. Kill("dead") => program' = program /\ procs' \subseteq procs /\ (procs = {} => exit0' = exit0)
  BY DEF Kill, StageTypeOK, ManagerTypeOK
<1> QED BY <1>1, ControllerOnManager DEF managerVars

LEMMA SentStep ==
  ASSUME StageTypeOK, SentToGate, [Next]_vars
  PROVE  SentToGate'
<1>1. CASE Controller
  <2>1. Send /\ payload' = "sent" => program # "none"
    <3>1. ASSUME Send, payload' = "sent", payload # "sent" PROVE GateWaits
      BY <3>1 DEF Send, RaiseIf, Abort
    <3> QED BY <3>1 DEF GateWaits, SentToGate
  <2> QED BY <1>1, <2>1, PayloadSteps, ControllerProgram DEF SentToGate
<1>2. CASE Killed
  BY <1>2 DEF Killed, managerVars, SentToGate
<1>3. CASE (GateExec \/ GateQuits \/ Surroundings) /\ UNCHANGED stageVars
  <2>1. payload' = payload
    BY <1>3 DEF stageVars
  <2>2. program # "none" => program' # "none"
    BY <1>3 DEF GateExec, GateQuits, Surroundings, Manager, Activate, Settle, Expire, Kill,
       Fork, SdkExit, ProcessEnds, Collect, WrapperExits, TickStage, Tick
  <2> QED BY <2>1, <2>2 DEF SentToGate
<1>4. CASE UNCHANGED vars
  BY <1>4 DEF vars, stageVars, managerVars, SentToGate
<1> QED BY <1>1, <1>2, <1>3, <1>4, Actors

Known == StageTypeOK /\ Lease /\ Fresh /\ Unbroken /\ ReturnsUnfailed /\ SentToGate

LEMMA KnownHolds == Spec => []Known
<1>1. Init => Known
  <2> SUFFICES ASSUME Init PROVE Fresh /\ Unbroken /\ ReturnsUnfailed /\ SentToGate
    BY TypeInit DEF Known
  <2> QED
    BY DEF Init, ManagerInit, Fresh, Unbroken, ReturnsUnfailed, SentToGate,
           Held, Seen, Ran, Closing, Cleaning
<1>2. Known /\ [Next]_vars => Known'
  BY TypeStep, LeaseStep, FreshStep, UnbrokenStep, ReturnStep, SentStep DEF Known
<1> QED BY <1>1, <1>2, PTL DEF Spec

\* A stage that returns has run the SDK to exit status 0, has seen all of it
\* end, and has left exactly that on disk: wherever else a call fails, or the
\* first cancellation arrives, run raises.
THEOREM ReturnMeansClean == Spec => []PassIsClean
<1>1. Known => PassIsClean
  <2> SUFFICES ASSUME Known, pc = "RETURNED" PROVE PassIsClean
    BY DEF PassIsClean
  <2> QED
    BY DEF Known, PassIsClean, Unbroken, ReturnsUnfailed, Gone, Held, Seen, Ran, Closing, Cleaning
<1> QED BY <1>1, KnownHolds, PTL
-----------------------------------------------------------------------------
(***************************************************************************)
(* Every step is one of NativeStage or changes nothing there: what the run *)
(* promises its caller.  Where it raises or is killed, the SDK is as the   *)
(* step finds it; where it returns, the SDK has passed.                    *)
(***************************************************************************)
\* The processes of the unit can but end, by whatever makes them.
LEMMA EndsOrStays ==
  ASSUME OutcomeOf' = OutcomeOf, Running' = Running, program' = program,
         (payload' = "sent") = (payload = "sent"),
         procs' \subseteq procs, procs = {} => exit0' = exit0
  PROVE  [Stage!NativeActs]_(Stage!stageVars)
<1> SUFFICES SdkOf' = SdkOf \/ Stage!End
  BY DEF Stage!NativeActs, Stage!stageVars
<1>1. CASE program = "sdk"
  <2>1. CASE procs = {}
    BY <1>1, <2>1 DEF SdkOf, Released
  <2>2. CASE procs # {}
    <3>1. SdkOf = IF "main" \in procs THEN "runs" ELSE "left"
      BY <1>1, <2>2 DEF SdkOf
    <3>2. \/ SdkOf' \in {"left", "absent"} \/ (SdkOf' = "passed" /\ Running)
          \/ SdkOf' = "runs" /\ "main" \in procs
      BY <1>1 DEF SdkOf, Released
    <3>3. Running => OutcomeOf = "running"
      BY DEF OutcomeOf
    <3> QED BY <3>1, <3>2, <3>3 DEF Stage!End
  <2> QED BY <2>1, <2>2
<1>2. CASE program # "sdk"
  <2>1. SdkOf = IF Released THEN "released" ELSE "absent"
    BY <1>2 DEF SdkOf
  <2>2. SdkOf' = IF Released' THEN "released" ELSE "absent"
    BY <1>2 DEF SdkOf
  <2>3. Released' => Released
    BY DEF Released
  <2> QED BY <2>1, <2>2, <2>3 DEF Stage!End
<1> QED BY <1>1, <1>2

\* run raises, or its process is killed.
LEMMA RaisesAsItIs ==
  ASSUME Running, pc' \in {"RAISED", "KILLED"}, UNCHANGED managerVars,
         (payload' = "sent") = (payload = "sent")
  PROVE  Stage!Raise
<1>1. OutcomeOf = "running" /\ OutcomeOf' = "none" /\ ~Running'
  BY DEF OutcomeOf, Running, Ended
<1>2. Released' = Released
  BY DEF Released, managerVars
<1>3. SdkOf' = IF SdkOf = "passed" THEN "absent" ELSE SdkOf
  BY <1>1, <1>2 DEF SdkOf, managerVars
<1> QED BY <1>1, <1>3 DEF Stage!Raise

LEMMA SendReleases ==
  ASSUME Send, payload' = "sent"
  PROVE  [Stage!NativeActs]_(Stage!stageVars)
<1>1. UNCHANGED managerVars
  BY DEF Send
<1>2. pc = "SEND" /\ pc' \notin Ended
  BY AbortMoves DEF Send, RaiseIf, Abort, Body, Ended, Before
<1>3. OutcomeOf = "running" /\ OutcomeOf' = "running" /\ Running /\ Running'
  BY <1>2 DEF OutcomeOf, Running, Ended
<1>4. CASE payload = "sent"
  BY <1>1, <1>3, <1>4, EndsOrStays DEF managerVars
<1>5. CASE payload # "sent"
  <2>1. GateWaits
    BY <1>5 DEF Send, RaiseIf, Abort
  <2>2. SdkOf = "absent" /\ SdkOf' = "released"
    BY <1>1, <1>5, <2>1 DEF SdkOf, Released, GateWaits, managerVars
  <2> QED BY <1>3, <2>2 DEF Stage!NativeActs, Stage!Release
<1> QED BY <1>4, <1>5

\* The controller ends in a step that leaves the unit alone, and returns only
\* from the last one.
LEMMA ControllerEnds ==
  ASSUME StageTypeOK, Controller
  PROVE  /\ Running
         /\ pc' \in Ended => UNCHANGED managerVars
         /\ pc' # "KILLED"
         /\ pc' = "RETURNED" => pc = "FINAL" /\ ~failed
<1>1. Running /\ (pc' \in Ended => pc \in Before \cup {"FINAL"})
  <2>1. Moves
    BY ControllerMoves
  <2>2. pc' \in Ended => Abort \/ pc = "FINAL"
    BY DEF Controller, Run, Cleanup, Preflight, SaveIntent, SaveStep, Launch, Wrap, Accept,
       Prove, SaveCustody, Send, Transition, Watch, Stop, StopStep, Wait, Reacquire, Clean,
       CleanStop, SettleScope, SettleWhile, CleanWrapper, Final, FinalWith, SaveAndProceed,
       RaiseIf, Proceed, Ended
  <2>3. pc \in Steps
    BY DEF StageTypeOK, Steps
  <2> QED BY <2>1, <2>2, <2>3, AbortMoves DEF Moves, Running, Steps, Body, Cleaning, Ended, Before
<1>2. pc \in Before \cup {"FINAL"} => UNCHANGED managerVars
  <2>1. pc \in Before => UNCHANGED managerVars
    BY DEF Controller, Run, Cleanup, Preflight, SaveIntent, SaveStep, Launch, Wrap,
       Accept, Prove, SaveCustody, Send, Transition, Watch, Stop, StopStep, Wait,
       Reacquire, Clean, CleanStop, SettleScope, SettleWhile, CleanWrapper, Final,
       FinalWith, Before
  <2> QED BY <2>1, UnitSteps
<1>3. pc' = "RETURNED" => ~Abort /\ Final
  <2>1. ~(pc' = "RETURNED" /\ Abort)
    BY AbortType DEF Cleaning
  <2> QED
    BY <2>1 DEF Controller, Run, Cleanup, Preflight, SaveIntent, SaveStep, Launch, Wrap, Accept,
       Prove, SaveCustody, Send, Transition, Watch, Stop, StopStep, Wait, Reacquire, Clean,
       CleanStop, SettleScope, SettleWhile, CleanWrapper, SaveAndProceed, RaiseIf, Proceed
<1>4. pc' # "KILLED"
  <2>1. ~(pc' = "KILLED" /\ Abort)
    BY DEF Abort
  <2> QED
    BY <2>1 DEF Controller, Run, Cleanup, Preflight, SaveIntent, SaveStep, Launch, Wrap, Accept,
       Prove, SaveCustody, Send, Transition, Watch, Stop, StopStep, Wait, Reacquire, Clean,
       CleanStop, SettleScope, SettleWhile, CleanWrapper, Final, FinalWith, SaveAndProceed,
       RaiseIf, Proceed
<1> QED BY <1>1, <1>2, <1>3, <1>4 DEF Final, FinalWith

LEMMA ControllerPromises ==
  ASSUME Known, Controller
  PROVE  [Stage!NativeActs \/ Stage!Return \/ Stage!Raise]_(Stage!stageVars)
<1>1. CASE Send /\ payload' = "sent"
  BY <1>1, SendReleases
<1>2. CASE ~(Send /\ payload' = "sent")
  <2>1. (payload' = "sent") = (payload = "sent")
    BY <1>2, PayloadSteps
  <2>2. CASE pc' \notin Ended
    <3>1. OutcomeOf' = OutcomeOf /\ Running' = Running
      BY <2>2, ControllerEnds DEF Known, OutcomeOf, Running
    <3> QED BY <2>1, <3>1, ControllerProgram, EndsOrStays DEF Known
  <2>3. CASE pc' = "RAISED"
    BY <2>1, <2>3, ControllerEnds, RaisesAsItIs DEF Known, Ended
  <2>4. CASE pc' = "RETURNED"
    <3>1. UNCHANGED managerVars /\ Running /\ pc = "FINAL" /\ ~failed
      BY <2>4, ControllerEnds DEF Known, Ended
    <3>2. program = "sdk" /\ exit0 /\ procs = {}
      BY <3>1 DEF Known, Unbroken, Gone, Seen, Ran, Closing
    <3>3. SdkOf = "passed" /\ SdkOf' = "absent"
      BY <2>4, <3>1, <3>2 DEF SdkOf, Released, Running, Ended, managerVars
    <3>4. OutcomeOf = "running" /\ OutcomeOf' = "returned"
      BY <2>4, <3>1 DEF OutcomeOf, Running, Ended
    <3> QED BY <3>3, <3>4 DEF Stage!Return
  <2> QED BY <2>2, <2>3, <2>4, ControllerEnds DEF Known, Ended
<1> QED BY <1>1, <1>2

LEMMA OthersPromise ==
  ASSUME Known, GateExec \/ GateQuits \/ Surroundings, UNCHANGED stageVars
  PROVE  [Stage!NativeActs]_(Stage!stageVars)
<1>1. pc' = pc /\ payload' = payload
  BY DEF stageVars
<1>2. OutcomeOf' = OutcomeOf /\ Running' = Running
  BY <1>1 DEF OutcomeOf, Running
<1>3. CASE GateExec
  <2>1. SdkOf = "released" /\ SdkOf' = "runs"
    BY <1>3 DEF GateExec, SdkOf, Released
  <2> QED BY <1>2, <2>1 DEF Stage!NativeActs, Stage!Exec
<1>4. CASE Activate
  <2>1. program = "none" /\ payload # "sent"
    BY <1>4 DEF Activate, Known, Fresh, SentToGate
  <2>2. program' \in {"none", "gate"}
    BY <1>4, <2>1 DEF Activate
  <2>3. SdkOf = "absent" /\ SdkOf' = "absent"
    BY <1>1, <2>1, <2>2 DEF SdkOf, Released
  <2> QED BY <1>2, <2>3 DEF Stage!stageVars
<1>5. CASE Fork
  <2>1. SdkOf = "runs" /\ SdkOf' = "runs"
    BY <1>5 DEF Fork, SdkOf
  <2> QED BY <1>2, <2>1 DEF Stage!stageVars
<1>6. CASE GateQuits \/ SdkExit \/ ProcessEnds \/ Settle \/ Expire \/ Collect \/ WrapperExits
           \/ TickStage
  <2>1. program' = program /\ procs' \subseteq procs /\ (procs = {} => exit0' = exit0)
    BY <1>6 DEF GateQuits, SdkExit, ProcessEnds, Settle, Expire, Kill, Collect, WrapperExits,
       TickStage, Tick, Known, StageTypeOK, ManagerTypeOK
  <2> QED BY <1>1, <1>2, <2>1, EndsOrStays
<1> QED BY <1>3, <1>4, <1>5, <1>6 DEF Surroundings, Manager

\* What run promises run_all it keeps: it returns only when the SDK has run to
\* exit status 0 and all of it has ended, and once it has raised or its process
\* was killed nothing can start any more but the SDK of a gate that was sent its
\* payload.
THEOREM StageKeepsPromise == Spec => KeepsPromise
<1>1. Init => Stage!StageInit
  BY DEF Init, ManagerInit, Stage!StageInit, OutcomeOf, SdkOf, Released, Running, Ended
<1>2. Known /\ [Next]_vars =>
        [Stage!NativeActs \/ Stage!Return \/ Stage!Raise]_(Stage!stageVars)
  <2> SUFFICES ASSUME Known, [Next]_vars
               PROVE  [Stage!NativeActs \/ Stage!Return \/ Stage!Raise]_(Stage!stageVars)
    OBVIOUS
  <2>1. CASE Controller
    BY <2>1, ControllerPromises
  <2>2. CASE Killed
    <3>1. Running /\ (payload' = "sent") = (payload = "sent") /\ UNCHANGED managerVars
          /\ pc' = "KILLED"
      BY <2>2 DEF Killed, Running
    <3> QED BY <3>1, RaisesAsItIs
  <2>3. CASE (GateExec \/ GateQuits \/ Surroundings) /\ UNCHANGED stageVars
    BY <2>3, OthersPromise
  <2>4. CASE UNCHANGED vars
    BY <2>4 DEF vars, stageVars, managerVars, Stage!stageVars, OutcomeOf, SdkOf, Released, Running
  <2> QED BY <2>1, <2>2, <2>3, <2>4, Actors
<1> QED BY <1>1, <1>2, KnownHolds, PTL DEF Spec, KeepsPromise, Stage!StageSpec
=============================================================================
