---------------------------- MODULE ToolsProofs ----------------------------
(***************************************************************************)
(* The tools that MCTools checks side by side, each proved of its own      *)
(* specification: what a document says of the source (SourceEvidence),     *)
(* what a process may still use of its job (JobClock), what is returned of *)
(* a file or a child (BoundedReads), what is kept of a report              *)
(* (TestReport), of which stage evidence is (StageLifecycle), what the     *)
(* hosted suite leaves behind (HostedStatic) and what a patch was planned  *)
(* from (GreenMetadata).                                                   *)
(***************************************************************************)
EXTENDS MCTools, Integers, FiniteSetTheorems, FunctionTheorems, SequenceTheorems,
        WellFoundedInduction, TLAPS

(* Induction over the naturals, of a set: whoever contains 0 and with each  *)
(* number the next one contains them all.                                   *)
LEMMA SetInduction ==
  ASSUME NEW S \in SUBSET Nat, 0 \in S, \A n \in S : n + 1 \in S
  PROVE  S = Nat
<1> SUFFICES ASSUME Nat \ S # {} PROVE FALSE
  OBVIOUS
<1> DEFINE Below == {0..(m - 1) : m \in Nat \ S}
<1>1. Below \subseteq FiniteSubsetsOf(Nat) /\ Below # {}
  <2>1. \A m \in Nat : 0..(m - 1) \in SUBSET Nat /\ IsFiniteSet(0..(m - 1))
    BY FS_Interval
  <2> QED
    BY <2>1 DEF FiniteSubsetsOf
<1>2. PICK B \in Below : \A C \in Below : <<C, B>> \notin StrictSubsetOrdering(Nat)
  BY <1>1, FS_StrictSubsetOrderingWellFounded, WFMin
<1>3. PICK n \in Nat \ S : B = 0..(n - 1)
  BY <1>2
<1>4. n # 0 /\ n - 1 \in Nat
  OBVIOUS
<1>5. n - 1 \notin S
  BY <1>4
<1>6. 0..((n - 1) - 1) \in Below /\ 0..((n - 1) - 1) \subseteq B /\ 0..((n - 1) - 1) # B
  BY <1>3, <1>4, <1>5
<1>7. B \in SUBSET Nat
  BY <1>3
<1> QED
  BY <1>2, <1>6, <1>7 DEF StrictSubsetOrdering
-----------------------------------------------------------------------------

(* Nothing returns, so what was read of a state that had left the expected  *)
(* one is seen by every later observation of the same fact.                *)
TaintStays == tainted \subseteq left

(* A fact observed in a step after which nothing was read did hold whenever *)
(* anything was read.                                                      *)
Settles(p, i, n, fact) ==
  Plan(p)[i] = fact /\ \A j \in (i + 1)..(n - 1) : Plan(p)[j] \notin Readings
ObservedLast ==
  \A fact \in Facts : \A i \in 1..(turn - 1) : Settles(program, i, turn, fact) => fact \notin tainted

(* A document is the last thing a program writes.                           *)
WrittenLast ==
  /\ exit = "running" => binding = "none"
  /\ exit = "failed" => binding # "bound"
  /\ binding \in {"bound", "partial"} => tainted \cap Claims(program) = {}

Last(p) == Len(Plan(p))
EvidenceInv == EvidenceTypeOK /\ turn <= Last(program) /\ TaintStays /\ ObservedLast /\ WrittenLast

-----------------------------------------------------------------------------
(* The plans: the last step, and no other, binds.                            *)
LEMMA PlansBindLast ==
  ASSUME NEW p \in Programs
  PROVE  /\ Last(p) \in 7..8
         /\ \A i \in 1..Last(p) : Plan(p)[i] = "bind" <=> i = Last(p)
<1> USE DEF Last, Plan
<1>1. CASE p = "release"
  BY <1>1 DEF VerifyReleaseSource
<1>2. CASE p = "prepare"
  BY <1>2 DEF PrepareEvidence
<1>3. CASE p = "workflows"
  BY <1>3 DEF RetainWorkflows
<1>4. CASE p = "focused"
  BY <1>4 DEF RetainFocused
<1> QED
  BY <1>1, <1>2, <1>3, <1>4 DEF Programs

(* Everything a program claims it observes after its last reading.          *)
LEMMA PlansSettleClaims ==
  ASSUME NEW p \in Programs, NEW fact \in Claims(p)
  PROVE  fact \in Facts /\ \E i \in 1..(Last(p) - 1) : Settles(p, i, Last(p), fact)
<1>1. CASE p = "release"
  <2>1. Plan(p) = VerifyReleaseSource /\ Last(p) = 8
    BY <1>1 DEF Plan, Last, VerifyReleaseSource
  <2>2. /\ Settles(p, 4, 8, "remote") /\ Settles(p, 5, 8, "head")
        /\ Settles(p, 6, 8, "clean") /\ Settles(p, 7, 8, "origin")
    BY <1>1, <2>1 DEF Settles, Readings, VerifyReleaseSource
  <2>3. fact \in {"remote", "head", "clean", "origin"}
    BY <1>1 DEF Claims
  <2> QED
    BY <2>1, <2>2, <2>3 DEF Facts
<1>2. CASE p = "prepare"
  <2>1. Plan(p) = PrepareEvidence /\ Last(p) = 8
    BY <1>2 DEF Plan, Last, PrepareEvidence
  <2>2. Settles(p, 6, 8, "head")
    BY <1>2, <2>1 DEF Settles, Readings, PrepareEvidence
  <2>3. fact \in {"head"}
    BY <1>2 DEF Claims
  <2> QED
    BY <2>1, <2>2, <2>3 DEF Facts
<1>3. CASE p = "workflows"
  <2>1. Plan(p) = RetainWorkflows /\ Last(p) = 8
    BY <1>3 DEF Plan, Last, RetainWorkflows
  <2>2. Settles(p, 6, 8, "head") /\ Settles(p, 7, 8, "controls")
    BY <1>3, <2>1 DEF Settles, Readings, RetainWorkflows
  <2>3. fact \in {"head", "controls"}
    BY <1>3 DEF Claims
  <2> QED
    BY <2>1, <2>2, <2>3 DEF Facts
<1>4. CASE p = "focused"
  <2>1. Plan(p) = RetainFocused /\ Last(p) = 7
    BY <1>4 DEF Plan, Last, RetainFocused
  <2>2. Settles(p, 6, 7, "head")
    BY <1>4, <2>1 DEF Settles, Readings, RetainFocused
  <2>3. fact \in {"head"}
    BY <1>4 DEF Claims
  <2> QED
    BY <2>1, <2>2, <2>3 DEF Facts
<1> QED
  BY <1>1, <1>2, <1>3, <1>4 DEF Programs

-----------------------------------------------------------------------------
LEMMA EvidenceInitInv == EvidenceInit => EvidenceInv
<1> SUFFICES ASSUME EvidenceInit PROVE EvidenceInv
  OBVIOUS
<1>1. turn <= Last(program)
  BY PlansBindLast DEF EvidenceInit
<1> QED
  BY <1>1 DEF EvidenceInit, EvidenceInv, EvidenceTypeOK, TaintStays, ObservedLast, WrittenLast

(* A step of the plan other than the last one.                              *)
LEMMA StepKeeps ==
  ASSUME EvidenceInv, NEW act, act # "bind", Now(act), Proceeds, UNCHANGED left,
         \/ act \notin Readings /\ act \notin left /\ tainted' = tainted
         \/ act \in Readings /\ act \notin left /\ tainted' = tainted \cup left
  PROVE  EvidenceInv'
<1>0. /\ EvidenceTypeOK /\ turn <= Last(program) /\ TaintStays /\ ObservedLast /\ WrittenLast
      /\ exit = "running" /\ Plan(program)[turn] = act
      /\ turn' = turn + 1 /\ UNCHANGED <<left, program, binding, exit>>
  BY DEF EvidenceInv, Now, Proceeds
<1>1. turn \in 1..(Last(program) - 1) /\ Last(program) \in 7..8
  BY <1>0, PlansBindLast DEF EvidenceTypeOK
<1>2. EvidenceTypeOK' /\ TaintStays'
  BY <1>0, <1>1 DEF EvidenceTypeOK, TaintStays
<1>3. WrittenLast'
  BY <1>0 DEF WrittenLast
<1>4. ASSUME NEW fact \in Facts, NEW i \in 1..turn, Settles(program, i, turn + 1, fact)
      PROVE  fact \notin tainted'
  <2>1. CASE i = turn
    <3>1. fact = act
      BY <1>0, <1>4, <2>1 DEF Settles
    <3> QED
      BY <1>0, <3>1 DEF TaintStays
  <2>2. CASE i < turn
    <3>1. act \notin Readings
      BY <1>0, <1>1, <1>4, <2>2 DEF Settles
    <3>2. i \in 1..(turn - 1) /\ Settles(program, i, turn, fact)
      BY <1>1, <1>4, <2>2 DEF Settles
    <3> QED
      BY <1>0, <3>1, <3>2 DEF ObservedLast
  <2> QED
    BY <1>1, <2>1, <2>2
<1>5. ObservedLast'
  BY <1>0, <1>1, <1>4 DEF ObservedLast
<1> QED
  BY <1>0, <1>1, <1>2, <1>3, <1>5 DEF EvidenceInv

LEMMA BindKeeps ==
  ASSUME EvidenceInv, Bind
  PROVE  EvidenceInv'
<1>0. /\ EvidenceTypeOK /\ turn <= Last(program) /\ TaintStays /\ ObservedLast /\ WrittenLast
      /\ exit = "running" /\ Plan(program)[turn] = "bind"
      /\ UNCHANGED <<left, program, turn, tainted>>
  BY DEF EvidenceInv, Bind, Now
<1>1. turn = Last(program)
  BY <1>0, PlansBindLast DEF EvidenceTypeOK
<1>2. ASSUME NEW fact \in Claims(program) PROVE fact \notin tainted
  <2>1. program \in Programs
    BY <1>0 DEF EvidenceTypeOK
  <2>2. PICK i \in 1..(Last(program) - 1) :
         fact \in Facts /\ Settles(program, i, Last(program), fact)
    BY <2>1, PlansSettleClaims
  <2> QED
    BY <1>0, <1>1, <2>2 DEF ObservedLast
<1>3. WrittenLast'
  BY <1>0, <1>2 DEF WrittenLast, Bind
<1>4. EvidenceTypeOK' /\ TaintStays' /\ ObservedLast'
  BY <1>0 DEF EvidenceTypeOK, TaintStays, ObservedLast, Bind
<1> QED
  BY <1>0, <1>3, <1>4 DEF EvidenceInv

LEMMA RefuseKeeps ==
  ASSUME EvidenceInv, Refuse
  PROVE  EvidenceInv'
<1>0. /\ EvidenceTypeOK /\ turn <= Last(program) /\ TaintStays /\ ObservedLast /\ WrittenLast
      /\ exit = "running" /\ exit' = "failed"
      /\ UNCHANGED <<left, program, turn, tainted>>
  BY DEF EvidenceInv, Refuse
<1>1. binding' \in {"none", "unavailable", "torn"}
  BY <1>0 DEF Refuse, WrittenLast
<1>2. EvidenceTypeOK' /\ TaintStays' /\ ObservedLast' /\ WrittenLast'
  BY <1>0, <1>1 DEF EvidenceTypeOK, TaintStays, ObservedLast, WrittenLast
<1> QED
  BY <1>0, <1>2 DEF EvidenceInv

LEMMA LeaveKeeps ==
  ASSUME EvidenceInv, Leave \/ UNCHANGED evidenceVars
  PROVE  EvidenceInv'
<1>1. /\ left \subseteq left' /\ left' \subseteq Facts
      /\ UNCHANGED <<program, turn, tainted, binding, exit>>
  BY DEF EvidenceInv, EvidenceTypeOK, Leave, evidenceVars
<1>2. EvidenceTypeOK' /\ TaintStays' /\ ObservedLast' /\ WrittenLast'
  BY <1>1 DEF EvidenceInv, EvidenceTypeOK, TaintStays, ObservedLast, WrittenLast
<1> QED
  BY <1>1, <1>2 DEF EvidenceInv

LEMMA EvidenceNextInv == EvidenceInv /\ [EvidenceNext]_evidenceVars => EvidenceInv'
<1> SUFFICES ASSUME EvidenceInv, [EvidenceNext]_evidenceVars PROVE EvidenceInv'
  OBVIOUS
<1>0. left \subseteq Facts
  BY DEF EvidenceInv, EvidenceTypeOK
<1>1. ASSUME NEW fact \in Facts, ObserveFact(fact) PROVE EvidenceInv'
  <2>1. fact # "bind"
    BY DEF Facts
  <2> QED
    BY <1>1, <2>1, StepKeeps DEF ObserveFact
<1>2. ASSUME NEW what \in Readings \ {"remote"}, ReadInput(what) PROVE EvidenceInv'
  <2>1. what # "bind" /\ what \notin Facts
    BY DEF Readings, Facts
  <2> QED
    BY <1>0, <1>2, <2>1, StepKeeps DEF ReadInput
<1>3. CASE MakeTarget
  <2>1. "mkdir" # "bind" /\ "mkdir" \notin Facts /\ "mkdir" \notin Readings
    BY DEF Readings, Facts
  <2> QED
    BY <1>0, <1>3, <2>1, StepKeeps DEF MakeTarget
<1> QED
  BY <1>1, <1>2, <1>3, BindKeeps, RefuseKeeps, LeaveKeeps DEF EvidenceNext

THEOREM EvidenceInvariance == EvidenceSpec => []EvidenceInv
  BY EvidenceInitInv, EvidenceNextInv, PTL DEF EvidenceSpec

(* The programs and what they have written keep their types.                *)
THEOREM EvidenceTypeCorrect == EvidenceSpec => []EvidenceTypeOK
<1>1. EvidenceInv => EvidenceTypeOK
  BY DEF EvidenceInv
<1> QED
  BY <1>1, EvidenceInvariance, PTL

(* Whatever others do to the checkout and the remote between two reads, a   *)
(* document that was written is of a revision that held all the while, and  *)
(* a program that failed has left none that claims to be complete.          *)
THEOREM DocumentsBind == EvidenceSpec => []BindsWhatWas
<1>1. EvidenceInv => BindsWhatWas
  BY DEF EvidenceInv, WrittenLast, BindsWhatWas
<1> QED
  BY <1>1, EvidenceInvariance, PTL
-----------------------------------------------------------------------------
(***************************************************************************)
(* JobClock.  The wall clock is right when the record is made, so that one *)
(* of the two clocks can be relied on from then on: the monotonic one      *)
(* counts the time of this boot, or the wall clock still tells it and the  *)
(* monotonic one can only have fallen behind.                              *)
(***************************************************************************)
Machines == [mono : Int, wall : Int, boot : 1..2, fails : {"mono", "wall"}]
Records == [wall : 0..(JobTime - 1), mono : Int, boot : {1}, deadline : Int]
Owners == [kind : {"budget", "fence"}, deadline : Int, active : Int, last : Int,
           cancelled : BOOLEAN, end : Int]
Leases == [until : Int, native : BOOLEAN, end : Int, late : BOOLEAN]
ClockTypeOK ==
  /\ time \in Nat /\ machine \in Machines /\ record \in Records
  /\ owner \in Owners \cup {Clock!NoOwner} /\ grant \in Leases

(* What each clock has counted since the record was made.                   *)
Elapsed == time - record.wall
Counted == machine.mono - record.mono
OneIsRight ==
  /\ record.deadline = record.mono + JobTime - record.wall
  /\ machine.fails = "mono" => machine.wall = time /\ (Clock!SameBoot => Counted <= Elapsed)
  /\ machine.fails = "wall" /\ Clock!SameBoot => Counted = Elapsed

(* An owner lives in the boot of the record.  Its deadline is its end on the *)
(* record's scale; a permit dated by a wall clock that is off may pass it by *)
(* what the check of the clocks tolerates.                                   *)
Slack == IF machine.fails = "wall" THEN Tolerance ELSE 0
OwnerBounded ==
  owner # Clock!NoOwner =>
    /\ Clock!SameBoot
    /\ owner.deadline <= record.mono - record.wall + owner.end + Slack
    /\ owner.active <= owner.deadline - Reserve

ClockInv == ClockTypeOK /\ OneIsRight /\ OwnerBounded /\ GrantsInsideJob

LEMMA ClockInitInv == Clock!ClockInit => ClockInv
<1> SUFFICES ASSUME Clock!ClockInit PROVE ClockInv
  OBVIOUS
<1> USE ToolsAssumption
<1>1. PICK mono \in 0..1, fails \in {"mono", "wall"} :
        machine = [mono |-> mono, wall |-> time, boot |-> 1, fails |-> fails]
  BY DEF Clock!ClockInit
<1>2. /\ time \in 0..(JobTime - 1) /\ owner = Clock!NoOwner /\ grant = Clock!NoLease
      /\ record = [wall |-> time, mono |-> mono, boot |-> 1,
                   deadline |-> mono + JobTime - time]
  BY <1>1 DEF Clock!ClockInit
<1>3. ClockTypeOK
  BY <1>1, <1>2 DEF ClockTypeOK, Machines, Records, Leases, Clock!NoLease
<1>4. OneIsRight
  BY <1>1, <1>2 DEF OneIsRight, Elapsed, Counted, Clock!SameBoot
<1>5. OwnerBounded /\ GrantsInsideJob
  BY <1>2 DEF OwnerBounded, GrantsInsideJob, Clock!GrantsInsideJob, Clock!NoLease
<1> QED
  BY <1>3, <1>4, <1>5 DEF ClockInv

LEMMA MachineTyped ==
  ASSUME NEW m \in Machines, NEW mono \in Int, NEW wall \in Int
  PROVE  [m EXCEPT !.mono = mono, !.wall = wall] \in Machines
BY DEF Machines

(* Time goes on, the wall clock is set, or the machine boots again.         *)
LEMMA MachineKeeps ==
  ASSUME ClockInv, Clock!Tick \/ Clock!Suspended \/ Clock!WallIsSet \/ Clock!Reboot
  PROVE  ClockInv'
<1> USE ToolsAssumption
<1>1. ClockTypeOK /\ OneIsRight /\ OwnerBounded /\ GrantsInsideJob
  BY DEF ClockInv
<1>2. UNCHANGED <<record, grant>> /\ machine'.fails = machine.fails
  BY <1>1 DEF Clock!Tick, Clock!Suspended, Clock!WallIsSet, Clock!Reboot, Clock!Later,
              ClockTypeOK, Machines
<1>3. GrantsInsideJob'
  BY <1>1, <1>2 DEF GrantsInsideJob, Clock!GrantsInsideJob
<1>4. CASE Clock!Tick
  <2>1. /\ time' = time + 1 /\ UNCHANGED owner
        /\ machine' = [machine EXCEPT !.mono = machine.mono + 1, !.wall = machine.wall + 1]
    BY <1>4 DEF Clock!Tick, Clock!Later
  <2>2. /\ machine'.mono = machine.mono + 1 /\ machine'.wall = machine.wall + 1
        /\ machine'.boot = machine.boot
    BY <1>1, <2>1 DEF ClockTypeOK, Machines
  <2>t. machine' \in Machines
    <3>1. machine \in Machines /\ machine.mono + 1 \in Int /\ machine.wall + 1 \in Int
      BY <1>1 DEF ClockTypeOK, Machines
    <3> QED BY <2>1, <3>1, MachineTyped
  <2>3. ClockTypeOK'
    BY <1>1, <1>2, <2>1, <2>t DEF ClockTypeOK
  <2>4. OneIsRight'
    BY <1>1, <1>2, <2>1, <2>2
       DEF OneIsRight, Elapsed, Counted, Clock!SameBoot, ClockTypeOK, Machines, Records
  <2>5. OwnerBounded'
    BY <1>1, <1>2, <2>1, <2>2 DEF OwnerBounded, Slack, Clock!SameBoot
  <2> QED
    BY <1>3, <2>3, <2>4, <2>5 DEF ClockInv
<1>5. CASE Clock!Suspended
  <2>1. /\ machine.fails = "mono" /\ time' = time + 1 /\ UNCHANGED owner
        /\ machine' = [machine EXCEPT !.mono = machine.mono, !.wall = machine.wall + 1]
    BY <1>5 DEF Clock!Suspended, Clock!Later
  <2>2. /\ machine'.mono = machine.mono /\ machine'.wall = machine.wall + 1
        /\ machine'.boot = machine.boot
    BY <1>1, <2>1 DEF ClockTypeOK, Machines
  <2>t. machine' \in Machines
    <3>1. machine \in Machines /\ machine.mono \in Int /\ machine.wall + 1 \in Int
      BY <1>1 DEF ClockTypeOK, Machines
    <3> QED BY <2>1, <3>1, MachineTyped
  <2>3. ClockTypeOK'
    BY <1>1, <1>2, <2>1, <2>t DEF ClockTypeOK
  <2>4. OneIsRight'
    BY <1>1, <1>2, <2>1, <2>2
       DEF OneIsRight, Elapsed, Counted, Clock!SameBoot, ClockTypeOK, Machines, Records
  <2>5. OwnerBounded'
    BY <1>1, <1>2, <2>1, <2>2 DEF OwnerBounded, Slack, Clock!SameBoot
  <2> QED
    BY <1>3, <2>3, <2>4, <2>5 DEF ClockInv
<1>6. CASE Clock!WallIsSet
  <2>1. PICK wall \in 0..MaxTime :
          /\ machine.fails = "wall" /\ UNCHANGED <<time, owner>>
          /\ machine' = [machine EXCEPT !.wall = wall]
    BY <1>6 DEF Clock!WallIsSet
  <2>2. machine'.mono = machine.mono /\ machine'.boot = machine.boot
    BY <1>1, <2>1 DEF ClockTypeOK, Machines
  <2>t. machine' \in Machines
    <3>1. wall \in Int
      BY <2>1
    <3> QED BY <1>1, <2>1, <3>1 DEF ClockTypeOK, Machines
  <2>3. ClockTypeOK'
    BY <1>1, <1>2, <2>1, <2>t DEF ClockTypeOK
  <2>4. OneIsRight' /\ OwnerBounded'
    BY <1>1, <1>2, <2>1, <2>2
       DEF OneIsRight, OwnerBounded, Slack, Elapsed, Counted, Clock!SameBoot
  <2> QED
    BY <1>3, <2>3, <2>4 DEF ClockInv
<1>7. CASE Clock!Reboot
  <2>1. PICK mono \in 0..1 :
          /\ owner' = Clock!NoOwner /\ UNCHANGED time
          /\ machine' = [machine EXCEPT !.mono = mono, !.boot = 2]
    BY <1>7 DEF Clock!Reboot
  <2>2. machine'.boot = 2 /\ machine'.wall = machine.wall
    BY <1>1, <2>1 DEF ClockTypeOK, Machines
  <2>t. machine' \in Machines
    <3>1. mono \in Int /\ 2 \in 1..2
      BY <2>1
    <3> QED BY <1>1, <2>1, <3>1 DEF ClockTypeOK, Machines
  <2>3. ClockTypeOK'
    BY <1>1, <1>2, <2>1, <2>t DEF ClockTypeOK
  <2>4. OneIsRight' /\ OwnerBounded'
    BY <1>1, <1>2, <2>1, <2>2
       DEF OneIsRight, OwnerBounded, Elapsed, Counted, Clock!SameBoot, ClockTypeOK, Records
  <2> QED
    BY <1>3, <2>3, <2>4 DEF ClockInv
<1> QED
  BY <1>4, <1>5, <1>6, <1>7

(* A process opens its Budget, or its Fence under a permit.                  *)
LEMMA OwnerOpens ==
  ASSUME ClockInv, Clock!BudgetOpens \/ Clock!FenceOpens
  PROVE  ClockInv'
<1> USE ToolsAssumption
<1>1. ClockTypeOK /\ OneIsRight /\ OwnerBounded /\ GrantsInsideJob
  BY DEF ClockInv
<1>2. UNCHANGED <<time, machine, record, grant>> /\ Clock!SameBoot
  BY DEF Clock!BudgetOpens, Clock!FenceOpens
<1>3. GrantsInsideJob' /\ OneIsRight'
  BY <1>1, <1>2 DEF GrantsInsideJob, Clock!GrantsInsideJob, OneIsRight, Elapsed, Counted,
                    Clock!SameBoot
<1>4. machine \in Machines /\ record \in Records /\ time \in Nat
  BY <1>1 DEF ClockTypeOK
<1>5. CASE Clock!BudgetOpens
  <2>1. owner' = [kind |-> "budget", deadline |-> record.deadline,
                  active |-> record.deadline - Reserve, last |-> machine.mono,
                  cancelled |-> FALSE, end |-> JobTime]
    BY <1>5 DEF Clock!BudgetOpens
  <2>2. ClockTypeOK'
    BY <1>1, <1>2, <1>4, <2>1 DEF ClockTypeOK, Owners, Machines, Records
  <2>3. record.deadline <= record.mono - record.wall + JobTime + Slack
    BY <1>1, <1>4 DEF OneIsRight, Slack, Records
  <2>4. OwnerBounded'
    BY <1>2, <1>4, <2>1, <2>3 DEF OwnerBounded, Slack, Clock!SameBoot, Records
  <2> QED
    BY <1>3, <2>2, <2>4 DEF ClockInv
<1>6. CASE Clock!FenceOpens
  <2>1. PICK expiry \in 1..(MaxTime + PermitTime) :
          LET deadline == Clock!Lower(record.deadline, machine.mono + expiry - machine.wall) IN
            owner' = [kind |-> "fence", deadline |-> deadline,
                      active |-> Clock!Lower(deadline - Reserve, machine.mono + ActiveTime),
                      last |-> machine.mono, cancelled |-> FALSE,
                      end |-> Clock!Lower(JobTime, expiry)]
    BY <1>6 DEF Clock!FenceOpens
  <2> DEFINE deadline == Clock!Lower(record.deadline, machine.mono + expiry - machine.wall)
             active == Clock!Lower(deadline - Reserve, machine.mono + ActiveTime)
             end == Clock!Lower(JobTime, expiry)
  <2>2. deadline \in Int /\ end \in Int
    BY <1>4, <2>1 DEF Machines, Records, Clock!Lower
  <2>3. active \in Int /\ active <= deadline - Reserve
    BY <1>4, <2>2 DEF Machines, Clock!Lower
  <2>4. deadline <= record.mono - record.wall + end + Slack
    <3>1. -Tolerance <= Clock!Drift
      BY <1>4, <1>6 DEF Clock!FenceOpens, Clock!ClocksAgree, Clock!Drift, Machines, Records
    <3>2. machine.mono - machine.wall <= record.mono - record.wall + Slack
      BY <1>1, <1>2, <1>4, <3>1
         DEF Clock!Drift, OneIsRight, Elapsed, Counted, Slack, Machines, Records
    <3> QED
      BY <1>1, <1>4, <2>1, <3>2 DEF OneIsRight, Clock!Lower, Slack, Machines, Records
  <2> HIDE DEF deadline, active, end
  <2>5. owner' = [kind |-> "fence", deadline |-> deadline, active |-> active,
                  last |-> machine.mono, cancelled |-> FALSE, end |-> end]
    BY <2>1 DEF deadline, active, end
  <2>6. ClockTypeOK'
    BY <1>1, <1>2, <1>4, <2>2, <2>3, <2>5 DEF ClockTypeOK, Owners, Machines
  <2>7. OwnerBounded'
    BY <1>2, <2>3, <2>4, <2>5 DEF OwnerBounded, Slack, Clock!SameBoot
  <2> QED
    BY <1>3, <2>6, <2>7 DEF ClockInv
<1> QED
  BY <1>5, <1>6

(* A Fence is cancelled, an owner ends, or it is granted what is left.      *)
LEMMA OwnerKeeps ==
  ASSUME ClockInv, Clock!Cancel \/ Clock!OwnerEnds \/ (\E native \in BOOLEAN : Clock!Remaining(native))
  PROVE  ClockInv'
<1> USE ToolsAssumption
<1>1. ClockTypeOK /\ OneIsRight /\ OwnerBounded /\ GrantsInsideJob
  BY DEF ClockInv
<1>2. UNCHANGED <<time, machine, record>>
  BY DEF Clock!Cancel, Clock!OwnerEnds, Clock!Remaining
<1>3. OneIsRight'
  BY <1>1, <1>2 DEF OneIsRight, Elapsed, Counted, Clock!SameBoot
<1>4. machine \in Machines /\ record \in Records /\ time \in Nat /\ grant \in Leases
  BY <1>1 DEF ClockTypeOK
<1>5. CASE Clock!OwnerEnds
  <2>1. owner' = Clock!NoOwner /\ grant' = grant
    BY <1>5 DEF Clock!OwnerEnds
  <2> QED
    BY <1>1, <1>2, <1>3, <2>1
       DEF ClockInv, ClockTypeOK, OwnerBounded, GrantsInsideJob, Clock!GrantsInsideJob
<1>6. CASE Clock!Cancel
  <2>1. /\ owner.kind = "fence" /\ owner' = [owner EXCEPT !.cancelled = TRUE]
        /\ grant' = grant
    BY <1>6 DEF Clock!Cancel
  <2>2. owner \in Owners
    BY <1>1, <2>1 DEF ClockTypeOK, Clock!NoOwner
  <2>3. /\ owner' \in Owners
        /\ owner'.deadline = owner.deadline /\ owner'.active = owner.active
        /\ owner'.end = owner.end
    BY <2>1, <2>2 DEF Owners
  <2>4. OwnerBounded'
    BY <1>1, <1>2, <2>1, <2>3 DEF OwnerBounded, Slack, Clock!SameBoot, Clock!NoOwner
  <2> QED
    BY <1>1, <1>2, <1>3, <2>1, <2>3, <2>4
       DEF ClockInv, ClockTypeOK, GrantsInsideJob, Clock!GrantsInsideJob
<1>7. ASSUME NEW native \in BOOLEAN, Clock!Remaining(native)
      PROVE  ClockInv'
  <2> DEFINE rest == (IF native THEN owner.active ELSE owner.deadline) - machine.mono
  <2>1. /\ owner # Clock!NoOwner /\ Clock!ClocksAgree /\ Clock!Released(native)
        /\ grant' = [until |-> time + rest, native |-> native, end |-> owner.end,
                     late |-> owner.cancelled]
        /\ owner' = [owner EXCEPT !.last = machine.mono]
    BY <1>7 DEF Clock!Remaining
  <2>2. owner \in Owners
    BY <1>1, <2>1 DEF ClockTypeOK
  <2>3. machine.mono \in Int
    BY <1>4 DEF Machines
  <2>4. /\ owner' \in Owners
        /\ owner'.deadline = owner.deadline /\ owner'.active = owner.active
        /\ owner'.end = owner.end
    BY <2>1, <2>2, <2>3 DEF Owners
  <2>5. OwnerBounded'
    BY <1>1, <1>2, <2>1, <2>4 DEF OwnerBounded, Slack, Clock!SameBoot
  <2>6. rest \in Int
    BY <2>2, <2>3 DEF Owners
  <2>7. rest <= owner.end + Tolerance - time - (IF native THEN Reserve ELSE 0)
    <3>1. /\ Clock!SameBoot
          /\ owner.deadline <= record.mono - record.wall + owner.end + Slack
          /\ owner.active <= owner.deadline - Reserve
      BY <1>1, <2>1 DEF OwnerBounded
    <3>2. record.mono - record.wall - machine.mono + Slack <= Tolerance - time
      <4>1. CASE machine.fails = "mono"
        <5>1. Clock!Drift <= Tolerance /\ machine.wall = time
          BY <1>1, <2>1, <4>1 DEF Clock!ClocksAgree, OneIsRight
        <5> QED
          BY <1>4, <4>1, <5>1 DEF Clock!Drift, Slack, Machines, Records
      <4>2. CASE machine.fails = "wall"
        BY <1>1, <1>4, <3>1, <4>2 DEF OneIsRight, Elapsed, Counted, Slack, Machines, Records
      <4> QED
        BY <1>4, <4>1, <4>2 DEF Machines
    <3>3. owner.deadline \in Int /\ owner.active \in Int /\ owner.end \in Int /\ Slack \in Int
      BY <2>2 DEF Owners, Slack
    <3> QED
      BY <1>4, <2>3, <3>1, <3>2, <3>3 DEF Records
  <2> HIDE DEF rest
  <2>8. grant' \in Leases
    BY <1>4, <2>1, <2>2, <2>6 DEF Leases, Owners
  <2>9. GrantsInsideJob'
    <3>1. owner.end \in Int
      BY <2>2 DEF Owners
    <3>2. time + rest <= owner.end + Tolerance - (IF native THEN Reserve ELSE 0)
      BY <1>4, <2>6, <2>7, <3>1
    <3>3. ~(native /\ owner.cancelled)
      BY <2>1 DEF Clock!Released
    <3> QED
      BY <2>1, <3>2, <3>3 DEF GrantsInsideJob, Clock!GrantsInsideJob
  <2> QED
    BY <1>1, <1>2, <1>3, <2>4, <2>5, <2>8, <2>9 DEF ClockInv, ClockTypeOK
<1> QED
  BY <1>5, <1>6, <1>7

LEMMA ClockNextInv == ClockInv /\ [Clock!ClockNext]_(Clock!clockVars) => ClockInv'
<1> SUFFICES ASSUME ClockInv, [Clock!ClockNext]_(Clock!clockVars) PROVE ClockInv'
  OBVIOUS
<1>1. CASE UNCHANGED Clock!clockVars
  BY <1>1 DEF Clock!clockVars, ClockInv, ClockTypeOK, OneIsRight, OwnerBounded, Elapsed, Counted,
              Slack, Clock!SameBoot, GrantsInsideJob, Clock!GrantsInsideJob
<1> QED
  BY <1>1, MachineKeeps, OwnerOpens, OwnerKeeps DEF Clock!ClockNext

\* What a process is granted of its job ends inside the job, up to the tolerance
\* of the clocks' check, and native work the reserve before that; nothing native
\* is granted after a cancellation.  So it is for every length of the job, every
\* reserve and tolerance and any values of the clocks, one of which fails.
THEOREM GrantsEndInside == Clock!ClockSpec => []GrantsInsideJob
<1>1. ClockInv => GrantsInsideJob
  BY DEF ClockInv
<1> QED
  BY <1>1, ClockInitInv, ClockNextInv, PTL DEF Clock!ClockSpec
-----------------------------------------------------------------------------
(***************************************************************************)
(* BoundedReads.  Writes only ever lead away from what the descriptor was  *)
(* opened on; a reader that is over has read to the end or has said that   *)
(* it has not.                                                             *)
(***************************************************************************)
Inodes == [inode : Nat, version : Nat]
FileTypeOK ==
  /\ file \in Inodes /\ held \in Inodes /\ chunks \in Seq(Nat)
  /\ read \in {"open", "read", "returned", "raised", "idle"}

(* What was read of the held inode is no older than its opening, and no      *)
(* newer than it is now.                                                    *)
ReadBetween ==
  /\ file.inode >= held.inode
  /\ file.inode = held.inode =>
       /\ file.version >= held.version
       /\ \A i \in DOMAIN chunks : held.version <= chunks[i] /\ chunks[i] <= file.version
WholeFile == read = "returned" => Len(chunks) = Chunks /\ file = held
FileInv ==
  FileTypeOK /\ (read = "open" => chunks = <<>>) /\ ReadBetween /\ WholeFile

Pipes == [Bounded!Streams -> [sent : Nat, open : BOOLEAN]]
PipeTypeOK ==
  /\ pipes \in Pipes /\ output \in [Bounded!Streams -> Nat]
  /\ done \in [Bounded!Streams -> BOOLEAN] /\ invalid \in BOOLEAN
  /\ thread \in [Bounded!Streams -> {"drain", "finally", "end"}]
  /\ gitChild \in {"running", "zero", "nonzero"}
  /\ got \in {"idle", "waiting", "raised", "text"}

Drained(i) == output[i] = pipes[i].sent /\ ~pipes[i].open
ReadersTell ==
  \A i \in Bounded!Streams :
    /\ pipes[i].open <=> gitChild = "running"
    /\ done[i] <=> thread[i] = "end"
    /\ thread[i] # "drain" => invalid \/ Drained(i)
WholeText ==
  got = "text" => gitChild = "zero" /\ ~invalid /\ \A i \in Bounded!Streams : done[i]
PipeInv == PipeTypeOK /\ ReadersTell /\ WholeText

LEMMA ReadInitInv == Bounded!ReadInit => FileInv /\ PipeInv
<1> SUFFICES ASSUME Bounded!ReadInit PROVE FileInv /\ PipeInv
  OBVIOUS
<1>1. FileInv
  BY DEF Bounded!ReadInit, FileInv, FileTypeOK, ReadBetween, WholeFile, Inodes
<1>2. PipeTypeOK
  BY DEF Bounded!ReadInit, PipeTypeOK, Pipes, Bounded!Streams
<1>3. ReadersTell /\ WholeText
  BY DEF Bounded!ReadInit, ReadersTell, WholeText, Drained
<1> QED
  BY <1>1, <1>2, <1>3 DEF PipeInv

(* stable_read and the writers of the file.                                 *)
LEMMA FileKeeps ==
  ASSUME FileInv, Bounded!Open \/ Bounded!ReadChunk \/ Bounded!Checked \/ Bounded!Write
  PROVE  FileInv' /\ UNCHANGED Bounded!pipeVars
<1>1. FileTypeOK /\ (read = "open" => chunks = <<>>) /\ ReadBetween /\ WholeFile
  BY DEF FileInv
<1>2. /\ file.inode \in Nat /\ file.version \in Nat /\ held.inode \in Nat /\ held.version \in Nat
      /\ \A i \in DOMAIN chunks : chunks[i] \in Nat
  BY <1>1 DEF FileTypeOK, Inodes
<1>3. CASE Bounded!Open
  BY <1>1, <1>2, <1>3 DEF Bounded!Open, FileInv, FileTypeOK, ReadBetween, WholeFile
<1>4. CASE Bounded!ReadChunk
  <2> DEFINE version == IF file.inode = held.inode THEN file.version ELSE held.version
  <2>1. /\ read = "read" /\ chunks' = Append(chunks, version)
        /\ UNCHANGED <<file, held, read, Bounded!pipeVars>>
    BY <1>4 DEF Bounded!ReadChunk
  <2>2. version \in Nat
    BY <1>2
  <2>3. chunks \in Seq(Nat)
    BY <1>1 DEF FileTypeOK
  <2>4. /\ chunks' \in Seq(Nat) /\ DOMAIN chunks' = 1..(Len(chunks) + 1)
        /\ \A i \in DOMAIN chunks' : \/ i \in DOMAIN chunks /\ chunks'[i] = chunks[i]
                                     \/ chunks'[i] = version
    BY <2>1, <2>2, <2>3
  <2>5. ReadBetween'
    BY <1>1, <1>2, <2>1, <2>4 DEF ReadBetween
  <2> QED
    BY <1>1, <2>1, <2>4, <2>5 DEF FileInv, FileTypeOK, WholeFile
<1>5. CASE Bounded!Checked
  BY <1>1, <1>5 DEF Bounded!Checked, Bounded!Unchanged, FileInv, FileTypeOK, ReadBetween, WholeFile
<1>6. CASE Bounded!Write
  <2>1. /\ UNCHANGED <<held, chunks, read, Bounded!pipeVars>> /\ read # "returned"
        /\ \/ file' = [file EXCEPT !.version = file.version + 1]
           \/ file' = [inode |-> file.inode + 1, version |-> 0]
    BY <1>6 DEF Bounded!Write
  <2>2. /\ file' \in Inodes
        /\ \/ file'.inode = file.inode /\ file'.version = file.version + 1
           \/ file'.inode = file.inode + 1
    BY <1>1, <1>2, <2>1 DEF FileTypeOK, Inodes
  <2>3. ReadBetween'
    BY <1>1, <1>2, <2>1, <2>2 DEF ReadBetween
  <2> QED
    BY <1>1, <2>1, <2>2, <2>3 DEF FileInv, FileTypeOK, WholeFile
<1> QED
  BY <1>3, <1>4, <1>5, <1>6

(* read_git_output and its child.                                           *)
LEMMA PipeKeeps ==
  ASSUME PipeInv, Bounded!Child \/ Bounded!Collect \/ (\E i \in Bounded!Streams : Bounded!Drain(i))
  PROVE  PipeInv' /\ UNCHANGED Bounded!fileVars
<1>1. PipeTypeOK /\ ReadersTell /\ WholeText
  BY DEF PipeInv
<1>2. CASE Bounded!Child
  <2>1. /\ gitChild = "running"
        /\ UNCHANGED <<Bounded!fileVars, output, done, invalid, thread, got>>
    BY <1>2 DEF Bounded!Child
  <2>2. \A i \in Bounded!Streams : pipes[i].open /\ (thread[i] # "drain" => invalid)
    BY <1>1, <2>1 DEF ReadersTell, Drained
  <2>3. ASSUME NEW i \in Bounded!Streams, gitChild' = gitChild,
               pipes' = [pipes EXCEPT ![i].sent = pipes[i].sent + 1]
        PROVE  PipeInv'
    <3>1. pipes[i].sent + 1 \in Nat /\ pipes[i] \in [sent : Nat, open : BOOLEAN]
      BY <1>1 DEF PipeTypeOK, Pipes
    <3>2. pipes' \in Pipes /\ \A j \in Bounded!Streams : pipes'[j].open = pipes[j].open
      BY <1>1, <2>3, <3>1 DEF PipeTypeOK, Pipes
    <3> QED
      BY <1>1, <2>1, <2>2, <2>3, <3>2 DEF PipeInv, PipeTypeOK, ReadersTell, WholeText
  <2>4. ASSUME gitChild' \in {"zero", "nonzero"},
               pipes' = [i \in Bounded!Streams |-> [pipes[i] EXCEPT !.open = FALSE]]
        PROVE  PipeInv'
    <3>1. pipes' \in Pipes /\ \A j \in Bounded!Streams : pipes'[j].open = FALSE
      BY <1>1, <2>4 DEF PipeTypeOK, Pipes
    <3> QED
      BY <1>1, <2>1, <2>2, <2>4, <3>1 DEF PipeInv, PipeTypeOK, ReadersTell, WholeText
  <2> QED
    BY <1>2, <2>1, <2>3, <2>4 DEF Bounded!Child
<1>3. CASE Bounded!Collect
  BY <1>1, <1>3 DEF Bounded!Collect, PipeInv, PipeTypeOK, ReadersTell, WholeText, Drained
<1>4. ASSUME NEW i \in Bounded!Streams, Bounded!Drain(i)
      PROVE  PipeInv' /\ UNCHANGED Bounded!fileVars
  <2>1. UNCHANGED <<Bounded!fileVars, pipes, gitChild, got>>
    BY <1>4 DEF Bounded!Drain
  <2>2. CASE /\ thread[i] = "drain" /\ output' = [output EXCEPT ![i] = output[i] + 1]
             /\ UNCHANGED <<thread, invalid, done>>
    <3>1. output' \in [Bounded!Streams -> Nat]
      BY <1>1, <2>2 DEF PipeTypeOK
    <3>2. \A j \in Bounded!Streams : thread[j] # "drain" => output'[j] = output[j]
      BY <1>1, <2>2 DEF PipeTypeOK
    <3> QED
      BY <1>1, <2>1, <2>2, <3>1, <3>2 DEF PipeInv, PipeTypeOK, ReadersTell, WholeText, Drained
  <2>3. CASE /\ thread[i] = "drain" /\ thread' = [thread EXCEPT ![i] = "finally"]
             /\ UNCHANGED <<output, done>>
             /\ invalid' = TRUE \/ (invalid' = invalid /\ Drained(i))
    <3>1. /\ thread' \in [Bounded!Streams -> {"drain", "finally", "end"}]
          /\ thread'[i] = "finally" /\ ~done[i]
          /\ \A j \in Bounded!Streams \ {i} : thread'[j] = thread[j]
      BY <1>1, <2>3 DEF PipeTypeOK, ReadersTell
    <3> QED
      BY <1>1, <2>1, <2>3, <3>1 DEF PipeInv, PipeTypeOK, ReadersTell, WholeText, Drained
  <2>4. CASE /\ thread[i] = "finally" /\ done' = [done EXCEPT ![i] = TRUE]
             /\ thread' = [thread EXCEPT ![i] = "end"] /\ UNCHANGED <<output, invalid>>
    <3>1. /\ thread' \in [Bounded!Streams -> {"drain", "finally", "end"}]
          /\ done' \in [Bounded!Streams -> BOOLEAN]
          /\ thread'[i] = "end" /\ done'[i] = TRUE
          /\ \A j \in Bounded!Streams \ {i} : thread'[j] = thread[j] /\ done'[j] = done[j]
      BY <1>1, <2>4 DEF PipeTypeOK
    <3> QED
      BY <1>1, <2>1, <2>4, <3>1 DEF PipeInv, PipeTypeOK, ReadersTell, WholeText, Drained
  <2> QED
    BY <1>4, <2>1, <2>2, <2>3, <2>4 DEF Bounded!Drain, Bounded!DrainSpoils, Drained
<1> QED
  BY <1>2, <1>3, <1>4 DEF Bounded!Child, Bounded!Collect

LEMMA ReadNextInv ==
  (FileInv /\ PipeInv) /\ [Bounded!ReadNext]_(Bounded!readVars) => (FileInv /\ PipeInv)'
<1> SUFFICES ASSUME FileInv, PipeInv, [Bounded!ReadNext]_(Bounded!readVars)
             PROVE  FileInv' /\ PipeInv'
  OBVIOUS
<1>1. UNCHANGED Bounded!fileVars => FileInv'
  BY DEF Bounded!fileVars, FileInv, FileTypeOK, ReadBetween, WholeFile
<1>2. UNCHANGED Bounded!pipeVars => PipeInv'
  BY DEF Bounded!pipeVars, PipeInv, PipeTypeOK, ReadersTell, WholeText, Drained
<1>3. CASE UNCHANGED Bounded!readVars
  BY <1>1, <1>2, <1>3 DEF Bounded!readVars
<1> QED
  BY <1>1, <1>2, <1>3, FileKeeps, PipeKeeps DEF Bounded!ReadNext

\* What stable_read returns is, chunk by chunk, the one content the path named
\* when it returned, and read_git_output returns all that a child that succeeded
\* has written: for any number of chunks and writes, any limit and any order in
\* which the writers, the child and the two readers take their steps.
THEOREM ReadsWhole == Bounded!ReadSpec => []Bounded!ReadsAreWhole
<1>1. FileInv /\ PipeInv => Bounded!ReadsAreWhole
  <2> SUFFICES ASSUME FileInv, PipeInv PROVE Bounded!ReadsAreWhole
    OBVIOUS
  <2>1. read = "returned" => \A i \in 1..Chunks : chunks[i] = file.version
    <3>1. chunks \in Seq(Nat) /\ file \in Inodes
      BY DEF FileInv, FileTypeOK
    <3> QED
      BY <3>1 DEF FileInv, ReadBetween, WholeFile, Inodes
  <2>2. got = "text" => gitChild = "zero" /\ \A i \in Bounded!Streams : output[i] = pipes[i].sent
    BY DEF PipeInv, ReadersTell, WholeText, Drained
  <2> QED
    BY <2>1, <2>2 DEF Bounded!ReadsAreWhole
<1> QED
  BY <1>1, ReadInitInv, ReadNextInv, PTL DEF Bounded!ReadSpec
-----------------------------------------------------------------------------
(***************************************************************************)
(* TestReport.  What the loops require of each row in turn is all that an  *)
(* exact report is, for any number of rows and any ids and names: rows     *)
(* that are joined to as many cases, no two to the same, meet every case.  *)
(***************************************************************************)
\* As many different numbers as there are are all of them.
LEMMA DifferentAreAll ==
  ASSUME NEW n \in Nat, NEW f \in [1..n -> 1..n],
         \A i, j \in 1..n : f[i] = f[j] => i = j
  PROVE  \A k \in 1..n : \E i \in 1..n : f[i] = k
<1>1. f \in Injection(1..n, 1..n)
  BY Fun_IsInj
<1>2. IsFiniteSet(1..n)
  BY FS_Interval
<1>3. f \in Surjection(1..n, 1..n)
  BY <1>1, <1>2, FS_Injection
<1> QED
  BY <1>3 DEF Surjection

\* There are as many values as numbers when no two numbers have the same value.
LEMMA DifferentCounted ==
  ASSUME NEW n \in Nat, NEW f, DOMAIN f = 1..n, f = [i \in 1..n |-> f[i]]
  PROVE  Cardinality({f[i] : i \in 1..n}) = n <=> \A i, j \in 1..n : f[i] = f[j] => i = j
<1> DEFINE T == {f[i] : i \in 1..n}
<1>1. IsFiniteSet(1..n) /\ Cardinality(1..n) = n
  BY FS_Interval
<1>2. f \in [1..n -> T]
  OBVIOUS
<1>3. f \in Surjection(1..n, T)
  BY <1>2, Fun_IsSurj
<1>4. Cardinality(T) = n <=> f \in Injection(1..n, T)
  BY <1>1, <1>3, FS_Surjection
<1>5. f \in Injection(1..n, T) <=> \A i, j \in 1..n : f[i] = f[j] => i = j
  <2>1. ASSUME f \in Injection(1..n, T) PROVE \A i, j \in 1..n : f[i] = f[j] => i = j
    BY <2>1 DEF Injection, IsInjective
  <2>2. ASSUME \A i, j \in 1..n : f[i] = f[j] => i = j PROVE f \in Injection(1..n, T)
    BY <1>2, <2>2, Fun_IsInj
  <2> QED
    BY <2>1, <2>2
<1> QED
  BY <1>4, <1>5

Cases(I, D) == [id : I, exec : I, name : D]
Apart(rows) == \A i, j \in 1..Len(rows) : i # j => rows[i].id # rows[j].id

LEMMA LoopsCompareAll ==
  ASSUME NEW R, NEW rows \in Seq(R)
  PROVE  /\ Apart(rows) <=> \A i \in DOMAIN rows : Report!Fresh(rows, i)
         /\ Report!Definitions(rows) <=>
              Apart(rows) /\ \A i, j \in 1..Len(rows) : i # j => rows[i].exec # rows[j].exec
<1>1. Len(rows) \in Nat /\ DOMAIN rows = 1..Len(rows)
  OBVIOUS
<1>2. \A i, j \in 1..Len(rows) : i # j => i \in 1..(j - 1) \/ j \in 1..(i - 1)
  BY <1>1
<1>3. \A i \in 1..Len(rows) : \A j \in 1..(i - 1) : j \in 1..Len(rows) /\ j # i
  BY <1>1
<1>4. Apart(rows) <=> \A i \in DOMAIN rows : Report!Fresh(rows, i)
  BY <1>1, <1>2, <1>3 DEF Apart, Report!Fresh, Report!Before
<1>5. Report!Definitions(rows) <=>
        Apart(rows) /\ \A i, j \in 1..Len(rows) : i # j => rows[i].exec # rows[j].exec
  BY <1>1, <1>2, <1>3 DEF Apart, Report!Definitions, Report!Before
<1> QED
  BY <1>4, <1>5

\* Rows that are joined to cases and are apart can be numbered as the cases are.
Same(row, case) == row.id = case.id /\ row.exec = case.exec
LEMMA JoinedRows ==
  ASSUME NEW R, NEW C, NEW rows \in Seq(R), NEW cases \in Seq(C), Len(rows) = Len(cases),
         Apart(rows), \A k \in 1..Len(rows) : Report!Joins(rows[k], cases)
  PROVE  \E f \in Report!Numberings(Len(cases)) :
            \A i \in 1..Len(cases) : Same(rows[f[i]], cases[i])
<1> DEFINE n == Len(cases)
           of(k) == CHOOSE i \in 1..n : Same(rows[k], cases[i])
           g == [k \in 1..n |-> of(k)]
<1>0. n \in Nat /\ Len(rows) = n
  OBVIOUS
<1>1. ASSUME NEW k \in 1..n PROVE \E i \in 1..n : Same(rows[k], cases[i])
  BY <1>1 DEF Report!Joins, Report!ToSet, Same
<1> HIDE DEF n
<1>2. \A k \in 1..n : of(k) \in 1..n /\ Same(rows[k], cases[of(k)])
  BY <1>1
<1> HIDE DEF of
<1>3. g \in [1..n -> 1..n] /\ \A k \in 1..n : Same(rows[k], cases[g[k]])
  BY <1>2
<1> HIDE DEF g
<1>4. \A j, k \in 1..n : g[j] = g[k] => j = k
  BY <1>0, <1>3 DEF Apart, Same
<1>5. \A i \in 1..n : \E k \in 1..n : g[k] = i
  BY <1>0, <1>3, <1>4, DifferentAreAll
<1> DEFINE f == [i \in 1..n |-> CHOOSE k \in 1..n : g[k] = i]
<1>6. f \in [1..n -> 1..n] /\ \A i \in 1..n : g[f[i]] = i
  BY <1>5
<1> HIDE DEF f
<1>7. \A i, j \in 1..n : i # j => f[i] # f[j]
  BY <1>6
<1>8. \A i \in 1..n : Same(rows[f[i]], cases[i])
  BY <1>3, <1>6
<1> QED
  BY <1>6, <1>7, <1>8 DEF n, Report!Numberings

LEMMA NumberingsMeetAll ==
  ASSUME NEW n \in Nat, NEW f \in Report!Numberings(n)
  PROVE  \A k \in 1..n : \E i \in 1..n : k = f[i]
<1>1. f \in [1..n -> 1..n] /\ \A i, j \in 1..n : f[i] = f[j] => i = j
  BY DEF Report!Numberings
<1>2. \A k \in 1..n : \E i \in 1..n : f[i] = k
  BY <1>1, DifferentAreAll
<1> QED
  BY <1>2, Zenon

\* And so the other way round.
LEMMA NumberedRows ==
  ASSUME NEW R, NEW C, NEW rows \in Seq(R), NEW cases \in Seq(C), Len(rows) = Len(cases),
         Apart(cases), NEW f \in Report!Numberings(Len(cases)),
         \A i \in 1..Len(cases) : Same(rows[f[i]], cases[i])
  PROVE  Apart(rows) /\ \A k \in 1..Len(rows) : Report!Joins(rows[k], cases)
<1> DEFINE n == Len(cases)
<1>0. n \in Nat /\ Len(rows) = n /\ DOMAIN cases = 1..n
  OBVIOUS
<1>2. \A k \in 1..n : \E i \in 1..n : k = f[i]
  BY <1>0, NumberingsMeetAll
<1> HIDE DEF n
<1>3. \A i \in 1..n : Same(rows[f[i]], cases[i])
  BY DEF n
<1>n. \A k \in 1..n : \E i \in 1..n : f[i] = k /\ Same(rows[k], cases[i])
  <2> TAKE k \in 1..n
  <2>1. PICK i \in 1..n : f[i] = k
    BY <1>2
  <2>2. Same(rows[k], cases[i])
    BY <1>3, <2>1
  <2> QED
    BY <2>1, <2>2
<1>4. ASSUME NEW k \in 1..n PROVE Report!Joins(rows[k], cases)
  <2>1. PICK i \in 1..n : Same(rows[k], cases[i])
    BY <1>n
  <2> QED
    BY <1>0, <2>1 DEF Same, Report!Joins, Report!ToSet
<1>5. \A i, j \in 1..n : i # j => cases[i].id # cases[j].id
  BY DEF Apart, n
<1>6. ASSUME NEW j \in 1..n, NEW k \in 1..n, j # k PROVE rows[j].id # rows[k].id
  <2>1. PICK a \in 1..n : f[a] = j /\ Same(rows[j], cases[a])
    BY <1>n
  <2>2. PICK b \in 1..n : f[b] = k /\ Same(rows[k], cases[b])
    BY <1>n
  <2>3. a # b
    BY <1>6, <2>1, <2>2
  <2> QED
    BY <1>5, <2>1, <2>2, <2>3 DEF Same
<1> QED
  BY <1>0, <1>4, <1>6 DEF Apart, n

\* A report of cases, however many of them and whatever they are called.
Results(I, D) == [id : I, exec : I, name : D, outcome : Report!Outcomes \cup {"unknown"}]
Reported(I, D, r) ==
  /\ r.definitions \in Seq(Cases(I, D)) /\ r.entries \in Seq([id : I, exec : I])
  /\ r.results \in Seq(Results(I, D))

LEMMA CountedApart ==
  ASSUME NEW I, NEW D, NEW rows \in Seq(Cases(I, D))
  PROVE  /\ Apart(rows) <=> Cardinality({rows[i].id : i \in 1..Len(rows)}) = Len(rows)
         /\ (\A i, j \in 1..Len(rows) : i # j => rows[i].exec # rows[j].exec)
              <=> Cardinality({rows[i].exec : i \in 1..Len(rows)}) = Len(rows)
<1> DEFINE ids == [i \in 1..Len(rows) |-> rows[i].id]
           execs == [i \in 1..Len(rows) |-> rows[i].exec]
<1>1. Len(rows) \in Nat
  OBVIOUS
<1>2. /\ {ids[i] : i \in 1..Len(rows)} = {rows[i].id : i \in 1..Len(rows)}
      /\ {execs[i] : i \in 1..Len(rows)} = {rows[i].exec : i \in 1..Len(rows)}
  OBVIOUS
<1>3. Cardinality({ids[i] : i \in 1..Len(rows)}) = Len(rows)
        <=> \A i, j \in 1..Len(rows) : ids[i] = ids[j] => i = j
  <2> HIDE DEF ids
  <2>1. DOMAIN ids = 1..Len(rows) /\ ids = [i \in 1..Len(rows) |-> ids[i]]
    BY DEF ids
  <2> QED
    BY <1>1, <2>1, DifferentCounted
<1>4. Cardinality({execs[i] : i \in 1..Len(rows)}) = Len(rows)
        <=> \A i, j \in 1..Len(rows) : execs[i] = execs[j] => i = j
  <2> HIDE DEF execs
  <2>1. DOMAIN execs = 1..Len(rows) /\ execs = [i \in 1..Len(rows) |-> execs[i]]
    BY DEF execs
  <2> QED
    BY <1>1, <2>1, DifferentCounted
<1>5. (\A i, j \in 1..Len(rows) : ids[i] = ids[j] => i = j) <=> Apart(rows)
  BY DEF Apart
<1>6. (\A i, j \in 1..Len(rows) : execs[i] = execs[j] => i = j)
        <=> \A i, j \in 1..Len(rows) : i # j => rows[i].exec # rows[j].exec
  OBVIOUS
<1> QED
  BY <1>2, <1>3, <1>4, <1>5, <1>6

\* What Exact says of the counters, and of the rows.
RightCounters(counters, results) ==
  /\ "total" \in DOMAIN counters /\ DOMAIN counters \subseteq Report!CounterNames
  /\ LET own == Report!OwnCounters(results) IN
       \A c \in DOMAIN counters \cap DOMAIN own : counters[c] = own[c]
Numbered(d, e, s) ==
  \E f, g \in Report!Numberings(Len(d)) : \A i \in 1..Len(d) :
    /\ e[f[i]] = Report!Row(d[i])
    /\ \E o \in Report!Outcomes : s[g[i]] = Report!Outcome(d[i], o)
Different(d) ==
  Apart(d) /\ \A i, j \in 1..Len(d) : i # j => d[i].exec # d[j].exec

LEMMA SameCardinality == \A S : Report!Cardinality(S) = Cardinality(S)
BY DEF Report!Cardinality, Cardinality

LEMMA ExactMeans ==
  ASSUME NEW I, NEW D, NEW r, Reported(I, D, r)
  PROVE  Report!Exact(r) <=>
           /\ Len(r.definitions) > 0 /\ Len(r.entries) = Len(r.definitions)
           /\ Len(r.results) = Len(r.definitions)
           /\ Different(r.definitions)
           /\ Numbered(r.definitions, r.entries, r.results)
           /\ RightCounters(r.counters, r.results)
<1> DEFINE d == r.definitions
           n == Len(d)
<1>1. Different(d) <=> /\ Cardinality({d[i].id : i \in 1..n}) = n
                       /\ Cardinality({d[i].exec : i \in 1..n}) = n
  <2>1. d \in Seq(Cases(I, D))
    BY DEF Reported
  <2> HIDE DEF d
  <2> QED
    BY <2>1, CountedApart DEF Different
<1>2. Report!Exact(r) <=>
        /\ Len(r.definitions) > 0 /\ Len(r.definitions) = Len(r.entries)
        /\ Len(r.definitions) = Len(r.results)
        /\ Cardinality({d[i].id : i \in 1..n}) = n
        /\ Cardinality({d[i].exec : i \in 1..n}) = n
        /\ Numbered(r.definitions, r.entries, r.results)
        /\ RightCounters(r.counters, r.results)
  BY SameCardinality DEF Report!Exact, Numbered, RightCounters
<1> HIDE DEF d, n
<1> QED
  BY <1>1, <1>2 DEF d

LEMMA RowIsSame ==
  /\ \A case : Same(Report!Row(case), case)
  /\ \A case, o : Same(Report!Outcome(case, o), case) /\ Report!Outcome(case, o).name = case.name
BY DEF Same, Report!Row, Report!Outcome

LEMMA JoinedIsNumbered ==
  ASSUME NEW I, NEW D, NEW d \in Seq(Cases(I, D)), NEW e \in Seq([id : I, exec : I]),
         NEW s \in Seq(Results(I, D)),
         Len(e) = Len(d), Len(s) = Len(d), Apart(e), Apart(s),
         \A k \in 1..Len(d) : Report!Joins(e[k], d) /\ Report!Joins(s[k], d),
         \A k \in 1..Len(d) : Report!Displayed(s[k], d),
         \A k \in 1..Len(d) : s[k].outcome \in Report!Outcomes
  PROVE  Numbered(d, e, s)
<1>1. PICK f \in Report!Numberings(Len(d)) : \A i \in 1..Len(d) : Same(e[f[i]], d[i])
  BY JoinedRows
<1>2. PICK g \in Report!Numberings(Len(d)) : \A i \in 1..Len(d) : Same(s[g[i]], d[i])
  BY JoinedRows
<1>3. f \in [1..Len(d) -> 1..Len(d)] /\ g \in [1..Len(d) -> 1..Len(d)]
  BY DEF Report!Numberings
<1>4. \A i \in 1..Len(d) : f[i] \in 1..Len(d) /\ g[i] \in 1..Len(d)
  BY <1>3
<1>5. ASSUME NEW i \in 1..Len(d)
      PROVE  /\ e[f[i]] = Report!Row(d[i])
             /\ \E o \in Report!Outcomes : s[g[i]] = Report!Outcome(d[i], o)
  <2> DEFINE row == e[f[i]]
             result == s[g[i]]
  <2>0. f[i] \in 1..Len(e) /\ g[i] \in 1..Len(s)
    BY <1>4
  <2>a. row \in [id : I, exec : I]
    BY <2>0, ElementOfSeq
  <2>b. result \in Results(I, D)
    BY <2>0, ElementOfSeq
  <2>1. row \in [id : I, exec : I] /\ Same(row, d[i])
    BY <1>1, <2>a
  <2>2. /\ result \in Results(I, D)
        /\ Same(result, d[i]) /\ Report!Displayed(result, d)
    BY <1>2, <2>0, <2>b
  <2>3. d[i] \in Report!ToSet(d)
    BY DEF Report!ToSet
  <2> HIDE DEF row, result
  <2>4. result.name = d[i].name
    BY <2>2, <2>3 DEF Report!Displayed, Same
  <2>5. row = Report!Row(d[i])
    BY <2>1 DEF Same, Report!Row
  <2>6. result = Report!Outcome(d[i], result.outcome)
    BY <2>2, <2>4 DEF Same, Report!Outcome, Results
  <2>7. result.outcome \in Report!Outcomes
    BY <1>4 DEF result
  <2> QED
    BY <2>5, <2>6, <2>7 DEF row, result
<1> QED
  BY <1>5 DEF Numbered

LEMMA NumberedIsJoined ==
  ASSUME NEW I, NEW D, NEW d \in Seq(Cases(I, D)), NEW e \in Seq([id : I, exec : I]),
         NEW s \in Seq(Results(I, D)),
         Len(e) = Len(d), Len(s) = Len(d), Apart(d), Numbered(d, e, s)
  PROVE  /\ Apart(e) /\ Apart(s)
         /\ \A k \in 1..Len(d) : Report!Joins(e[k], d) /\ Report!Joins(s[k], d)
         /\ \A k \in 1..Len(d) : Report!Displayed(s[k], d)
         /\ \A k \in 1..Len(d) : s[k].outcome \in Report!Outcomes
<1>1. PICK f \in Report!Numberings(Len(d)), g \in Report!Numberings(Len(d)) :
        \A i \in 1..Len(d) :
          /\ e[f[i]] = Report!Row(d[i])
          /\ \E o \in Report!Outcomes : s[g[i]] = Report!Outcome(d[i], o)
  BY DEF Numbered
<1>2. \A i \in 1..Len(d) : Same(e[f[i]], d[i])
  <2> TAKE i \in 1..Len(d)
  <2>1. e[f[i]] = Report!Row(d[i])
    BY <1>1
  <2> QED
    BY <2>1, RowIsSame
<1>3. \A i \in 1..Len(d) : /\ Same(s[g[i]], d[i]) /\ s[g[i]].name = d[i].name
                           /\ s[g[i]].outcome \in Report!Outcomes
  <2> TAKE i \in 1..Len(d)
  <2>1. PICK o \in Report!Outcomes : s[g[i]] = Report!Outcome(d[i], o)
    BY <1>1
  <2>2. s[g[i]].outcome = o
    BY <2>1 DEF Report!Outcome
  <2> QED
    BY <2>1, <2>2, RowIsSame
<1>4. Apart(e) /\ \A k \in 1..Len(d) : Report!Joins(e[k], d)
  BY <1>2, NumberedRows
<1>5. /\ Apart(s) /\ \A k \in 1..Len(d) : Report!Joins(s[k], d)
      /\ \A k \in 1..Len(d) : \E i \in 1..Len(d) : k = g[i]
  <2>1. \A i \in 1..Len(d) : Same(s[g[i]], d[i])
    BY <1>3
  <2>2. Apart(s) /\ \A k \in 1..Len(d) : Report!Joins(s[k], d)
    BY <2>1, NumberedRows
  <2>3. \A k \in 1..Len(d) : \E i \in 1..Len(d) : k = g[i]
    <3>1. Len(d) \in Nat
      OBVIOUS
    <3> QED
      BY <3>1, NumberingsMeetAll
  <2> QED
    BY <2>2, <2>3
<1>6. ASSUME NEW k \in 1..Len(d) PROVE Report!Displayed(s[k], d)
  <2>1. PICK i \in 1..Len(d) : k = g[i]
    BY <1>5
  <2>2. Same(s[k], d[i]) /\ s[k].name = d[i].name
    BY <1>3, <2>1
  <2>3. \A j \in 1..Len(d) : d[j].id = s[k].id => j = i
    BY <2>2 DEF Same, Apart
  <2>4. DOMAIN d = 1..Len(d)
    OBVIOUS
  <2> QED
    BY <2>2, <2>3, <2>4 DEF Report!Displayed, Report!ToSet
<1>7. \A k \in 1..Len(d) : s[k].outcome \in Report!Outcomes
  BY <1>3, <1>5
<1> QED
  BY <1>4, <1>5, <1>6, <1>7

\* The loop over the compared counters, and the total apart from it, compare all
\* that the own counters of the results have.
LEMMA AdmittedIsRight ==
  ASSUME NEW counters, NEW results
  PROVE  Report!CountersAdmitted(counters, results) <=> RightCounters(counters, results)
<1> DEFINE own == Report!OwnCounters(results)
           compared == Report!Compared
<1>1. DOMAIN compared = {"passed", "failed", "notExecuted"}
  BY DEF Report!Compared
<1>2. DOMAIN own = {"total", "passed", "failed", "notExecuted"}
  BY DEF Report!OwnCounters
<1>3. /\ own["total"] = Len(results)
      /\ own["passed"] = Report!Counted(results, compared["passed"])
      /\ own["failed"] = Report!Counted(results, compared["failed"])
      /\ own["notExecuted"] = Report!Counted(results, compared["notExecuted"])
  BY DEF Report!OwnCounters, Report!Compared
<1>4. RightCounters(counters, results) <=>
        /\ "total" \in DOMAIN counters /\ DOMAIN counters \subseteq Report!CounterNames
        /\ \A c \in DOMAIN counters \cap DOMAIN own : counters[c] = own[c]
  BY DEF RightCounters
<1>5. Report!CountersAdmitted(counters, results) <=>
        /\ DOMAIN counters \subseteq Report!CounterNames
        /\ "total" \in DOMAIN counters /\ counters["total"] = Len(results)
        /\ \A c \in DOMAIN compared :
             c \in DOMAIN counters => counters[c] = Report!Counted(results, compared[c])
  BY DEF Report!CountersAdmitted
<1> HIDE DEF own, compared
<1> QED
  BY <1>1, <1>2, <1>3, <1>4, <1>5

LEMMA RosterMeans ==
  ASSUME NEW I, NEW D, NEW r, Reported(I, D, r)
  PROVE  Report!OutcomeTrx(r) <=>
           /\ Len(r.definitions) > 0 /\ Len(r.entries) = Len(r.definitions)
           /\ Len(r.results) = Len(r.definitions)
           /\ Different(r.definitions) /\ Apart(r.entries) /\ Apart(r.results)
           /\ \A k \in 1..Len(r.definitions) :
                /\ Report!Joins(r.entries[k], r.definitions)
                /\ Report!Joins(r.results[k], r.definitions)
           /\ \A k \in 1..Len(r.definitions) : Report!Displayed(r.results[k], r.definitions)
           /\ \A k \in 1..Len(r.definitions) : r.results[k].outcome \in Report!Outcomes
           /\ RightCounters(r.counters, r.results)
<1>1. Report!Definitions(r.definitions) <=> Different(r.definitions)
  BY LoopsCompareAll DEF Reported, Different
<1>2. /\ Apart(r.entries) <=> \A i \in DOMAIN r.entries : Report!Fresh(r.entries, i)
      /\ Apart(r.results) <=> \A i \in DOMAIN r.results : Report!Fresh(r.results, i)
  BY LoopsCompareAll DEF Reported
<1>3. DOMAIN r.entries = 1..Len(r.entries) /\ DOMAIN r.results = 1..Len(r.results)
  BY DEF Reported
<1>4. Report!CountersAdmitted(r.counters, r.results) <=> RightCounters(r.counters, r.results)
  BY AdmittedIsRight
<1> QED
  BY <1>1, <1>2, <1>3, <1>4 DEF Report!OutcomeTrx, Report!TrxRoster

(* TestReport.  outcome_trx, which compares each row with those before it,  *)
(* keeps a report exactly when it is exact: for any number of rows, any ids *)
(* and display names, and any counters, given or left out.                  *)
THEOREM KeptMeansExact ==
  ASSUME NEW I, NEW D, NEW r, Reported(I, D, r)
  PROVE  Report!OutcomeTrx(r) <=> Report!Exact(r)
<1> DEFINE d == r.definitions
           e == r.entries
           s == r.results
<1>0. /\ d \in Seq(Cases(I, D)) /\ e \in Seq([id : I, exec : I])
      /\ s \in Seq(Results(I, D))
  BY DEF Reported
<1> HIDE DEF d, e, s
<1>1. ASSUME Len(e) = Len(d), Len(s) = Len(d), Different(d)
      PROVE  Numbered(d, e, s) <=>
               /\ Apart(e) /\ Apart(s)
               /\ \A k \in 1..Len(d) : Report!Joins(e[k], d) /\ Report!Joins(s[k], d)
               /\ \A k \in 1..Len(d) : Report!Displayed(s[k], d)
               /\ \A k \in 1..Len(d) : s[k].outcome \in Report!Outcomes
  <2>1. Apart(d)
    BY <1>1 DEF Different
  <2> DEFINE each == \A k \in 1..Len(d) : Report!Joins(e[k], d) /\ Report!Joins(s[k], d)
             named == \A k \in 1..Len(d) : Report!Displayed(s[k], d)
             ended == \A k \in 1..Len(d) : s[k].outcome \in Report!Outcomes
  <2>2. Numbered(d, e, s) => Apart(e) /\ Apart(s) /\ each /\ named /\ ended
    BY <1>0, <1>1, <2>1, NumberedIsJoined
  <2>3. Apart(e) /\ Apart(s) /\ each /\ named /\ ended => Numbered(d, e, s)
    BY <1>0, <1>1, JoinedIsNumbered
  <2> QED
    BY <2>2, <2>3
<1> QED
  BY <1>1, ExactMeans, RosterMeans DEF d, e, s

(* TestReport.  Of a diagnostic python_diagnostics takes, the lines that say *)
(* something are different from each other, are the controls and the two of  *)
(* the summary, and end with its OK: for any lines, and any controls none of *)
(* which has the name of another line.                                       *)
THEOREM DiagnosticIsExact ==
  ASSUME NEW T, NEW lines \in Seq(T), Report!PythonDiagnostics(lines)
  PROVE  /\ {lines[i] : i \in Report!Spoken(lines)} = Names \cup {"ran", "OK"}
         /\ Cardinality(Report!Spoken(lines)) = Cardinality(Names) + 2
         /\ \E i \in Report!Spoken(lines) :
              lines[i] = "OK" /\ \A j \in Report!Spoken(lines) : j <= i
<1> DEFINE spoken == Report!Spoken(lines)
           all == 1..Len(lines)
           said == {lines[i] : i \in spoken}
<1>0. Len(lines) \in Nat /\ DOMAIN lines = all
  OBVIOUS
<1>a. IsFiniteSet(all) /\ spoken \subseteq all
  BY <1>0, FS_Interval DEF Report!Spoken
<1>b. \A i \in all : i \in spoken <=> lines[i] \notin {"rule", "blank"}
  BY <1>0 DEF Report!Spoken
<1>c. /\ \A i \in all : \/ lines[i] \in Names /\ lines[i] \notin Report!Before(lines, i)
                        \/ lines[i] \in {"ran", "OK", "rule", "blank"}
      /\ \A name \in Names : \E i \in all : lines[i] = name
  BY <1>0 DEF Report!PythonDiagnostics, Report!Controls, Report!Rest, Report!ToSet
<1>d. ASSUME NEW word \in {"ran", "OK"}
      PROVE  /\ \E i \in all : lines[i] = word
             /\ \A i, j \in all : lines[i] = word /\ lines[j] = word => i = j
  <2> DEFINE said1 == Report!Lines(lines, word)
  <2>1. Cardinality(said1) = 1
    BY SameCardinality DEF Report!PythonDiagnostics
  <2>2. IsFiniteSet(said1)
    BY <1>0, <1>a, FS_Subset DEF Report!Lines
  <2>3. PICK x : said1 = {x}
    BY <2>1, <2>2, FS_Singleton
  <2>4. \A i \in all : i \in said1 <=> lines[i] = word
    BY <1>0 DEF Report!Lines
  <2>5. x \in all
    BY <1>0, <2>3 DEF Report!Lines
  <2> QED
    BY <2>3, <2>4, <2>5
<1>e. \A name \in Names : name \notin {"ran", "OK", "rule", "blank"}
  BY ToolsAssumption
<1> HIDE DEF spoken, all
<1>1. said = Names \cup {"ran", "OK"}
  <2>1. said \subseteq Names \cup {"ran", "OK"}
    BY <1>a, <1>b, <1>c
  <2>2. Names \subseteq said
    BY <1>b, <1>c, <1>e
  <2>3. "ran" \in said /\ "OK" \in said
    BY <1>b, <1>d
  <2> QED
    BY <2>1, <2>2, <2>3
<1>2. \A i, j \in spoken : lines[i] = lines[j] => i = j
  <2> SUFFICES ASSUME NEW i \in spoken, NEW j \in spoken, lines[i] = lines[j], i # j
               PROVE  FALSE
    OBVIOUS
  <2>1. i \in all /\ j \in all /\ lines[i] \notin {"rule", "blank"}
    BY <1>a, <1>b
  <2>2. CASE lines[i] \in {"ran", "OK"}
    BY <1>d, <2>1, <2>2
  <2>3. CASE lines[i] \notin {"ran", "OK"}
    <3>1. lines[i] \notin Report!Before(lines, i) /\ lines[j] \notin Report!Before(lines, j)
      BY <1>c, <2>1, <2>3
    <3>2. i \in 1..(j - 1) \/ j \in 1..(i - 1)
      BY <1>0, <2>1 DEF all
    <3> QED
      BY <3>1, <3>2 DEF Report!Before
  <2> QED
    BY <2>2, <2>3
<1>3. IsFiniteSet(spoken) /\ Cardinality(spoken) = Cardinality(said) /\ IsFiniteSet(said)
  <2> DEFINE line == [i \in spoken |-> lines[i]]
  <2>1. IsFiniteSet(spoken)
    BY <1>a, FS_Subset
  <2>2. line \in [spoken -> said]
    OBVIOUS
  <2>3. line \in Surjection(spoken, said)
    BY <2>2, Fun_IsSurj
  <2>4. line \in Injection(spoken, said)
    BY <1>2, <2>2, Fun_IsInj
  <2> HIDE DEF line, said
  <2> QED
    BY <2>1, <2>3, <2>4, FS_Surjection
<1>4. Cardinality(said) = Cardinality(Names) + 2
  <2>1. IsFiniteSet(Names)
    BY <1>1, <1>3, FS_Subset
  <2>2. /\ IsFiniteSet(Names \cup {"ran"})
        /\ Cardinality(Names \cup {"ran"}) = Cardinality(Names) + 1
    BY <1>e, <2>1, FS_AddElement
  <2>3. Cardinality((Names \cup {"ran"}) \cup {"OK"}) = Cardinality(Names \cup {"ran"}) + 1
    BY <1>e, <2>2, FS_AddElement
  <2>4. said = (Names \cup {"ran"}) \cup {"OK"}
    BY <1>1
  <2>5. Cardinality(Names) \in Nat
    BY <2>1, FS_CardinalityType
  <2> HIDE DEF said
  <2> QED
    BY <2>2, <2>3, <2>4, <2>5
<1>5. \E i \in spoken : lines[i] = "OK" /\ \A j \in spoken : j <= i
  <2>1. PICK i \in all : lines[i] = "OK" /\ \A j \in (i + 1)..Len(lines) : lines[j] = "blank"
    BY <1>0 DEF Report!PythonDiagnostics, Report!EndsWithOK
  <2>2. i \in spoken
    BY <1>b, <2>1
  <2>3. ASSUME NEW j \in spoken PROVE j <= i
    <3>1. j \in all /\ lines[j] # "blank"
      BY <1>a, <1>b
    <3> QED
      BY <1>0, <2>1, <3>1 DEF all
  <2> QED
    BY <2>1, <2>2, <2>3
<1> QED
  BY <1>1, <1>3, <1>4, <1>5 DEF spoken

-----------------------------------------------------------------------------
Line == Names \cup {"unknown", "ran", "OK", "rule", "blank"}
MayBeRead(r) ==
  \/ r.kind = "trx" /\ Reported(Report!Ids, Report!Displays, r)
  \/ r.kind = "python" /\ r.lines \in Seq(Line)
KeptAs(r) ==
  IF r.kind = "python" THEN IF Report!PythonDiagnostics(r.lines) THEN "diagnostic" ELSE "nothing"
  ELSE IF Report!Focused(r) THEN "focused"
  ELSE IF Report!OutcomeTrx(r) THEN "roster" ELSE "nothing"
ReportInv == MayBeRead(trx) /\ (keptOf = "unread" \/ keptOf = KeptAs(trx))

LEMMA ReportInitInv == Report!ReportInit => ReportInv
<1> SUFFICES ASSUME Report!ReportInit PROVE MayBeRead(trx)
  BY DEF Report!ReportInit, ReportInv
<1> USE DEF Cases, Reported, MayBeRead, Report!Trx, Report!Ids, Report!Displays
<1>1. ASSUME NEW d \in Report!Definition, NEW e1 \in Report!Entry, NEW e2 \in Report!Entry,
             NEW r1 \in Report!Result, NEW r2 \in Report!Result, NEW c,
             trx = Report!Trx(<<Report!First, d>>, <<e1, e2>>, <<r1, r2>>, c)
      PROVE  MayBeRead(trx)
  <2>1. Report!First \in Report!Definition
    BY DEF Report!First, Report!Definition
  <2>2. <<Report!First, d>> \in Seq(Report!Definition)
    BY <2>1
  <2>3. <<e1, e2>> \in Seq(Report!Entry) /\ <<r1, r2>> \in Seq(Report!Result)
    OBVIOUS
  <2> HIDE DEF Report!Ids, Report!Displays
  <2> QED
    BY <1>1, <2>2, <2>3 DEF Report!Definition, Report!Entry, Report!Result, Results
<1>a. ASSUME NEW o \in Report!Outcomes \cup {"unknown"}
      PROVE  /\ Report!First \in Report!Definition /\ Report!Row(Report!First) \in Report!Entry
             /\ Report!Outcome(Report!First, o) \in Report!Result
  BY <1>a DEF Report!First, Report!Row, Report!Outcome, Report!Definition, Report!Entry,
              Report!Result
<1>2. ASSUME NEW o \in Report!Outcomes \cup {"unknown"}, NEW c,
             trx = Report!Trx(<<Report!First>>, <<Report!Row(Report!First)>>,
                              <<Report!Outcome(Report!First, o)>>, c)
      PROVE  MayBeRead(trx)
  <2>1. /\ <<Report!First>> \in Seq(Report!Definition)
        /\ <<Report!Row(Report!First)>> \in Seq(Report!Entry)
        /\ <<Report!Outcome(Report!First, o)>> \in Seq(Report!Result)
    BY <1>a
  <2> HIDE DEF Report!Ids, Report!Displays
  <2> QED
    BY <1>2, <2>1 DEF Report!Definition, Report!Entry, Report!Result, Results
<1>4. ASSUME NEW d \in 0..2, NEW e \in 0..2, NEW r \in 0..2, NEW c,
             trx = Report!Trx([i \in 1..d |-> Report!First],
                              [i \in 1..e |-> Report!Row(Report!First)],
                              [i \in 1..r |-> Report!Outcome(Report!First, "Passed")], c)
      PROVE  MayBeRead(trx)
  <2>1. /\ Report!First \in Report!Definition /\ Report!Row(Report!First) \in Report!Entry
        /\ Report!Outcome(Report!First, "Passed") \in Report!Result
    BY <1>a DEF Report!Outcomes
  <2>2. ASSUME NEW n \in 0..2, NEW S, NEW x \in S PROVE [i \in 1..n |-> x] \in Seq(S)
    OBVIOUS
  <2> HIDE DEF Report!Ids, Report!Displays
  <2> QED
    BY <1>4, <2>1, <2>2 DEF Report!Definition, Report!Entry, Report!Result, Results
<1>3. ASSUME NEW n \in 0..MaxLines, NEW lines \in [1..n -> Line],
             trx = [kind |-> "python", lines |-> lines]
      PROVE  MayBeRead(trx)
  <2>1. lines \in Seq(Line)
    OBVIOUS
  <2> QED
    BY <1>3, <2>1
<1> QED
  BY <1>1, <1>2, <1>3, <1>4 DEF Report!ReportInit, Line

LEMMA ReportNextInv == ReportInv /\ [Report!ReportNext]_(Report!reportVars) => ReportInv'
<1> SUFFICES ASSUME ReportInv, [Report!ReportNext]_(Report!reportVars) PROVE ReportInv'
  OBVIOUS
<1>1. trx' = trx /\ (keptOf' = keptOf \/ keptOf' = KeptAs(trx))
  BY DEF Report!ReportNext, Report!Keep, Report!reportVars, KeptAs
<1> QED
  BY <1>1 DEF ReportInv

LEMMA InvKeepsExactly == ReportInv => Report!KeepsExactly
<1> SUFFICES ASSUME ReportInv PROVE Report!KeepsExactly
  OBVIOUS
<1>1. CASE trx.kind = "trx"
  <2>1. Report!OutcomeTrx(trx) <=> Report!Exact(trx)
    BY <1>1, KeptMeansExact DEF ReportInv, MayBeRead
  <2>2. Report!Focused(trx) => Report!OutcomeTrx(trx) /\ Report!Counted(trx.results, "Passed") = 1
    <3> SUFFICES ASSUME Report!Focused(trx) PROVE Report!Counted(trx.results, "Passed") = 1
      BY DEF Report!Focused
    <3>1. /\ "passed" \in DOMAIN trx.counters /\ trx.counters["passed"] = 1
          /\ Report!CountersAdmitted(trx.counters, trx.results)
      BY DEF Report!Focused, Report!OutcomeTrx, Report!CounterNames
    <3>2. "passed" \in DOMAIN Report!Compared /\ Report!Compared["passed"] = "Passed"
      BY DEF Report!Compared
    <3> QED
      BY <3>1, <3>2 DEF Report!CountersAdmitted
  <2>3. keptOf = "unread" \/ keptOf = (IF Report!Focused(trx) THEN "focused"
                                       ELSE IF Report!OutcomeTrx(trx) THEN "roster" ELSE "nothing")
    BY <1>1 DEF ReportInv, KeptAs
  <2> QED
    BY <2>1, <2>2, <2>3 DEF Report!KeepsExactly
<1>2. CASE trx.kind = "python"
  <2>1. trx.lines \in Seq(Line)
    BY <1>2 DEF ReportInv, MayBeRead
  <2>2. keptOf = "diagnostic" => Report!PythonDiagnostics(trx.lines)
    BY <1>2 DEF ReportInv, KeptAs
  <2>3. keptOf \in {"unread", "diagnostic", "nothing"}
    BY <1>2 DEF ReportInv, KeptAs
  <2>4. CASE keptOf = "diagnostic"
    <3>1. /\ {trx.lines[i] : i \in Report!Spoken(trx.lines)} = Names \cup {"ran", "OK"}
          /\ Report!Cardinality(Report!Spoken(trx.lines)) = Report!Cardinality(Names) + 2
          /\ \E i \in Report!Spoken(trx.lines) :
               trx.lines[i] = "OK" /\ \A j \in Report!Spoken(trx.lines) : j <= i
      BY <2>1, <2>2, <2>4, DiagnosticIsExact, SameCardinality
    <3> QED
      BY <2>4, <3>1 DEF Report!KeepsExactly
  <2>5. CASE keptOf \in {"unread", "nothing"}
    BY <1>2, <2>5 DEF Report!KeepsExactly
  <2> QED
    BY <2>3, <2>4, <2>5
<1> QED
  BY <1>1, <1>2 DEF ReportInv, MayBeRead

(* What is returned of a file or a child, and what is kept of a report, is  *)
(* all of it and as it was.                                                 *)
THEOREM ReadsAndReportsWhole ==
  Bounded!ReadSpec /\ Report!ReportSpec => []ReadsExactly
<1>1. Report!ReportSpec => []Report!KeepsExactly
  BY ReportInitInv, ReportNextInv, InvKeepsExactly, PTL DEF Report!ReportSpec
<1>2. ReadsExactly <=> Bounded!ReadsAreWhole /\ Report!KeepsExactly
  BY DEF ReadsExactly
<1> QED
  BY <1>1, <1>2, ReadsWhole, PTL
-----------------------------------------------------------------------------
(***************************************************************************)
(* StageLifecycle.  What the controller may have observed, and that verify *)
(* accepts exactly what is of one clean stage, in order.                   *)
(***************************************************************************)
MayObserve(r) ==
  \/ \E of \in SUBSET Lifecycle!Pieces, other \in Lifecycle!Others :
       r = Lifecycle!Observed(of, other, Lifecycle!Clean, Lifecycle!InOrder)
  \/ \E state \in Lifecycle!States :
       r = Lifecycle!Observed({}, Lifecycle!This, state, Lifecycle!InOrder)
  \/ \E t \in Lifecycle!Times :
       r = Lifecycle!Observed({}, Lifecycle!This, Lifecycle!Clean, t)

Accepts == raw.settled /\ Lifecycle!Verify(Lifecycle!Wire)
Right == Lifecycle!Sound /\ Lifecycle!InTime(raw.times)
LifecycleInv ==
  /\ MayObserve(raw)
  /\ evidence \in {"none", "verified", "raised"}
  /\ evidence = "verified" => Accepts
  /\ evidence = "raised" => ~Accepts

(* Of a piece of another stage something is compared that two stages never  *)
(* share: its invocation, its path or, of a process, its cgroup.            *)
LEMMA MixIsRefused ==
  ASSUME NEW of \in SUBSET Lifecycle!Pieces, NEW other \in Lifecycle!Others,
         raw = Lifecycle!Observed(of, other, Lifecycle!Clean, Lifecycle!InOrder), Accepts
  PROVE  of = {}
<1> DEFINE was == [p \in Lifecycle!Pieces |-> IF p \in of THEN other ELSE Lifecycle!This]
<1>1. /\ raw.invocation = 1 /\ raw.scope = [path |-> 1, inode |-> 1]
      /\ raw.manager = was["manager"].invocation
      /\ raw.helper = [pid |-> was["helper"].pid, birth |-> was["helper"].birth,
                       cgroup |-> was["helper"].path]
      /\ raw.sdk = [pid |-> was["sdk"].pid, birth |-> was["sdk"].birth,
                    cgroup |-> was["sdk"].path]
      /\ raw.terminal.invocation = was["terminal"].invocation
      /\ raw.observation.scope.path = was["observation"].path
  BY DEF Lifecycle!Observed, Lifecycle!This, Lifecycle!ScopeOf, Lifecycle!MemberOf
<1>2. other.invocation = 2 /\ other.path = 2
  BY DEF Lifecycle!Others
<1>3. Lifecycle!This.invocation = 1 /\ Lifecycle!This.path = 1
  BY DEF Lifecycle!This
<1>4. \A p \in Lifecycle!Pieces : was[p] = IF p \in of THEN other ELSE Lifecycle!This
  OBVIOUS
<1> HIDE DEF was
<1>5. Lifecycle!Verify(Lifecycle!Wire)
  BY DEF Accepts
<1>6. /\ raw.manager = raw.invocation /\ raw.helper = raw.sdk /\ raw.sdk.cgroup = raw.scope.path
      /\ raw.terminal = [invocation |-> raw.invocation, result |-> "success"]
      /\ raw.observation.scope = raw.scope
  BY <1>5 DEF Lifecycle!Verify, Lifecycle!Wire, Lifecycle!Controller, Lifecycle!Transition,
              Lifecycle!Terminal
<1>7. \A p \in Lifecycle!Pieces : was[p] # other
  <2>1. was["manager"].invocation = 1 /\ was["terminal"].invocation = 1
    BY <1>1, <1>6
  <2>2. was["sdk"].path = 1 /\ was["helper"].path = 1 /\ was["observation"].path = 1
    BY <1>1, <1>6
  <2> QED
    BY <1>2, <2>1, <2>2 DEF Lifecycle!Pieces
<1> QED
  BY <1>4, <1>7

(* What was observed of one stage is accepted when it is what Sound and     *)
(* InTime ask for, and only then.                                           *)
LEMMA OneIsJudged ==
  ASSUME NEW state \in Lifecycle!States, NEW t \in Lifecycle!Times,
         raw = Lifecycle!Observed({}, Lifecycle!This, state, t)
  PROVE  Accepts <=> Right
<1>1. /\ raw.of = {} /\ raw.invocation = 1 /\ raw.manager = 1
      /\ raw.scope = [path |-> 1, inode |-> 1]
      /\ raw.namespace = [ns |-> 1, confined |-> state.confined]
      /\ raw.capped = state.capped /\ raw.settled = state.settled /\ raw.times = t
      /\ raw.helper = [pid |-> 1, birth |-> 1, cgroup |-> 1] /\ raw.sdk = raw.helper
      /\ raw.terminal = [invocation |-> 1, result |-> state.result]
      /\ raw.observation = [scope |-> raw.scope, kind |-> state.kind, left |-> state.left]
  BY DEF Lifecycle!Observed, Lifecycle!This, Lifecycle!ScopeOf, Lifecycle!MemberOf, Lifecycle!Pieces
<1>2. Lifecycle!Wire =
        [preExec |-> [scope |-> raw.scope, namespace |-> raw.namespace,
                      manager |-> raw.manager, helper |-> raw.helper, sdk |-> raw.sdk],
         terminal |-> raw.terminal, observation |-> raw.observation,
         removal |-> raw.invocation,
         times |-> <<t.started, t.preExec, t.terminal, Lifecycle!Removal, t.now>>]
  BY <1>1 DEF Lifecycle!Wire
<1>3. Lifecycle!Chronology(Lifecycle!Wire.times, raw.times.terminal, raw.times.expiry)
        <=> Lifecycle!InTime(raw.times)
  <2> DEFINE removal == IF t.removal > t.wrapper THEN t.removal ELSE t.wrapper
             times == <<t.started, t.preExec, t.terminal, removal, t.now>>
  <2>1. /\ t.started \in Nat /\ t.preExec \in Nat /\ t.terminal \in Nat /\ t.removal \in Nat
        /\ t.wrapper \in Nat /\ t.now \in Nat /\ t.expiry \in Nat
    BY ToolsAssumption DEF Lifecycle!Times
  <2>2. Lifecycle!Wire.times = times
    BY <1>1, <1>2 DEF Lifecycle!Removal
  <2>3. (\A i \in 1..(Len(times) - 1) : times[i] <= times[i + 1])
          <=> /\ t.started <= t.preExec /\ t.preExec <= t.terminal
              /\ t.terminal <= removal /\ removal <= t.now
    <3>1. Len(times) - 1 = 4 /\ 1..4 = {1, 2, 3, 4}
      OBVIOUS
    <3> QED
      BY <3>1
  <2> QED
    BY <1>1, <2>1, <2>2, <2>3 DEF Lifecycle!Chronology, Lifecycle!InTime
<1>4. /\ state.confined \in BOOLEAN /\ state.capped \in BOOLEAN /\ state.settled \in BOOLEAN
      /\ state.kind \in {"zero", "manager", "absent"}
  BY DEF Lifecycle!States
<1> QED
  BY <1>1, <1>2, <1>3, <1>4
     DEF Accepts, Right, Lifecycle!Verify, Lifecycle!Sound, Lifecycle!Confined,
         Lifecycle!Controller, Lifecycle!Transition, Lifecycle!Terminal

LEMMA Judged == ASSUME MayObserve(raw) PROVE Accepts <=> Right
<1>1. Lifecycle!Clean \in Lifecycle!States
  BY DEF Lifecycle!Clean, Lifecycle!States
<1>2. Lifecycle!InOrder \in Lifecycle!Times
  BY ToolsAssumption DEF Lifecycle!InOrder, Lifecycle!Times
<1>3. ASSUME NEW of \in SUBSET Lifecycle!Pieces, NEW other \in Lifecycle!Others,
             raw = Lifecycle!Observed(of, other, Lifecycle!Clean, Lifecycle!InOrder)
      PROVE  Accepts <=> Right
  <2>1. CASE of = {}
    <3>1. raw = Lifecycle!Observed({}, Lifecycle!This, Lifecycle!Clean, Lifecycle!InOrder)
      BY <1>3, <2>1 DEF Lifecycle!Observed
    <3> QED
      BY <1>1, <1>2, <3>1, OneIsJudged
  <2>2. CASE of # {}
    <3>1. raw.of = of
      BY <1>3 DEF Lifecycle!Observed
    <3> QED
      BY <1>3, <2>2, <3>1, MixIsRefused DEF Right, Lifecycle!Sound
  <2> QED
    BY <2>1, <2>2
<1> QED
  BY <1>1, <1>2, <1>3, OneIsJudged DEF MayObserve

\* Evidence that verifies is of one stage, clean and in order, and evidence of
\* such a stage verifies, whatever PIDs, births, inodes and namespace numbers the
\* kernel has given to another one and whatever the clock showed.
THEOREM EvidenceOfOne == Lifecycle!LifecycleSpec => []NoMixVerifies
<1>1. Lifecycle!LifecycleInit => LifecycleInv
  BY DEF Lifecycle!LifecycleInit, LifecycleInv, MayObserve
<1>2. LifecycleInv /\ [Lifecycle!LifecycleNext]_(Lifecycle!lifecycleVars) => LifecycleInv'
  <2> SUFFICES ASSUME LifecycleInv, [Lifecycle!LifecycleNext]_(Lifecycle!lifecycleVars)
               PROVE  LifecycleInv'
    OBVIOUS
  <2>1. raw' = raw
    BY DEF Lifecycle!LifecycleNext, Lifecycle!StageWire, Lifecycle!lifecycleVars
  <2>2. MayObserve(raw)' /\ (Accepts' <=> Accepts)
    BY <2>1 DEF LifecycleInv, MayObserve, Accepts, Lifecycle!Verify, Lifecycle!Wire,
                Lifecycle!Confined, Lifecycle!Controller, Lifecycle!Transition,
                Lifecycle!Terminal, Lifecycle!Removal
  <2>3. evidence' = evidence \/ evidence' = IF Accepts THEN "verified" ELSE "raised"
    BY DEF Lifecycle!LifecycleNext, Lifecycle!StageWire, Lifecycle!lifecycleVars, Accepts
  <2> QED
    BY <2>2, <2>3 DEF LifecycleInv
<1>3. LifecycleInv => NoMixVerifies
  BY Judged DEF LifecycleInv, Right, NoMixVerifies, Lifecycle!NoMixVerifies
<1> QED
  BY <1>1, <1>2, <1>3, PTL DEF Lifecycle!LifecycleSpec
-----------------------------------------------------------------------------
(***************************************************************************)
(* HostedStatic.  What main() has started is over, or quarantined and      *)
(* waited for; a root is the bootstrap's own as long as it may change it.  *)
(***************************************************************************)
Roots == [by : {"nobody", "earlier", "this"}, owner : {"none", "this", "other"}, whole : BOOLEAN]
Boots == [at : {"none", "fresh", "cache", "archive", "mkdir", "owner", "extract", "unlink",
                "rmtree", "done", "gone"},
          cache : BOOLEAN, root : BOOLEAN, success : BOOLEAN]
Reports == [written : BOOLEAN, failure : {"none", "body"}, removed : BOOLEAN]
HostedTypeOK ==
  /\ sdk \in Roots /\ boot \in Boots /\ receipt \in Reports
  /\ quarantined \subseteq {"git", "bootstrap"} /\ git \in BOOLEAN
  /\ first \in {"none", "bare", "body", "cleanup", "receipt"}

BeforeInstall == Hosted!Outside \cup {"head", "admission", "checkout", "materialize", "bootstrap"}
Finished == {"receipt", "passed", "raised"}
BootRuns == boot.at \notin {"none", "done", "gone"}
BootMayTouch == boot.at \in {"owner", "extract", "unlink", "rmtree"}

NothingLost ==
  /\ git => "git" \in quarantined
  /\ quarantined # {} => step = "supervise"
  /\ BootRuns => step = "installing" \/ "bootstrap" \in quarantined
  /\ boot.at = "none" => boot = Hosted!NoBoot
  /\ step = "installing" \/ "bootstrap" \in quarantined => boot.at # "none"
  /\ step \in BeforeInstall => boot = Hosted!NoBoot
RootIsOwn ==
  /\ boot.at \in {"owner", "extract"} => boot.root
  /\ boot.root => BootMayTouch \/ boot.at \in {"done", "gone"}
  /\ boot.root /\ BootMayTouch => sdk.by = "this"
TellsWhatWas ==
  /\ step \in BeforeInstall => first = "none"
  /\ receipt.written => (receipt.failure = "body" <=> first = "body") /\ step \in {"passed", "raised"}
  /\ receipt.removed => sdk = Hosted!Absent /\ step \in Finished
  /\ step = "receipt" /\ first = "none" => receipt.removed
  /\ step = "passed" => first = "none" /\ receipt.written /\ receipt.removed
HostedInv == HostedTypeOK /\ NothingLost /\ RootIsOwn /\ TellsWhatWas

(* A root nobody can be shown to own, or of another lease, is left alone.    *)
Foreign == sdk.by = "earlier" /\ sdk.owner # "this"
LeavesForeign == Foreign => sdk' = sdk

LEMMA HostedInitInv == Hosted!HostedInit => HostedInv
<1> SUFFICES ASSUME Hosted!HostedInit PROVE HostedInv
  OBVIOUS
<1> USE DEF Hosted!HostedInit
<1>1. /\ boot = Hosted!NoBoot /\ receipt = Hosted!NoReport /\ step = "permit" /\ first = "none"
      /\ quarantined = {} /\ git = FALSE
  OBVIOUS
<1>2. HostedTypeOK
  <2>1. sdk \in Roots
    <3>1. CASE sdk = Hosted!Absent
      BY <3>1 DEF Roots, Hosted!Absent
    <3>2. CASE sdk \in [by : {"earlier"}, owner : {"this", "other", "none"}, whole : {TRUE}]
      BY <3>2 DEF Roots
    <3> QED
      BY <3>1, <3>2
  <2>2. boot \in Boots /\ receipt \in Reports
    BY <1>1 DEF Boots, Reports, Hosted!NoBoot, Hosted!NoReport
  <2> QED
    BY <1>1, <2>1, <2>2 DEF HostedTypeOK
<1>3. NothingLost /\ RootIsOwn /\ TellsWhatWas
  BY <1>1 DEF NothingLost, RootIsOwn, TellsWhatWas, BootRuns, BootMayTouch, Hosted!NoBoot,
              Hosted!NoReport
<1> QED
  BY <1>2, <1>3 DEF HostedInv

(* main() up to its finally block; it touches neither the SDK nor a receipt. *)
BodySteps ==
  \/ Hosted!ValidatePermit \/ Hosted!SealedKit \/ Hosted!FreshRoots \/ Hosted!PinnedProvider
  \/ Hosted!RaisesBare \/ Hosted!Prepare \/ Hosted!StartBootstrap \/ Hosted!Installed
  \/ Hosted!NotInstalled \/ Hosted!Core \/ Hosted!BodyRaises

LEMMA BodyKeeps ==
  ASSUME HostedInv, BodySteps
  PROVE  HostedInv' /\ sdk' = sdk
<1>1. HostedTypeOK /\ NothingLost /\ RootIsOwn /\ TellsWhatWas
  BY DEF HostedInv
<1>2. step \notin Finished \cup {"sdk", "supervise"} /\ UNCHANGED <<sdk, receipt>>
  BY DEF BodySteps, Hosted!ValidatePermit, Hosted!SealedKit, Hosted!FreshRoots,
         Hosted!PinnedProvider, Hosted!RaisesBare, Hosted!Prepare, Hosted!Git, Hosted!HGoes,
         Hosted!Fails, Hosted!StartBootstrap, Hosted!Installed, Hosted!NotInstalled, Hosted!Core,
         Hosted!BodyRaises, Hosted!bootVars, Hosted!Outside, Hosted!Body, Finished
<1>3. /\ ~receipt.written /\ ~receipt.removed /\ quarantined = {} /\ git = FALSE
      /\ BootRuns => step = "installing"
  BY <1>1, <1>2 DEF HostedTypeOK, NothingLost, TellsWhatWas, Finished
<1>4. ASSUME UNCHANGED <<quarantined, git, boot, first>>,
             step \in BeforeInstall, step' \in BeforeInstall
      PROVE  HostedInv'
  <2>1. step' \notin Finished \cup {"installing", "supervise"}
    BY <1>4 DEF BeforeInstall, Finished, Hosted!Outside
  <2>2. HostedTypeOK' /\ RootIsOwn'
    BY <1>1, <1>2, <1>4 DEF HostedTypeOK, RootIsOwn, BootMayTouch
  <2>3. NothingLost'
    BY <1>1, <1>3, <1>4, <2>1 DEF NothingLost, BootRuns, BeforeInstall, Hosted!Outside
  <2>4. TellsWhatWas'
    BY <1>1, <1>2, <1>3, <1>4, <2>1 DEF TellsWhatWas, Finished
  <2> QED
    BY <2>2, <2>3, <2>4 DEF HostedInv
<1>5. ASSUME step' \in {"supervise", "core", "raised"}, UNCHANGED git,
             quarantined' \subseteq {"bootstrap"},
             quarantined' # {} => step' = "supervise",
             boot' \in Boots, RootIsOwn',
             boot'.at = "none" => boot' = Hosted!NoBoot,
             BootRuns' <=> "bootstrap" \in quarantined',
             first' = first \/ first' \in {"bare", "body"}
      PROVE  HostedInv'
  <2>1. step' \notin BeforeInstall \cup {"installing", "receipt", "passed"}
    BY <1>5 DEF BeforeInstall, Hosted!Outside
  <2>2. HostedTypeOK'
    BY <1>1, <1>2, <1>5 DEF HostedTypeOK
  <2>3. NothingLost'
    BY <1>1, <1>2, <1>3, <1>5, <2>1 DEF NothingLost, BootRuns
  <2>4. TellsWhatWas'
    BY <1>1, <1>2, <1>3, <1>5, <2>1 DEF TellsWhatWas, Finished
  <2> QED
    BY <1>5, <2>2, <2>3, <2>4 DEF HostedInv
<1>6. CASE Hosted!ValidatePermit \/ Hosted!SealedKit \/ Hosted!FreshRoots \/ Hosted!PinnedProvider
  BY <1>1, <1>4, <1>6
     DEF Hosted!ValidatePermit, Hosted!SealedKit, Hosted!FreshRoots, Hosted!PinnedProvider,
         Hosted!HGoes, Hosted!bootVars, BeforeInstall, Hosted!Outside
<1>7. CASE Hosted!RaisesBare
  <2>1. /\ step \in BeforeInstall /\ step' = "raised" /\ first' = "bare"
        /\ UNCHANGED <<quarantined, git, boot>>
    BY <1>7 DEF Hosted!RaisesBare, Hosted!bootVars, BeforeInstall
  <2>2. boot = Hosted!NoBoot /\ ~BootRuns /\ RootIsOwn'
    BY <1>1, <1>2, <2>1 DEF NothingLost, RootIsOwn, BootRuns, BootMayTouch, Hosted!NoBoot
  <2> QED
    BY <1>1, <1>2, <1>3, <1>5, <2>1, <2>2 DEF HostedTypeOK, BootRuns
<1>8. ASSUME Hosted!Fails({}), UNCHANGED <<git, boot>>, ~BootRuns
      PROVE  HostedInv'
  <2>1. step' = "supervise" /\ first' = "body" /\ quarantined' = {}
    BY <1>3, <1>8 DEF Hosted!Fails
  <2>2. RootIsOwn' /\ ~BootRuns'
    BY <1>1, <1>2, <1>8 DEF RootIsOwn, BootRuns, BootMayTouch
  <2> QED
    BY <1>1, <1>5, <1>8, <2>1, <2>2 DEF HostedTypeOK, NothingLost
<1>9. ASSUME NEW from \in BeforeInstall, NEW to \in BeforeInstall, Hosted!Git(from, to)
      PROVE  HostedInv'
  <2>1. step = from /\ UNCHANGED boot /\ boot = Hosted!NoBoot /\ ~BootRuns
    BY <1>1, <1>9 DEF Hosted!Git, Hosted!HGoes, Hosted!bootVars, NothingLost, BootRuns, Hosted!NoBoot
  <2>2. CASE Hosted!HGoes(from, to) /\ UNCHANGED <<first, quarantined, git>>
    BY <1>4, <2>1, <2>2 DEF Hosted!HGoes
  <2>3. ASSUME git' = FALSE, Hosted!Fails({})
        PROVE  HostedInv'
    BY <1>3, <1>8, <2>1, <2>3
  <2>4. ASSUME git' = TRUE, Hosted!Fails({"git"})
        PROVE  HostedInv'
    <3>1. step' = "supervise" /\ first' = "body" /\ quarantined' = {"git"}
      BY <1>3, <2>4 DEF Hosted!Fails
    <3>2. HostedTypeOK' /\ RootIsOwn'
      BY <1>1, <1>2, <2>1, <2>4, <3>1 DEF HostedTypeOK, RootIsOwn, BootMayTouch
    <3>3. NothingLost'
      BY <2>1, <3>1 DEF NothingLost, BootRuns, BeforeInstall, Hosted!Outside
    <3>4. TellsWhatWas'
      BY <1>1, <1>2, <1>3, <3>1 DEF TellsWhatWas, BeforeInstall, Hosted!Outside, Finished
    <3> QED
      BY <3>2, <3>3, <3>4 DEF HostedInv
  <2> QED
    BY <1>9, <2>2, <2>3, <2>4 DEF Hosted!Git
<1>10. CASE Hosted!Prepare
  BY <1>2, <1>4, <1>9, <1>10
     DEF Hosted!Prepare, Hosted!HGoes, Hosted!bootVars, BeforeInstall, Hosted!Outside
<1>11. CASE Hosted!StartBootstrap
  <2>1. /\ step = "bootstrap" /\ step' = "installing"
        /\ boot' = [Hosted!NoBoot EXCEPT !.at = "fresh"]
        /\ UNCHANGED <<first, quarantined, git>>
    BY <1>11 DEF Hosted!StartBootstrap, Hosted!HGoes
  <2>2. boot' \in Boots /\ boot'.at = "fresh" /\ boot'.root = FALSE
    BY <2>1 DEF Boots, Hosted!NoBoot
  <2>3. HostedTypeOK' /\ RootIsOwn'
    BY <1>1, <1>2, <2>1, <2>2 DEF HostedTypeOK, RootIsOwn, BootMayTouch
  <2>4. NothingLost'
    BY <1>3, <2>1, <2>2 DEF NothingLost, BootRuns, BeforeInstall, Hosted!Outside
  <2>5. TellsWhatWas'
    BY <1>1, <1>2, <1>3, <2>1 DEF TellsWhatWas, BeforeInstall, Hosted!Outside, Finished
  <2> QED
    BY <1>2, <2>3, <2>4, <2>5 DEF HostedInv
<1>12. CASE Hosted!Installed
  <2>1. /\ boot.at = "done" /\ step = "installing" /\ step' = "core"
        /\ UNCHANGED <<first, quarantined, git, boot>>
    BY <1>12 DEF Hosted!Installed, Hosted!HGoes, Hosted!bootVars
  <2>2. RootIsOwn' /\ ~BootRuns'
    BY <1>1, <1>2, <2>1 DEF RootIsOwn, BootRuns, BootMayTouch
  <2> QED
    BY <1>1, <1>2, <1>3, <1>5, <2>1, <2>2 DEF HostedTypeOK
<1>13. CASE Hosted!NotInstalled
  <2>1. step = "installing" /\ UNCHANGED git /\ first' = "body" /\ step' = "supervise"
    BY <1>13 DEF Hosted!NotInstalled, Hosted!Fails
  <2>2. boot \in Boots /\ boot.at # "none"
    BY <1>1, <2>1 DEF HostedTypeOK, NothingLost
  <2>3. ASSUME quarantined' = {},
               boot' = [boot EXCEPT !.at = IF boot.at = "done" THEN boot.at ELSE "gone"]
        PROVE  HostedInv'
    <3>1. boot' \in Boots /\ boot'.at \in {"done", "gone"}
      BY <2>2, <2>3 DEF Boots
    <3>2. RootIsOwn' /\ ~BootRuns'
      BY <3>1 DEF RootIsOwn, BootRuns, BootMayTouch
    <3> QED
      BY <1>5, <2>1, <2>3, <3>1, <3>2
  <2>4. ASSUME boot.at \notin {"done", "gone"}, quarantined' = {"bootstrap"}, UNCHANGED boot
        PROVE  HostedInv'
    <3>1. RootIsOwn' /\ BootRuns'
      BY <1>1, <1>2, <2>2, <2>4 DEF RootIsOwn, BootRuns, BootMayTouch
    <3> QED
      BY <1>5, <2>1, <2>2, <2>4, <3>1
  <2> QED
    BY <1>3, <1>13, <2>3, <2>4 DEF Hosted!NotInstalled, Hosted!Fails
<1>14. CASE Hosted!Core
  <2>1. /\ step = "core" /\ step' = "supervise"
        /\ UNCHANGED <<first, quarantined, git, boot>>
    BY <1>14 DEF Hosted!Core, Hosted!HGoes, Hosted!bootVars
  <2>2. RootIsOwn' /\ ~BootRuns'
    BY <1>1, <1>2, <1>3, <2>1 DEF RootIsOwn, BootRuns, BootMayTouch
  <2> QED
    BY <1>1, <1>2, <1>3, <1>5, <2>1, <2>2 DEF HostedTypeOK, NothingLost
<1>15. CASE Hosted!BodyRaises
  BY <1>3, <1>8, <1>15 DEF Hosted!BodyRaises, Hosted!bootVars
<1> QED
  BY <1>2, <1>6, <1>7, <1>10, <1>11, <1>12, <1>13, <1>14, <1>15 DEF BodySteps

(* The finally block.                                                       *)
LEMMA CleanupKeeps ==
  ASSUME HostedInv, Hosted!Supervise \/ Hosted!RemoveSdk \/ Hosted!Receipt
  PROVE  HostedInv' /\ LeavesForeign
<1>1. HostedTypeOK /\ NothingLost /\ RootIsOwn /\ TellsWhatWas
  BY DEF HostedInv
<1>2. UNCHANGED <<git, boot>>
  BY DEF Hosted!Supervise, Hosted!RemoveSdk, Hosted!Receipt, Hosted!bootVars
<1>3. CASE Hosted!Supervise
  <2>1. step = "supervise" /\ UNCHANGED <<sdk, first, receipt>>
    BY <1>3 DEF Hosted!Supervise, Hosted!bootVars
  <2>2. ~receipt.written /\ ~receipt.removed
    BY <1>1, <2>1 DEF TellsWhatWas, Finished
  <2>3. RootIsOwn' /\ LeavesForeign
    BY <1>1, <1>2, <2>1 DEF RootIsOwn, BootMayTouch, LeavesForeign
  <2>4. ASSUME NEW name \in quarantined, Hosted!Ended(name), quarantined' = quarantined \ {name},
               step' = step
        PROVE  HostedInv'
    <3>1. HostedTypeOK' /\ TellsWhatWas'
      BY <1>1, <1>2, <2>1, <2>2, <2>4
         DEF HostedTypeOK, TellsWhatWas, BeforeInstall, Hosted!Outside, Finished
    <3>2. name = "git" => git = FALSE
      BY <2>4 DEF Hosted!Ended
    <3>3. name = "bootstrap" => ~BootRuns
      BY <2>4 DEF Hosted!Ended, BootRuns
    <3>4. NothingLost'
      BY <1>1, <1>2, <2>1, <2>4, <3>2, <3>3 DEF NothingLost, BootRuns, BeforeInstall, Hosted!Outside
    <3> QED
      BY <2>3, <3>1, <3>4 DEF HostedInv
  <2>5. ASSUME quarantined = {}, step' = "sdk", quarantined' = quarantined
        PROVE  HostedInv'
    <3>1. HostedTypeOK' /\ TellsWhatWas'
      BY <1>1, <1>2, <2>1, <2>2, <2>5
         DEF HostedTypeOK, TellsWhatWas, BeforeInstall, Hosted!Outside, Finished
    <3>2. NothingLost'
      BY <1>1, <1>2, <2>1, <2>5 DEF NothingLost, BootRuns, BeforeInstall, Hosted!Outside
    <3> QED
      BY <2>3, <3>1, <3>2 DEF HostedInv
  <2> QED
    BY <1>3, <2>3, <2>4, <2>5 DEF Hosted!Supervise
<1>4. CASE Hosted!RemoveSdk
  <2>1. step = "sdk" /\ step' = "receipt" /\ UNCHANGED quarantined
    BY <1>4 DEF Hosted!RemoveSdk, Hosted!CleanupRaises
  <2>2. ~BootRuns /\ quarantined = {} /\ git = FALSE /\ ~receipt.written
    BY <1>1, <2>1 DEF NothingLost, TellsWhatWas, HostedTypeOK
  <2>3. NothingLost'
    BY <1>1, <1>2, <2>1, <2>2 DEF NothingLost, BootRuns, BeforeInstall, Hosted!Outside
  <2>4. RootIsOwn'
    BY <1>1, <1>2, <2>2 DEF RootIsOwn, BootRuns, BootMayTouch
  <2>5. receipt \in Reports
    BY <1>1 DEF HostedTypeOK
  <2>6. ASSUME Hosted!There => Hosted!OwnedSdk, sdk' = Hosted!Absent, UNCHANGED first,
               receipt' = [receipt EXCEPT !.removed = TRUE]
        PROVE  HostedInv' /\ LeavesForeign
    <3>1. receipt' \in Reports /\ receipt'.removed /\ ~receipt'.written
      BY <2>2, <2>5, <2>6 DEF Reports
    <3>2. sdk' \in Roots
      BY <2>6 DEF Roots, Hosted!Absent
    <3>3. HostedTypeOK' /\ TellsWhatWas'
      BY <1>1, <1>2, <2>1, <2>6, <3>1, <3>2
         DEF HostedTypeOK, TellsWhatWas, BeforeInstall, Hosted!Outside, Finished
    <3>4. LeavesForeign
      BY <2>6 DEF LeavesForeign, Foreign, Hosted!There, Hosted!OwnedSdk, Hosted!Absent
    <3> QED
      BY <2>3, <2>4, <3>3, <3>4 DEF HostedInv
  <2>7. ASSUME Hosted!CleanupRaises(FALSE), LeavesForeign, sdk' \in Roots
        PROVE  HostedInv' /\ LeavesForeign
    <3>1. receipt' = [receipt EXCEPT !.removed = FALSE]
      BY <2>7 DEF Hosted!CleanupRaises
    <3>2. receipt' \in Reports /\ ~receipt'.removed /\ ~receipt'.written
      BY <2>2, <2>5, <3>1 DEF Reports
    <3>3. first' # "none" /\ (first' = first \/ first' = "cleanup")
      BY <2>7 DEF Hosted!CleanupRaises, Hosted!First
    <3>4. HostedTypeOK' /\ TellsWhatWas'
      BY <1>1, <1>2, <2>1, <2>7, <3>2, <3>3
         DEF HostedTypeOK, TellsWhatWas, BeforeInstall, Hosted!Outside, Finished
    <3> QED
      BY <2>3, <2>4, <2>7, <3>4 DEF HostedInv
  <2>8. ASSUME Hosted!OwnedSdk,
               \E owner_ \in {"this", "none"} :
                 sdk' = [sdk EXCEPT !.owner = owner_, !.whole = FALSE]
        PROVE  LeavesForeign /\ sdk' \in Roots
    BY <1>1, <2>8 DEF LeavesForeign, Foreign, Hosted!OwnedSdk, HostedTypeOK, Roots
  <2>9. sdk' = sdk => LeavesForeign /\ sdk' \in Roots
    BY <1>1 DEF LeavesForeign, HostedTypeOK
  <2> QED
    BY <1>4, <2>6, <2>7, <2>8, <2>9 DEF Hosted!RemoveSdk
<1>5. CASE Hosted!Receipt
  <2>1. step = "receipt" /\ UNCHANGED <<sdk, quarantined>>
    BY <1>5 DEF Hosted!Receipt, Hosted!bootVars
  <2>2. ~BootRuns /\ quarantined = {} /\ git = FALSE /\ ~receipt.written /\ receipt \in Reports
    BY <1>1, <2>1 DEF NothingLost, TellsWhatWas, HostedTypeOK
  <2>3. step' \in {"passed", "raised"}
    BY <1>5 DEF Hosted!Receipt
  <2>4. NothingLost' /\ RootIsOwn' /\ LeavesForeign
    BY <1>1, <1>2, <2>1, <2>2, <2>3
       DEF NothingLost, RootIsOwn, LeavesForeign, BootRuns, BootMayTouch, BeforeInstall, Hosted!Outside
  <2>5. ASSUME receipt' = [receipt EXCEPT !.written = TRUE,
                             !.failure = IF first = "body" THEN "body" ELSE "none"],
               step' = (IF first = "none" THEN "passed" ELSE "raised"), UNCHANGED first
        PROVE  HostedInv'
    <3>1. /\ receipt' \in Reports /\ receipt'.removed = receipt.removed
          /\ receipt'.failure = IF first = "body" THEN "body" ELSE "none"
          /\ receipt'.written
      BY <2>2, <2>5 DEF Reports
    <3>2. HostedTypeOK' /\ TellsWhatWas'
      BY <1>1, <1>2, <2>1, <2>3, <2>5, <3>1
         DEF HostedTypeOK, TellsWhatWas, BeforeInstall, Hosted!Outside, Finished
    <3> QED
      BY <2>4, <3>2 DEF HostedInv
  <2>6. ASSUME Hosted!First("receipt"), step' = "raised", UNCHANGED receipt
        PROVE  HostedInv'
    <3>1. first' # "none" /\ (first' = first \/ first' = "receipt")
      BY <2>6 DEF Hosted!First
    <3>2. HostedTypeOK' /\ TellsWhatWas'
      BY <1>1, <1>2, <2>1, <2>2, <2>6, <3>1
         DEF HostedTypeOK, TellsWhatWas, BeforeInstall, Hosted!Outside, Finished
    <3> QED
      BY <2>4, <3>2 DEF HostedInv
  <2> QED
    BY <1>5, <2>4, <2>5, <2>6 DEF Hosted!Receipt
<1> QED
  BY <1>3, <1>4, <1>5

(* The bootstrap, while it runs, and what ends by itself.                    *)
LEMMA BootKeeps ==
  ASSUME HostedInv, Hosted!Bootstrap \/ Hosted!World
  PROVE  HostedInv' /\ LeavesForeign
<1>1. HostedTypeOK /\ NothingLost /\ RootIsOwn /\ TellsWhatWas
  BY DEF HostedInv
<1>2. sdk \in Roots /\ boot \in Boots
  BY <1>1 DEF HostedTypeOK
<1>3. CASE Hosted!World
  <2>1. UNCHANGED <<sdk, step, first, quarantined, receipt>>
    BY <1>3 DEF Hosted!World
  <2>2. LeavesForeign /\ TellsWhatWas'
    BY <1>1, <2>1 DEF LeavesForeign, TellsWhatWas
  <2>3. CASE UNCHANGED boot /\ (git' = git \/ git' = FALSE)
    <3>1. HostedTypeOK' /\ RootIsOwn'
      BY <1>1, <2>1, <2>3 DEF HostedTypeOK, RootIsOwn, BootMayTouch
    <3>2. NothingLost'
      BY <1>1, <2>1, <2>3 DEF NothingLost, BootRuns
    <3> QED
      BY <2>2, <3>1, <3>2 DEF HostedInv
  <2>4. CASE UNCHANGED git /\ "bootstrap" \in quarantined /\ boot' = [boot EXCEPT !.at = "gone"]
    <3>1. boot' \in Boots /\ boot'.at = "gone"
      BY <1>2, <2>4 DEF Boots
    <3>2. step = "supervise"
      BY <1>1, <2>4 DEF NothingLost
    <3>3. HostedTypeOK' /\ RootIsOwn'
      BY <1>1, <2>1, <2>4, <3>1 DEF HostedTypeOK, RootIsOwn, BootMayTouch
    <3>4. NothingLost'
      BY <1>1, <2>1, <2>4, <3>1, <3>2 DEF NothingLost, BootRuns, BeforeInstall, Hosted!Outside
    <3> QED
      BY <2>2, <3>3, <3>4 DEF HostedInv
  <2> QED
    BY <1>3, <2>3, <2>4 DEF Hosted!World
<1>4. CASE Hosted!Bootstrap
  <2>1. UNCHANGED <<step, first, quarantined, git, receipt>>
    BY <1>4 DEF Hosted!Bootstrap
  <2>2. BootRuns
    BY <1>4 DEF Hosted!Bootstrap, Hosted!FreshSdk, Hosted!Download, Hosted!MakeRoot,
                Hosted!WriteOwner, Hosted!SafeExtract, Hosted!BootFails, Hosted!BootFinally,
                Hosted!BGoes, BootRuns
  <2>3. step \in {"installing", "supervise"} /\ ~receipt.removed
    BY <1>1, <2>2 DEF NothingLost, TellsWhatWas, Finished
  <2>4. ASSUME boot' \in Boots, boot'.at # "none", sdk' \in Roots, RootIsOwn', LeavesForeign
        PROVE  HostedInv' /\ LeavesForeign
    <3>1. HostedTypeOK'
      BY <1>1, <2>1, <2>4 DEF HostedTypeOK
    <3>2. NothingLost'
      BY <1>1, <2>1, <2>2, <2>3, <2>4 DEF NothingLost, BootRuns, BeforeInstall, Hosted!Outside
    <3>3. TellsWhatWas'
      BY <1>1, <2>1, <2>3 DEF TellsWhatWas
    <3> QED
      BY <2>4, <3>1, <3>2, <3>3 DEF HostedInv
  <2>5. ASSUME UNCHANGED sdk, NEW to \in {"cache", "archive", "mkdir", "unlink", "rmtree", "done", "gone"},
               boot' = [boot EXCEPT !.at = to] \/ boot' = [boot EXCEPT !.at = to, !.cache = TRUE],
               to \in {"cache", "archive", "mkdir"} => ~BootMayTouch
        PROVE  HostedInv' /\ LeavesForeign
    <3>1. boot' \in Boots /\ boot'.at = to /\ boot'.root = boot.root
      BY <1>2, <2>5 DEF Boots
    <3>2. RootIsOwn'
      BY <1>1, <2>2, <2>5, <3>1 DEF RootIsOwn, BootMayTouch, BootRuns
    <3> QED
      BY <1>2, <2>4, <2>5, <3>1, <3>2 DEF LeavesForeign
  <2>6. CASE Hosted!FreshSdk \/ Hosted!Download \/ Hosted!BootFails
    BY <2>5, <2>6
       DEF Hosted!FreshSdk, Hosted!Download, Hosted!BootFails, Hosted!BGoes, BootMayTouch
  <2>7. CASE Hosted!MakeRoot
    <3>1. /\ ~Hosted!There /\ boot' = [boot EXCEPT !.at = "owner", !.root = TRUE]
          /\ sdk' = [by |-> "this", owner |-> "none", whole |-> FALSE]
      BY <2>7 DEF Hosted!MakeRoot
    <3>2. boot' \in Boots /\ boot'.at = "owner" /\ boot'.root
      BY <1>2, <3>1 DEF Boots
    <3>3. sdk' \in Roots /\ LeavesForeign /\ RootIsOwn'
      BY <3>1, <3>2
         DEF Roots, LeavesForeign, Foreign, Hosted!There, Hosted!Absent, RootIsOwn, BootMayTouch
    <3> QED
      BY <2>4, <3>2, <3>3
  <2>8. ASSUME NEW to \in {"extract", "unlink"}, boot.at \in {"owner", "extract"},
               boot' = [boot EXCEPT !.at = to] \/ boot' = [boot EXCEPT !.at = to, !.success = TRUE],
               sdk' = [sdk EXCEPT !.owner = "this"] \/ sdk' = [sdk EXCEPT !.whole = TRUE]
        PROVE  HostedInv' /\ LeavesForeign
    <3>1. boot' \in Boots /\ boot'.at = to /\ boot'.root = boot.root
      BY <1>2, <2>8 DEF Boots
    <3>2. sdk.by = "this" /\ boot.root
      BY <1>1, <2>8 DEF RootIsOwn, BootMayTouch
    <3>3. sdk' \in Roots /\ sdk'.by = "this"
      BY <1>2, <2>8, <3>2 DEF Roots
    <3>4. RootIsOwn' /\ LeavesForeign
      BY <2>8, <3>1, <3>2, <3>3 DEF RootIsOwn, BootMayTouch, LeavesForeign, Foreign
    <3> QED
      BY <2>4, <2>8, <3>1, <3>3, <3>4
  <2>9. CASE Hosted!WriteOwner \/ Hosted!SafeExtract
    BY <2>8, <2>9 DEF Hosted!WriteOwner, Hosted!SafeExtract, Hosted!BGoes
  <2>10. CASE Hosted!BootFinally
    <3>1. CASE UNCHANGED sdk
      BY <2>5, <2>10, <3>1 DEF Hosted!BootFinally, Hosted!BGoes
    <3>2. ASSUME boot.at = "rmtree", boot.root, ~boot.success, sdk' = Hosted!Absent,
                 boot' = [boot EXCEPT !.at = "gone"]
          PROVE  HostedInv' /\ LeavesForeign
      <4>1. sdk.by = "this"
        BY <1>1, <3>2 DEF RootIsOwn, BootMayTouch
      <4>2. boot' \in Boots /\ boot'.at = "gone" /\ sdk' \in Roots
        BY <1>2, <3>2 DEF Boots, Roots, Hosted!Absent
      <4>3. RootIsOwn' /\ LeavesForeign
        BY <4>1, <4>2 DEF RootIsOwn, BootMayTouch, LeavesForeign, Foreign
      <4> QED
        BY <2>4, <4>2, <4>3
    <3> QED
      BY <2>10, <3>1, <3>2 DEF Hosted!BootFinally, Hosted!BGoes
  <2> QED
    BY <1>4, <2>6, <2>7, <2>9, <2>10 DEF Hosted!Bootstrap
<1> QED
  BY <1>3, <1>4

LEMMA HostedStep ==
  ASSUME HostedInv, [Hosted!HostedNext]_(Hosted!hostedVars)
  PROVE  HostedInv' /\ LeavesForeign
<1>1. CASE UNCHANGED Hosted!hostedVars
  BY <1>1 DEF Hosted!hostedVars, HostedInv, HostedTypeOK, NothingLost, RootIsOwn, TellsWhatWas,
              BootRuns, BootMayTouch, LeavesForeign
<1>2. CASE BodySteps
  BY <1>2, BodyKeeps DEF LeavesForeign
<1> QED
  BY <1>1, <1>2, CleanupKeeps, BootKeeps DEF Hosted!HostedNext, Hosted!Main, BodySteps

LEMMA EndsAsTold == HostedInv => Hosted!EndsTruthfully
<1> SUFFICES ASSUME HostedInv PROVE Hosted!EndsTruthfully
  OBVIOUS
<1>1. HostedTypeOK /\ NothingLost /\ TellsWhatWas
  BY DEF HostedInv
<1> SUFFICES ASSUME step \in {"passed", "raised"} PROVE Hosted!EndsTruthfully
  BY DEF Hosted!EndsTruthfully
<1>2. ~git /\ (boot = Hosted!NoBoot \/ Hosted!Ended("bootstrap"))
  BY <1>1 DEF HostedTypeOK, NothingLost, BootRuns, Hosted!Ended
<1>3. receipt.removed => ~Hosted!There
  BY <1>1 DEF TellsWhatWas, Hosted!There
<1> QED
  BY <1>1, <1>2, <1>3 DEF TellsWhatWas, Hosted!EndsTruthfully

\* Wherever the hosted suite fails, it ends with nothing of its own running and
\* with a receipt that is true, and a root of another lease, or one nobody can be
\* shown to own, stays as it was found.
THEOREM SuiteCleansOnlyOwn == Hosted!HostedSpec => CleansOnlyOwn
<1>1. HostedInv /\ [Hosted!HostedNext]_(Hosted!hostedVars) => HostedInv' /\ LeavesForeign
  BY HostedStep
<1>2. HostedInv' => Hosted!EndsTruthfully'
  BY EndsAsTold, PTL
<1>3. HostedInv /\ [Hosted!HostedNext]_(Hosted!hostedVars)
        => [/\ Hosted!EndsTruthfully'
            /\ sdk.by = "earlier" /\ sdk.owner # "this" => sdk' = sdk]_(Hosted!hostedVars)
  BY <1>1, <1>2 DEF LeavesForeign, Foreign
<1> QED
  BY <1>1, <1>3, HostedInitInv, PTL DEF Hosted!HostedSpec, CleansOnlyOwn, Hosted!CleansOnlyOwn
-----------------------------------------------------------------------------
(***************************************************************************)
(* GreenMetadata.  The reads of mutate() and the patch are of one version  *)
(* of the canonical Deployment, whose metadata is that of the baseline.    *)
(***************************************************************************)
Planned == {"create", "created", "canonical", "green", "patch", "patched", "done"}
CanonVerified == {"green", "patch"}
VersionRead == stage \in CanonVerified \cup {"canonical"} /\ readback.at # "version"

EntryNames == {"ENVIRONMENT", "STANDBY", "SECRET"}
Origins == {"reference", "literal"}
Read3 == Metadata!Entries \cup {Metadata!Literal(n, "garbled") : n \in EntryNames}
EntryShape == [name : EntryNames, from : Origins]

IsTemplate(t) ==
  /\ t = [plain |-> t.plain, env |-> t.env, container |-> t.container, pod |-> t.pod,
          lifecycle |-> t.lifecycle, image |-> t.image]
  /\ t.container = [f \in Metadata!Container |-> t.container[f]]
IsSeen ==
  /\ readback = [at |-> readback.at, version |-> readback.version, shape |-> readback.shape,
                 env |-> readback.env, fields |-> readback.fields,
                 present |-> readback.present, baseline |-> readback.baseline]
  /\ IsTemplate(readback.fields)
  /\ readback.present = TRUE => readback.at \in Metadata!Container \cup {"pod"}
IsBaseline(t) == Metadata!SameMetadata(readback.baseline, t.env, t)

\* What each place of a reading has behind it.
PastPod == {"lifecycle", "done"}
Past == [ports |-> {"readinessProbe", "startupProbe", "pod"} \cup PastPod,
         readinessProbe |-> {"startupProbe", "pod"} \cup PastPod,
         startupProbe |-> {"pod"} \cup PastPod]
PastValues == Metadata!Container \cup {"pod"} \cup PastPod

\* What has been read of the canonical Deployment is still so.
EnvSoFar ==
  /\ readback.at = "values" =>
       /\ readback.shape = Metadata!ShapeOf(canon.t.env)
       /\ Metadata!EnvironmentReadable(canon.t.env)
       /\ readback.env \in Seq(Metadata!Entries) /\ Len(readback.env) <= Len(canon.t.env)
       /\ \A i \in 1..Len(readback.env) : readback.env[i] = canon.t.env[i]
  /\ readback.at \in PastValues => readback.env = canon.t.env
FieldsSoFar ==
  /\ \A f \in Metadata!Container :
       readback.at \in Past[f] => readback.fields.container[f] = canon.t.container[f]
  /\ readback.at \in PastPod => readback.fields.pod = canon.t.pod
  /\ readback.present = TRUE => Metadata!Field(canon.t) # "absent"

ReadOfOneVersion ==
  /\ IsTemplate(canon.t) /\ canon.t.env \in Seq(Metadata!Entries) /\ IsSeen
  /\ canon.version \in Nat /\ readback.version \in Nat
  /\ stage \in Planned => plan = Metadata!PlanGreenMetadata(readback.baseline)
  /\ VersionRead => readback.version <= canon.version
  /\ stage \in CanonVerified => readback.at # "version"
  /\ stage = "canonical" /\ readback.at # "version" /\ canon.version = readback.version
       => EnvSoFar /\ FieldsSoFar
  /\ stage \in CanonVerified /\ canon.version = readback.version => IsBaseline(canon.t)

PatchIsOfBaseline ==
  stage = "patch" /\ stage' = "patched" =>
    /\ plan = Metadata!PlanGreenMetadata(readback.baseline)
    /\ IsBaseline(canon.t) /\ IsBaseline(canon.t)'

\* The first Deployment has an environment of entries.
LEMMA TemplateEnvironment ==
  Metadata!MetadataInit => canon.t.env \in Seq(Metadata!Entries) /\ stage = "snapshot"
<1> SUFFICES ASSUME Metadata!MetadataInit
             PROVE  canon.t.env \in Seq(Metadata!Entries) /\ stage = "snapshot"
  OBVIOUS
<1>1. /\ Metadata!Reference("SECRET") \in Metadata!Entries
      /\ Metadata!Literal("STANDBY", "true") \in Metadata!Entries
  BY DEF Metadata!Entries, Metadata!Reference, Metadata!Literal
<1> HIDE DEF Metadata!Entries, Metadata!Reference, Metadata!Literal
<1>2. Metadata!Template.env \in Seq(Metadata!Entries)
  BY <1>1 DEF Metadata!Template
<1>3. canon.t.env \in Seq(Metadata!Entries)
  <2>1. ASSUME NEW e \in Metadata!BoundedSeq(Metadata!Entries, 2),
               Metadata!Canonical([Metadata!Template EXCEPT !.env = e])
        PROVE  canon.t.env = e /\ e \in Seq(Metadata!Entries)
    <3>1. canon.t.env = e
      BY <2>1 DEF Metadata!Canonical, Metadata!Template
    <3>2. PICK n \in 0..2 : e \in [1..n -> Metadata!Entries]
      BY DEF Metadata!BoundedSeq, Metadata!SeqOf
    <3> QED
      BY <3>1, <3>2
  <2>2. ASSUME NEW c, Metadata!Canonical([Metadata!Template EXCEPT !.container = c])
        PROVE  canon.t.env = Metadata!Template.env
    BY <2>2 DEF Metadata!Canonical, Metadata!Template
  <2>3. ASSUME NEW p, NEW b, NEW l,
               Metadata!Canonical([Metadata!Template EXCEPT !.pod = p, !.plain = b, !.lifecycle = l])
        PROVE  canon.t.env = Metadata!Template.env
    BY <2>3 DEF Metadata!Canonical, Metadata!Template
  <2> QED
    BY <1>2, <2>1, <2>2, <2>3 DEF Metadata!MetadataInit
<1>4. stage = "snapshot"
  BY DEF Metadata!MetadataInit
<1> QED
  BY <1>3, <1>4

LEMMA MetadataInitInv == Metadata!MetadataInit => ReadOfOneVersion
<1> SUFFICES ASSUME Metadata!MetadataInit PROVE ReadOfOneVersion
  OBVIOUS
<1>1. IsTemplate(Metadata!Template)
  BY DEF IsTemplate, Metadata!Template, Metadata!Container
<1>2. IsTemplate(canon.t) /\ canon.version = 1
  <2>1. ASSUME NEW e, Metadata!Canonical([Metadata!Template EXCEPT !.env = e])
        PROVE  IsTemplate(canon.t) /\ canon.version = 1
    BY <1>1, <2>1 DEF IsTemplate, Metadata!Canonical
  <2>2. ASSUME NEW c \in [Metadata!Container -> Metadata!Values \ {"desired"}],
               Metadata!Canonical([Metadata!Template EXCEPT !.container = c])
        PROVE  IsTemplate(canon.t) /\ canon.version = 1
    BY <1>1, <2>2 DEF IsTemplate, Metadata!Canonical
  <2>3. ASSUME NEW p, NEW b, NEW l,
               Metadata!Canonical([Metadata!Template EXCEPT !.pod = p, !.plain = b, !.lifecycle = l])
        PROVE  IsTemplate(canon.t) /\ canon.version = 1
    BY <1>1, <2>3 DEF IsTemplate, Metadata!Canonical
  <2> QED
    BY <2>1, <2>2, <2>3 DEF Metadata!MetadataInit
<1>3. /\ readback = [at |-> "version", version |-> 0, shape |-> <<>>, env |-> <<>>,
                     fields |-> Metadata!NoParts.fields, present |-> FALSE,
                     baseline |-> Metadata!NoParts]
      /\ stage = "snapshot"
  BY DEF Metadata!MetadataInit
<1>4. IsTemplate(Metadata!NoParts.fields)
  BY <1>1 DEF IsTemplate, Metadata!NoParts, Metadata!Nothing
<1>5. IsSeen
  BY <1>3, <1>4 DEF IsSeen
<1> QED
  BY <1>2, <1>3, <1>5, TemplateEnvironment
     DEF ReadOfOneVersion, Planned, VersionRead, CanonVerified

(* A read, a comparison or a refusal: neither Deployment changes, nor the   *)
(* baseline and the plan.                                                   *)
LEMMA MetadataReads ==
  ASSUME ReadOfOneVersion, UNCHANGED <<canon, contract, plan>>,
         readback'.baseline = readback.baseline
  PROVE  /\ UNCHANGED Metadata!PlanGreenMetadata(readback.baseline)
         /\ IsBaseline(canon.t)' <=> IsBaseline(canon.t)
         /\ IsTemplate(canon.t)'
BY DEF Metadata!PlanGreenMetadata, Metadata!PlannedContainer, Metadata!StartupProbe,
       IsBaseline, Metadata!SameMetadata, ReadOfOneVersion, IsTemplate

\* The place after each.
LEMMA PlacesFollow ==
  /\ Metadata!Then("names") = "unsafe" /\ Metadata!Then("unsafe") = "shape"
  /\ Metadata!Then("ports") = "readinessProbe"
  /\ Metadata!Then("readinessProbe") = "startupProbe"
  /\ Metadata!Then("startupProbe") = "pod"
  /\ Metadata!Then("image") = IF Metadata!OfGreen THEN "lifecycle" ELSE "names"
  /\ Metadata!Then("pod") = IF Metadata!OfGreen THEN "image" ELSE "lifecycle"
BY DEF Metadata!Then, Metadata!Following

\* The shape of an environment.
LEMMA ShapeIs ==
  ASSUME NEW env \in Seq(Metadata!Entries)
  PROVE  /\ Metadata!ShapeOf(env) \in Seq(EntryShape) /\ Len(Metadata!ShapeOf(env)) = Len(env)
         /\ \A i \in 1..Len(env) : /\ Metadata!ShapeOf(env)[i].name = env[i].name
                                   /\ Metadata!ShapeOf(env)[i].from = env[i].from
<1>1. \A e \in Metadata!Entries : [name |-> e.name, from |-> e.from] \in EntryShape
  BY DEF Metadata!Entries, Metadata!Reference, Metadata!Literal, EntryShape, EntryNames, Origins
<1> HIDE DEF Metadata!Entries
<1>2. \A i \in 1..Len(env) : env[i] \in Metadata!Entries
  BY ElementOfSeq
<1>3. Metadata!ShapeOf(env) = [i \in 1..Len(env) |-> [name |-> env[i].name, from |-> env[i].from]]
  BY DEF Metadata!ShapeOf
<1>4. Metadata!ShapeOf(env) \in [1..Len(env) -> EntryShape]
  BY <1>1, <1>2, <1>3
<1>5. Len(env) \in Nat /\ DOMAIN Metadata!ShapeOf(env) = 1..Len(env)
  BY <1>3
<1>6. Metadata!ShapeOf(env) \in Seq(EntryShape) /\ Len(Metadata!ShapeOf(env)) = Len(env)
  <2> HIDE DEF Metadata!ShapeOf, EntryShape
  <2> QED
    BY <1>4, <1>5
<1>7. \A i \in 1..Len(env) : Metadata!ShapeOf(env)[i] = [name |-> env[i].name, from |-> env[i].from]
  BY <1>3
<1>8. \A i \in 1..Len(env) : /\ Metadata!ShapeOf(env)[i].name = env[i].name
                               /\ Metadata!ShapeOf(env)[i].from = env[i].from
  <2> TAKE i \in 1..Len(env)
  <2>1. Metadata!ShapeOf(env)[i] = [name |-> env[i].name, from |-> env[i].from]
    BY <1>7
  <2> QED
    BY <2>1
<1> QED
  BY <1>6, <1>8

\* What a read leaves alone, and that none begins the reads again.
LEMMA ReadsOnly ==
  ASSUME ReadOfOneVersion, Metadata!Read
  PROVE  /\ UNCHANGED <<canon, green, contract, plan, stage, edits>>
         /\ IsSeen' /\ readback'.baseline = readback.baseline
         /\ readback'.at # "version"
         /\ \/ readback'.version = readback.version /\ readback.at # "version"
            \/ readback'.version = canon.version /\ readback.at = "version"
<1> USE DEF IsSeen, ReadOfOneVersion, Metadata!OnlyReads, Metadata!Reads
<1>1. CASE Metadata!ReadVersion
  BY <1>1 DEF Metadata!ReadVersion, Metadata!Container
<1>2. CASE Metadata!ReadImage
  BY <1>2, PlacesFollow DEF Metadata!ReadImage, IsTemplate, Metadata!Container
<1>3. CASE Metadata!CheckPlain
  BY <1>3, PlacesFollow DEF Metadata!CheckPlain, IsTemplate, Metadata!Container
<1>4. CASE Metadata!ReadShape
  BY <1>4 DEF Metadata!ReadShape, Metadata!Container
<1>5. CASE Metadata!ReadValue
  <2>1. /\ UNCHANGED <<canon, green, contract, plan, stage, edits>> /\ readback.at = "values"
        /\ \E e : readback' = [readback EXCEPT !.env = Append(readback.env, e)]
    BY <1>5 DEF Metadata!ReadValue
  <2> QED
    BY <2>1 DEF Metadata!Container
<1>6. CASE Metadata!ValuesRead
  BY <1>6 DEF Metadata!ValuesRead, Metadata!Container
<1>7. CASE Metadata!FindField \/ Metadata!ReadField
  <2>1. /\ UNCHANGED <<canon, green, contract, plan, stage, edits>>
        /\ readback.at \in {"ports", "readinessProbe", "startupProbe", "pod"}
    BY <1>7 DEF Metadata!FindField, Metadata!ReadField, Metadata!ReadsField, Metadata!Container
  <2>2. \A v : IsTemplate(Metadata!Kept(v))
    BY <2>1 DEF IsTemplate, Metadata!Kept, Metadata!Container
  <2>3. Metadata!Then(readback.at) \in {"readinessProbe", "startupProbe", "pod", "image", "lifecycle"}
    BY <2>1, PlacesFollow
  <2>4. \/ \E v : readback' = [readback EXCEPT !.at = Metadata!Then(readback.at),
                                              !.fields = Metadata!Kept(v)]
              /\ readback.present # TRUE
        \/ \E v : readback' = [readback EXCEPT !.at = Metadata!Then(readback.at),
                                              !.present = FALSE, !.fields = Metadata!Kept(v)]
        \/ readback' = [readback EXCEPT !.present = TRUE]
    BY <1>7 DEF Metadata!FindField, Metadata!ReadField
  <2> DEFINE next == Metadata!Then(readback.at)
  <2>5. ASSUME NEW v, \/ /\ readback.present # TRUE
                         /\ readback' = [readback EXCEPT !.at = next, !.fields = Metadata!Kept(v)]
                      \/ readback' = [readback EXCEPT !.at = next, !.present = FALSE,
                                                      !.fields = Metadata!Kept(v)]
        PROVE  /\ IsSeen' /\ readback'.baseline = readback.baseline
               /\ readback'.at = next /\ readback'.version = readback.version
    <3>1. /\ readback' = [at |-> next, version |-> readback.version, shape |-> readback.shape,
                          env |-> readback.env, fields |-> Metadata!Kept(v),
                          present |-> readback'.present, baseline |-> readback.baseline]
          /\ readback'.present # TRUE
      BY <2>5
    <3>2. IsTemplate(Metadata!Kept(v))
      BY <2>2
    <3>3. IsTemplate(readback.fields)'
      BY <3>1, <3>2 DEF IsTemplate
    <3> HIDE DEF IsTemplate, next
    <3>4. /\ readback'.at = next /\ readback'.version = readback.version
          /\ readback'.baseline = readback.baseline
          /\ readback' = [at |-> readback'.at, version |-> readback'.version,
                          shape |-> readback'.shape, env |-> readback'.env,
                          fields |-> readback'.fields, present |-> readback'.present,
                          baseline |-> readback'.baseline]
      BY <3>1
    <3> QED
      BY <3>1, <3>3, <3>4
  <2>6. CASE readback' = [readback EXCEPT !.present = TRUE]
    <3>1. IsTemplate(readback.fields)'
      BY <2>6 DEF IsTemplate
    <3> QED
      BY <2>1, <2>6, <3>1 DEF Metadata!Container
  <2> HIDE DEF IsTemplate
  <2>7. next # "version" /\ readback.at # "version"
    BY <2>1, <2>3
  <2> HIDE DEF next, IsSeen
  <2> QED
    BY <2>1, <2>4, <2>5, <2>6, <2>7 DEF next
<1>8. CASE Metadata!ReadLifecycle
  BY <1>8 DEF Metadata!ReadLifecycle, IsTemplate, Metadata!Container
<1> QED
  BY <1>1, <1>2, <1>3, <1>4, <1>5, <1>6, <1>7, <1>8 DEF Metadata!Read

\* Of an unchanged Deployment the entry of a name is the next one.
LEMMA FoundIsNext ==
  ASSUME NEW E, NEW env \in Seq(E), Metadata!EnvironmentReadable(env), NEW k \in 1..Len(env)
  PROVE  {i \in DOMAIN env : env[i].name = env[k].name /\ env[i].from = env[k].from} = {k}
BY DEF Metadata!EnvironmentReadable, Metadata!IsInjective

LEMMA ReadKeepsEnv ==
  ASSUME ReadOfOneVersion, Metadata!Read, stage = "canonical", canon.version = readback'.version
  PROVE  EnvSoFar'
<1>1. UNCHANGED <<canon, stage>> /\ (readback.at # "version" => canon.version = readback.version)
  BY ReadsOnly
<1>2. IsSeen /\ canon.t.env \in Seq(Metadata!Entries)
  BY DEF ReadOfOneVersion
<1>3. readback.at # "version" => EnvSoFar
  BY <1>1 DEF ReadOfOneVersion
<1>4. Metadata!Source = canon.t /\ ~Metadata!OfGreen
  BY DEF Metadata!Source, Metadata!OfGreen
<1> USE DEF Metadata!Reads, PastValues, PastPod, Metadata!Container
<1>5. CASE Metadata!ReadVersion \/ Metadata!ReadImage \/ Metadata!CheckPlain
  <2>1. readback'.at \in {"image", "names", "unsafe", "shape"}
    BY <1>2, <1>4, <1>5, PlacesFollow
       DEF Metadata!ReadVersion, Metadata!ReadImage, Metadata!CheckPlain, IsSeen
  <2> QED
    BY <2>1 DEF EnvSoFar
<1>6. CASE Metadata!ReadShape
  <2>1. /\ readback'.at = "values" /\ readback'.env = <<>>
        /\ readback'.shape = Metadata!ShapeOf(canon.t.env)
        /\ Metadata!EnvironmentReadable(canon.t.env)
    BY <1>2, <1>4, <1>6 DEF Metadata!ReadShape, IsSeen
  <2> QED
    BY <1>1, <1>2, <2>1 DEF EnvSoFar
<1>7. CASE Metadata!ReadValue
  <2> DEFINE env == canon.t.env
             k == Len(readback.env) + 1
             entry == readback.shape[k]
             Found == {i \in DOMAIN env : env[i].name = entry.name /\ env[i].from = entry.from}
  <2>1. /\ readback.at = "values" /\ Len(readback.env) < Len(readback.shape)
        /\ \/ \E i \in Found : /\ Found = {i}
                               /\ readback' = [readback EXCEPT !.env = Append(readback.env, env[i])]
           \/ \A i \in Found : Found # {i}
    BY <1>4, <1>7 DEF Metadata!ReadValue
  <2>2. /\ readback.shape = Metadata!ShapeOf(env) /\ Metadata!EnvironmentReadable(env)
        /\ readback.env \in Seq(Metadata!Entries) /\ Len(readback.env) <= Len(env)
        /\ \A i \in 1..Len(readback.env) : readback.env[i] = env[i]
    BY <1>3, <2>1 DEF EnvSoFar
  <2> HIDE DEF env
  <2>3. env \in Seq(Metadata!Entries)
    BY <1>2 DEF env
  <2>4. Len(readback.shape) = Len(env) /\ k \in 1..Len(env)
    BY <2>1, <2>2, <2>3, ShapeIs
  <2>5. entry.name = env[k].name /\ entry.from = env[k].from
    BY <2>2, <2>3, <2>4, ShapeIs
  <2>6. Found = {k}
    BY <2>2, <2>3, <2>4, <2>5, FoundIsNext
  <2>7. readback' = [readback EXCEPT !.env = Append(readback.env, env[k])]
    BY <2>1, <2>6
  <2>8. readback'.at = "values" /\ readback'.shape = readback.shape
        /\ readback'.env = Append(readback.env, env[k])
    BY <1>2, <2>1, <2>7 DEF IsSeen
  <2>9. env[k] \in Metadata!Entries
    BY <2>3, <2>4, ElementOfSeq
  <2>10. /\ readback'.env \in Seq(Metadata!Entries) /\ Len(readback'.env) = k
         /\ \A i \in 1..Len(readback.env) : readback'.env[i] = readback.env[i]
         /\ readback'.env[k] = env[k]
    BY <2>2, <2>8, <2>9, AppendProperties
  <2>11. /\ Len(readback'.env) <= Len(env)
         /\ \A i \in 1..Len(readback'.env) : readback'.env[i] = env[i]
    BY <2>2, <2>4, <2>10
  <2> QED
    BY <1>1, <2>2, <2>8, <2>10, <2>11 DEF EnvSoFar, env
<1>8. CASE Metadata!ValuesRead
  <2>1. /\ readback.at = "values" /\ Len(readback.env) = Len(readback.shape)
        /\ readback'.at = "ports" /\ readback'.env = readback.env
    BY <1>2, <1>8 DEF Metadata!ValuesRead, IsSeen
  <2>2. /\ readback.shape = Metadata!ShapeOf(canon.t.env)
        /\ readback.env \in Seq(Metadata!Entries)
        /\ \A i \in 1..Len(readback.env) : readback.env[i] = canon.t.env[i]
    BY <1>3, <2>1 DEF EnvSoFar
  <2>3. Len(readback.env) = Len(canon.t.env)
    BY <1>2, <2>1, <2>2, ShapeIs
  <2>4. readback.env = canon.t.env
    BY <1>2, <2>2, <2>3, SeqEqual
  <2> QED
    BY <1>1, <2>1, <2>4 DEF EnvSoFar
<1>9. CASE Metadata!FindField \/ Metadata!ReadField \/ Metadata!ReadLifecycle
  <2>1. readback.at \in PastValues /\ readback'.env = readback.env
    BY <1>2, <1>9 DEF Metadata!FindField, Metadata!ReadField, Metadata!ReadsField,
       Metadata!ReadLifecycle, IsSeen
  <2>2. readback'.at # "values"
    BY <1>2, <1>4, <1>9, PlacesFollow DEF Metadata!FindField, Metadata!ReadField,
       Metadata!ReadsField, Metadata!ReadLifecycle, IsSeen
  <2> QED
    BY <1>1, <1>3, <2>1, <2>2 DEF EnvSoFar
<1> QED
  BY <1>5, <1>6, <1>7, <1>8, <1>9 DEF Metadata!Read

LEMMA ReadKeepsFields ==
  ASSUME ReadOfOneVersion, Metadata!Read, stage = "canonical", canon.version = readback'.version
  PROVE  FieldsSoFar'
<1>1. UNCHANGED <<canon, stage>> /\ (readback.at # "version" => canon.version = readback.version)
  BY ReadsOnly
<1>2. IsSeen /\ IsTemplate(readback.fields)
  BY DEF ReadOfOneVersion, IsSeen
<1>3. readback.at # "version" => FieldsSoFar
  BY <1>1 DEF ReadOfOneVersion
<1>4. Metadata!Source = canon.t /\ ~Metadata!OfGreen
  BY DEF Metadata!Source, Metadata!OfGreen
<1> USE DEF Metadata!Reads, PastPod, Past, Metadata!Container
<1>5. CASE \/ Metadata!ReadVersion \/ Metadata!ReadImage \/ Metadata!CheckPlain
           \/ Metadata!ReadShape \/ Metadata!ReadValue \/ Metadata!ValuesRead
  <2>1. /\ readback.at \in {"version", "image", "names", "unsafe", "shape", "values"}
        /\ readback'.at \in {"image", "names", "unsafe", "shape", "values", "ports"}
        /\ readback'.present = readback.present
    BY <1>2, <1>4, <1>5, PlacesFollow
       DEF Metadata!ReadVersion, Metadata!ReadImage, Metadata!CheckPlain, Metadata!ReadShape,
           Metadata!ReadValue, Metadata!ValuesRead, IsSeen
  <2> QED
    BY <1>2, <2>1 DEF FieldsSoFar, IsSeen
<1>6. CASE Metadata!FindField \/ Metadata!ReadField
  <2> DEFINE place == readback.at
             value == Metadata!Field(canon.t)
  <2>1. place \in {"ports", "readinessProbe", "startupProbe", "pod"}
    BY <1>6 DEF Metadata!FindField, Metadata!ReadField, Metadata!ReadsField
  <2>2. FieldsSoFar
    BY <1>3, <2>1
  <2>3. CASE readback' = [readback EXCEPT !.present = TRUE] /\ value # "absent"
    <3>1. readback'.at = place /\ readback'.fields = readback.fields
      BY <1>2, <2>3 DEF IsSeen
    <3>2. Metadata!Field(canon.t)' = value
      BY <1>1, <3>1 DEF Metadata!Field
    <3> QED
      BY <1>1, <2>2, <2>3, <3>1, <3>2 DEF FieldsSoFar
  <2>4. CASE /\ readback'.at = Metadata!Then(place) /\ readback'.present # TRUE
             /\ readback'.fields = Metadata!Kept(value)
    <3>1. place = "pod" => /\ readback'.at = "lifecycle" /\ readback'.fields.pod = canon.t.pod
                           /\ readback'.fields.container = readback.fields.container
      BY <1>2, <1>4, <2>4, PlacesFollow DEF Metadata!Kept, Metadata!Field, IsTemplate
    <3>2. place # "pod" => /\ readback'.at \in {"readinessProbe", "startupProbe", "pod"}
                           /\ readback'.fields.container
                                = [readback.fields.container EXCEPT ![place] = canon.t.container[place]]
      BY <1>2, <2>1, <2>4, PlacesFollow DEF Metadata!Kept, Metadata!Field, IsTemplate
    <3>3. /\ place = "ports" => readback'.at = "readinessProbe"
          /\ place = "readinessProbe" => readback'.at = "startupProbe"
          /\ place = "startupProbe" => readback'.at = "pod"
      BY <2>4, PlacesFollow
    <3>4. \A f \in Metadata!Container :
            readback'.at \in Past[f] => readback'.fields.container[f] = canon.t.container[f]
      <4>1. CASE place = "pod"
        BY <2>2, <3>1, <4>1 DEF FieldsSoFar
      <4>2. CASE place # "pod"
        BY <1>2, <2>1, <2>2, <3>2, <3>3, <4>2 DEF FieldsSoFar, IsTemplate
      <4> QED
        BY <4>1, <4>2
    <3>5. readback'.at \in PastPod => readback'.fields.pod = canon.t.pod
      BY <3>1, <3>2
    <3> QED
      BY <1>1, <2>4, <3>4, <3>5 DEF FieldsSoFar
  <2>5. CASE Metadata!FindField
    BY <1>2, <1>4, <2>3, <2>4, <2>5 DEF Metadata!FindField, IsSeen
  <2>6. CASE Metadata!ReadField
    <3>1. value # "absent"
      BY <2>2, <2>6 DEF Metadata!ReadField, FieldsSoFar
    <3> QED
      BY <1>2, <1>4, <2>4, <2>6, <3>1 DEF Metadata!ReadField, IsSeen
  <2> QED
    BY <1>6, <2>5, <2>6
<1>7. CASE Metadata!ReadLifecycle
  <2>1. /\ readback.at = "lifecycle" /\ readback'.at = "done"
        /\ readback'.present = readback.present
        /\ readback'.fields.container = readback.fields.container
        /\ readback'.fields.pod = readback.fields.pod
    BY <1>2, <1>7 DEF Metadata!ReadLifecycle, IsSeen, IsTemplate
  <2> QED
    BY <1>1, <1>2, <1>3, <2>1 DEF FieldsSoFar, IsSeen
<1> QED
  BY <1>5, <1>6, <1>7 DEF Metadata!Read

LEMMA ReadKeeps == ASSUME ReadOfOneVersion, Metadata!Read PROVE ReadOfOneVersion' /\ PatchIsOfBaseline
<1>1. /\ UNCHANGED <<canon, contract, plan, stage>> /\ IsSeen'
      /\ readback'.baseline = readback.baseline /\ readback'.at # "version"
      /\ \/ readback'.version = readback.version /\ readback.at # "version"
         \/ readback'.version = canon.version /\ readback.at = "version"
  BY ReadsOnly
<1>2. stage \notin CanonVerified \/ readback'.version = readback.version
  BY <1>1 DEF ReadOfOneVersion
<1>3. VersionRead' => readback'.version <= canon'.version
  BY <1>1 DEF ReadOfOneVersion, VersionRead
<1>4. stage = "canonical" /\ canon.version = readback'.version => EnvSoFar' /\ FieldsSoFar'
  BY ReadKeepsEnv, ReadKeepsFields
<1>5. stage \in CanonVerified /\ canon.version = readback'.version => IsBaseline(canon.t)'
  BY <1>1, <1>2, MetadataReads DEF ReadOfOneVersion
<1>6. /\ UNCHANGED Metadata!PlanGreenMetadata(readback.baseline) /\ IsTemplate(canon.t)'
  BY <1>1, MetadataReads
<1>7. readback'.version \in Nat /\ canon'.t.env \in Seq(Metadata!Entries) /\ canon'.version \in Nat
  BY <1>1 DEF ReadOfOneVersion
<1>8. plan' = Metadata!PlanGreenMetadata(readback.baseline)' \/ stage' \notin Planned
  BY <1>1, <1>6 DEF ReadOfOneVersion
<1>9. PatchIsOfBaseline
  BY <1>1 DEF PatchIsOfBaseline
<1> QED
  BY <1>1, <1>3, <1>4, <1>5, <1>6, <1>7, <1>8, <1>9 DEF ReadOfOneVersion

(* A change of stage, a comparison, a refusal.                              *)
LEMMA NothingKeeps ==
  ASSUME ReadOfOneVersion, UNCHANGED <<canon, contract, readback, plan>>,
         stage' = stage \/ stage' = "refused"
  PROVE  ReadOfOneVersion' /\ PatchIsOfBaseline
<1>1. /\ UNCHANGED Metadata!PlanGreenMetadata(readback.baseline) /\ IsTemplate(canon.t)'
      /\ IsBaseline(canon.t)' <=> IsBaseline(canon.t)
  BY MetadataReads
<1>2. UNCHANGED <<EnvSoFar, FieldsSoFar, IsSeen>>
  BY DEF EnvSoFar, FieldsSoFar, IsSeen, IsTemplate, Metadata!ShapeOf, Metadata!Field,
         Metadata!EnvironmentReadable
<1> QED
  BY <1>1, <1>2 DEF ReadOfOneVersion, PatchIsOfBaseline, Planned, CanonVerified, VersionRead

LEMMA TurnKeeps ==
  ASSUME ReadOfOneVersion, NEW from \in Planned, NEW to \in Planned \ {"patched"}, NEW place,
         Metadata!Turns(from, to, place), UNCHANGED <<canon, contract, plan>>,
         place \notin Metadata!Container \cup {"pod"},
         to = "canonical" => place = "version",
         to \in CanonVerified =>
           /\ place # "version"
           /\ \/ from \in CanonVerified
              \/ from = "canonical" /\ (canon.version = readback.version => IsBaseline(canon.t))
  PROVE  ReadOfOneVersion' /\ PatchIsOfBaseline
<1>1. /\ UNCHANGED Metadata!PlanGreenMetadata(readback.baseline)
      /\ IsBaseline(canon.t)' <=> IsBaseline(canon.t)
      /\ IsTemplate(canon.t)'
  <2>1. readback'.baseline = readback.baseline
    BY DEF Metadata!Turns, ReadOfOneVersion, IsSeen
  <2> QED
    BY <2>1, MetadataReads
<1>2. /\ stage = from /\ stage' = to /\ readback.at = "done"
      /\ readback' = [readback EXCEPT !.at = place]
  BY DEF Metadata!Turns
<1>3. IsSeen /\ IsSeen' /\ readback'.version = readback.version /\ readback'.at = place
  BY <1>2 DEF ReadOfOneVersion, IsSeen, IsTemplate, Metadata!Container
<1>4. PatchIsOfBaseline
  BY <1>2 DEF PatchIsOfBaseline
<1>5. VersionRead' => VersionRead
  BY <1>2, <1>3 DEF VersionRead, CanonVerified
<1>6. stage' \in CanonVerified /\ canon'.version = readback'.version => IsBaseline(canon.t)'
  BY <1>1, <1>2, <1>3 DEF ReadOfOneVersion
<1> QED
  BY <1>1, <1>2, <1>3, <1>4, <1>5, <1>6 DEF ReadOfOneVersion

\* What has been read of one version is what the Deployment is at it.
LEMMA ReadIsBaseline ==
  ASSUME ReadOfOneVersion, stage = "canonical", readback.at = "done",
         canon.version = readback.version,
         Metadata!SameMetadata(readback.baseline, readback.env, readback.fields)
  PROVE  IsBaseline(canon.t)
<1>1. EnvSoFar /\ FieldsSoFar /\ IsTemplate(canon.t) /\ IsTemplate(readback.fields)
  BY DEF ReadOfOneVersion, IsSeen
<1>2. readback.env = canon.t.env
  BY <1>1 DEF EnvSoFar, PastValues, PastPod
<1>3. readback.fields.pod = canon.t.pod
  BY <1>1 DEF FieldsSoFar, PastPod
<1>4. \A f \in Metadata!Container : readback.fields.container[f] = canon.t.container[f]
  BY <1>1 DEF FieldsSoFar, Past, PastPod, Metadata!Container
<1>5. readback.fields.container = canon.t.container
  BY <1>1, <1>4 DEF IsTemplate
<1> QED
  BY <1>2, <1>3, <1>5 DEF IsBaseline, Metadata!SameMetadata

\* Whatever others make of the canonical Deployment, it has an environment.
LEMMA EditedEnvironment ==
  ASSUME NEW t, IsTemplate(t), t.env \in Seq(Metadata!Entries), NEW u \in Metadata!Edited(t)
  PROVE  u.env \in Seq(Metadata!Entries) /\ IsTemplate(u)
<1>1. Metadata!Reference("ENVIRONMENT") \in Metadata!Entries
  BY DEF Metadata!Entries, Metadata!Reference
<1>2. u.env \in {Append(t.env, Metadata!Reference("ENVIRONMENT")),
                 SubSeq(t.env, 1, Len(t.env) - 1), t.env}
  BY DEF IsTemplate, Metadata!Edited
<1>3. Append(t.env, Metadata!Reference("ENVIRONMENT")) \in Seq(Metadata!Entries)
  BY <1>1
<1>4. SubSeq(t.env, 1, Len(t.env) - 1) \in Seq(Metadata!Entries)
  <2>1. \A i \in 1..(Len(t.env) - 1) : t.env[i] \in Metadata!Entries
    OBVIOUS
  <2> QED
    BY <2>1, SubSeqProperties
<1>5. IsTemplate(u)
  BY DEF IsTemplate, Metadata!Edited, Metadata!Container
<1> QED
  BY <1>2, <1>3, <1>4, <1>5

LEMMA MetadataStep ==
  ASSUME ReadOfOneVersion, [Metadata!MetadataNext]_(Metadata!metadataVars)
  PROVE  ReadOfOneVersion' /\ PatchIsOfBaseline
<1>1. CASE UNCHANGED Metadata!metadataVars \/ Metadata!Refused
  BY <1>1, NothingKeeps DEF Metadata!metadataVars, Metadata!Refused
<1>2. CASE Metadata!Read
  BY <1>2, ReadKeeps
<1>3. CASE Metadata!Snapshot
  <2> DEFINE m == [env |-> readback.env, fields |-> readback.fields]
  <2>1. /\ stage = "snapshot" /\ stage' = "create" /\ UNCHANGED <<canon, contract>>
        /\ readback' = [readback EXCEPT !.baseline = m] /\ plan' = Metadata!PlanGreenMetadata(m)
    BY <1>3 DEF Metadata!Snapshot
  <2>2. readback'.baseline = m /\ readback'.version = readback.version /\ IsSeen'
    BY <2>1 DEF ReadOfOneVersion, IsSeen, IsTemplate
  <2> HIDE DEF m
  <2>3. plan' = Metadata!PlanGreenMetadata(readback.baseline)'
    BY <2>1, <2>2
       DEF Metadata!PlanGreenMetadata, Metadata!PlannedContainer, Metadata!StartupProbe
  <2>4. /\ IsTemplate(canon.t)' /\ canon'.t.env \in Seq(Metadata!Entries)
        /\ canon'.version \in Nat /\ readback'.version \in Nat
    BY <2>1, <2>2 DEF ReadOfOneVersion, IsTemplate
  <2>5. ~VersionRead' /\ stage' \notin CanonVerified /\ stage' # "canonical" /\ PatchIsOfBaseline
    BY <2>1 DEF VersionRead, CanonVerified, PatchIsOfBaseline
  <2> QED
    BY <2>2, <2>3, <2>4, <2>5 DEF ReadOfOneVersion
<1>4. CASE Metadata!CreateGreen \/ Metadata!VerifyGreen \/ Metadata!Patched
  <2>1. UNCHANGED <<canon, contract, plan>>
    BY <1>4 DEF Metadata!CreateGreen, Metadata!VerifyGreen, Metadata!Patched
  <2>2. PICK s \in {<<"create", "created", "names">>, <<"created", "canonical", "version">>,
                    <<"green", "patch", "done">>, <<"patched", "done", "done">>} :
          Metadata!Turns(s[1], s[2], s[3])
    BY <1>4 DEF Metadata!CreateGreen, Metadata!VerifyGreen, Metadata!Patched
  <2> QED
    BY <2>1, <2>2, TurnKeeps DEF Planned, CanonVerified, Metadata!Container
<1>5. CASE Metadata!VerifyCanonical
  <2>1. /\ Metadata!Turns("canonical", "green", "names") /\ UNCHANGED <<canon, contract, plan>>
        /\ Metadata!SameMetadata(readback.baseline, readback.env, readback.fields)
    BY <1>5 DEF Metadata!VerifyCanonical
  <2>2. canon.version = readback.version => IsBaseline(canon.t)
    BY <2>1, ReadIsBaseline DEF Metadata!Turns
  <2> QED
    BY <2>1, <2>2, TurnKeeps DEF Planned, CanonVerified, Metadata!Container
<1>6. CASE Metadata!Patch
  <2>1. /\ stage = "patch" /\ stage' = "patched" /\ UNCHANGED <<contract, plan>>
        /\ readback' = [readback EXCEPT !.at = "version"] /\ canon.version = readback.version
        /\ readback.at = "done"
        /\ canon' = [version |-> canon.version + 1,
                     t |-> [canon.t EXCEPT !.image = "new", !.lifecycle = "preStop"]]
    BY <1>6 DEF Metadata!Patch, Metadata!Turns
  <2>2. IsSeen' /\ readback'.baseline = readback.baseline /\ readback'.version = readback.version
    BY <2>1 DEF ReadOfOneVersion, IsSeen, IsTemplate, Metadata!Container
  <2>3. /\ plan = Metadata!PlanGreenMetadata(readback.baseline)
        /\ IsTemplate(canon.t) /\ IsBaseline(canon.t)
    BY <2>1 DEF ReadOfOneVersion, Planned, CanonVerified
  <2>4. plan' = Metadata!PlanGreenMetadata(readback.baseline)'
    BY <2>1, <2>2, <2>3
       DEF Metadata!PlanGreenMetadata, Metadata!PlannedContainer, Metadata!StartupProbe
  <2>5. /\ IsTemplate(canon.t)' /\ canon'.version = canon.version + 1
        /\ canon'.t.env = canon.t.env /\ canon'.t.container = canon.t.container
        /\ canon'.t.pod = canon.t.pod
    BY <2>1, <2>3 DEF IsTemplate
  <2>6. IsBaseline(canon.t)'
    BY <2>2, <2>3, <2>5 DEF IsBaseline, Metadata!SameMetadata
  <2>7. ~VersionRead' /\ stage' \notin CanonVerified /\ stage' # "canonical"
    BY <2>1 DEF VersionRead, CanonVerified
  <2>8. /\ canon'.t.env \in Seq(Metadata!Entries) /\ canon'.version \in Nat
        /\ readback'.version \in Nat
    BY <2>2, <2>5 DEF ReadOfOneVersion
  <2>9. PatchIsOfBaseline
    BY <2>3, <2>6 DEF PatchIsOfBaseline
  <2> QED
    BY <2>2, <2>4, <2>5, <2>7, <2>8, <2>9 DEF ReadOfOneVersion
<1>7. CASE Metadata!Edit
  <2>1. UNCHANGED <<contract, readback, plan, stage>>
    BY <1>7 DEF Metadata!Edit
  <2>2. CASE canon' = canon
    BY <2>1, <2>2, NothingKeeps
  <2>3. ASSUME NEW t \in Metadata!Edited(canon.t),
               canon' = [version |-> canon.version + 1, t |-> t]
        PROVE  ReadOfOneVersion' /\ PatchIsOfBaseline
    <3>1. IsTemplate(t) /\ t.env \in Seq(Metadata!Entries)
      BY EditedEnvironment DEF ReadOfOneVersion
    <3>2. UNCHANGED Metadata!PlanGreenMetadata(readback.baseline)
      BY <2>1 DEF Metadata!PlanGreenMetadata, Metadata!PlannedContainer, Metadata!StartupProbe
    <3>3. IsTemplate(canon.t)' /\ canon'.t.env \in Seq(Metadata!Entries) /\ IsSeen'
      BY <2>1, <2>3, <3>1 DEF ReadOfOneVersion, IsSeen, IsTemplate
    <3>4. /\ canon'.version = canon.version + 1 /\ canon.version \in Nat
          /\ readback'.version = readback.version /\ readback.version \in Nat
          /\ VersionRead' <=> VersionRead
          /\ VersionRead => readback.version <= canon.version
      BY <2>1, <2>3 DEF ReadOfOneVersion, VersionRead
    <3>5. VersionRead' => readback'.version <= canon'.version /\ canon'.version # readback'.version
      BY <3>4
    <3>6. /\ stage' = "canonical" /\ readback'.at # "version" => VersionRead'
          /\ stage' \in CanonVerified => VersionRead' /\ readback'.at # "version"
      BY <2>1 DEF ReadOfOneVersion, VersionRead
    <3>7. stage' \in Planned => plan' = Metadata!PlanGreenMetadata(readback.baseline)'
      BY <2>1, <3>2 DEF ReadOfOneVersion
    <3>8. PatchIsOfBaseline
      BY <2>1 DEF PatchIsOfBaseline
    <3> QED
      BY <3>3, <3>4, <3>5, <3>6, <3>7, <3>8 DEF ReadOfOneVersion
  <2> QED
    BY <1>7, <2>2, <2>3 DEF Metadata!Edit
<1> QED
  BY <1>1, <1>2, <1>3, <1>4, <1>5, <1>6, <1>7 DEF Metadata!MetadataNext

\* The loop over the environment, as far as its first entries.
CarriesTo(env, n, r) ==
  r = [i \in 0..n |->
         IF i = 0 THEN <<>>
         ELSE IF Metadata!IsCarried(env[i]) THEN Append(r[i - 1], env[i]) ELSE r[i - 1]]

LEMMA LoopGoesOn ==
  ASSUME NEW env, NEW n \in Nat, NEW r, CarriesTo(env, n, r)
  PROVE  \E s : CarriesTo(env, n + 1, s)
<1> DEFINE next == IF Metadata!IsCarried(env[n + 1]) THEN Append(r[n], env[n + 1]) ELSE r[n]
           s == [i \in 0..(n + 1) |-> IF i = n + 1 THEN next ELSE r[i]]
<1>1. \A i \in 0..n : r[i] = IF i = 0 THEN <<>>
                             ELSE IF Metadata!IsCarried(env[i]) THEN Append(r[i - 1], env[i])
                                  ELSE r[i - 1]
  BY DEF CarriesTo
<1>2. /\ \A i \in 0..n : s[i] = r[i] /\ i # n + 1
      /\ s[n + 1] = next /\ n + 1 # 0 /\ (n + 1) - 1 = n /\ n \in 0..n
      /\ \A i \in 0..(n + 1) : i = n + 1 \/ i \in 0..n
      /\ \A i \in 0..n : i # 0 => i - 1 \in 0..n
  OBVIOUS
<1> HIDE DEF next
<1>3. \A i \in 0..(n + 1) :
        (IF i = n + 1 THEN next ELSE r[i])
          = (IF i = 0 THEN <<>>
             ELSE IF Metadata!IsCarried(env[i]) THEN Append(s[i - 1], env[i]) ELSE s[i - 1])
  <2> HIDE DEF s
  <2> TAKE i \in 0..(n + 1)
  <2>1. CASE i = n + 1
    BY <1>2, <2>1 DEF next
  <2>2. CASE i \in 0..n
    BY <1>1, <1>2, <2>2
  <2> QED
    BY <1>2, <2>1, <2>2
<1>4. s = [i \in 0..(n + 1) |->
         IF i = 0 THEN <<>>
         ELSE IF Metadata!IsCarried(env[i]) THEN Append(s[i - 1], env[i]) ELSE s[i - 1]]
  BY <1>3
<1> QED
  BY <1>4 DEF CarriesTo

LEMMA LoopEnds ==
  ASSUME NEW env, NEW n \in Nat
  PROVE  \E r : CarriesTo(env, n, r)
<1> DEFINE S == {m \in Nat : \E r : CarriesTo(env, m, r)}
<1>1. 0 \in S
  <2>1. CarriesTo(env, 0, [i \in 0..0 |-> <<>>])
    BY DEF CarriesTo
  <2> QED
    BY <2>1
<1>2. \A m \in S : m + 1 \in S
  BY LoopGoesOn
<1>3. S = Nat
  <2> HIDE DEF S
  <2>1. S \in SUBSET Nat
    BY DEF S
  <2> QED
    BY <1>1, <1>2, <2>1, SetInduction
<1> QED
  BY <1>3

LEMMA CarriedIsLoop ==
  ASSUME NEW E, NEW env \in Seq(E)
  PROVE  \E r : CarriesTo(env, Len(env), r) /\ Metadata!Carried(env) = r[Len(env)]
<1> DEFINE r == CHOOSE s : CarriesTo(env, Len(env), s)
<1>1. CarriesTo(env, Len(env), r)
  BY LoopEnds
<1>2. Metadata!Carried(env) = r[Len(env)]
  BY DEF Metadata!Carried, CarriesTo
<1> QED
  BY <1>1, <1>2

\* What the loop has carried over from the first n entries.
Holds(env, E, n, s) ==
  /\ s \in Seq(E)
  /\ \A i \in 1..Len(s) : \E j \in 1..n : s[i] = env[j] /\ Metadata!IsCarried(env[j])
  /\ \A j \in 1..n : Metadata!IsCarried(env[j]) => \E i \in 1..Len(s) : s[i] = env[j]
Distinct(s) == \A i, j \in 1..Len(s) : i # j => s[i].name # s[j].name

LEMMA CarriedOver ==
  ASSUME NEW E, NEW env \in Seq(E), Distinct(env)
  PROVE  Holds(env, E, Len(env), Metadata!Carried(env)) /\ Distinct(Metadata!Carried(env))
<1>1. PICK r : CarriesTo(env, Len(env), r) /\ Metadata!Carried(env) = r[Len(env)]
  BY CarriedIsLoop
<1>2. Len(env) \in Nat /\ \A i \in 1..Len(env) : env[i] \in E
  OBVIOUS
<1> DEFINE S == {n \in Nat : n <= Len(env) => Holds(env, E, n, r[n]) /\ Distinct(r[n])}
<1>3. \A i \in 0..Len(env) :
         r[i] = IF i = 0 THEN <<>>
                ELSE IF Metadata!IsCarried(env[i]) THEN Append(r[i - 1], env[i]) ELSE r[i - 1]
  BY <1>1 DEF CarriesTo
<1>4. 0 \in S
  <2>1. r[0] = <<>>
    BY <1>2, <1>3
  <2>2. Holds(env, E, 0, <<>>) /\ Distinct(<<>>)
    BY DEF Holds, Distinct
  <2> QED
    BY <2>1, <2>2
<1>5. \A n \in S : n + 1 \in S
  <2> SUFFICES ASSUME NEW n \in S, n + 1 <= Len(env)
               PROVE  Holds(env, E, n + 1, r[n + 1]) /\ Distinct(r[n + 1])
    OBVIOUS
  <2>0. n \in Nat /\ Holds(env, E, n, r[n]) /\ Distinct(r[n])
    BY <1>2
  <2> DEFINE s == r[n]
             e == env[n + 1]
  <2>1. r[n + 1] = IF Metadata!IsCarried(e) THEN Append(s, e) ELSE s
    BY <1>2, <1>3, <2>0
  <2>2. e \in E /\ s \in Seq(E) /\ Len(s) \in Nat /\ n + 1 \in 1..Len(env)
    BY <1>2, <2>0 DEF Holds
  <2>3. CASE ~Metadata!IsCarried(e)
    BY <2>0, <2>1, <2>2, <2>3 DEF Holds
  <2>4. CASE Metadata!IsCarried(e)
    <3> DEFINE t == Append(s, e)
    <3>1. /\ t \in Seq(E) /\ Len(t) = Len(s) + 1 /\ t[Len(t)] = e
          /\ \A i \in 1..Len(s) : t[i] = s[i]
      BY <2>0, <2>2
    <3>2. \A i \in 1..Len(t) : i = Len(t) \/ i \in 1..Len(s)
      BY <2>0, <2>2, <3>1
    <3> HIDE DEF t
    <3>3. Holds(env, E, n + 1, t)
      <4>1. \A i \in 1..Len(t) : \E j \in 1..(n + 1) : t[i] = env[j] /\ Metadata!IsCarried(env[j])
        BY <2>0, <2>2, <2>4, <3>1, <3>2 DEF Holds
      <4>2. ASSUME NEW j \in 1..(n + 1), Metadata!IsCarried(env[j])
            PROVE  \E i \in 1..Len(t) : t[i] = env[j]
        <5>1. CASE j = n + 1
          BY <2>0, <2>2, <3>1, <5>1
        <5>2. CASE j \in 1..n
          <6>1. PICK i \in 1..Len(s) : s[i] = env[j]
            BY <2>0, <4>2, <5>2 DEF Holds
          <6> QED
            BY <2>0, <2>2, <3>1, <6>1
        <5> QED
          BY <2>0, <5>1, <5>2
      <4> QED
        BY <2>0, <3>1, <4>1, <4>2 DEF Holds
    <3>4. ASSUME NEW i \in 1..Len(s) PROVE s[i].name # e.name
      <4>1. PICK j \in 1..n : s[i] = env[j]
        BY <2>0 DEF Holds
      <4> QED
        BY <2>0, <1>2, <2>2, <4>1 DEF Distinct
    <3>5. Distinct(t)
      BY <2>0, <2>2, <3>1, <3>2, <3>4 DEF Distinct
    <3> QED
      BY <2>0, <2>1, <2>4, <3>3, <3>5 DEF t
  <2> QED
    BY <2>0, <2>3, <2>4
<1>6. S = Nat
  <2> HIDE DEF S
  <2>1. S \in SUBSET Nat
    BY DEF S
  <2> QED
    BY <1>4, <1>5, <2>1, SetInduction
<1> QED
  BY <1>1, <1>2, <1>6

LEMMA ReadableIsDistinct ==
  ASSUME NEW E, NEW env \in Seq(E), Metadata!EnvironmentReadable(env)
  PROVE  Distinct(env)
BY DEF Metadata!EnvironmentReadable, Metadata!IsInjective, Distinct

LEMMA FlagsAre ==
  ASSUME NEW readOnly
  PROVE  Metadata!Standby(readOnly) =
           IF readOnly THEN <<Metadata!Literal("STANDBY", "true"), Metadata!Literal("READ_ONLY", "true")>>
           ELSE <<Metadata!Literal("STANDBY", "true")>>
<1>1. ASSUME NEW a, NEW b PROVE <<a>> \o <<b>> = <<a, b>> /\ <<a>> \o <<>> = <<a>>
  <2>1. <<a>> \in Seq({a, b}) /\ <<b>> \in Seq({a, b}) /\ <<a, b>> \in Seq({a, b})
    OBVIOUS
  <2>2. /\ Len(<<a>> \o <<b>>) = 2 /\ (<<a>> \o <<b>>)[1] = a /\ (<<a>> \o <<b>>)[2] = b
        /\ <<a>> \o <<b>> \in Seq({a, b})
    BY <2>1, ConcatProperties
  <2>3. \A i \in 1..2 : (<<a>> \o <<b>>)[i] = <<a, b>>[i]
    BY <2>2
  <2>4. <<a>> \o <<b>> = <<a, b>>
    BY <2>1, <2>2, <2>3, SeqEqual
  <2> QED
    BY <2>1, <2>4, ConcatEmptySeq
<1> QED
  BY <1>1 DEF Metadata!Standby

\* What comes of a sequence and another after it.
LEMMA Joined ==
  ASSUME NEW F, NEW s \in Seq(F), NEW t \in Seq(F)
  PROVE  /\ s \o t \in Seq(F) /\ DOMAIN (s \o t) = 1..Len(s \o t)
         /\ \A i \in 1..Len(s \o t) :
              \/ i \in 1..Len(s) /\ (s \o t)[i] = s[i]
              \/ i - Len(s) \in 1..Len(t) /\ i > Len(s) /\ (s \o t)[i] = t[i - Len(s)]
         /\ \A i \in 1..Len(s) : i \in 1..Len(s \o t) /\ (s \o t)[i] = s[i]
         /\ \A i \in 1..Len(t) : Len(s) + i \in 1..Len(s \o t) /\ (s \o t)[Len(s) + i] = t[i]
<1>1. /\ s \o t \in Seq(F) /\ Len(s \o t) = Len(s) + Len(t)
      /\ \A i \in 1..(Len(s) + Len(t)) : (s \o t)[i] = IF i <= Len(s) THEN s[i] ELSE t[i - Len(s)]
  BY ConcatProperties
<1>2. Len(s) \in Nat /\ Len(t) \in Nat
  OBVIOUS
<1> DEFINE u == s \o t
<1> HIDE DEF u
<1>3. /\ u \in Seq(F) /\ Len(u) = Len(s) + Len(t)
      /\ \A i \in 1..(Len(s) + Len(t)) : u[i] = IF i <= Len(s) THEN s[i] ELSE t[i - Len(s)]
  BY <1>1 DEF u
<1>4. \A i \in 1..Len(t) : Len(s) + i \in 1..Len(u) /\ ~(Len(s) + i <= Len(s)) /\ (Len(s) + i) - Len(s) = i
  BY <1>2, <1>3
<1>5. \A i \in 1..Len(t) : u[Len(s) + i] = t[i]
  BY <1>3, <1>4
<1>6. \A i \in 1..Len(u) :
        \/ i \in 1..Len(s) /\ u[i] = s[i]
        \/ i - Len(s) \in 1..Len(t) /\ i > Len(s) /\ u[i] = t[i - Len(s)]
  BY <1>2, <1>3
<1>7. \A i \in 1..Len(s) : i \in 1..Len(u) /\ u[i] = s[i]
  BY <1>2, <1>3
<1>8. DOMAIN u = 1..Len(u)
  BY <1>3
<1> QED
  BY <1>3, <1>4, <1>5, <1>6, <1>7, <1>8 DEF u

\* The environment of a plan: what is carried over, and after it the flags.
LEMMA EnvironmentIs ==
  ASSUME NEW E, NEW env \in Seq(E), Metadata!EnvironmentReadable(env),
         Metadata!EnvironmentAccepted(env), NEW readOnly
  PROVE  LET planned == Metadata!Environment(env, readOnly) IN
           /\ DOMAIN planned = 1..Len(planned) /\ Distinct(planned)
           /\ \A e : e \in Metadata!ToSet(planned) <=>
                \/ e \in Metadata!ToSet(env) /\ Metadata!IsCarried(e)
                \/ e = Metadata!Literal("STANDBY", "true")
                \/ (readOnly /\ e = Metadata!Literal("READ_ONLY", "true"))
<1> DEFINE carried == Metadata!Carried(env)
           standby == Metadata!Literal("STANDBY", "true")
           quiet == Metadata!Literal("READ_ONLY", "true")
           flags == Metadata!Standby(readOnly)
           F == E \cup {standby, quiet}
           planned == carried \o flags
<1>1. Holds(env, E, Len(env), carried) /\ Distinct(carried)
  BY CarriedOver, ReadableIsDistinct
<1>2. standby.name = "STANDBY" /\ quiet.name = "READ_ONLY"
  BY DEF Metadata!Literal
<1>3. \A i \in 1..Len(carried) : carried[i].name \notin {"STANDBY", "READ_ONLY"}
  BY <1>1 DEF Holds, Metadata!EnvironmentAccepted, Metadata!IsCarried
<1>4. flags = IF readOnly THEN <<standby, quiet>> ELSE <<standby>>
  BY FlagsAre
<1> HIDE DEF carried, standby, quiet, flags
<1>5. flags \in Seq(F) /\ carried \in Seq(F)
  <2>1. standby \in F /\ quiet \in F
    OBVIOUS
  <2>3. carried \in Seq(E) /\ E \subseteq F
    BY <1>1 DEF Holds
  <2> HIDE DEF F
  <2>2. <<standby, quiet>> \in Seq(F) /\ <<standby>> \in Seq(F)
    BY <2>1
  <2>4. carried \in Seq(F)
    BY <2>3
  <2> QED
    BY <1>4, <2>2, <2>4
<1>6. \A i \in 1..Len(flags) : flags[i] = standby \/ (readOnly /\ flags[i] = quiet)
  BY <1>4
<1>7. \A i, j \in 1..Len(flags) : i # j => flags[i].name # flags[j].name
  BY <1>2, <1>4
<1>8. /\ \E i \in 1..Len(flags) : flags[i] = standby
      /\ readOnly => \E i \in 1..Len(flags) : flags[i] = quiet
  <2>1. 1 \in 1..Len(flags) /\ flags[1] = standby
    BY <1>4
  <2>2. readOnly => 2 \in 1..Len(flags) /\ flags[2] = quiet
    BY <1>4
  <2> QED
    BY <2>1, <2>2
<1>9. /\ DOMAIN planned = 1..Len(planned)
      /\ \A i \in 1..Len(planned) :
            \/ i \in 1..Len(carried) /\ planned[i] = carried[i]
            \/ i - Len(carried) \in 1..Len(flags) /\ i > Len(carried) /\ planned[i] = flags[i - Len(carried)]
      /\ \A i \in 1..Len(carried) : i \in 1..Len(planned) /\ planned[i] = carried[i]
      /\ \A i \in 1..Len(flags) : Len(carried) + i \in 1..Len(planned) /\ planned[Len(carried) + i] = flags[i]
  BY <1>5, Joined
<1> HIDE DEF planned
<1>10. Distinct(planned)
  <2> SUFFICES ASSUME NEW i \in 1..Len(planned), NEW j \in 1..Len(planned), i # j
               PROVE  planned[i].name # planned[j].name
    BY DEF Distinct
  <2> DEFINE InKept(k) == k \in 1..Len(carried) /\ planned[k] = carried[k]
             InFlags(k) == /\ k - Len(carried) \in 1..Len(flags) /\ k > Len(carried)
                           /\ planned[k] = flags[k - Len(carried)]
  <2>1. (InKept(i) \/ InFlags(i)) /\ (InKept(j) \/ InFlags(j))
    BY <1>9
  <2>2. CASE InKept(i) /\ InKept(j)
    BY <1>1, <2>2 DEF Distinct
  <2>3. CASE InFlags(i) /\ InFlags(j)
    <3>1. Len(carried) \in Nat /\ i - Len(carried) # j - Len(carried)
      BY <1>5
    <3> QED
      BY <1>7, <2>3, <3>1
  <2>4. CASE InKept(i) /\ InFlags(j)
    BY <1>2, <1>3, <1>6, <2>4
  <2>5. CASE InFlags(i) /\ InKept(j)
    BY <1>2, <1>3, <1>6, <2>5
  <2> QED
    BY <2>1, <2>2, <2>3, <2>4, <2>5
<1>11. ASSUME NEW e
       PROVE  e \in Metadata!ToSet(planned) <=>
                \/ \E i \in 1..Len(carried) : e = carried[i]
                \/ \E i \in 1..Len(flags) : e = flags[i]
  <2>1. e \in Metadata!ToSet(planned) <=> \E i \in 1..Len(planned) : e = planned[i]
    BY <1>9 DEF Metadata!ToSet
  <2>2. ASSUME NEW i \in 1..Len(planned), e = planned[i]
        PROVE  \/ \E k \in 1..Len(carried) : e = carried[k]
               \/ \E k \in 1..Len(flags) : e = flags[k]
    BY <1>9, <2>2
  <2>3. ASSUME NEW i \in 1..Len(carried), e = carried[i]
        PROVE  \E k \in 1..Len(planned) : e = planned[k]
    BY <1>9, <2>3
  <2>4. ASSUME NEW i \in 1..Len(flags), e = flags[i]
        PROVE  \E k \in 1..Len(planned) : e = planned[k]
    BY <1>9, <2>4
  <2> QED
    BY <2>1, <2>2, <2>3, <2>4
<1>12. ASSUME NEW e
       PROVE  (\E i \in 1..Len(carried) : e = carried[i]) <=> e \in Metadata!ToSet(env) /\ Metadata!IsCarried(e)
  <2>1. e \in Metadata!ToSet(env) <=> \E j \in 1..Len(env) : e = env[j]
    BY DEF Metadata!ToSet
  <2> QED
    BY <1>1, <2>1 DEF Holds
<1>13. ASSUME NEW e
       PROVE  (\E i \in 1..Len(flags) : e = flags[i]) <=> (e = standby \/ (readOnly /\ e = quiet))
  BY <1>6, <1>8
<1>14. planned = Metadata!Environment(env, readOnly)
  BY DEF planned, carried, flags, Metadata!Environment
<1>15. ASSUME NEW e
       PROVE  e \in Metadata!ToSet(planned) <=>
                \/ e \in Metadata!ToSet(env) /\ Metadata!IsCarried(e)
                \/ e = standby
                \/ (readOnly /\ e = quiet)
  <2>1. e \in Metadata!ToSet(planned) <=>
          \/ \E i \in 1..Len(carried) : e = carried[i]
          \/ \E i \in 1..Len(flags) : e = flags[i]
    BY <1>11
  <2> QED
    BY <2>1, <1>12, <1>13
<1>16. DOMAIN planned = 1..Len(planned)
  BY <1>9
<1> QED
  BY <1>10, <1>14, <1>15, <1>16 DEF standby, quiet

\* A plan that was accepted owes its Deployment nothing.
LEMMA PlanStands ==
  ASSUME NEW E, NEW m, NEW t, m.env \in Seq(E), t.env = m.env,
         t.container = m.fields.container, t.pod = m.fields.pod,
         Metadata!EnvironmentReadable(m.env), Metadata!PlanAccepted(m)
  PROVE  /\ Metadata!Stands(Metadata!PlanGreenMetadata(m), t)
         /\ Metadata!PlanGreenMetadata(m).image = "new"
<1> DEFINE p == Metadata!PlanGreenMetadata(m)
           planned == Metadata!Environment(m.env, contract.readOnly)
<1>1. /\ p.env = planned /\ p.container = Metadata!PlannedContainer(m.fields.container)
      /\ p.pod = Metadata!NotNull(m.fields.pod) /\ p.image = "new"
  BY DEF Metadata!PlanGreenMetadata
<1>2. Metadata!EnvironmentAccepted(m.env)
  BY DEF Metadata!PlanAccepted
<1>3. /\ DOMAIN planned = 1..Len(planned) /\ Distinct(planned)
      /\ \A e : e \in Metadata!ToSet(planned) <=>
           \/ e \in Metadata!ToSet(m.env) /\ Metadata!IsCarried(e)
           \/ e = Metadata!Literal("STANDBY", "true")
           \/ (contract.readOnly /\ e = Metadata!Literal("READ_ONLY", "true"))
  BY <1>2, EnvironmentIs
<1> DEFINE flag(n) == Metadata!Literal(n, "true")
<1>4. \A n : flag(n).name = n /\ flag(n).from = "literal"
  BY DEF Metadata!Literal
<1>5. \A e \in Metadata!ToSet(m.env) :
        e.from = "reference" => e.name \notin {"STANDBY", "READ_ONLY"}
  BY <1>2 DEF Metadata!EnvironmentAccepted, Metadata!ToSet
<1> HIDE DEF p, planned
<1>6. \A i, j \in DOMAIN p.env : i # j => p.env[i].name # p.env[j].name
  BY <1>1, <1>3 DEF Distinct
<1>7. Metadata!EntriesOf(p.env, "reference") = Metadata!EntriesOf(t.env, "reference")
  BY <1>1, <1>3, <1>4 DEF Metadata!EntriesOf, Metadata!IsCarried
<1>8. Metadata!Literal("STANDBY", "true") \in Metadata!ToSet(p.env)
  BY <1>1, <1>3
<1>9. contract.readOnly <=> \E e \in Metadata!ToSet(p.env) : e.name = "READ_ONLY"
  BY <1>1, <1>3, <1>4, <1>5 DEF Metadata!IsCarried
<1>10. \A e \in Metadata!EntriesOf(p.env, "literal") \cup Metadata!EntriesOf(t.env, "literal") :
         e.name = "ENVIRONMENT" => e \in Metadata!ToSet(p.env) \cap Metadata!ToSet(t.env)
  BY <1>1, <1>3, <1>4 DEF Metadata!EntriesOf, Metadata!IsCarried
<1>11. /\ \A f \in Metadata!Container \ {"startupProbe"} :
            p.container[f] = (IF t.container[f] = "null" THEN "absent" ELSE t.container[f])
       /\ p.container["startupProbe"] =
            (IF contract.startup = "given" THEN "desired"
             ELSE IF t.container["startupProbe"] = "null" THEN "absent"
             ELSE t.container["startupProbe"])
  BY <1>1 DEF Metadata!PlannedContainer, Metadata!Container, Metadata!NotNull, Metadata!StartupProbe
<1>12. p.pod = (IF t.pod = "null" THEN "absent" ELSE t.pod)
  BY <1>1 DEF Metadata!NotNull
<1>13. "bad" \notin {p.container[f] : f \in Metadata!Container}
  BY <1>1 DEF Metadata!PlanAccepted
<1> QED
  BY <1>1, <1>6, <1>7, <1>8, <1>9, <1>10, <1>11, <1>12, <1>13 DEF Metadata!Stands, p

\* What was read is what the plan was accepted for.
ReadWell(env) == env \in Seq(Read3) /\ Metadata!EnvironmentReadable(env)
NamedAlike(env, shape) ==
  /\ shape \in Seq(EntryShape) /\ Metadata!EnvironmentReadable(shape)
  /\ env \in Seq(Read3) /\ Len(env) <= Len(shape)
  /\ \A i \in 1..Len(env) : env[i].name = shape[i].name /\ env[i].from = shape[i].from
PlanAcceptedAt ==
  /\ stage = "snapshot" /\ readback.at = "values" => NamedAlike(readback.env, readback.shape)
  /\ stage = "snapshot" /\ readback.at \in PastValues => ReadWell(readback.env)
  /\ stage \in Planned =>
       /\ ReadWell(readback.baseline.env) /\ IsTemplate(readback.baseline.fields)
       /\ Metadata!PlanAccepted(readback.baseline)

LEMMA AcceptedAtFirst == Metadata!MetadataInit => PlanAcceptedAt
<1> SUFFICES ASSUME Metadata!MetadataInit PROVE PlanAcceptedAt
  OBVIOUS
<1>1. stage = "snapshot" /\ readback.at = "version"
  BY DEF Metadata!MetadataInit
<1> QED
  BY <1>1 DEF PlanAcceptedAt, Planned, PastValues, PastPod, Metadata!Container

\* The entry that is read next has the name it is read by.
LEMMA NextEntry ==
  ASSUME NEW env, NEW shape, NamedAlike(env, shape), Len(env) < Len(shape), NEW e \in Read3,
         e.name = shape[Len(env) + 1].name, e.from = shape[Len(env) + 1].from
  PROVE  NamedAlike(Append(env, e), shape)
<1> DEFINE next == Append(env, e)
<1>1. /\ env \in Seq(Read3) /\ shape \in Seq(EntryShape) /\ Len(env) \in Nat /\ Len(shape) \in Nat
      /\ \A i \in 1..Len(env) : env[i].name = shape[i].name /\ env[i].from = shape[i].from
  BY DEF NamedAlike
<1> HIDE DEF Read3, EntryShape
<1>2. /\ next \in Seq(Read3) /\ Len(next) = Len(env) + 1 /\ next[Len(env) + 1] = e
      /\ \A i \in 1..Len(env) : next[i] = env[i]
  BY <1>1, AppendProperties
<1> HIDE DEF next
<1>3. \A i \in 1..Len(next) : next[i].name = shape[i].name /\ next[i].from = shape[i].from
  <2> TAKE i \in 1..Len(next)
  <2>1. CASE i = Len(env) + 1
    BY <1>2, <2>1
  <2>2. CASE i \in 1..Len(env)
    BY <1>1, <1>2, <2>2
  <2> QED
    BY <1>1, <1>2, <2>1, <2>2
<1> QED
  BY <1>1, <1>2, <1>3 DEF NamedAlike, next

\* An environment is read by the names of its shape.
LEMMA ShapeReadable ==
  ASSUME NEW env \in Seq(Metadata!Entries), Metadata!EnvironmentReadable(env)
  PROVE  NamedAlike(<<>>, Metadata!ShapeOf(env))
<1> DEFINE shape == Metadata!ShapeOf(env)
<1>1. /\ shape \in Seq(EntryShape) /\ Len(shape) = Len(env)
      /\ \A i \in 1..Len(env) : shape[i].name = env[i].name /\ shape[i].from = env[i].from
  BY ShapeIs
<1> HIDE DEF shape, Metadata!Entries, EntryShape
<1>2. DOMAIN shape = 1..Len(env) /\ DOMAIN env = 1..Len(env)
  BY <1>1
<1>3. Metadata!EnvironmentReadable(shape)
  BY <1>1, <1>2 DEF Metadata!EnvironmentReadable, Metadata!IsInjective
<1> QED
  BY <1>1, <1>3 DEF NamedAlike, shape

LEMMA AllReadWell ==
  ASSUME NEW env, NEW shape, NamedAlike(env, shape), Len(env) = Len(shape)
  PROVE  ReadWell(env)
<1>1. DOMAIN shape = 1..Len(env) /\ DOMAIN env = 1..Len(env)
  BY DEF NamedAlike
<1>2. \A i \in 1..Len(env) : env[i].name = shape[i].name /\ env[i].from = shape[i].from
  BY DEF NamedAlike
<1>3. Metadata!EnvironmentReadable(env)
  BY <1>1, <1>2 DEF Metadata!EnvironmentReadable, Metadata!IsInjective, NamedAlike
<1> QED
  BY <1>3 DEF ReadWell, NamedAlike

LEMMA ReadStaysWell ==
  ASSUME ReadOfOneVersion, PlanAcceptedAt, Metadata!Read, stage = "snapshot"
  PROVE  /\ readback'.at = "values" => NamedAlike(readback'.env, readback'.shape)
         /\ readback'.at \in PastValues => ReadWell(readback'.env)
<1>1. IsSeen /\ canon.t.env \in Seq(Metadata!Entries)
  BY DEF ReadOfOneVersion
<1>2. Metadata!Source = canon.t /\ ~Metadata!OfGreen
  BY DEF Metadata!Source, Metadata!OfGreen
<1> USE DEF Metadata!Reads, PastValues, PastPod, Metadata!Container
<1>3. CASE Metadata!ReadVersion \/ Metadata!ReadImage \/ Metadata!CheckPlain
  <2>1. readback'.at \in {"image", "names", "unsafe", "shape"}
    BY <1>1, <1>2, <1>3, PlacesFollow
       DEF Metadata!ReadVersion, Metadata!ReadImage, Metadata!CheckPlain, IsSeen
  <2> QED
    BY <2>1
<1>4. CASE Metadata!ReadShape
  <2>1. /\ readback'.at = "values" /\ readback'.env = <<>>
        /\ readback'.shape = Metadata!ShapeOf(canon.t.env)
        /\ Metadata!EnvironmentReadable(canon.t.env)
    BY <1>1, <1>2, <1>4 DEF Metadata!ReadShape, IsSeen
  <2> QED
    BY <1>1, <2>1, ShapeReadable
<1>5. CASE Metadata!ReadValue
  <2> DEFINE env == canon.t.env
             entry == readback.shape[Len(readback.env) + 1]
  <2>1. /\ readback.at = "values" /\ Len(readback.env) < Len(readback.shape)
        /\ \E e : /\ readback' = [readback EXCEPT !.env = Append(readback.env, e)]
                  /\ \/ /\ \E i \in DOMAIN env : e = env[i]
                        /\ e.name = entry.name /\ e.from = entry.from
                     \/ entry.from = "literal" /\ e = Metadata!Literal(entry.name, "garbled")
    BY <1>2, <1>5 DEF Metadata!ReadValue
  <2>2. NamedAlike(readback.env, readback.shape)
    BY <2>1 DEF PlanAcceptedAt
  <2>3. PICK e : /\ readback' = [readback EXCEPT !.env = Append(readback.env, e)]
                 /\ \/ /\ \E i \in DOMAIN env : e = env[i]
                       /\ e.name = entry.name /\ e.from = entry.from
                    \/ entry.from = "literal" /\ e = Metadata!Literal(entry.name, "garbled")
    BY <2>1
  <2>4. entry \in EntryShape
    BY <2>1, <2>2, ElementOfSeq DEF NamedAlike
  <2>5. e \in Read3
    <3>1. CASE \E i \in DOMAIN env : e = env[i]
      BY <1>1, <3>1 DEF Read3
    <3>2. CASE entry.from = "literal" /\ e = Metadata!Literal(entry.name, "garbled")
      BY <2>4, <3>2 DEF Read3, EntryShape
    <3> QED
      BY <2>3, <3>1, <3>2
  <2>6. e.name = entry.name /\ e.from = entry.from
    BY <2>3 DEF Metadata!Literal
  <2> HIDE DEF env
  <2>7. /\ readback'.at = "values" /\ readback'.shape = readback.shape
        /\ readback'.env = Append(readback.env, e)
    BY <1>1, <2>1, <2>3 DEF IsSeen
  <2> QED
    BY <2>1, <2>2, <2>5, <2>6, <2>7, NextEntry
<1>6. CASE Metadata!ValuesRead
  <2>1. /\ readback.at = "values" /\ Len(readback.env) = Len(readback.shape)
        /\ readback'.at = "ports" /\ readback'.env = readback.env
    BY <1>1, <1>6 DEF Metadata!ValuesRead, IsSeen
  <2> QED
    BY <2>1, AllReadWell DEF PlanAcceptedAt
<1>7. CASE Metadata!FindField \/ Metadata!ReadField \/ Metadata!ReadLifecycle
  <2>1. readback.at \in PastValues /\ readback'.env = readback.env
    BY <1>1, <1>7 DEF Metadata!FindField, Metadata!ReadField, Metadata!ReadsField,
       Metadata!ReadLifecycle, IsSeen
  <2>2. readback'.at # "values"
    BY <1>1, <1>2, <1>7, PlacesFollow DEF Metadata!FindField, Metadata!ReadField,
       Metadata!ReadsField, Metadata!ReadLifecycle, IsSeen
  <2> QED
    BY <2>1, <2>2 DEF PlanAcceptedAt
<1> QED
  BY <1>3, <1>4, <1>5, <1>6, <1>7 DEF Metadata!Read

LEMMA AcceptedStays ==
  ASSUME ReadOfOneVersion, PlanAcceptedAt, [Metadata!MetadataNext]_(Metadata!metadataVars)
  PROVE  PlanAcceptedAt'
<1>1. ASSUME contract' = contract, readback'.baseline = readback.baseline,
             stage' \in Planned => stage \in Planned,
             stage' = "snapshot" =>
               /\ readback'.at = "values" => NamedAlike(readback'.env, readback'.shape)
               /\ readback'.at \in PastValues => ReadWell(readback'.env)
      PROVE  PlanAcceptedAt'
  <2>1. UNCHANGED Metadata!PlanAccepted(readback.baseline)
    BY <1>1 DEF Metadata!PlanAccepted, Metadata!PlannedContainer, Metadata!StartupProbe
  <2>2. UNCHANGED IsTemplate(readback.baseline.fields)
    BY <1>1 DEF IsTemplate
  <2> HIDE DEF ReadWell, NamedAlike
  <2> QED
    BY <1>1, <2>1, <2>2 DEF PlanAcceptedAt
<1>2. CASE Metadata!Read
  <2>1. UNCHANGED <<contract, stage>> /\ readback'.baseline = readback.baseline
    BY <1>2, ReadsOnly
  <2> QED
    BY <1>1, <1>2, <2>1, ReadStaysWell
<1>3. CASE Metadata!Snapshot
  <2> DEFINE m == [env |-> readback.env, fields |-> readback.fields]
  <2>1. /\ stage = "snapshot" /\ readback.at = "done" /\ stage' = "create"
        /\ contract' = contract
        /\ readback' = [readback EXCEPT !.baseline = m] /\ Metadata!PlanAccepted(m)
    BY <1>3 DEF Metadata!Snapshot
  <2>2. ReadWell(m.env) /\ IsTemplate(m.fields)
    BY <2>1 DEF PlanAcceptedAt, ReadOfOneVersion, IsSeen, PastValues, PastPod
  <2> HIDE DEF m
  <2>3. readback'.baseline = m
    BY <2>1 DEF ReadOfOneVersion, IsSeen
  <2>4. Metadata!PlanAccepted(readback.baseline)'
    BY <2>1, <2>3 DEF Metadata!PlanAccepted, Metadata!PlannedContainer, Metadata!StartupProbe
  <2>5. ReadWell(readback'.baseline.env) /\ IsTemplate(readback.baseline.fields)'
    BY <2>2, <2>3 DEF IsTemplate
  <2> HIDE DEF ReadWell
  <2> QED
    BY <2>1, <2>4, <2>5 DEF PlanAcceptedAt
<1>4. CASE \/ Metadata!CreateGreen \/ Metadata!VerifyGreen \/ Metadata!VerifyCanonical
           \/ Metadata!Patch \/ Metadata!Patched
  <2>1. contract' = contract
    BY <1>4 DEF Metadata!CreateGreen, Metadata!VerifyGreen, Metadata!VerifyCanonical,
                Metadata!Patch, Metadata!Patched
  <2>2. \E from \in Planned, to \in Planned : \E place : Metadata!Turns(from, to, place)
    BY <1>4 DEF Planned, Metadata!CreateGreen, Metadata!VerifyGreen, Metadata!VerifyCanonical,
                Metadata!Patch, Metadata!Patched
  <2>3. /\ stage \in Planned /\ stage' \in Planned
        /\ \E place : readback' = [readback EXCEPT !.at = place]
    BY <2>2 DEF Metadata!Turns
  <2>4. readback'.baseline = readback.baseline
    BY <2>3 DEF ReadOfOneVersion, IsSeen
  <2> QED
    BY <1>1, <2>1, <2>3, <2>4 DEF Planned
<1>5. CASE Metadata!Refused \/ Metadata!Edit \/ UNCHANGED Metadata!metadataVars
  <2>1. UNCHANGED <<contract, readback>> /\ (stage' = stage \/ stage' = "refused")
    BY <1>5 DEF Metadata!Refused, Metadata!Edit, Metadata!metadataVars
  <2> QED
    BY <1>1, <2>1 DEF PlanAcceptedAt, Planned
<1> QED
  BY <1>2, <1>3, <1>4, <1>5 DEF Metadata!MetadataNext

\* The patch is one step, which leaves the baseline alone; green is made of its
\* plan, in one step.
LEMMA OneStep ==
  ASSUME ReadOfOneVersion, [Metadata!MetadataNext]_(Metadata!metadataVars)
  PROVE  /\ stage = "patch" /\ stage' = "patched" => readback'.baseline = readback.baseline
         /\ stage = "create" /\ stage' = "created" => green' = plan
<1>1. Metadata!Read => stage' = stage
  BY ReadsOnly
<1>2. Metadata!Patch => readback'.baseline = readback.baseline
  BY DEF Metadata!Patch, Metadata!Turns, ReadOfOneVersion, IsSeen
<1>3. stage \in {"patch", "create"} /\ stage' \in {"patched", "created"}
        => Metadata!Patch \/ (Metadata!CreateGreen /\ stage' = "created")
  BY <1>1 DEF Metadata!MetadataNext, Metadata!metadataVars, Metadata!Turns, Metadata!Snapshot,
     Metadata!CreateGreen, Metadata!VerifyGreen, Metadata!VerifyCanonical, Metadata!Patched,
     Metadata!Refused, Metadata!Edit
<1>4. /\ Metadata!Patch => stage = "patch" /\ stage' = "patched"
      /\ Metadata!CreateGreen => green' = plan
  BY DEF Metadata!Patch, Metadata!CreateGreen, Metadata!Turns
<1> QED
  BY <1>2, <1>3, <1>4

LEMMA MetadataSteps ==
  ASSUME ReadOfOneVersion, PlanAcceptedAt, [Metadata!MetadataNext]_(Metadata!metadataVars)
  PROVE  /\ stage = "patch" /\ stage' = "patched" =>
              /\ Metadata!Stands(plan, canon.t) /\ plan.image = "new"
              /\ Metadata!SameMetadata(readback.baseline, canon'.t.env, canon'.t)
         /\ stage = "create" /\ stage' = "created" =>
              Metadata!Stands(green', [readback.baseline.fields EXCEPT !.env = readback.baseline.env])
<1> DEFINE m == readback.baseline
<1>1. PatchIsOfBaseline
  BY MetadataStep
<1>2. stage \in {"patch", "create"} =>
        /\ m.env \in Seq(Read3) /\ Metadata!EnvironmentReadable(m.env)
        /\ IsTemplate(m.fields) /\ Metadata!PlanAccepted(m)
        /\ plan = Metadata!PlanGreenMetadata(m)
  BY DEF PlanAcceptedAt, ReadOfOneVersion, ReadWell, Planned
<1>3. ASSUME stage = "patch", stage' = "patched"
      PROVE  /\ Metadata!Stands(plan, canon.t) /\ plan.image = "new"
             /\ Metadata!SameMetadata(m, canon'.t.env, canon'.t)
  <2>1. IsBaseline(canon.t) /\ IsBaseline(canon.t)'
    BY <1>1, <1>3 DEF PatchIsOfBaseline
  <2>2. readback'.baseline = readback.baseline
    BY <1>3, OneStep
  <2>3. /\ canon.t.env = m.env /\ canon.t.container = m.fields.container
        /\ canon.t.pod = m.fields.pod
    BY <2>1 DEF IsBaseline, Metadata!SameMetadata
  <2> QED
    BY <1>2, <1>3, <2>1, <2>2, <2>3, PlanStands DEF IsBaseline, Metadata!SameMetadata
<1>4. ASSUME stage = "create", stage' = "created"
      PROVE  Metadata!Stands(green', [m.fields EXCEPT !.env = m.env])
  <2> DEFINE t == [m.fields EXCEPT !.env = m.env]
  <2>1. t.env = m.env /\ t.container = m.fields.container /\ t.pod = m.fields.pod
    BY <1>2, <1>4 DEF IsTemplate
  <2> HIDE DEF t
  <2>2. Metadata!Stands(plan, t)
    BY <1>2, <1>4, <2>1, PlanStands
  <2>3. green' = plan
    BY <1>4, OneStep
  <2> QED
    BY <2>2, <2>3 DEF t
<1> QED
  BY <1>3, <1>4

\* However others interleave with the reads, and however often they change the
\* two Deployments, the patch meets the canonical Deployment as it was when green
\* was planned from it and leaves its metadata alone; and that plan carries over
\* every reference and field that was set, nothing else, and puts green in
\* standby, whatever environment the Deployment has.
THEOREM ReplacesAsPlanned == Metadata!MetadataSpec => ReplacesWhatWasPlanned
<1>1. ReadOfOneVersion /\ PlanAcceptedAt /\ [Metadata!MetadataNext]_(Metadata!metadataVars)
        => ReadOfOneVersion' /\ PlanAcceptedAt'
  BY MetadataStep, AcceptedStays
<1>2. ReadOfOneVersion /\ PlanAcceptedAt /\ [Metadata!MetadataNext]_(Metadata!metadataVars)
        => [/\ stage = "patch" /\ stage' = "patched" =>
                 /\ Metadata!Stands(plan, canon.t) /\ plan.image = "new"
                 /\ Metadata!SameMetadata(readback.baseline, canon'.t.env, canon'.t)
            /\ stage = "create" /\ stage' = "created" =>
                 Metadata!Stands(green', [readback.baseline.fields EXCEPT !.env = readback.baseline.env])
           ]_(Metadata!metadataVars)
  BY MetadataSteps
<1> QED
  BY <1>1, <1>2, MetadataInitInv, AcceptedAtFirst, PTL
     DEF Metadata!MetadataSpec, ReplacesWhatWasPlanned, Metadata!ReplacesWhatWasPlanned
=============================================================================
