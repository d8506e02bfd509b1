----------------------- MODULE ValidationCustodyProofs -----------------------
(***************************************************************************)
(* ReceiptIsWhole and StartsOnceAlone of ValidationCustody, for any        *)
(* phases, roots and producer files and any number of invocations and      *)
(* attempts.                                                               *)
(***************************************************************************)
EXTENDS ValidationCustody, TLAPS

Accounts == [started : Nat, listed : Nat, settled : Nat]
Runs == [times : {0, 1}, by : 0..process, clean : BOOLEAN, pinned : BOOLEAN]

\* The steps of an invocation: those before main() has let it through, those of
\* prepare, those of a phase of run-all and those after the last phase.
Opening == {"bootJob", "bootAuth", "load", "auth", "release", "job"}
Preparing == {"create", "prepared", "account"}
InPhase == {"phaseAuth", "admit", "stage", "running", "lifecycle", "verified"}
Closing == {"trx", "resources", "receipt"}
Busy == Opening \cup Preparing \cup InPhase \cup Closing

Natives == {"absent", "released", "runs", "left", "passed"}

StoreTypeOK ==
  /\ attempt \in 1..MaxAttempt /\ altered \subseteq Files /\ native \in Natives
  /\ process \in 0..MaxProcesses
  /\ made \subseteq Roots
  /\ files \in [Roots -> [Names -> 0..process]]
  /\ trx \in [Roots -> 0..2]
  /\ ran \in [Roots -> [PhaseNumbers -> Runs]]
  /\ account \in [Roots -> [{"prepareResources", "controlResources"} -> Accounts]]

TaskTypeOK ==
  \/ task = Idle /\ worker = "none" /\ rows = NoRows
  \/ /\ process > 0
     /\ task \in [pc : Opening, op : {"prepare", "run-all"}, root : Roots, phase : {0}]
                   \cup [pc : Preparing, op : {"prepare"}, root : Roots, phase : {0}]
                   \cup [pc : InPhase \cup Closing, op : {"run-all"}, root : Roots,
                         phase : PhaseNumbers]

CallTypeOK ==
  /\ code \in {"inline", "pinned"} /\ left \subseteq Files
  /\ worker \in {"none", "alive", "written", "exited"} /\ rows \in Accounts
  /\ worker # "none" => task.pc \in Calling
  /\ left # {} => task.pc \in {"bootAuth", "auth", "phaseAuth"}

\* The log of a phase and its native run are of one invocation, and a second one
\* finds the log.
LogIsRun ==
  \A r \in Roots : \A p \in PhaseNumbers :
    /\ files[r][<<"log", p>>] = ran[r][p].by
    /\ ran[r][p].times = (IF ran[r][p].by = 0 THEN 0 ELSE 1)

\* Every worker is listed and, but for the one of the call being made, settled.
RowsSettled ==
  /\ rows.listed = rows.started
  /\ rows.started = rows.settled + (IF worker = "none" THEN 0 ELSE 1)

\* What the running invocation has seen to by the step it has come to.
MineTo(r, p) == ran[r][p].by = process /\ ran[r][p].pinned
Done(r, p) == /\ MineTo(r, p) /\ ran[r][p].clean
              /\ \A n \in {"log", "lifecycle", "verified"} : files[r][<<n, p>>] = process

Admitted ==
  /\ task.pc \in {"auth", "release", "job"} \cup Preparing \cup InPhase \cup Closing =>
       code = "pinned"
  /\ task.pc \in {"prepared", "account"} \cup InPhase \cup Closing
       \/ (task.pc = "job" /\ task.op = "run-all") => Root.attempt = attempt
  /\ task.pc = "stage" => native \in {"absent", "left"}

Progress ==
  /\ task.pc \in InPhase => \A q \in 1..(task.phase - 1) : Done(Root, q)
  /\ task.pc \in {"running", "lifecycle", "verified"} => MineTo(Root, task.phase)
  /\ task.pc \in {"lifecycle", "verified"} => ran[Root][task.phase].clean
  /\ task.pc = "verified" => FileOf(<<"lifecycle", task.phase>>) = process
  /\ task.pc \in Closing => \A q \in PhaseNumbers : Done(Root, q)
  /\ task.pc \in {"resources", "receipt"} => trx[Root] = 1
  /\ task.pc = "receipt" =>
       /\ FileOf(<<"controlResources", 0>>) = process
       /\ account[Root]["controlResources"] = rows

\* Its receipt is the last thing an invocation does.
NoReceiptYet == ~At("idle") => \A r \in Roots : files[r][<<"receipt", 0>>] # process

\* A gate that was sent its payload may outlive its stage, and only while no other
\* invocation runs.
NoGateLeft ==
  /\ ~At("running") => native # "passed"
  /\ task.pc \notin {"idle", "running"} => native # "released"

Stored == StoreTypeOK /\ LogIsRun /\ ReceiptIsWhole
Running == /\ TaskTypeOK /\ CallTypeOK /\ RowsSettled
           /\ Admitted /\ Progress /\ NoReceiptYet
Inv == Stored /\ Running
-----------------------------------------------------------------------------
LEMMA PhasesAreNumbered ==
  /\ Len(Phases) \in Nat \ {0}
  /\ PhaseNumbers \subseteq Nat \ {0}
  /\ 1 \in PhaseNumbers /\ Len(Phases) \in PhaseNumbers
BY CustodyAssumption DEF PhaseNumbers

LEMMA NamesListed ==
  /\ \A n \in {"prepared", "prepareResources", "controlResources", "receipt"} : <<n, 0>> \in Names
  /\ \A n \in {"log", "lifecycle", "verified"}, p \in PhaseNumbers : <<n, p>> \in Names
BY DEF Names

LEMMA InitInv == Init => Inv
<1> SUFFICES ASSUME Init PROVE Inv
  OBVIOUS
<1> USE PhasesAreNumbered, NamesListed
<1>1. StoreTypeOK
  <2>1. NoRows \in Accounts
    BY DEF NoRows, Accounts
  <2>2. account \in [Roots -> [{"prepareResources", "controlResources"} -> Accounts]]
    BY <2>1 DEF Init
  <2>3. ran \in [Roots -> [PhaseNumbers -> Runs]]
    BY DEF Init, Runs
  <2>4. files \in [Roots -> [Names -> 0..process]] /\ trx \in [Roots -> 0..2]
    BY DEF Init
  <2>5. attempt \in 1..MaxAttempt /\ process \in 0..MaxProcesses
    BY CustodyAssumption DEF Init
  <2>6. native \in Natives /\ altered \subseteq Files /\ made \subseteq Roots
    BY DEF Init, Natives
  <2> QED BY <2>2, <2>3, <2>4, <2>5, <2>6 DEF StoreTypeOK
<1>2. LogIsRun
  BY DEF Init, LogIsRun
<1>3. ReceiptIsWhole
  BY DEF Init, ReceiptIsWhole
<1>4. TaskTypeOK /\ CallTypeOK /\ RowsSettled
  BY DEF Init, TaskTypeOK, CallTypeOK, RowsSettled, Idle, NoRows, Accounts
<1>5. Admitted /\ Progress /\ NoReceiptYet
  BY DEF Init, Admitted, Progress, NoReceiptYet, Idle, At, Preparing, InPhase, Closing
<1> QED BY <1>1, <1>2, <1>3, <1>4, <1>5 DEF Inv, Stored, Running

\* A step that touches no root keeps what is stored.
LEMMA StoreSame ==
  ASSUME Inv, UNCHANGED <<rootVars, process>>,
         attempt' \in 1..MaxAttempt, altered' \subseteq Files, native' \in Natives
  PROVE  Stored'
<1>1. StoreTypeOK'
  BY DEF Inv, Stored, StoreTypeOK, rootVars, Runs
<1>2. LogIsRun'
  BY DEF Inv, Stored, LogIsRun, rootVars
<1>3. ReceiptIsWhole'
  BY DEF Inv, Stored, ReceiptIsWhole, rootVars
<1> QED BY <1>1, <1>2, <1>3 DEF Stored

\* With no invocation running, nothing is asked of one.
LEMMA IdleKeeps ==
  ASSUME Stored', task' = Idle, worker' = "none", rows' = NoRows,
         left' = {}, code' \in {"inline", "pinned"}
  PROVE  Inv'
<1>1. task'.pc = "idle"
  BY DEF Idle
<1>2. (TaskTypeOK /\ CallTypeOK /\ RowsSettled)'
  BY <1>1 DEF TaskTypeOK, CallTypeOK, RowsSettled, NoRows, Accounts, Calling
<1>3. (Admitted /\ Progress /\ NoReceiptYet)'
  BY <1>1 DEF Admitted, Progress, NoReceiptYet, At, Preparing, InPhase, Closing
<1> QED BY <1>2, <1>3 DEF Inv, Running

LEMMA EndsKeeps ==
  ASSUME Stored', Ends
  PROVE  Inv'
BY IdleKeeps DEF Ends, Fresh

\* A step of the metadata calls and of the waits: the task, the roots and the
\* world as they are.
LEMMA TaskSame ==
  ASSUME Inv, UNCHANGED <<rootVars, process, attempt, task, code>>,
         altered' \subseteq Files, native' \in Natives, At("stage") => native' \in {native, "absent"},
         (CallTypeOK /\ RowsSettled)',
         task = Idle => UNCHANGED <<worker, rows>>,
         task.pc = "receipt" => UNCHANGED rows
  PROVE  Inv'
<1>1. Stored'
  BY StoreSame DEF Inv, Stored, StoreTypeOK
<1>2. TaskTypeOK'
  BY DEF Inv, Running, TaskTypeOK
<1>3. Admitted'
  BY DEF Inv, Running, Admitted, rootVars, Root, At
<1>4. Progress'
  BY DEF Inv, Running, Progress, rootVars, Done, MineTo, FileOf, Root
<1>5. NoReceiptYet'
  BY DEF Inv, Running, NoReceiptYet, rootVars, At
<1> QED BY <1>1, <1>2, <1>3, <1>4, <1>5 DEF Inv, Running

\* Where an invocation is, by the step it has come to.
LEMMA TaskKinds ==
  ASSUME TaskTypeOK, task.pc # "idle"
  PROVE  /\ process > 0 /\ Root \in Roots
         /\ task = [pc |-> task.pc, op |-> task.op, root |-> Root, phase |-> task.phase]
         /\ task.op \in {"prepare", "run-all"}
         /\ task.pc \in Busy
         /\ task.pc \in Opening => task.phase = 0
         /\ task.pc \in Preparing => task.op = "prepare" /\ task.phase = 0
         /\ task.pc \in InPhase \cup Closing => task.op = "run-all" /\ task.phase \in PhaseNumbers
BY DEF TaskTypeOK, Idle, Root, Busy, Opening, Preparing, InPhase, Closing

LEMMA TaskGoes ==
  ASSUME TaskTypeOK, NEW to, task.pc # "idle", task' = [task EXCEPT !.pc = to],
         process' = process,
         \/ task.pc \in Opening /\ to \in Opening
         \/ task.pc \in Opening \cup Preparing /\ to \in Preparing /\ task.op = "prepare"
         \/ task.pc \in InPhase \cup Closing /\ to \in InPhase \cup Closing
  PROVE  /\ TaskTypeOK'
         /\ task'.pc = to /\ task'.op = task.op /\ Root' = Root /\ task'.phase = task.phase
<1> DEFINE t == [pc |-> to, op |-> task.op, root |-> Root, phase |-> task.phase]
<1>1. task' = t /\ t.pc = to /\ t.op = task.op /\ t.root = Root /\ t.phase = task.phase
  BY TaskKinds
<1>2. t \in [pc : Opening, op : {"prepare", "run-all"}, root : Roots, phase : {0}]
              \cup [pc : Preparing, op : {"prepare"}, root : Roots, phase : {0}]
              \cup [pc : InPhase \cup Closing, op : {"run-all"}, root : Roots,
                    phase : PhaseNumbers]
  BY TaskKinds DEF Opening, Preparing, InPhase, Closing
<1> HIDE DEF t
<1>3. TaskTypeOK'
  BY <1>1, <1>2, TaskKinds DEF TaskTypeOK
<1> QED BY <1>1, <1>3 DEF Root

\* The invocation goes to another step of its own, the roots and the world as
\* they are.
LEMMA MoveKeeps ==
  ASSUME Inv, UNCHANGED <<rootVars, process, worldVars>>, ~At("idle"),
         (TaskTypeOK /\ CallTypeOK /\ RowsSettled /\ Admitted /\ Progress)'
  PROVE  Inv'
<1>1. Stored'
  BY StoreSame DEF Inv, Stored, StoreTypeOK, worldVars
<1>2. NoReceiptYet'
  BY DEF Inv, Running, NoReceiptYet, rootVars, At
<1> QED BY <1>1, <1>2 DEF Inv, Running
-----------------------------------------------------------------------------
LEMMA SpawnKeeps == ASSUME Inv, Spawn PROVE Inv'
<1> DEFINE more == [started |-> rows.started + 1, listed |-> rows.listed + 1,
                    settled |-> rows.settled]
<1>a. rows \in Accounts
  BY DEF Inv, Running, CallTypeOK
<1>b. rows' = more /\ more \in Accounts
  <2>1. rows' = [rows EXCEPT !.started = rows.started + 1, !.listed = rows.listed + 1]
    BY DEF Spawn
  <2>2. rows.started \in Nat /\ rows.listed \in Nat /\ rows.settled \in Nat
    BY <1>a DEF Accounts
  <2>3. rows' = more
    BY <1>a, <2>1 DEF Accounts
  <2>4. more \in Accounts
    BY <2>2 DEF Accounts
  <2> QED BY <2>3, <2>4
<1>c. CallTypeOK'
  BY <1>b DEF Inv, Running, Spawn, CallTypeOK
<1>d. RowsSettled'
  BY <1>a, <1>b DEF Inv, Running, Spawn, RowsSettled, Accounts
<1>1. (CallTypeOK /\ RowsSettled)'
  BY <1>c, <1>d
<1>2. task # Idle /\ task.pc # "receipt"
  BY DEF Spawn, Calling, Idle
<1> QED
  BY <1>1, <1>2, TaskSame DEF Spawn, worldVars, Inv, Stored, StoreTypeOK

LEMMA WorkerRunsKeeps == ASSUME Inv, WorkerRuns PROVE Inv'
<1>1. worker # "none" /\ worker' \in {"written", "exited"}
  BY DEF WorkerRuns
<1>2. (CallTypeOK /\ RowsSettled)'
  BY <1>1 DEF Inv, Running, WorkerRuns, CallTypeOK, RowsSettled
<1>3. task # Idle
  BY <1>1 DEF Inv, Running, CallTypeOK, Idle, Calling
<1> QED
  BY <1>2, <1>3, TaskSame DEF WorkerRuns, worldVars, Inv, Stored, StoreTypeOK

\* The moves of a stage's SDK.
LEMMA NativeMoves ==
  ASSUME Stage!NativeActs
  PROVE  /\ native' \in Natives
         /\ native = "absent" => Outcome = "running" /\ native' = "released"
         /\ native = "left" => native' = "absent" \/ Outcome = "running"
         /\ native' = "passed" => Outcome = "running"
         /\ native' = "released" => Outcome = "running"
BY DEF Stage!NativeActs, Stage!Release, Stage!Exec, Stage!End, Natives

LEMMA WorldKeeps == ASSUME Inv, NewAttempt \/ Alter \/ StageActs PROVE Inv'
<1>1. CASE NewAttempt
  <2>1. task = Idle
    BY <1>1 DEF NewAttempt, At, Inv, Running, TaskTypeOK, Opening, Preparing, InPhase, Closing
  <2>2. left = {} /\ worker = "none" /\ rows = NoRows
    BY <2>1 DEF Inv, Running, TaskTypeOK, CallTypeOK, Idle, Opening, Preparing, InPhase, Closing
  <2>3. attempt' \in 1..MaxAttempt
    BY <1>1, CustodyAssumption DEF NewAttempt, Inv, Stored, StoreTypeOK
  <2>4. Stored'
    BY <1>1, <2>3, StoreSame DEF NewAttempt, Inv, Stored, StoreTypeOK
  <2> QED
    BY <1>1, <2>1, <2>2, <2>4, IdleKeeps DEF NewAttempt, callVars, Inv, Running, CallTypeOK
<1>2. CASE Alter \/ StageActs
  <2>1. /\ UNCHANGED <<rootVars, process, attempt, task, code, callVars>>
        /\ altered' \subseteq Files /\ native' \in Natives
        /\ At("stage") => native' \in {native, "absent"}
    <3>1. CASE Alter
      BY <3>1 DEF Alter, Inv, Stored, StoreTypeOK
    <3>2. CASE StageActs
      <4>1. At("stage") => native \in {"absent", "left"} /\ Outcome = "none"
        BY DEF Inv, Running, Admitted, Outcome, At
      <4>2. native' \in Natives /\ (At("stage") => native' \in {native, "absent"})
        BY <3>2, <4>1, NativeMoves DEF StageActs
      <4> QED BY <3>2, <4>2 DEF StageActs, Inv, Stored, StoreTypeOK
    <3> QED BY <1>2, <3>1, <3>2
  <2>2. (CallTypeOK /\ RowsSettled)'
    BY <2>1 DEF Inv, Running, CallTypeOK, RowsSettled, callVars
  <2> QED BY <2>1, <2>2, TaskSame DEF callVars
<1> QED BY <1>1, <1>2

LEMMA StartKeeps == ASSUME Inv, Start PROVE Inv'
<1>1. PICK op \in {"prepare", "run-all"}, r \in Roots :
        task' = [pc |-> "bootJob", op |-> op, root |-> r, phase |-> 0]
  BY DEF Start
<1>2. process' = process + 1 /\ process' \in 0..MaxProcesses /\ process \in Nat
  BY CustodyAssumption DEF Start, Inv, Stored, StoreTypeOK
<1>3. task = Idle /\ left = {} /\ worker = "none" /\ rows = NoRows
  BY DEF Start, At, Inv, Running, TaskTypeOK, CallTypeOK, Idle,
         Opening, Preparing, InPhase, Closing
<1>4. StoreTypeOK'
  <2>1. files' \in [Roots -> [Names -> 0..process']]
    BY <1>2 DEF Start, rootVars, Inv, Stored, StoreTypeOK
  <2>2. \A r2 \in Roots, p \in PhaseNumbers : ran[r2][p] \in Runs'
    BY <1>2 DEF Inv, Stored, StoreTypeOK, Runs
  <2>3. ran' \in [Roots -> [PhaseNumbers -> Runs']]
    BY <2>2 DEF Start, rootVars, Inv, Stored, StoreTypeOK
  <2> QED
    BY <1>2, <2>1, <2>3 DEF Start, rootVars, worldVars, Inv, Stored, StoreTypeOK
<1>5. (LogIsRun /\ ReceiptIsWhole)'
  BY DEF Start, rootVars, Inv, Stored, LogIsRun, ReceiptIsWhole
<1>6. task'.pc = "bootJob" /\ task'.phase = 0
  BY <1>1
<1>7. (TaskTypeOK /\ CallTypeOK /\ RowsSettled)'
  BY <1>1, <1>2, <1>3, <1>6
     DEF Start, callVars, Inv, Running, TaskTypeOK, CallTypeOK, RowsSettled, Opening, NoRows, Accounts
<1>8. (Admitted /\ Progress)'
  BY <1>6 DEF Admitted, Progress, Preparing, InPhase, Closing
<1>9. NoReceiptYet'
  <2>1. \A r2 \in Roots : files[r2][<<"receipt", 0>>] \in 0..process
    BY NamesListed DEF Inv, Stored, StoreTypeOK
  <2> QED BY <1>2, <2>1 DEF Start, rootVars, NoReceiptYet
<1> QED BY <1>4, <1>5, <1>7, <1>8, <1>9 DEF Inv, Stored, Running

LEMMA StopKeeps == ASSUME Inv, Leave \/ Raise \/ Killed PROVE Inv'
<1>1. Ends /\ UNCHANGED <<attempt, altered, rootVars, process>> /\ native' \in {native, "absent"}
  BY DEF Leave, LeaveWhen, Raise, Killed, worldVars, Stage!Raise
<1>2. Stored'
  BY <1>1, StoreSame DEF Inv, Stored, StoreTypeOK, Natives
<1> QED BY <1>1, <1>2, EndsKeeps

-----------------------------------------------------------------------------
LEMMA ReturnRows ==
  ASSUME Inv, Return
  PROVE  /\ worker' = "none" /\ task.pc \in Calling
         /\ rows' \in Accounts /\ RowsSettled'
<1> DEFINE less == [started |-> rows.started, listed |-> rows.listed,
                    settled |-> rows.settled + 1]
<1>1. rows \in Accounts /\ worker = "exited" /\ worker' = "none" /\ task.pc \in Calling
  BY DEF Inv, Running, CallTypeOK, Return, ReturnWhen
<1>2. rows' = [rows EXCEPT !.settled = rows.settled + 1]
  BY <1>1 DEF Return, ReturnWhen
<1>3. rows.started \in Nat /\ rows.listed \in Nat /\ rows.settled \in Nat
  BY <1>1 DEF Accounts
<1>4. rows' = less
  BY <1>1, <1>2 DEF Accounts
<1>5. less \in Accounts
  BY <1>3 DEF Accounts
<1>6. RowsSettled'
  BY <1>1, <1>3, <1>4 DEF Inv, Running, RowsSettled
<1> QED BY <1>1, <1>4, <1>5, <1>6

\* run-all comes to a phase: what is behind it is done, and the files are fetched
\* again.
LEMMA ReachesPhase ==
  ASSUME Inv, TaskTypeOK', ~At("idle"),
         UNCHANGED <<process, attempt, made, trx, ran, account, code>>,
         task'.pc = "phaseAuth", Root' = Root, Root.attempt = attempt, code = "pinned",
         \A q \in 1..(task'.phase - 1) : Done(Root, q)',
         left' = Files, worker' = "none", rows' \in Accounts, RowsSettled',
         NoReceiptYet', Stored'
  PROVE  Inv'
<1>1. CallTypeOK'
  BY DEF Inv, Running, CallTypeOK
<1>2. Admitted'
  BY DEF Admitted, Preparing, InPhase, Closing, Root
<1>3. Progress'
  BY DEF Progress, Closing, Root
<1> QED BY <1>1, <1>2, <1>3 DEF Inv, Running

LEMMA ReturnKeeps == ASSUME Inv, Return PROVE Inv'
<1> USE DEF Calling
<1>1. /\ worker' = "none" /\ task.pc \in Calling /\ rows' \in Accounts /\ RowsSettled'
      /\ TaskTypeOK /\ left \subseteq Files /\ code \in {"inline", "pinned"}
      /\ UNCHANGED <<worldVars, rootVars, process, code>>
  BY ReturnRows DEF Inv, Running, CallTypeOK, Return, ReturnWhen
<1>2. ~At("idle") /\ task.pc # "idle" /\ task.pc # "receipt" /\ task # Idle
  BY <1>1 DEF At, Idle
<1>3. Use
  BY DEF Return, ReturnWhen
<1>4. Stored'
  BY <1>1, StoreSame DEF worldVars, Inv, Stored, StoreTypeOK
<1>5. NoReceiptYet'
  BY <1>1, <1>2 DEF Inv, Running, NoReceiptYet, rootVars
<1>6. CASE At("bootJob") /\ Authenticating("bootAuth")
  <2>1. TaskTypeOK' /\ task'.pc = "bootAuth" /\ left' = Files
    BY <1>1, <1>2, <1>6, TaskGoes DEF At, Authenticating, Opening
  <2>2. CallTypeOK'
    BY <1>1, <2>1 DEF CallTypeOK
  <2>3. (Admitted /\ Progress)'
    BY <2>1 DEF Admitted, Progress, Preparing, InPhase, Closing
  <2> QED BY <1>1, <1>4, <1>5, <2>1, <2>2, <2>3 DEF Inv, Running
<1>7. CASE At("job") /\ AfterJob
  <2>1. code = "pinned" /\ left = {} /\ task.pc = "job"
    BY <1>7 DEF Inv, Running, Admitted, CallTypeOK, At
  <2>2. CASE task.op = "prepare"
    <3>1. TaskTypeOK' /\ task'.pc = "create" /\ left' = {}
      BY <1>1, <1>2, <1>7, <2>1, <2>2, TaskGoes DEF AfterJob, Opening, Preparing
    <3>2. CallTypeOK'
      BY <1>1, <3>1 DEF CallTypeOK
    <3>3. (Admitted /\ Progress)'
      BY <1>1, <2>1, <3>1 DEF Admitted, Progress, Preparing, InPhase, Closing
    <3> QED BY <1>1, <1>4, <1>5, <3>1, <3>2, <3>3 DEF Inv, Running
  <2>3. CASE task.op # "prepare"
    <3> DEFINE t == [pc |-> "phaseAuth", op |-> "run-all", root |-> Root, phase |-> 1]
    <3>0. task.op = "run-all"
      BY <1>1, <1>2, <2>3, TaskKinds
    <3>a. task' = [task EXCEPT !.pc = "phaseAuth", !.phase = 1] /\ left' = Files
      BY <1>7, <2>3 DEF AfterJob
    <3>b. /\ task \in [pc : {"job"}, op : {"run-all"}, root : Roots, phase : {0}]
          /\ Root = task.root
      BY <1>1, <1>2, <2>1, <3>0, TaskKinds DEF Opening, Root
    <3>c. task' = t
      BY <3>a, <3>b
    <3>1. task' = t /\ left' = Files /\ task.op = "run-all"
      BY <3>0, <3>a, <3>c
    <3>2. /\ t.pc = "phaseAuth" /\ t.root = Root /\ t.phase = 1
          /\ t \in [pc : InPhase \cup Closing, op : {"run-all"}, root : Roots,
                    phase : PhaseNumbers]
      BY <1>1, <1>2, TaskKinds, PhasesAreNumbered DEF InPhase
    <3> HIDE DEF t
    <3>3. TaskTypeOK' /\ Root' = Root
      BY <1>1, <1>2, <3>1, <3>2, TaskKinds DEF TaskTypeOK, Root
    <3>4. Root.attempt = attempt
      BY <2>1, <3>1 DEF Inv, Running, Admitted
    <3> QED
      BY <1>1, <1>2, <1>4, <1>5, <2>1, <3>1, <3>2, <3>3, <3>4, ReachesPhase
         DEF worldVars, rootVars
  <2> QED BY <2>2, <2>3
<1>8. ASSUME NEW item \in left, Fetched(item), left # {item}, UNCHANGED task
      PROVE  Inv'
  <2>1. left' \subseteq Files /\ left # {}
    BY <1>1, <1>8 DEF Fetched
  <2>2. CallTypeOK'
    BY <1>1, <1>8, <2>1 DEF Inv, Running, CallTypeOK
  <2> QED
    BY <1>1, <1>2, <1>8, <2>2, TaskSame DEF worldVars, Inv, Stored, StoreTypeOK
<1>9. ASSUME NEW item \in left, Fetched(item), left = {item},
             task' = [task EXCEPT !.pc = Authenticated]
      PROVE  Inv'
  <2>1. left' = {} /\ task.pc \in {"bootAuth", "auth", "phaseAuth"}
    BY <1>9 DEF Fetched, Inv, Running, CallTypeOK
  <2>2. CASE task.pc = "bootAuth"
    <3>1. Authenticated = "load"
      BY <2>2 DEF Authenticated, At
    <3>2. TaskTypeOK' /\ task'.pc = "load"
      BY <1>1, <1>2, <1>9, <2>2, <3>1, TaskGoes DEF Opening
    <3>3. (CallTypeOK /\ Admitted /\ Progress)'
      BY <1>1, <2>1, <3>2 DEF CallTypeOK, Admitted, Progress, Preparing, InPhase, Closing
    <3> QED BY <1>1, <1>4, <1>5, <3>2, <3>3 DEF Inv, Running
  <2>3. CASE task.pc = "auth"
    <3>1. Authenticated = "release" /\ code = "pinned"
      BY <2>3 DEF Authenticated, At, Inv, Running, Admitted
    <3>2. TaskTypeOK' /\ task'.pc = "release"
      BY <1>1, <1>2, <1>9, <2>3, <3>1, TaskGoes DEF Opening
    <3>3. (CallTypeOK /\ Admitted /\ Progress)'
      BY <1>1, <2>1, <3>1, <3>2 DEF CallTypeOK, Admitted, Progress, Preparing, InPhase, Closing
    <3> QED BY <1>1, <1>4, <1>5, <3>2, <3>3 DEF Inv, Running
  <2>4. CASE task.pc = "phaseAuth"
    <3>1. Authenticated = "admit"
      BY <2>4 DEF Authenticated, At
    <3>2. TaskTypeOK' /\ task'.pc = "admit" /\ Root' = Root /\ task'.phase = task.phase
      BY <1>1, <1>2, <1>9, <2>4, <3>1, TaskGoes DEF InPhase, Closing
    <3>3. (CallTypeOK /\ Admitted)'
      BY <1>1, <2>1, <2>4, <3>2
         DEF Inv, Running, CallTypeOK, Admitted, Preparing, InPhase, Closing, worldVars, Root
    <3>4. Progress'
      BY <1>1, <2>4, <3>2
         DEF Inv, Running, Progress, InPhase, Closing, rootVars, Done, MineTo, Root
    <3> QED BY <1>1, <1>4, <1>5, <3>2, <3>3, <3>4 DEF Inv, Running
  <2> QED BY <2>1, <2>2, <2>3, <2>4
<1> QED BY <1>3, <1>6, <1>7, <1>8, <1>9 DEF Use

LEMMA LoadModulesKeeps == ASSUME Inv, LoadModules PROVE Inv'
<1>1. task.pc = "load" /\ ~At("idle") /\ TaskTypeOK
  BY DEF LoadModules, Goes, At, Inv, Running
<1>2. TaskTypeOK' /\ task'.pc = "auth" /\ left' = Files /\ code' = "pinned"
  BY <1>1, TaskGoes DEF LoadModules, Goes, Opening
<1>3. (CallTypeOK /\ RowsSettled)'
  BY <1>1, <1>2 DEF Inv, Running, LoadModules, CallTypeOK, RowsSettled, Calling
<1>4. (Admitted /\ Progress)'
  BY <1>2 DEF Admitted, Progress, Preparing, InPhase, Closing
<1> QED
  BY <1>1, <1>2, <1>3, <1>4, MoveKeeps DEF LoadModules

LEMMA ReleaseKeeps == ASSUME Inv, Release PROVE Inv'
<1>1. task.pc = "release" /\ ~At("idle") /\ TaskTypeOK /\ code = "pinned"
  BY DEF Release, Goes, At, Inv, Running, Admitted
<1>2. TaskTypeOK' /\ task'.pc = "job" /\ task'.op = task.op /\ Root' = Root
  BY <1>1, TaskGoes DEF Release, Goes, Opening
<1>3. (CallTypeOK /\ RowsSettled)'
  BY <1>1, <1>2 DEF Inv, Running, Release, callVars, CallTypeOK, RowsSettled, Calling
<1>4. Admitted'
  BY <1>1, <1>2 DEF Release, StateMatches, worldVars, Admitted, Preparing, InPhase, Closing
<1>5. Progress'
  BY <1>2 DEF Progress, InPhase, Closing
<1> QED
  BY <1>1, <1>2, <1>3, <1>4, <1>5, MoveKeeps DEF Release

LEMMA AdmitKeeps == ASSUME Inv, NoGateLeft, Admit PROVE Inv'
<1>1. task.pc = "admit" /\ ~At("idle") /\ TaskTypeOK
  BY DEF Admit, Goes, At, Inv, Running
<1>2. TaskTypeOK' /\ task'.pc = "stage" /\ Root' = Root /\ task'.phase = task.phase
  BY <1>1, TaskGoes DEF Admit, Goes, InPhase, Closing
<1>3. (CallTypeOK /\ RowsSettled)'
  BY <1>1, <1>2 DEF Inv, Running, Admit, callVars, CallTypeOK, RowsSettled, Calling
<1>4. Admitted'
  <2>1. native \in {"absent", "left"} /\ native' = native
    BY <1>1 DEF Inv, Stored, StoreTypeOK, Natives, NoGateLeft, At, Admit, PhysicalAdmission, worldVars
  <2> QED
    BY <1>1, <1>2, <2>1 DEF Inv, Running, Admit, worldVars, Admitted, Root,
                            Preparing, InPhase, Closing
<1>5. Progress'
  BY <1>1, <1>2 DEF Inv, Running, Admit, rootVars, Progress, InPhase, Closing, Done, MineTo, Root
<1> QED
  BY <1>1, <1>2, <1>3, <1>4, <1>5, MoveKeeps DEF Admit

LEMMA DiscoverTrxKeeps == ASSUME Inv, DiscoverTrx PROVE Inv'
<1>1. task.pc = "trx" /\ ~At("idle") /\ TaskTypeOK
  BY DEF DiscoverTrx, Goes, At, Inv, Running
<1>2. TaskTypeOK' /\ task'.pc = "resources" /\ Root' = Root /\ task'.phase = task.phase
  BY <1>1, TaskGoes DEF DiscoverTrx, Goes, InPhase, Closing
<1>3. (CallTypeOK /\ RowsSettled)'
  BY <1>1, <1>2 DEF Inv, Running, DiscoverTrx, callVars, CallTypeOK, RowsSettled, Calling
<1>4. Admitted'
  BY <1>1, <1>2 DEF Inv, Running, DiscoverTrx, worldVars, Admitted, Root,
                    Preparing, InPhase, Closing
<1>5. Progress'
  BY <1>1, <1>2 DEF Inv, Running, DiscoverTrx, rootVars, Progress, InPhase, Closing, Done, MineTo, Root
<1> QED
  BY <1>1, <1>2, <1>3, <1>4, <1>5, MoveKeeps DEF DiscoverTrx

LEMMA CreateKeeps == ASSUME Inv, Create PROVE Inv'
<1>1. task.pc = "create" /\ ~At("idle") /\ TaskTypeOK /\ task.op = "prepare" /\ Root \in Roots
  BY TaskKinds DEF Create, Goes, At, Inv, Running, Preparing
<1>2. TaskTypeOK' /\ task'.pc = "prepared" /\ Root' = Root
  BY <1>1, TaskGoes DEF Create, Goes, Preparing
<1>3. (CallTypeOK /\ RowsSettled)'
  BY <1>1, <1>2 DEF Inv, Running, Create, callVars, CallTypeOK, RowsSettled, Calling
<1>4. Admitted'
  BY <1>1, <1>2 DEF Inv, Running, Create, worldVars, Admitted, Root, Preparing, InPhase, Closing
<1>5. Progress'
  BY <1>2 DEF Progress, InPhase, Closing
<1>6. StoreTypeOK'
  BY <1>1 DEF Inv, Stored, StoreTypeOK, Create, worldVars, Runs
<1>7. (LogIsRun /\ ReceiptIsWhole)'
  BY DEF Inv, Stored, LogIsRun, ReceiptIsWhole, Create
<1>8. NoReceiptYet'
  BY <1>1 DEF Inv, Running, NoReceiptYet, Create
<1> QED
  BY <1>2, <1>3, <1>4, <1>5, <1>6, <1>7, <1>8 DEF Inv, Stored, Running
-----------------------------------------------------------------------------
\* write_exclusive: one entry that was not there, the others as they are.
LEMMA WrittenEntry ==
  ASSUME StoreTypeOK, Root \in Roots, process' = process, NEW name \in Names, Written(name)
  PROVE  /\ files[Root][name] = 0
         /\ \A r \in Roots, n \in Names :
              files'[r][n] = IF r = Root /\ n = name THEN process ELSE files[r][n]
         /\ files' \in [Roots -> [Names -> 0..process]]
<1>1. files \in [Roots -> [Names -> 0..process]] /\ process \in 0..process
  BY CustodyAssumption DEF StoreTypeOK
<1>2. files[Root] \in [Names -> 0..process]
  BY <1>1
<1> DEFINE row == [files[Root] EXCEPT ![name] = process]
<1>3. row \in [Names -> 0..process]
      /\ \A n \in Names : row[n] = IF n = name THEN process ELSE files[Root][n]
  BY <1>1, <1>2
<1>4. files' = [files EXCEPT ![Root] = row]
  BY DEF Written
<1> HIDE DEF row
<1>5. files' \in [Roots -> [Names -> 0..process]]
      /\ \A r \in Roots : files'[r] = IF r = Root THEN row ELSE files[r]
  BY <1>1, <1>3, <1>4
<1> QED BY <1>3, <1>5 DEF Written, FileOf

Kinds == {"prepared", "prepareResources", "controlResources", "receipt", "lifecycle", "verified"}

\* What one more file does to the roots; account.json goes with two of them, and
\* the receipt is written when everything else has been.
LEMMA WriteStores ==
  ASSUME Inv, ~At("idle"), UNCHANGED <<worldVars, made, trx, ran, process>>,
         NEW kind \in Kinds, NEW p, <<kind, p>> \in Names, Written(<<kind, p>>),
         \/ UNCHANGED account
         \/ kind \in {"prepareResources", "controlResources"} /\ p = 0
             /\ account' = [account EXCEPT ![Root][kind] = rows],
         kind = "receipt" => At("receipt") /\ UNCHANGED account
  PROVE  /\ Stored'
         /\ \A r \in Roots, n \in Names :
              files'[r][n] = IF r = Root /\ n = <<kind, p>> THEN process ELSE files[r][n]
<1>1. StoreTypeOK /\ LogIsRun /\ ReceiptIsWhole /\ Root \in Roots /\ process \in Nat /\ process > 0
  BY TaskKinds, CustodyAssumption DEF Inv, Stored, Running, At, StoreTypeOK
<1>2. /\ files[Root][<<kind, p>>] = 0
      /\ \A r \in Roots, n \in Names :
           files'[r][n] = IF r = Root /\ n = <<kind, p>> THEN process ELSE files[r][n]
      /\ files' \in [Roots -> [Names -> 0..process]]
  BY <1>1, WrittenEntry
<1> DEFINE Both == {"prepareResources", "controlResources"}
<1>3. account' \in [Roots -> [Both -> Accounts]]
      /\ \A r \in Roots, n \in Both :
           account'[r][n] = IF r = Root /\ <<n, 0>> = <<kind, p>> /\ account' # account
                            THEN rows ELSE account[r][n]
  <2>1. account \in [Roots -> [Both -> Accounts]] /\ rows \in Accounts
    BY <1>1 DEF StoreTypeOK, Inv, Running, CallTypeOK
  <2>2. CASE UNCHANGED account
    BY <2>1, <2>2
  <2>3. CASE kind \in Both /\ p = 0 /\ account' = [account EXCEPT ![Root][kind] = rows]
    <3> DEFINE row == [account[Root] EXCEPT ![kind] = rows]
    <3>1. row \in [Both -> Accounts]
          /\ \A n \in Both : row[n] = IF n = kind THEN rows ELSE account[Root][n]
      BY <1>1, <2>1
    <3>2. account' = [account EXCEPT ![Root] = row]
      BY <2>3
    <3> HIDE DEF row, Both
    <3>3. account' \in [Roots -> [Both -> Accounts]]
          /\ \A r \in Roots : account'[r] = IF r = Root THEN row ELSE account[r]
      BY <2>1, <3>1, <3>2
    <3>4. \A r \in Roots, n \in Both :
            account'[r][n] = IF r = Root /\ n = kind THEN rows ELSE account[r][n]
      BY <3>1, <3>3
    <3>5. CASE account' = account
      BY <2>1, <3>3, <3>5
    <3>6. CASE account' # account
      BY <2>3, <3>3, <3>4, <3>6
    <3> QED BY <3>5, <3>6
  <2> QED BY <2>2, <2>3
<1>4. StoreTypeOK'
  BY <1>1, <1>2, <1>3 DEF StoreTypeOK, worldVars, Runs
<1>5. LogIsRun'
  <2>1. \A q \in PhaseNumbers : <<"log", q>> \in Names /\ <<"log", q>> # <<kind, p>>
    BY NamesListed DEF Kinds
  <2>2. \A r \in Roots, q \in PhaseNumbers : files'[r][<<"log", q>>] = files[r][<<"log", q>>]
    BY <1>2, <2>1
  <2> QED BY <1>1, <2>2 DEF LogIsRun
<1>6. ReceiptIsWhole'
  <2> SUFFICES ASSUME NEW r \in Roots, files'[r][<<"receipt", 0>>] # 0
               PROVE  LET by == files'[r][<<"receipt", 0>>]
                          of == account'[r]["controlResources"]
                      IN /\ \A q \in PhaseNumbers :
                              /\ ran[r][q].clean /\ ran[r][q].pinned /\ ran[r][q].by = by
                              /\ \A n \in {"log", "lifecycle", "verified"} : files'[r][<<n, q>>] = by
                         /\ files'[r][<<"controlResources", 0>>] = by /\ trx[r] = 1
                         /\ of.listed = of.started /\ of.settled = of.started
    BY DEF ReceiptIsWhole
  <2>1. CASE kind = "receipt" /\ p = 0 /\ r = Root
    <3>1. files'[r][<<"receipt", 0>>] = process
      BY <1>2, <2>1, NamesListed
    <3>2. /\ \A q \in PhaseNumbers : Done(r, q)
          /\ trx[r] = 1 /\ files[r][<<"controlResources", 0>>] = process
          /\ account[r]["controlResources"] = rows
      BY <2>1 DEF Inv, Running, Progress, Closing, At, FileOf
    <3>3. rows.listed = rows.started /\ rows.settled = rows.started
      <4>1. worker = "none" /\ rows \in Accounts
        BY <2>1 DEF Inv, Running, CallTypeOK, At, Calling
      <4> QED BY <4>1 DEF Inv, Running, RowsSettled, Accounts
    <3>4. \A n \in Names : n # <<"receipt", 0>> => files'[r][n] = files[r][n]
      BY <1>2, <2>1
    <3> QED
      BY <2>1, <3>1, <3>2, <3>3, <3>4, NamesListed DEF Done, MineTo
  <2>2. CASE ~(kind = "receipt" /\ p = 0 /\ r = Root)
    <3>1. files'[r][<<"receipt", 0>>] = files[r][<<"receipt", 0>>]
      BY <1>2, <2>2, NamesListed
    <3> DEFINE by == files[r][<<"receipt", 0>>]
               of == account[r]["controlResources"]
    <3>2. /\ by # 0
          /\ \A q \in PhaseNumbers :
              /\ ran[r][q].clean /\ ran[r][q].pinned /\ ran[r][q].by = by
              /\ \A n \in {"log", "lifecycle", "verified"} : files[r][<<n, q>>] = by
          /\ files[r][<<"controlResources", 0>>] = by /\ trx[r] = 1
          /\ of.listed = of.started /\ of.settled = of.started
      BY <1>1, <3>1 DEF ReceiptIsWhole
    <3>3. \A n \in Names : files[r][n] # 0 => files'[r][n] = files[r][n]
      BY <1>2
    <3>4. account'[r]["controlResources"] = of
      BY <1>2, <1>3, <3>2
    <3> QED BY <3>1, <3>2, <3>3, <3>4, NamesListed
  <2> QED BY <2>1, <2>2
<1> QED BY <1>2, <1>4, <1>5, <1>6 DEF Stored

\* A file that is not the receipt leaves NoReceiptYet and the attempt as they are.
LEMMA WriteLeavesReceipt ==
  ASSUME Inv, ~At("idle"), process' = process, NEW name \in Names, name # <<"receipt", 0>>,
         \A r \in Roots, n \in Names :
            files'[r][n] = IF r = Root /\ n = name THEN process ELSE files[r][n]
  PROVE  NoReceiptYet'
BY NamesListed DEF Inv, Running, NoReceiptYet

LEMMA PrepareKeeps == ASSUME Inv, Prepare PROVE Inv'
<1>1. CASE Write("prepared", <<"prepared", 0>>, "account") /\ UNCHANGED account
  <2>1. /\ task.pc = "prepared" /\ ~At("idle") /\ TaskTypeOK /\ task.op = "prepare"
        /\ Written(<<"prepared", 0>>) /\ task' = [task EXCEPT !.pc = "account"]
        /\ UNCHANGED <<code, callVars, worldVars, made, trx, ran, process, account>>
    BY <1>1, TaskKinds DEF Write, Goes, At, Inv, Running, Preparing
  <2>2. /\ Stored'
        /\ \A r \in Roots, n \in Names :
             files'[r][n] = IF r = Root /\ n = <<"prepared", 0>> THEN process ELSE files[r][n]
    BY <2>1, NamesListed, WriteStores DEF Kinds
  <2>3. TaskTypeOK' /\ task'.pc = "account" /\ Root' = Root
    BY <2>1, TaskGoes DEF Preparing
  <2>4. (CallTypeOK /\ RowsSettled)'
    BY <2>1, <2>3 DEF Inv, Running, callVars, CallTypeOK, RowsSettled, Calling
  <2>5. Admitted'
    BY <2>1, <2>3 DEF Inv, Running, worldVars, Admitted, Root, Preparing, InPhase, Closing
  <2>6. Progress'
    BY <2>3 DEF Progress, InPhase, Closing
  <2>7. NoReceiptYet'
    BY <2>1, <2>2, NamesListed, WriteLeavesReceipt
  <2> QED BY <2>2, <2>3, <2>4, <2>5, <2>6, <2>7 DEF Inv, Running
<1>2. CASE WriteAccount("account", "prepareResources", "idle")
  <2>1. /\ ~At("idle") /\ Ends /\ Written(<<"prepareResources", 0>>)
        /\ account' = [account EXCEPT ![Root]["prepareResources"] = rows]
        /\ UNCHANGED <<worldVars, made, trx, ran, process>>
    BY <1>2 DEF WriteAccount, Write, At
  <2>2. Stored'
    BY <2>1, NamesListed, WriteStores DEF Kinds
  <2> QED BY <2>1, <2>2, EndsKeeps
<1> QED BY <1>1, <1>2 DEF Prepare

LEMMA WriteLifecycleKeeps == ASSUME Inv, WriteLifecycle PROVE Inv'
<1>1. /\ task.pc = "lifecycle" /\ ~At("idle") /\ TaskTypeOK /\ task.phase \in PhaseNumbers
      /\ Root \in Roots
      /\ Written(<<"lifecycle", task.phase>>) /\ task' = [task EXCEPT !.pc = "verified"]
      /\ UNCHANGED <<code, callVars, worldVars, made, trx, ran, process, account>>
  BY TaskKinds DEF WriteLifecycle, Write, Goes, At, Inv, Running, InPhase
<1>2. /\ Stored'
      /\ \A r \in Roots, n \in Names :
           files'[r][n] = IF r = Root /\ n = <<"lifecycle", task.phase>> THEN process ELSE files[r][n]
  BY <1>1, NamesListed, WriteStores DEF Kinds
<1>3. TaskTypeOK' /\ task'.pc = "verified" /\ Root' = Root /\ task'.phase = task.phase
  BY <1>1, TaskGoes DEF InPhase, Closing
<1>4. (CallTypeOK /\ RowsSettled)'
  BY <1>1, <1>3 DEF Inv, Running, callVars, CallTypeOK, RowsSettled, Calling
<1>5. Admitted'
  BY <1>1, <1>3 DEF Inv, Running, worldVars, Admitted, Root, Preparing, InPhase, Closing
<1>6. Progress'
  <2>1. /\ \A q \in 1..(task.phase - 1) : Done(Root, q) /\ q \in PhaseNumbers
        /\ MineTo(Root, task.phase) /\ ran[Root][task.phase].clean
    BY <1>1, PhasesAreNumbered DEF Inv, Running, Progress, InPhase, PhaseNumbers
  <2>2. files'[Root][<<"lifecycle", task.phase>>] = process
    BY <1>1, <1>2, NamesListed
  <2>3. \A n \in Names : files[Root][n] = process => files'[Root][n] = process
    BY <1>1, <1>2
  <2>4. \A q \in 1..(task.phase - 1) : Done(Root, q)'
    BY <1>1, <1>3, <2>1, <2>3, NamesListed DEF Done, MineTo
  <2> QED BY <1>1, <1>3, <2>1, <2>2, <2>4 DEF Progress, MineTo, FileOf, Closing
<1>7. NoReceiptYet'
  BY <1>1, <1>2, NamesListed, WriteLeavesReceipt
<1> QED BY <1>2, <1>3, <1>4, <1>5, <1>6, <1>7 DEF Inv, Running

LEMMA WriteVerifiedKeeps == ASSUME Inv, WriteVerified PROVE Inv'
<1>1. /\ task.pc = "verified" /\ ~At("idle") /\ task.pc # "idle" /\ TaskTypeOK
      /\ task.phase \in PhaseNumbers
      /\ Root \in Roots /\ Written(<<"verified", task.phase>>)
      /\ task.op = "run-all" /\ code = "pinned" /\ Root.attempt = attempt
      /\ UNCHANGED <<code, worker, rows, worldVars, made, trx, ran, process, account>>
  BY TaskKinds DEF WriteVerified, At, Inv, Running, Admitted, InPhase
<1>2. /\ Stored'
      /\ \A r \in Roots, n \in Names :
           files'[r][n] = IF r = Root /\ n = <<"verified", task.phase>> THEN process ELSE files[r][n]
  BY <1>1, NamesListed, WriteStores DEF Kinds
<1>3. \A n \in Names : files[Root][n] = process => files'[Root][n] = process
  BY <1>1, <1>2
<1>4. \A q \in 1..task.phase : q \in PhaseNumbers /\ (q # task.phase => Done(Root, q))
  BY <1>1, PhasesAreNumbered DEF Inv, Running, Progress, InPhase, PhaseNumbers
<1>5. \A q \in 1..task.phase :
        /\ MineTo(Root, q) /\ ran[Root][q].clean
        /\ \A n \in {"log", "lifecycle", "verified"} : files'[Root][<<n, q>>] = process
  <2>1. MineTo(Root, task.phase) /\ ran[Root][task.phase].clean
        /\ files[Root][<<"lifecycle", task.phase>>] = process
    BY <1>1 DEF Inv, Running, Progress, FileOf
  <2>2. files[Root][<<"log", task.phase>>] = process
    BY <1>1, <2>1 DEF Inv, Stored, LogIsRun, MineTo
  <2>3. files'[Root][<<"verified", task.phase>>] = process
    BY <1>1, <1>2, NamesListed
  <2>4. \A n \in {"log", "lifecycle", "verified"} : files'[Root][<<n, task.phase>>] = process
    BY <1>1, <1>3, <2>1, <2>2, <2>3, NamesListed
  <2>5. ASSUME NEW q \in 1..task.phase, q # task.phase
        PROVE  /\ MineTo(Root, q) /\ ran[Root][q].clean
               /\ \A n \in {"log", "lifecycle", "verified"} : files'[Root][<<n, q>>] = process
    <3>1. Done(Root, q) /\ q \in PhaseNumbers
      BY <1>4, <2>5
    <3>2. \A n \in {"log", "lifecycle", "verified"} :
            <<n, q>> \in Names /\ files[Root][<<n, q>>] = process
      BY <3>1, NamesListed DEF Done
    <3>3. \A n \in {"log", "lifecycle", "verified"} : files'[Root][<<n, q>>] = process
      BY <1>3, <3>2
    <3>4. MineTo(Root, q) /\ ran[Root][q].clean
      BY <3>1 DEF Done
    <3> QED BY <3>3, <3>4
  <2>6. ASSUME NEW q \in 1..task.phase, q = task.phase
        PROVE  /\ MineTo(Root, q) /\ ran[Root][q].clean
               /\ \A n \in {"log", "lifecycle", "verified"} : files'[Root][<<n, q>>] = process
    BY <2>1, <2>4, <2>6
  <2> QED BY <2>5, <2>6
<1>6. NoReceiptYet'
  BY <1>1, <1>2, NamesListed, WriteLeavesReceipt
<1>7. RowsSettled' /\ worker' = "none" /\ rows' \in Accounts
  BY <1>1 DEF Inv, Running, CallTypeOK, RowsSettled, Calling
<1>8. CASE task.phase = Len(Phases)
  <2>1. task' = [task EXCEPT !.pc = "trx"] /\ UNCHANGED left
    BY <1>8 DEF WriteVerified
  <2>2. TaskTypeOK' /\ task'.pc = "trx" /\ Root' = Root
    BY <1>1, <2>1, TaskGoes DEF InPhase, Closing
  <2>3. CallTypeOK'
    BY <1>1, <1>7, <2>1, <2>2 DEF Inv, Running, CallTypeOK
  <2>4. Admitted'
    BY <1>1, <2>2 DEF Admitted, worldVars, Root, Preparing, InPhase, Closing
  <2>5. Progress'
    BY <1>1, <1>5, <1>8, <2>2 DEF Progress, InPhase, Closing, Done, MineTo, PhaseNumbers
  <2> QED BY <1>2, <1>6, <1>7, <2>2, <2>3, <2>4, <2>5 DEF Inv, Running
<1>9. CASE task.phase # Len(Phases)
  <2> DEFINE next == task.phase + 1
             t == [pc |-> "phaseAuth", op |-> "run-all", root |-> Root, phase |-> next]
  <2>1. task' = [task EXCEPT !.pc = "phaseAuth", !.phase = next] /\ left' = Files
    BY <1>9 DEF WriteVerified
  <2>2. next \in PhaseNumbers /\ next \in Nat
    BY <1>1, <1>9, PhasesAreNumbered DEF PhaseNumbers
  <2> HIDE DEF next
  <2>3. /\ task \in [pc : {"verified"}, op : {"run-all"}, root : Roots, phase : PhaseNumbers]
        /\ Root = task.root
    BY <1>1, TaskKinds DEF Root
  <2>4. task' = t
    BY <2>1, <2>3
  <2>5. /\ t.pc = "phaseAuth" /\ t.root = Root /\ t.phase = next
        /\ t \in [pc : InPhase \cup Closing, op : {"run-all"}, root : Roots,
                  phase : PhaseNumbers]
    BY <1>1, <2>2 DEF InPhase
  <2> HIDE DEF t
  <2>6. TaskTypeOK' /\ Root' = Root /\ task'.pc = "phaseAuth" /\ task'.phase = next
    BY <1>1, <2>4, <2>5, TaskKinds DEF TaskTypeOK, Root
  <2>a. task.phase \in Nat
    BY <1>1, PhasesAreNumbered
  <2>b. next - 1 = task.phase
    BY <2>a DEF next
  <2>7. 1..(next - 1) = 1..task.phase
    BY <2>b
  <2>8. \A q \in 1..(task'.phase - 1) : Done(Root, q)'
    BY <1>1, <1>5, <2>6, <2>7 DEF Done, MineTo
  <2> QED
    BY <1>1, <1>2, <1>6, <1>7, <2>1, <2>6, <2>8, ReachesPhase DEF worldVars
<1> QED BY <1>8, <1>9

LEMMA FinishKeeps == ASSUME Inv, Finish PROVE Inv'
<1>1. CASE WriteAccount("resources", "controlResources", "receipt")
  <2>1. /\ task.pc = "resources" /\ ~At("idle") /\ TaskTypeOK /\ Root \in Roots
        /\ Written(<<"controlResources", 0>>) /\ task' = [task EXCEPT !.pc = "receipt"]
        /\ account' = [account EXCEPT ![Root]["controlResources"] = rows]
        /\ UNCHANGED <<code, callVars, worldVars, made, trx, ran, process>>
    BY <1>1, TaskKinds DEF WriteAccount, Write, Goes, At, Inv, Running
  <2>2. /\ Stored'
        /\ \A r \in Roots, n \in Names :
             files'[r][n] = IF r = Root /\ n = <<"controlResources", 0>> THEN process ELSE files[r][n]
    BY <2>1, NamesListed, WriteStores DEF Kinds
  <2>3. TaskTypeOK' /\ task'.pc = "receipt" /\ Root' = Root
    BY <2>1, TaskGoes DEF InPhase, Closing
  <2>4. (CallTypeOK /\ RowsSettled)'
    BY <2>1, <2>3 DEF Inv, Running, callVars, CallTypeOK, RowsSettled, Calling
  <2>5. Admitted'
    BY <2>1, <2>3 DEF Inv, Running, worldVars, Admitted, Root, Preparing, InPhase, Closing
  <2>6. Progress'
    <3>1. /\ \A q \in PhaseNumbers : Done(Root, q)
          /\ trx[Root] = 1
      BY <2>1 DEF Inv, Running, Progress, Closing
    <3>2. \A n \in Names : files[Root][n] = process => files'[Root][n] = process
      BY <2>1, <2>2
    <3>3. \A q \in PhaseNumbers : Done(Root, q)'
      BY <2>1, <2>3, <3>1, <3>2, NamesListed DEF Done, MineTo
    <3>4. files'[Root][<<"controlResources", 0>>] = process
      BY <2>1, <2>2, NamesListed
    <3>5. account'[Root]["controlResources"] = rows
      <4>1. account \in [Roots -> [{"prepareResources", "controlResources"} -> Accounts]]
        BY DEF Inv, Stored, StoreTypeOK
      <4> QED BY <2>1, <4>1
    <3> QED
      BY <2>1, <2>3, <3>1, <3>3, <3>4, <3>5 DEF Progress, InPhase, Closing, FileOf, callVars
  <2>7. NoReceiptYet'
    BY <2>1, <2>2, NamesListed, WriteLeavesReceipt
  <2> QED BY <2>2, <2>3, <2>4, <2>5, <2>6, <2>7 DEF Inv, Running
<1>2. CASE Write("receipt", <<"receipt", 0>>, "idle") /\ UNCHANGED account
  <2>1. /\ At("receipt") /\ ~At("idle") /\ Ends /\ Written(<<"receipt", 0>>)
        /\ UNCHANGED <<worldVars, made, trx, ran, process, account>>
    BY <1>2 DEF Write, At
  <2>2. Stored'
    BY <2>1, NamesListed, WriteStores DEF Kinds
  <2> QED BY <2>1, <2>2, EndsKeeps
<1> QED BY <1>1, <1>2 DEF Finish
-----------------------------------------------------------------------------
\* One native run changes, the others are as they are.
LEMMA RanEntry ==
  ASSUME StoreTypeOK, NEW r0 \in Roots, NEW p0 \in PhaseNumbers, NEW x \in Runs,
         ran' = [ran EXCEPT ![r0][p0] = x]
  PROVE  /\ ran' \in [Roots -> [PhaseNumbers -> Runs]]
         /\ \A r \in Roots, p \in PhaseNumbers :
              ran'[r][p] = IF r = r0 /\ p = p0 THEN x ELSE ran[r][p]
<1> DEFINE row == [ran[r0] EXCEPT ![p0] = x]
<1>1. ran \in [Roots -> [PhaseNumbers -> Runs]]
  BY DEF StoreTypeOK
<1>2. /\ row \in [PhaseNumbers -> Runs]
      /\ \A p \in PhaseNumbers : row[p] = IF p = p0 THEN x ELSE ran[r0][p]
  BY <1>1
<1>3. ran' = [ran EXCEPT ![r0] = row]
  OBVIOUS
<1> HIDE DEF row
<1>4. /\ ran' \in [Roots -> [PhaseNumbers -> Runs]]
      /\ \A r \in Roots : ran'[r] = IF r = r0 THEN row ELSE ran[r]
  BY <1>1, <1>2, <1>3
<1> QED BY <1>2, <1>4

\* A root that has its receipt keeps it when a step touches only another root.
LEMMA OtherRootWhole ==
  ASSUME ReceiptIsWhole, NEW r \in Roots, files'[r][<<"receipt", 0>>] # 0,
         UNCHANGED <<files[r], trx[r], ran[r], account[r]>>
  PROVE  LET by == files'[r][<<"receipt", 0>>]
             of == account'[r]["controlResources"]
         IN /\ \A p \in PhaseNumbers :
                 /\ ran'[r][p].clean /\ ran'[r][p].pinned /\ ran'[r][p].by = by
                 /\ \A n \in {"log", "lifecycle", "verified"} : files'[r][<<n, p>>] = by
            /\ files'[r][<<"controlResources", 0>>] = by /\ trx'[r] = 1
            /\ of.listed = of.started /\ of.settled = of.started
BY DEF ReceiptIsWhole

LEMMA StageBeginsKeeps == ASSUME Inv, StageBegins PROVE Inv'
<1> DEFINE p == task.phase
           x == [times |-> 1, by |-> process, clean |-> FALSE, pinned |-> TRUE]
<1>1. /\ task.pc = "stage" /\ ~At("idle") /\ task.pc # "idle" /\ TaskTypeOK /\ StoreTypeOK
      /\ p \in PhaseNumbers /\ Root \in Roots /\ process > 0 /\ process \in 0..process
      /\ code = "pinned" /\ Written(<<"log", p>>) /\ task' = [task EXCEPT !.pc = "running"]
      /\ UNCHANGED <<attempt, altered, made, trx, account, process, code, callVars>>
  BY TaskKinds, CustodyAssumption
     DEF StageBegins, Begin, Goes, At, Inv, Stored, Running, Admitted, InPhase, StoreTypeOK
<1>2. /\ files[Root][<<"log", p>>] = 0
      /\ \A r \in Roots, n \in Names :
           files'[r][n] = IF r = Root /\ n = <<"log", p>> THEN process ELSE files[r][n]
      /\ files' \in [Roots -> [Names -> 0..process]]
  BY <1>1, NamesListed, WrittenEntry
<1>3. ran[Root][p].by = 0 /\ ran[Root][p].times = 0
  BY <1>1, <1>2 DEF Inv, Stored, LogIsRun
<1>4. x \in Runs /\ ran' = [ran EXCEPT ![Root][p] = x]
  <2>1. x \in Runs
    BY <1>1 DEF Runs
  <2>2. ran' = [ran EXCEPT ![Root][p] = [times |-> ran[Root][p].times + 1, by |-> process,
                                         clean |-> FALSE, pinned |-> code = "pinned"]]
    BY DEF StageBegins, Begin
  <2>3. ran[Root][p].times + 1 = 1
    BY <1>3
  <2>4. (code = "pinned") = TRUE
    BY <1>1
  <2> QED BY <2>1, <2>2, <2>3, <2>4
<1>5. x.times = 1 /\ x.by = process /\ x.pinned
  OBVIOUS
<1> HIDE DEF x
<1>6. /\ ran' \in [Roots -> [PhaseNumbers -> Runs]]
      /\ \A r \in Roots, q \in PhaseNumbers :
           ran'[r][q] = IF r = Root /\ q = p THEN x ELSE ran[r][q]
  BY <1>1, <1>4, RanEntry
<1>7. StoreTypeOK'
  <2>1. native' \in Natives
    BY <1>1 DEF StoreTypeOK, Natives, StageBegins, Begin, Stage!Begin
  <2> QED BY <1>1, <1>2, <1>6, <2>1 DEF StoreTypeOK, Runs
<1>8. LogIsRun'
  <2>1. ASSUME NEW r \in Roots, NEW q \in PhaseNumbers
        PROVE  /\ files'[r][<<"log", q>>] = ran'[r][q].by
               /\ ran'[r][q].times = (IF ran'[r][q].by = 0 THEN 0 ELSE 1)
    <3>1. CASE r = Root /\ q = p
      BY <1>1, <1>2, <1>5, <1>6, <3>1, NamesListed
    <3>2. CASE ~(r = Root /\ q = p)
      BY <1>2, <1>6, <3>2, NamesListed DEF Inv, Stored, LogIsRun
    <3> QED BY <3>1, <3>2
  <2> QED BY <2>1 DEF LogIsRun
<1>9. ReceiptIsWhole'
  <2>1. ASSUME NEW r \in Roots, files'[r][<<"receipt", 0>>] # 0
        PROVE  UNCHANGED <<files[r], trx[r], ran[r], account[r]>>
    <3>1. files[r][<<"receipt", 0>>] # 0
      BY <1>2, <2>1, NamesListed
    <3>2. files[r][<<"log", p>>] # 0
      BY <1>1, <3>1 DEF Inv, Stored, ReceiptIsWhole
    <3>3. r # Root
      BY <1>2, <3>2
    <3>4. files'[r] = files[r]
      BY <1>1, <3>3 DEF Written, StoreTypeOK
    <3>5. ran'[r] = ran[r]
      BY <1>1, <1>4, <3>3 DEF StoreTypeOK
    <3> QED BY <1>1, <3>4, <3>5
  <2> QED BY <2>1, OtherRootWhole DEF Inv, Stored, ReceiptIsWhole
<1>10. TaskTypeOK' /\ task'.pc = "running" /\ Root' = Root /\ task'.phase = p
  BY <1>1, TaskGoes DEF InPhase, Closing
<1>11. (CallTypeOK /\ RowsSettled)'
  BY <1>1, <1>10 DEF Inv, Running, callVars, CallTypeOK, RowsSettled, Calling
<1>12. Admitted'
  BY <1>1, <1>10 DEF Inv, Running, Admitted, Root, Preparing, InPhase, Closing
<1>13. Progress'
  <2>1. \A q \in 1..(p - 1) : q \in PhaseNumbers /\ q # p /\ Done(Root, q)
    BY <1>1, PhasesAreNumbered DEF Inv, Running, Progress, InPhase, PhaseNumbers
  <2>2. ASSUME NEW q \in 1..(p - 1)
        PROVE  Done(Root, q)'
    <3>1. ran'[Root][q] = ran[Root][q]
      BY <1>1, <1>6, <2>1
    <3>2. \A n \in {"log", "lifecycle", "verified"} : files'[Root][<<n, q>>] = files[Root][<<n, q>>]
      BY <1>1, <1>2, <2>1, NamesListed
    <3> QED BY <1>1, <1>10, <2>1, <3>1, <3>2 DEF Done, MineTo
  <2>3. ran'[Root][p].by = process /\ ran'[Root][p].pinned
    BY <1>1, <1>5, <1>6
  <2> QED BY <1>1, <1>10, <2>2, <2>3 DEF Progress, MineTo, Closing
<1>14. NoReceiptYet'
  BY <1>1, <1>2, NamesListed, WriteLeavesReceipt
<1> QED
  BY <1>7, <1>8, <1>9, <1>10, <1>11, <1>12, <1>13, <1>14 DEF Inv, Stored, Running

LEMMA LeavesTrxType ==
  ASSUME StoreTypeOK, LeavesTrx
  PROVE  trx' \in [Roots -> 0..2] /\ \A r \in Roots \ {Root} : trx'[r] = trx[r]
<1>1. trx' = trx \/ \E n \in 0..2 : trx' = [trx EXCEPT ![Root] = n]
  BY DEF LeavesTrx
<1> QED BY <1>1 DEF StoreTypeOK

\* While a stage runs, the root it runs in has no receipt.
LEMMA StageRootOpen ==
  ASSUME Inv, At("running")
  PROVE  /\ task.phase \in PhaseNumbers /\ Root \in Roots /\ TaskTypeOK /\ StoreTypeOK
         /\ MineTo(Root, task.phase)
         /\ files[Root][<<"receipt", 0>>] = 0
<1>1. /\ task.phase \in PhaseNumbers /\ Root \in Roots /\ TaskTypeOK /\ StoreTypeOK
      /\ MineTo(Root, task.phase)
  BY TaskKinds DEF Inv, Stored, Running, Progress, At, InPhase
<1>2. files[Root][<<"receipt", 0>>] # process
  BY <1>1 DEF Inv, Running, NoReceiptYet, At
<1> QED BY <1>1, <1>2 DEF Inv, Stored, ReceiptIsWhole, MineTo

LEMMA CleanRun ==
  ASSUME NEW run \in Runs, NEW x, x = [run EXCEPT !.clean = TRUE]
  PROVE  /\ x \in Runs
         /\ x.times = run.times /\ x.by = run.by /\ x.clean /\ x.pinned = run.pinned
<1>1. x.times = run.times /\ x.by = run.by
  BY DEF Runs
<1>2. x.clean = TRUE
  BY DEF Runs
<1>3. x.pinned = run.pinned
  BY DEF Runs
<1>4. x \in Runs
  BY DEF Runs
<1> QED BY <1>1, <1>2, <1>3, <1>4

LEMMA StagePassesKeeps == ASSUME Inv, StagePasses PROVE Inv'
<1> DEFINE p == task.phase
           old == ran[Root][p]
           x == [old EXCEPT !.clean = TRUE]
<1>1. /\ task.pc = "running" /\ ~At("idle") /\ task.pc # "idle" /\ TaskTypeOK /\ StoreTypeOK
      /\ p \in PhaseNumbers /\ Root \in Roots /\ MineTo(Root, p)
      /\ files[Root][<<"receipt", 0>>] = 0
      /\ task' = [task EXCEPT !.pc = "lifecycle"] /\ native' = "absent" /\ LeavesTrx
      /\ UNCHANGED <<attempt, altered, made, files, account, process, code, callVars>>
  BY StageRootOpen DEF StagePasses, Goes, At, Stage!Return
<1>2. trx' \in [Roots -> 0..2] /\ \A r \in Roots \ {Root} : trx'[r] = trx[r]
  BY <1>1, LeavesTrxType
<1>3. x \in Runs /\ ran' = [ran EXCEPT ![Root][p] = x]
      /\ x.times = old.times /\ x.by = old.by /\ x.clean /\ x.pinned = old.pinned
  <2>1. old \in Runs
    BY <1>1 DEF StoreTypeOK
  <2>2. ran' = [ran EXCEPT ![Root][p] = x]
    BY DEF StagePasses
  <2> QED BY <2>1, <2>2, CleanRun
<1> HIDE DEF x
<1>5. /\ ran' \in [Roots -> [PhaseNumbers -> Runs]]
      /\ \A r \in Roots, q \in PhaseNumbers :
           ran'[r][q] = IF r = Root /\ q = p THEN x ELSE ran[r][q]
  BY <1>1, <1>3, RanEntry
<1>6. StoreTypeOK'
  BY <1>1, <1>2, <1>5 DEF StoreTypeOK, Natives, Runs
<1>7. LogIsRun'
  <2>1. ASSUME NEW r \in Roots, NEW q \in PhaseNumbers
        PROVE  ran'[r][q].times = ran[r][q].times /\ ran'[r][q].by = ran[r][q].by
    <3>1. CASE r = Root /\ q = p
      <4>1. ran'[r][q] = x
        BY <1>1, <1>5, <3>1
      <4>2. ran[r][q] = old
        BY <3>1
      <4> HIDE DEF old
      <4> QED BY <1>3, <4>1, <4>2
    <3>2. CASE ~(r = Root /\ q = p)
      BY <1>5, <3>2
    <3> QED BY <3>1, <3>2
  <2>2. \A r \in Roots, q \in PhaseNumbers : files'[r][<<"log", q>>] = files[r][<<"log", q>>]
    BY <1>1
  <2>3. LogIsRun
    BY DEF Inv, Stored
  <2>4. ASSUME NEW r \in Roots, NEW q \in PhaseNumbers
        PROVE  /\ files'[r][<<"log", q>>] = ran'[r][q].by
               /\ ran'[r][q].times = (IF ran'[r][q].by = 0 THEN 0 ELSE 1)
    <3>1. /\ files[r][<<"log", q>>] = ran[r][q].by
          /\ ran[r][q].times = (IF ran[r][q].by = 0 THEN 0 ELSE 1)
      BY <2>3 DEF LogIsRun
    <3>2. /\ files'[r][<<"log", q>>] = files[r][<<"log", q>>]
          /\ ran'[r][q].times = ran[r][q].times /\ ran'[r][q].by = ran[r][q].by
      BY <2>1, <2>2
    <3> QED BY <3>1, <3>2
  <2> QED BY <2>4 DEF LogIsRun
<1>8. ReceiptIsWhole'
  <2>1. ASSUME NEW r \in Roots, files'[r][<<"receipt", 0>>] # 0
        PROVE  UNCHANGED <<files[r], trx[r], ran[r], account[r]>>
    <3>1. r # Root
      BY <1>1, <2>1
    <3>2. ran'[r] = ran[r]
      BY <1>1, <1>3, <3>1 DEF StoreTypeOK
    <3> QED BY <1>1, <1>2, <3>1, <3>2
  <2> QED BY <2>1, OtherRootWhole DEF Inv, Stored, ReceiptIsWhole
<1>9. TaskTypeOK' /\ task'.pc = "lifecycle" /\ Root' = Root /\ task'.phase = p
  BY <1>1, TaskGoes DEF InPhase, Closing
<1>10. (CallTypeOK /\ RowsSettled)'
  BY <1>1, <1>9 DEF Inv, Running, callVars, CallTypeOK, RowsSettled, Calling
<1>11. Admitted'
  BY <1>1, <1>9 DEF Inv, Running, Admitted, Root, Preparing, InPhase, Closing
<1>12. Progress'
  <2>1. \A q \in 1..(p - 1) : q \in PhaseNumbers /\ q # p /\ Done(Root, q)
    BY <1>1, PhasesAreNumbered DEF Inv, Running, Progress, InPhase, PhaseNumbers
  <2>2. ASSUME NEW q \in 1..(p - 1)
        PROVE  Done(Root, q)'
    <3>1. ran'[Root][q] = ran[Root][q]
      BY <1>1, <1>5, <2>1
    <3> QED BY <1>1, <1>9, <2>1, <3>1 DEF Done, MineTo
  <2>3. ran'[Root][p] = x
    BY <1>1, <1>5
  <2>4. ran'[Root][p].by = process /\ ran'[Root][p].pinned /\ ran'[Root][p].clean
    BY <1>1, <1>3, <2>3 DEF MineTo
  <2> QED BY <1>1, <1>9, <2>2, <2>4 DEF Progress, MineTo, Closing
<1>13. NoReceiptYet'
  BY <1>1 DEF Inv, Running, NoReceiptYet
<1> QED
  BY <1>6, <1>7, <1>8, <1>9, <1>10, <1>11, <1>12, <1>13 DEF Inv, Stored, Running

LEMMA StageFailsKeeps == ASSUME Inv, StageFails PROVE Inv'
<1>1. /\ Root \in Roots /\ StoreTypeOK /\ files[Root][<<"receipt", 0>>] = 0
      /\ Ends /\ LeavesTrx /\ native' \in Natives
      /\ UNCHANGED <<attempt, altered, made, files, ran, account, process>>
  BY StageRootOpen DEF StageFails, Stage!Raise, StoreTypeOK, Natives
<1>2. trx' \in [Roots -> 0..2] /\ \A r \in Roots \ {Root} : trx'[r] = trx[r]
  BY <1>1, LeavesTrxType
<1>3. StoreTypeOK'
  BY <1>1, <1>2 DEF StoreTypeOK, Runs
<1>4. LogIsRun'
  BY <1>1 DEF Inv, Stored, LogIsRun
<1>5. ReceiptIsWhole'
  BY <1>1, <1>2 DEF Inv, Stored, ReceiptIsWhole
<1> QED BY <1>1, <1>3, <1>4, <1>5, EndsKeeps DEF Stored

LEMMA StutterKeeps == ASSUME Inv, UNCHANGED vars PROVE Inv'
<1>1. /\ UNCHANGED <<rootVars, process, attempt, altered, native, task, code, callVars>>
  BY DEF vars, worldVars
<1>2. (CallTypeOK /\ RowsSettled)'
  BY <1>1 DEF Inv, Running, callVars, CallTypeOK, RowsSettled
<1> QED
  BY <1>1, <1>2, TaskSame DEF callVars, Inv, Stored, StoreTypeOK

LEMMA KeepsNoGate ==
  ASSUME NoGateLeft, task.pc \notin {"idle", "running"}, native' = native
  PROVE  NoGateLeft'
BY DEF NoGateLeft, At

LEMMA NextNoGate == ASSUME Inv, NoGateLeft, [Next]_vars PROVE NoGateLeft'
<1> USE DEF NoGateLeft, At
<1>1. CASE MetadataCall
  <2>1. task.pc \in Calling
    BY <1>1 DEF MetadataCall, Spawn, Return, ReturnWhen, Leave, LeaveWhen, Inv, Running, CallTypeOK
  <2> QED
    BY <1>1, <2>1, KeepsNoGate
       DEF MetadataCall, Spawn, Return, ReturnWhen, Leave, LeaveWhen, worldVars, Calling
<1>2. CASE LoadModules \/ Release \/ Create \/ Prepare \/ Admit
  BY <1>2, KeepsNoGate DEF LoadModules, Release, Create, Prepare, WriteAccount, Write, Admit,
                           Goes, worldVars
<1>3. CASE StageBegins \/ StagePasses \/ StageFails
  BY <1>3, KeepsNoGate DEF StageBegins, Begin, StagePasses, StageFails, Goes, Ends, Idle,
                           Stage!Begin, Stage!Return, Stage!Raise
<1>4. CASE WriteLifecycle \/ WriteVerified \/ DiscoverTrx \/ Finish
  BY <1>4, KeepsNoGate DEF WriteLifecycle, WriteVerified, DiscoverTrx, Finish, WriteAccount,
                           Write, Goes, worldVars
<1>5. CASE Raise
  BY <1>5, KeepsNoGate DEF Raise, worldVars
<1>6. CASE Killed
  BY <1>6, KeepsNoGate DEF Killed, Ends, Idle, Stage!Raise
<1>7. CASE Start
  BY <1>7 DEF Start, worldVars
<1>8. CASE NewAttempt \/ WorkerRuns \/ Alter
  BY <1>8 DEF NewAttempt, WorkerRuns, Alter, worldVars
<1>9. CASE StageActs
  BY <1>9, NativeMoves DEF StageActs, Outcome
<1>10. CASE UNCHANGED vars
  BY <1>10 DEF vars, worldVars
<1> QED
  BY <1>1, <1>2, <1>3, <1>4, <1>5, <1>6, <1>7, <1>8, <1>9, <1>10 DEF Next, Step, World

LEMMA NextInv == Inv /\ NoGateLeft /\ [Next]_vars => Inv'
<1> SUFFICES ASSUME Inv, NoGateLeft, [Next]_vars PROVE Inv'
  OBVIOUS
<1>1. CASE MetadataCall
  BY <1>1, SpawnKeeps, ReturnKeeps, StopKeeps DEF MetadataCall
<1>2. CASE LoadModules \/ Release \/ Create \/ Prepare \/ Admit
  BY <1>2, LoadModulesKeeps, ReleaseKeeps, CreateKeeps, PrepareKeeps, AdmitKeeps
<1>3. CASE StageBegins \/ StagePasses \/ StageFails
  BY <1>3, StageBeginsKeeps, StagePassesKeeps, StageFailsKeeps
<1>4. CASE WriteLifecycle \/ WriteVerified \/ DiscoverTrx \/ Finish
  BY <1>4, WriteLifecycleKeeps, WriteVerifiedKeeps, DiscoverTrxKeeps, FinishKeeps
<1>5. CASE Raise \/ Killed
  BY <1>5, StopKeeps
<1>6. CASE Start
  BY <1>6, StartKeeps
<1>7. CASE World
  BY <1>7, WorldKeeps, WorkerRunsKeeps DEF World
<1>8. CASE UNCHANGED vars
  BY <1>8, StutterKeeps
<1> QED
  BY <1>1, <1>2, <1>3, <1>4, <1>5, <1>6, <1>7, <1>8 DEF Next, Step

THEOREM Invariance == Spec => [](Inv /\ NoGateLeft)
<1>1. Init => NoGateLeft
  BY DEF Init, NoGateLeft
<1> QED BY <1>1, InitInv, NextInv, NextNoGate, PTL DEF Spec

(* What is stored, where an invocation is and the account of its workers    *)
(* keep their types.                                                        *)
THEOREM TypeCorrect == Spec => [](StoreTypeOK /\ TaskTypeOK /\ CallTypeOK)
<1>1. Inv => StoreTypeOK /\ TaskTypeOK /\ CallTypeOK
  BY DEF Inv, Stored, Running
<1> QED BY <1>1, Invariance, PTL

(* A receipt in a root stands for every phase, run to a clean end by the    *)
(* pinned producer within the one invocation that wrote the receipt, and    *)
(* for a complete account of its metadata workers, however often run-all    *)
(* was killed and invoked again.                                            *)
THEOREM ReceiptStandsForAll == Spec => []ReceiptIsWhole
<1>1. Inv => ReceiptIsWhole
  BY DEF Inv, Stored
<1> QED BY <1>1, Invariance, PTL

\* Only write_exclusive puts anything into a root, in the attempt of the root.
LEMMA WritesInAttempt ==
  ASSUME Inv, [Next]_vars, NEW r \in Roots, files'[r] # files[r]
  PROVE  r.attempt = attempt
<1>1. /\ task.pc \in {"prepared", "account"} \cup InPhase \cup Closing
      /\ \E name : files' = [files EXCEPT ![Root][name] = process]
  <2>1. CASE Prepare
    BY <2>1 DEF Prepare, WriteAccount, Write, Written, At
  <2>2. CASE StageBegins
    BY <2>2 DEF StageBegins, Begin, Goes, Written, At, InPhase
  <2>3. CASE WriteLifecycle
    BY <2>3 DEF WriteLifecycle, Write, Written, At, InPhase
  <2>4. CASE WriteVerified
    BY <2>4 DEF WriteVerified, Written, At, InPhase
  <2>5. CASE Finish
    BY <2>5 DEF Finish, WriteAccount, Write, Written, At, Closing
  <2>6. CASE UNCHANGED files
    BY <2>6
  <2>7. MetadataCall \/ LoadModules \/ Release \/ Admit \/ DiscoverTrx \/ Raise \/ Killed
        \/ Start \/ World => UNCHANGED files
    BY DEF MetadataCall, Spawn, Return, ReturnWhen, Leave, LeaveWhen, LoadModules, Release, Admit,
           DiscoverTrx, Raise, Killed, Start, World, NewAttempt, WorkerRuns, Alter, StageActs,
           rootVars
  <2>8. Create \/ StagePasses \/ StageFails \/ UNCHANGED vars => UNCHANGED files
    BY DEF Create, StagePasses, StageFails, vars, rootVars
  <2> QED
    BY <2>1, <2>2, <2>3, <2>4, <2>5, <2>6, <2>7, <2>8 DEF Next, Step
<1>2. r = Root
  BY <1>1 DEF Inv, Stored, StoreTypeOK
<1> QED BY <1>1, <1>2 DEF Inv, Running, Admitted

LEMMA OnlyStageBegins ==
  ASSUME Inv, [Next]_vars, NEW r \in Roots, NEW p \in PhaseNumbers, Begins(r, p)
  PROVE  StageBegins /\ r = Root /\ p = task.phase
<1>0. ran \in [Roots -> [PhaseNumbers -> Runs]] /\ ran[r][p].times \in Nat
  <2>1. ran \in [Roots -> [PhaseNumbers -> Runs]]
    BY DEF Inv, Stored, StoreTypeOK
  <2>2. ran[r][p].times \in {0, 1}
    BY <2>1 DEF Runs
  <2> QED BY <2>1, <2>2
<1>1. ~UNCHANGED ran
  BY <1>0 DEF Begins
<1>2. StageBegins \/ StagePasses
  <2>1. MetadataCall \/ LoadModules \/ Release \/ Admit \/ DiscoverTrx \/ Raise \/ Killed
        \/ Start \/ World => UNCHANGED ran
    BY DEF MetadataCall, Spawn, Return, ReturnWhen, Leave, LeaveWhen, LoadModules, Release, Admit,
           DiscoverTrx, Raise, Killed, Start, World, NewAttempt, WorkerRuns, Alter, StageActs,
           rootVars
  <2>2. Create \/ StageFails \/ UNCHANGED vars => UNCHANGED ran
    BY DEF Create, StageFails, vars, rootVars
  <2>3. Prepare \/ WriteLifecycle \/ WriteVerified \/ Finish => UNCHANGED ran
    BY DEF Prepare, WriteLifecycle, WriteVerified, Finish, WriteAccount, Write
  <2> QED BY <1>1, <2>1, <2>2, <2>3 DEF Next, Step
<1>3. ASSUME StagePasses PROVE FALSE
  <2>1. ran' = [ran EXCEPT ![Root][task.phase] = [ran[Root][task.phase] EXCEPT !.clean = TRUE]]
    BY <1>3 DEF StagePasses
  <2>2. Root \in Roots /\ task.phase \in PhaseNumbers
    BY <1>3, StageRootOpen DEF StagePasses, Goes
  <2>3. ran'[r][p].times = ran[r][p].times
    BY <1>0, <2>1, <2>2 DEF Runs
  <2> QED BY <1>0, <2>3 DEF Begins
<1>4. StageBegins
  BY <1>2, <1>3
<1>5. ran'[r][p] # ran[r][p]
  BY <1>0 DEF Begins
<1>6. ran' = [ran EXCEPT ![Root] = [ran[Root] EXCEPT ![task.phase] = ran'[Root][task.phase]]]
  BY <1>0, <1>4 DEF StageBegins, Begin
<1> QED BY <1>0, <1>4, <1>5, <1>6

(* A process writes only into roots of the attempt it runs in; a phase runs *)
(* natively once in a root, after a clean end of those before it and never  *)
(* beside the SDK of another stage, running or about to, of any invocation. *)
THEOREM PhaseStartsOnceAlone == Spec => StartsOnceAlone
<1>1. ASSUME Inv, [Next]_vars, NEW r \in Roots, NEW p \in PhaseNumbers, Begins(r, p)
      PROVE  /\ ran[r][p].times = 0 /\ native \notin {"released", "runs"}
             /\ \A q \in 1..(p - 1) : ran[r][q].clean
  <2>1. StageBegins /\ r = Root /\ p = task.phase
    BY <1>1, OnlyStageBegins
  <2>2. files[r][<<"log", p>>] = 0 /\ task.pc = "stage"
    BY <2>1 DEF StageBegins, Begin, Goes, At, Written, FileOf
  <2>3. ran[r][p].times = 0
    BY <1>1, <2>2 DEF Inv, Stored, LogIsRun
  <2>4. native \notin {"released", "runs"}
    BY <1>1, <2>2 DEF Inv, Running, Admitted
  <2>5. \A q \in 1..(p - 1) : Done(r, q)
    BY <1>1, <2>1, <2>2 DEF Inv, Running, Progress, InPhase
  <2> QED BY <2>3, <2>4, <2>5 DEF Done
<1>2. Inv /\ [Next]_vars =>
        \A r \in Roots :
          /\ files'[r] # files[r] => r.attempt = attempt
          /\ \A p \in PhaseNumbers : Begins(r, p) =>
               /\ ran[r][p].times = 0 /\ native \notin {"released", "runs"}
               /\ \A q \in 1..(p - 1) : ran[r][q].clean
  BY <1>1, WritesInAttempt
<1>3. Inv /\ [Next]_vars =>
        [\A r \in Roots :
          /\ files'[r] # files[r] => r.attempt = attempt
          /\ \A p \in PhaseNumbers : Begins(r, p) =>
               /\ ran[r][p].times = 0 /\ native \notin {"released", "runs"}
               /\ \A q \in 1..(p - 1) : ran[r][q].clean]_vars
  BY <1>2
<1> QED BY <1>3, Invariance, PTL DEF Spec, StartsOnceAlone
=============================================================================
