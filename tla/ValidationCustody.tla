-------------------------- MODULE ValidationCustody --------------------------
(***************************************************************************)
(* normal_validation_custody.py behind the inline wrapper of               *)
(* actions/dotnet-validate/action.yml: `prepare' creates the result root   *)
(* of a validation and `run-all' runs the stages in it.  An invocation is  *)
(* one process; several may follow one another in a workspace, of one      *)
(* attempt of the job or of a later one.  The stages are NativeStages,     *)
(* which OwnedStage implements: a stage returns after a clean end, or      *)
(* raises and may leave native processes that end by themselves.  main()   *)
(* is closed behind RELEASED_LIFECYCLE, False in this commit; the constant *)
(* `Released' opens it.                                                    *)
(*                                                                         *)
(* Every check, budgets included, may refuse, every call may fail and a    *)
(* cancellation may arrive anywhere: all three raise.  Guards are kept     *)
(* where the state decides them.                                           *)
(*                                                                         *)
(* Definitions named <Definition>_<slip> are the definition they precede   *)
(* with a plausible slip in it; nothing uses them.                         *)
(***************************************************************************)
EXTENDS Naturals, Sequences

CONSTANTS Phases,       \* PHASES, in their order
          Files,        \* FILES: the producer's sources
          Roots,        \* result roots a request may name, each of one attempt
          MaxAttempt,   \* bound: attempts of the job
          MaxProcesses, \* bound: invocations
          Released      \* RELEASED_LIFECYCLE

ASSUME CustodyAssumption ==
  /\ Phases \in Seq(STRING) \ {<<>>}
  /\ MaxAttempt \in Nat \ {0} /\ MaxProcesses \in Nat
  /\ \A r \in Roots : r.attempt \in 1..MaxAttempt
  /\ Released \in BOOLEAN

VARIABLES
  attempt, \* of the job: GITHUB_RUN_ATTEMPT and the deadline record
  altered, \* files of the package whose bytes on disk are not the pinned ones
  native,  \* the SDK of the last stage, and what it has left (a foreign one
           \* makes the admission refuse, as anything may)
  made,    \* the result roots that exist
  files,   \* which invocation wrote a file of a root, 0 for none
  trx,     \* TRX files in a root
  ran      \* the native runs of each phase in each root

VARIABLES
  process, \* invocations so far, the last one being
  task,    \*   [pc, op, root, phase]
  code,    \* what it executes
  left,    \* what authenticate has still to fetch
  worker,  \* the child of owned_http while a call is made
  rows,    \* METADATA_RESOURCES against the workers that were started
  account  \* the rows as written to a root

worldVars == <<attempt, altered, native>>
rootVars == <<made, files, trx, ran, account>>
callVars == <<left, worker, rows>>
vars == <<worldVars, rootVars, process, task, code, callVars>>

PhaseNumbers == 1..Len(Phases)
Names == ({"prepared", "prepareResources", "controlResources", "receipt"} \X {0})
           \cup ({"log", "lifecycle", "verified"} \X PhaseNumbers)
NoRows == [started |-> 0, listed |-> 0, settled |-> 0]

Calling == {"bootJob", "bootAuth", "auth", "job", "phaseAuth"}
NoRoot == [attempt |-> 0]
Idle == [pc |-> "idle", op |-> "none", root |-> NoRoot, phase |-> 0]

Init ==
  /\ attempt = 1 /\ altered = {} /\ native = "absent"
  /\ made = {}
  /\ files = [r \in Roots |-> [n \in Names |-> 0]]
  /\ trx = [r \in Roots |-> 0]
  /\ ran = [r \in Roots |-> [p \in PhaseNumbers |->
              [times |-> 0, by |-> 0, clean |-> FALSE, pinned |-> FALSE]]]
  /\ account = [r \in Roots |-> [n \in {"prepareResources", "controlResources"} |-> NoRows]]
  /\ process = 0 /\ code = "inline"
  /\ task = Idle
  /\ left = {} /\ worker = "none" /\ rows = NoRows
-----------------------------------------------------------------------------
At(step) == task.pc = step
Goes(from, to) == At(from) /\ task' = [task EXCEPT !.pc = to]
Root == task.root
FileOf(name) == files[Root][name]

\* The memory of a process goes with it.
Fresh == left' = {} /\ worker' = "none" /\ rows' = NoRows /\ code' = "inline"
Ends == task' = Idle /\ Fresh

Outcome == CASE At("running") -> "running" [] At("lifecycle") -> "returned" [] OTHER -> "none"
Stage == INSTANCE NativeStage WITH outcome <- Outcome

\* The action is invoked again with any request, or the job is.  A gate that was
\* sent its payload has become the SDK by then, or has ended.
Start ==
  /\ At("idle") /\ process < MaxProcesses /\ native # "released"
  /\ process' = process + 1
  /\ \E op \in {"prepare", "run-all"}, r \in Roots :
       task' = [pc |-> "bootJob", op |-> op, root |-> r, phase |-> 0]
  /\ UNCHANGED <<worldVars, rootVars, code, callVars>>

NewAttempt ==
  /\ At("idle") /\ attempt < MaxAttempt
  /\ attempt' = attempt + 1
  /\ UNCHANGED <<altered, native, rootVars, process, task, code, callVars>>
-----------------------------------------------------------------------------
(* owned_http: one child fetches one answer.                                *)

Spawn ==
  /\ task.pc \in Calling /\ worker = "none"
  /\ worker' = "alive"
  /\ rows' = [rows EXCEPT !.started = @ + 1, !.listed = @ + 1]
  /\ UNCHANGED <<worldVars, rootVars, process, task, code, left>>

\* READY, the answer on its output, the exit; it may hang in any of them.
WorkerRuns ==
  /\ \/ worker = "alive" /\ worker' = "written"
     \/ worker = "written" /\ worker' = "exited"
  /\ UNCHANGED <<worldVars, rootVars, process, task, code, left, rows>>

\* What the answer is for.  A blob is compared with the package on disk; the
\* commit and the tree that lead to it can only refuse.
Authenticating(step) == task' = [task EXCEPT !.pc = step] /\ left' = Files

AfterJob ==
  IF task.op = "prepare" THEN task' = [task EXCEPT !.pc = "create"] /\ UNCHANGED left
  ELSE task' = [task EXCEPT !.pc = "phaseAuth", !.phase = 1] /\ left' = Files

Fetched(item) ==
  /\ item \in left /\ left' = left \ {item}
  /\ item \notin altered

Authenticated == CASE At("bootAuth") -> "load"
                   [] At("auth") -> "release"
                   [] At("phaseAuth") -> "admit"

Use ==
  \/ At("bootJob") /\ Authenticating("bootAuth")
  \/ At("job") /\ AfterJob
  \/ \E item \in left :
       /\ Fetched(item)
       /\ IF left = {item} THEN task' = [task EXCEPT !.pc = Authenticated] ELSE UNCHANGED task

ReturnWhen(over) ==
  /\ over /\ Use
  /\ rows' = [rows EXCEPT !.settled = @ + (IF worker = "exited" THEN 1 ELSE 0)]
  /\ worker' = "none"
  /\ UNCHANGED <<worldVars, rootVars, process, code>>

Return == ReturnWhen(worker = "exited")

\* A deadline, a bad status or answer: the child is killed and waited for until
\* the deadline.  Whether it ends by then or is quarantined, the call raises.
LeaveWhen(settled) == worker # "none" /\ settled /\ Ends /\ UNCHANGED <<worldVars, rootVars, process>>

Leave_whenGone == LeaveWhen(worker = "exited")
Leave == LeaveWhen(TRUE)
-----------------------------------------------------------------------------
\* The modules are compiled from the bytes that were authenticated, the rows of
\* the workers go with them; main() authenticates once more.
LoadModules_fromPackage ==
  /\ Goes("load", "auth") /\ left' = Files
  /\ code' = (IF altered = {} THEN "pinned" ELSE "other")
  /\ UNCHANGED <<worldVars, rootVars, process, worker, rows>>

LoadModules ==
  /\ Goes("load", "auth") /\ left' = Files
  /\ code' = "pinned"
  /\ UNCHANGED <<worldVars, rootVars, process, worker, rows>>

\* prepared.json, the clock file and the environment agree on the attempt.
StateMatches == FileOf(<<"prepared", 0>>) # 0 /\ Root.attempt = attempt

Release ==
  /\ Released
  /\ task.op = "run-all" => StateMatches
  /\ Goes("release", "job")
  /\ UNCHANGED <<worldVars, rootVars, process, code, callVars>>

\* No executable of a process has the name of the SDK.  What the SDK of a killed
\* stage has left behind may bear any other name and is not seen.
PhysicalAdmission == native # "runs"

\* admission(), physical_admission() and create_result_root().
Create ==
  /\ Goes("create", "prepared")
  /\ Root.attempt = attempt /\ Root \notin made /\ PhysicalAdmission
  /\ made' = made \cup {Root}
  /\ UNCHANGED <<worldVars, files, trx, ran, account, process, code, callVars>>

\* write_exclusive.  Whoever finds a file that was not written to its end may
\* refuse it.
Written(name) == FileOf(name) = 0 /\ files' = [files EXCEPT ![Root][name] = process]

Write(from, name, to) ==
  /\ At(from) /\ Written(name)
  /\ IF to = "idle" THEN Ends ELSE Goes(from, to) /\ UNCHANGED <<code, callVars>>
  /\ UNCHANGED <<worldVars, made, trx, ran, process>>

WriteAccount(from, name, to) ==
  /\ Write(from, <<name, 0>>, to)
  /\ account' = [account EXCEPT ![Root][name] = rows]

Prepare ==
  \/ Write("prepared", <<"prepared", 0>>, "account") /\ UNCHANGED account
  \/ WriteAccount("account", "prepareResources", "idle")
-----------------------------------------------------------------------------
(* run_all.                                                                 *)

Admit_prepared ==
  /\ Goes("admit", "stage")
  /\ UNCHANGED <<worldVars, rootVars, process, code, callVars>>

Admit ==
  /\ Goes("admit", "stage")
  /\ PhysicalAdmission
  /\ UNCHANGED <<worldVars, rootVars, process, code, callVars>>

\* Controller.run: the gate in the unit is the authenticated one, whatever lies in
\* the package, and the log exclusively new.
Begin ==
  /\ Goes("stage", "running") /\ Stage!Begin
  /\ ran' = [ran EXCEPT ![Root][task.phase] =
               [times |-> @.times + 1, by |-> process, clean |-> FALSE,
                pinned |-> code = "pinned"]]

StageBegins ==
  /\ Begin /\ Written(<<"log", task.phase>>)
  /\ UNCHANGED <<attempt, altered, made, trx, account, process, code, callVars>>

\* The test stage leaves its TRX; another may lie beside it.
LeavesTrx == IF Phases[task.phase] = "test"
             THEN \E n \in 0..2 : trx' = [trx EXCEPT ![Root] = n] ELSE UNCHANGED trx

StagePasses ==
  /\ Goes("running", "lifecycle") /\ Stage!Return
  /\ LeavesTrx
  /\ ran' = [ran EXCEPT ![Root][task.phase].clean = TRUE]
  /\ UNCHANGED <<attempt, altered, made, files, account, process, code, callVars>>

StageFails ==
  /\ At("running") /\ Ends /\ Stage!Raise
  /\ LeavesTrx
  /\ UNCHANGED <<attempt, altered, made, files, ran, account, process>>

\* stage_wire writes the lifecycle evidence and verifies it (StageLifecycle).
WriteLifecycle == Write("lifecycle", <<"lifecycle", task.phase>>, "verified") /\ UNCHANGED account

WriteVerified ==
  /\ At("verified")
  /\ Written(<<"verified", task.phase>>)
  /\ IF task.phase = Len(Phases) THEN task' = [task EXCEPT !.pc = "trx"] /\ UNCHANGED left
     ELSE task' = [task EXCEPT !.pc = "phaseAuth", !.phase = @ + 1] /\ left' = Files
  /\ UNCHANGED <<worldVars, made, trx, ran, account, process, code, worker, rows>>

DiscoverTrx ==
  /\ Goes("trx", "resources") /\ trx[Root] = 1
  /\ UNCHANGED <<worldVars, rootVars, process, code, callVars>>

Finish ==
  \/ WriteAccount("resources", "controlResources", "receipt")
  \/ Write("receipt", <<"receipt", 0>>, "idle") /\ UNCHANGED account
-----------------------------------------------------------------------------
\* A refusal, a failing call or the first cancellation, outside a call and a
\* stage, which have their own.
Raise ==
  /\ task.pc \notin {"idle", "running"} /\ worker = "none"
  /\ Ends
  /\ UNCHANGED <<worldVars, rootVars, process>>

Killed ==
  /\ ~At("idle") /\ Ends
  /\ IF At("running") THEN Stage!Raise ELSE UNCHANGED native
  /\ UNCHANGED <<attempt, altered, rootVars, process>>

\* The package is written to, or restored.
Alter ==
  /\ \E f \in Files : altered' \in {altered \cup {f}, altered \ {f}} \ {altered}
  /\ UNCHANGED <<attempt, native, rootVars, process, task, code, callVars>>

StageActs ==
  /\ UNCHANGED <<attempt, altered, rootVars, process, task, code, callVars>>
  /\ Stage!NativeActs

MetadataCall == Spawn \/ Return \/ Leave
Step == \/ MetadataCall \/ LoadModules \/ Release \/ Create \/ Prepare \/ Admit \/ StageBegins
        \/ StagePasses \/ StageFails \/ WriteLifecycle \/ WriteVerified \/ DiscoverTrx
        \/ Finish \/ Raise
World == NewAttempt \/ WorkerRuns \/ Alter \/ StageActs

Next == Start \/ Step \/ Killed \/ World
Spec == Init /\ [][Next]_vars

\* The process runs and its waits have deadlines; a stage ends (OwnedStage:
\* Terminates).  Nothing is asked of the metadata worker or of the others.
FairSpec == Spec /\ WF_vars(Step)
-----------------------------------------------------------------------------
\* A receipt in a root stands for every phase, run by the pinned producer and
\* to a clean end by the very process that wrote the receipt, for the log, the
\* lifecycle and the verified command that process wrote, for one TRX, and for
\* an account that lists every metadata worker the process has started, those
\* before its modules were loaded included, each of which has exited.  So it
\* is however often and of whichever attempt run-all was invoked and killed
\* before, and whatever happens to the package on disk meanwhile.
ReceiptIsWhole ==
  \A r \in Roots :
    LET by == files[r][<<"receipt", 0>>]
        of == account[r]["controlResources"]
    IN by # 0 =>
         /\ \A p \in PhaseNumbers :
              /\ ran[r][p].clean /\ ran[r][p].pinned /\ ran[r][p].by = by
              /\ \A n \in {"log", "lifecycle", "verified"} : files[r][<<n, p>>] = by
         /\ files[r][<<"controlResources", 0>>] = by /\ trx[r] = 1
         /\ of.listed = of.started /\ of.settled = of.started

\* A process writes only into roots of the attempt it runs in, and a phase runs
\* natively once at most in a root, after a clean end of all those before it
\* and never beside the SDK of another stage, of whatever invocation: one that
\* runs, or that a gate is about to become.  (Processes that SDK has left behind
\* under other names may still run.)
Begins(r, p) == ran'[r][p].times > ran[r][p].times
StartsOnceAlone ==
  [][\A r \in Roots :
       /\ files'[r] # files[r] => r.attempt = attempt
       /\ \A p \in PhaseNumbers : Begins(r, p) =>
            /\ ran[r][p].times = 0 /\ native \notin {"released", "runs"}
            /\ \A q \in 1..(p - 1) : ran[r][q].clean]_vars

\* An invocation ends, also when its metadata worker cannot be killed.
InvocationEnds == ~At("idle") ~> At("idle")
=============================================================================
