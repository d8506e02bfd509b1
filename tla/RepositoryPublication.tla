------------------------- MODULE RepositoryPublication -------------------------
(***************************************************************************)
(* The publication of Publish-LegacyRepository.ps1: the root commit of the *)
(* candidate becomes main of an empty public repository, the candidate     *)
(* comes in through a validated pull request, and main is then protected.  *)
(* Each step is one native command, an OwnedCommand whose child may        *)
(* act and the call still throw, or act after the publisher gave up.       *)
(*                                                                         *)
(* GitHub, its workflow runs, git and the other users are external.        *)
(*                                                                         *)
(* Definitions named <Definition>_<slip> are the definition they precede   *)
(* with a plausible slip in it; nothing uses them.                         *)
(***************************************************************************)
EXTENDS OwnedCommand, Sequences, SequencesExt, Integers

CONSTANTS MaxAttempts,  \* bound: runs of the publisher
          MaxMeddling,  \* bound: acts of others on the repository
          MaxReruns     \* bound: reruns of the validation

ASSUME PublicationAssumption ==
  MaxAttempts \in Nat \ {0} /\ MaxMeddling \in Nat /\ MaxReruns \in Nat

VARIABLES
  visibility, \* of the target: absent, public, private
  main,       \* commits of its main branch, the oldest first
  branch,     \* the publication branch: none, the head commit, or another
  pr,         \* the latest pull request of that branch
  run,        \* the validate run of the head commit, latest attempt
  passed,     \* an attempt has completed the job `validate / validate'
  settings,   \* what is in force of the configuration
  meddling, reruns

VARIABLES
  single,     \* the candidate's only commit is its root
  origin,     \* the remote of the local clone
  step,       \* the command at hand
  reply,      \* its output
  readback,   \* what the final reads have confirmed
  late,       \* the deadline of the wait for a run has passed
  outcome,    \* none, or how this attempt ended
  attempts,
  strays      \* commands whose children have outlived an earlier attempt

contentVars == <<visibility, main, branch, pr, settings, origin>>
ciVars == <<run, passed, meddling, reruns>>
publisherVars == <<single, step, reply, readback, late, outcome, attempts, strays>>
vars == <<commandVars, contentVars, ciVars, publisherVars>>

Settings == {"pvr", "protection", "environment"}
ReadSteps == [readRepository |-> "repository", readPvr |-> "pvr",
              readProtection |-> "protection", readEnvironment |-> "environment"]

\* What follows when a command that asks nothing has succeeded.
Following == [gate |-> "head", head |-> "root", root |-> "view", create |-> "origin",
              addOrigin |-> "pushMain", pushMain |-> "pushBranch", pushBranch |-> "list",
              prCreate |-> "relist", watch |-> "jobs", merge |-> "readMain",
              readMain |-> "pvr", pvr |-> "protection", protection |-> "environment",
              environment |-> "readRepository"]

Steps == DOMAIN Following \cup DOMAIN ReadSteps
           \cup {"view", "origin", "list", "relist", "runs", "jobs"}

Changing == Settings \cup {"create", "addOrigin", "pushMain", "pushBranch", "prCreate", "merge"}

ContentTypes ==
  /\ visibility \in {"absent", "public", "private"}
  /\ main \in Seq({"root", "squash", "foreign"})
  /\ branch \in {"none", "head", "other"}
  /\ pr \in {"none", "open", "merged", "closed"}
  /\ settings \subseteq Settings
  /\ origin \in {"none", "right", "wrong"}
CiTypes ==
  /\ run \in {"none", "running", "passed", "skipped", "failed"} /\ passed \in BOOLEAN
  /\ meddling \in 0..MaxMeddling /\ reruns \in 0..MaxReruns
PublisherTypes ==
  /\ single \in BOOLEAN /\ late \in BOOLEAN
  /\ step \in Steps /\ strays \subseteq Changing
  /\ reply \in {"none", "done", "yes", "nonempty", "public", "private", "absent",
                "right", "wrong", "match", "mismatch", "run", "success"}
  /\ readback \subseteq Settings \cup {"repository"}
  /\ outcome \in {"none", "failed", "nonempty", "refused", "mismatch", "published", "killed"}
  /\ attempts \in 1..MaxAttempts
TypeOK == CommandTypeOK /\ ContentTypes /\ CiTypes /\ PublisherTypes

Init ==
  /\ Fresh
  /\ visibility \in {"absent", "public", "private"}
  /\ main \in {<<>>, <<"foreign">>} /\ (visibility = "absent" => main = <<>>)
  /\ branch = "none" /\ pr = "none" /\ run = "none" /\ passed = FALSE
  /\ settings = {} /\ meddling = 0 /\ reruns = 0
  /\ single \in BOOLEAN
  /\ origin \in {"none", "right", "wrong"}
  /\ step = "gate" /\ reply = "none" /\ readback = {} /\ late = FALSE
  /\ outcome = "none" /\ attempts = 1 /\ strays = {}
-----------------------------------------------------------------------------
(* The commands, where they can do their work.                              *)

\* gh repo create adds the remote as well.
CreateRepository ==
  /\ visibility = "absent" /\ visibility' = "public"
  /\ origin' = (IF origin = "none" THEN "right" ELSE origin)
  /\ UNCHANGED <<main, branch, pr, settings>>

AddOrigin == origin = "none" /\ origin' = "right"
             /\ UNCHANGED <<visibility, main, branch, pr, settings>>

\* git push of the root, without force: only on an empty main or over itself.
PushMain ==
  /\ visibility # "absent" /\ main \in {<<>>, <<"root">>} /\ main' = <<"root">>
  /\ UNCHANGED <<visibility, branch, pr, settings, origin>>

PushBranch ==
  /\ visibility # "absent" /\ branch # "other" /\ branch' = "head"
  /\ UNCHANGED <<visibility, main, pr, settings, origin>>

\* One open pull request for a branch that has something to merge.
CreatePullRequest ==
  /\ visibility # "absent" /\ pr # "open" /\ branch # "none" /\ main # <<>> /\ ~single
  /\ pr' = "open"
  /\ UNCHANGED <<visibility, main, branch, settings, origin>>

\* --squash --match-head-commit, and then --delete-branch.
MergePullRequest ==
  /\ pr = "open" /\ branch = "head"
  /\ "protection" \in settings => run = "passed"
  /\ main' = Append(main, "squash") /\ pr' = "merged" /\ branch' \in {"none", "head"}
  /\ UNCHANGED <<visibility, settings, origin>>

\* A setting may be accepted and not come into force.
Configure(c) ==
  /\ visibility # "absent" /\ settings' \in {settings, settings \cup {c}}
  /\ UNCHANGED <<visibility, main, branch, pr, origin>>

\* What only reads; run watch succeeds with the run, whatever its jobs were.
Inquire(c) ==
  /\ CASE c \in {"gate", "head", "root"} -> TRUE
       [] c = "origin" -> origin # "none"
       [] c = "watch" -> run \in {"passed", "skipped"}
       [] OTHER -> visibility # "absent"
  /\ UNCHANGED contentVars

Carry(c) ==
  CASE c = "create" -> CreateRepository
    [] c = "addOrigin" -> AddOrigin
    [] c = "pushMain" -> PushMain
    [] c = "pushBranch" -> PushBranch
    [] c = "prCreate" -> CreatePullRequest
    [] c = "merge" -> MergePullRequest
    [] c \in Settings -> Configure(c)
    [] OTHER -> Inquire(c)

Yes(fact) == IF fact THEN "yes" ELSE "none"

Answer(c) ==
  CASE c = "view" -> IF main # <<>> \/ branch # "none" THEN "nonempty" ELSE visibility
    [] c = "origin" -> origin
    [] c \in {"list", "relist"} -> IF pr # "open" THEN "none"
                                   ELSE IF branch = "head" THEN "match" ELSE "mismatch"
    [] c = "runs" -> IF run = "none" THEN "none" ELSE "run"
    [] c = "jobs" -> IF run = "passed" THEN "success" ELSE "none"
    [] c = "readRepository" -> Yes(visibility = "public")
    [] c \in DOMAIN ReadSteps -> Yes(ReadSteps[c] \in settings)
    [] OTHER -> "done"

\* The child does its work, while the publisher waits or after it gave up.
Act ==
  /\ Work /\ Carry(step) /\ reply' = Answer(step)
  /\ UNCHANGED <<ciVars, single, step, readback, late, outcome, attempts, strays>>

StrayActs ==
  /\ \E c \in strays : Carry(c) /\ strays' = strays \ {c}
  /\ UNCHANGED <<commandVars, ciVars>>
  /\ UNCHANGED <<single, step, reply, readback, late, outcome, attempts>>
-----------------------------------------------------------------------------
(* GitHub's runs, and other users.                                          *)

RunStarts == pr = "open" /\ branch = "head" /\ run = "none" /\ run' = "running"
             /\ UNCHANGED <<passed, reruns>>
RunEnds == run = "running" /\ run' \in {"passed", "skipped", "failed"}
           /\ passed' = (passed \/ run' = "passed") /\ UNCHANGED reruns
Rerun == /\ run \in {"passed", "skipped", "failed"} /\ run' = "running"
         /\ pr = "open"  \* bound: nobody asks for the run after that
         /\ reruns < MaxReruns /\ reruns' = reruns + 1
         /\ UNCHANGED passed
Workflows == /\ RunStarts \/ RunEnds \/ Rerun
             /\ UNCHANGED <<commandVars, contentVars, meddling, publisherVars>>

\* Someone pushes to main while it is not protected, moves the publication
\* branch, closes the pull request or changes the visibility.
Others ==
  /\ meddling < MaxMeddling /\ meddling' = meddling + 1
  /\ \/ /\ visibility # "absent" /\ "protection" \notin settings
        /\ main' = Append(main, "foreign") /\ UNCHANGED <<visibility, branch, pr>>
     \/ branch = "head" /\ branch' = "other" /\ UNCHANGED <<visibility, main, pr>>
     \/ pr = "open" /\ pr' = "closed" /\ UNCHANGED <<visibility, main, branch>>
     \/ visibility = "public" /\ visibility' = "private" /\ UNCHANGED <<main, branch, pr>>
  /\ UNCHANGED <<commandVars, settings, origin, run, passed, reruns, publisherVars>>
-----------------------------------------------------------------------------
(* The publisher, between two commands.                                     *)

Succeeds == phase = "returned"
ExitsNonzero == phase = "nonzero"

Continue(next) == Renew /\ step' = next /\ reply' = "none" /\ UNCHANGED outcome
EndsAs(why) == outcome' = why /\ UNCHANGED <<commandVars, step, reply>>
Keeps == UNCHANGED <<contentVars, ciVars, single, attempts, strays>>

\* Only two commands may fail.
GiveUp ==
  /\ phase = "thrown" \/ (ExitsNonzero /\ step \notin {"view", "origin"})
  /\ EndsAs("failed") /\ UNCHANGED <<readback, late>>

Advance ==
  /\ Succeeds /\ step \in DOMAIN Following
  /\ Continue(Following[step]) /\ UNCHANGED <<readback, late>>

InspectTarget_resumes ==
  /\ step = "view" /\ UNCHANGED <<readback, late>>
  /\ \/ ExitsNonzero /\ Continue("create")
     \/ Succeeds /\ reply \in {"public", "nonempty"} /\ Continue("origin")
     \/ Succeeds /\ reply = "private" /\ EndsAs("refused")

\* A target that cannot be viewed is created; a present one must be empty.
InspectTarget ==
  /\ step = "view" /\ UNCHANGED <<readback, late>>
  /\ \/ ExitsNonzero /\ Continue("create")
     \/ Succeeds /\ reply = "public" /\ Continue("origin")
     \/ Succeeds /\ reply = "nonempty" /\ EndsAs("nonempty")
     \/ Succeeds /\ reply = "private" /\ EndsAs("refused")

ConfigureOrigin ==
  /\ step = "origin" /\ UNCHANGED <<readback, late>>
  /\ \/ ExitsNonzero /\ Continue("addOrigin")
     \/ Succeeds /\ reply = "right" /\ Continue("pushMain")
     \/ Succeeds /\ reply = "wrong" /\ EndsAs("refused")

\* The open pull request of the branch, created when there is none.
IdentifyPullRequest ==
  /\ step \in {"list", "relist"} /\ Succeeds /\ UNCHANGED readback
  /\ \/ reply = "match" /\ Continue("runs") /\ late' = FALSE
     \/ reply = "none" /\ step = "list" /\ Continue("prCreate") /\ UNCHANGED late
     \/ reply = "none" /\ step = "relist" /\ EndsAs("refused") /\ UNCHANGED late
     \/ reply = "mismatch" /\ EndsAs("refused") /\ UNCHANGED late

FindRun_patient ==
  /\ step = "runs" /\ Succeeds /\ UNCHANGED <<readback, late>>
  /\ Continue(IF reply = "run" THEN "watch" ELSE "runs")

FindRun ==
  /\ step = "runs" /\ Succeeds /\ UNCHANGED <<readback, late>>
  /\ \/ reply = "run" /\ Continue("watch")
     \/ reply = "none" /\ ~late /\ Continue("runs")
     \/ reply = "none" /\ late /\ EndsAs("refused")

CheckJob_trustsRun == step = "jobs" /\ Succeeds /\ Continue("merge") /\ UNCHANGED <<readback, late>>

CheckJob ==
  /\ step = "jobs" /\ Succeeds /\ UNCHANGED <<readback, late>>
  /\ \/ reply = "success" /\ Continue("merge")
     \/ reply = "none" /\ EndsAs("refused")

NextRead == [readRepository |-> "readPvr", readPvr |-> "readProtection",
             readProtection |-> "readEnvironment"]
Confirmed == readback \cup (IF reply = "yes" THEN {ReadSteps[step]} ELSE {})

\* Four reads, and the comparison after the last.
ReadBackFor(required) ==
  /\ step \in DOMAIN ReadSteps /\ Succeeds /\ readback' = Confirmed /\ UNCHANGED late
  /\ \/ step \in DOMAIN NextRead /\ Continue(NextRead[step])
     \/ /\ step = "readEnvironment"
        /\ EndsAs(IF required \subseteq Confirmed THEN "published" ELSE "mismatch")

ReadBack_notEnvironment == ReadBackFor({"repository", "pvr", "protection"})
ReadBack == ReadBackFor(Settings \cup {"repository"})

React ==
  /\ \/ GiveUp \/ Advance \/ InspectTarget \/ ConfigureOrigin \/ IdentifyPullRequest
     \/ FindRun \/ CheckJob \/ ReadBack
  /\ Keeps

Publisher ==
  /\ outcome = "none"
  /\ \/ Call /\ UNCHANGED <<contentVars, ciVars, publisherVars>>
     \/ React

WaitEnds ==
  /\ step = "runs" /\ ~late /\ late' = TRUE
  /\ UNCHANGED <<commandVars, contentVars, ciVars, single, step, reply, readback,
                 outcome, attempts, strays>>

\* The process of the publisher dies; its child does not die with it.
Killed ==
  /\ outcome = "none" /\ outcome' = "killed"
  /\ UNCHANGED <<commandVars, contentVars, ciVars, single, step, reply, readback,
                 late, attempts, strays>>

\* The operator runs the publisher once more; a read that is still under way
\* concerns nobody.
Retry ==
  /\ outcome \notin {"none", "published"} /\ attempts < MaxAttempts
  /\ attempts' = attempts + 1 /\ outcome' = "none"
  /\ strays' = strays \cup (IF child = "live" /\ ~acted THEN {step} \cap Changing ELSE {})
  /\ Renew /\ step' = "gate" /\ reply' = "none" /\ readback' = {} /\ late' = FALSE
  /\ UNCHANGED <<contentVars, ciVars, single>>

Next ==
  \/ Publisher \/ Killed \/ Retry \/ Act \/ StrayActs \/ Workflows \/ Others \/ WaitEnds
  \/ ChildEnds /\ UNCHANGED <<contentVars, ciVars, publisherVars>>

Spec == Init /\ [][Next]_vars
-----------------------------------------------------------------------------
\* A publication that reports success has the candidate on a main that is
\* protected, beside private reporting and the protected environment.
SuccessIsProtected ==
  outcome = "published" => settings = Settings /\ "squash" \in Range(main)

\* The candidate reaches main through its pull request only after the job
\* `validate / validate' of its head commit has completed with success.
MergedWasValidated == "squash" \in Range(main) => passed

\* The candidate lands on main once at most and only over its own root,
\* although a merge, a push or the creation of the pull request may still take
\* effect in a child of an earlier attempt: an attempt refuses a target that
\* has content, and asks for no merge before it has pushed the root.
LandsOnce ==
  \A i \in DOMAIN main : main[i] = "squash" =>
    main[1] = "root" /\ \A j \in DOMAIN main : main[j] = "squash" => j = i

\* tests/publication/Test-LegacyPublication.Tests.ps1: a publication that
\* resumes reuses the exact open pull request of its candidate.
ResumesOwnPublication ==
  ~(outcome = "nonempty" /\ main = <<"root">> /\ branch = "head" /\ pr = "open")

(***************************************************************************)
(* The publisher takes its steps, and its deadlines pass.                  *)
(***************************************************************************)
FairSpec == Spec /\ WF_vars(Publisher) /\ WF_vars(WaitEnds)

\* Every attempt ends, also when children hang and no run ever appears.
AttemptEnds == outcome = "none" ~> outcome # "none"
=============================================================================
