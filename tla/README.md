# TLA+ models of Legacy.Maliev.Workflows

Formal models of the release and validation tooling of this repository: state
machines that TLC checks on small instances and theorems that the TLA+ proof
system checks for every value of the constants. The code is the reference; where
a doc and the code disagree, the model follows the code.

1. [The system](#1-the-system)
2. [Modules](#2-modules)
3. [What the runs check](#3-what-the-runs-check)
4. [What is proved](#4-what-is-proved)
5. [Where code and documentation disagree](#5-where-code-and-documentation-disagree)
6. [What is not modelled](#6-what-is-not-modelled)
7. [Plan](#7-plan)

## 1. The system

The repository is a set of reusable CI/CD actions, workflows and scripts. Each of
them is a sequence of calls to systems it does not own (GitHub, a Docker daemon, a
registry, a Kubernetes cluster, the systemd user manager and the kernel). The
calls can fail, time out or lose their answer, and other actors use the same
systems at the same time. The scripts are written to *fail closed*: what is hard
is what is left behind, and what may be claimed, when something happens between
two calls.

| component | state | operations | hard behaviour | correct when |
|---|---|---|---|---|
| application handoff (`scripts/application_handoff_policy.py`, `intranet_native_handoff.py`) | the Service selector, canonical and green Deployments, the capacity reservation; the policy's baseline, last-read Service, green uid, `canonical_started`, `fallback_blocked` | one run: snapshot, create green, route, mutate canonical, route back, drain, with a failure handler | lost responses, partial mutations, flapping backends, foreign writes between read and patch | the public always has a ready backend; no foreign write is overwritten; a failure ends in a state the handler names |
| normal validation stage (`normal_validation_controller.py`, `normal_validation_exec_gate.py`, `normal_validation_lifecycle.py`) | a transient systemd unit and its processes, the wrapper, the custody record in memory and on disk, the job's clock | start under a gate, prove custody, release the SDK, watch, stop, settle, record | controller fails, is cancelled or killed anywhere; processes that do not die; leases | what is recorded is true; nothing runs that the disk does not name; nothing outlives the job |
| normal validation custody (`normal_validation_custody.py`, `normal_validation_lifecycle.py`, the inline wrapper of `actions/dotnet-validate/action.yml`) | deadline record, result root, receipts of five stages, metadata workers and their account | prepare; authenticate source, load modules, admit, run five stages in order, verify and write each | several processes and attempts over one root, kills between two writes, files changed after they were authenticated, workers that outlive SIGKILL, two clocks, reused PIDs and inodes | a receipt stands for five clean stages of the process that wrote it; a stage runs once and alone; an invocation ends inside the job |
| hosted static suite (`run-hosted-static.py`, `hosted-sdk-bootstrap.py`) | the sealed kit, a disposable SDK under a fixed path, quarantined commands, the receipt | authenticate the kit, bootstrap the SDK in a child, run the suite, clean up in a `finally` | the child dies after any of its steps; another installation stands at the path; the first failure must survive the ones of the cleanup | nothing of its own is left, nothing of another is touched, the receipt says what failed first |
| evidence preservation (`preserve_validation_evidence.py`, `retain_workflows_test_evidence.py`, `retain_fdm_journal_focused.py`) and offline release source (`offline_release_source.py`) | the commit, the checkout and remote they observe, the reports they read, the document they write | observe, read, observe again, bind | others move the checkout between two reads; rows of a theory share their names; a child writes more than is read | a document names a revision that held while it was read; what is kept of a report is all of it |
| green metadata (`green_metadata.py`, `startup_protection.py`) | the baseline read of canonical, the plan, the read-back | plan, create, read back, patch | every name, value and field is a read of its own while others write both Deployments | canonical is replaced only by what was planned from it |
| GitOps handoff (`actions/gitops-handoff/action.yml`, `scripts/Set-GitOpsImageDigest.ps1`) | main and one deterministic branch of `maliev-gitops`, its commits and pull requests | check out, rewrite one reference, push with lease, list and edit or create a pull request | several jobs and people on one branch | no work is discarded unseen; a success is in front of a reviewer; the pull request says what it carries |
| image publication (`.github/workflows/publish-image.yml`) | CI runs of the commit, local images, tags and digests of the registry | five-read validation gate, build, inspect, scan, push, resolve the digest | reruns between the reads, two publications of one commit, a daemon that acts after its client has given up | the gate's answer was true at one moment; the digest is of a scanned image; what an inspection says of its container is so |
| repository publisher (`Publish-LegacyRepository.ps1`) | a new GitHub repository, its branches, pull request and protection; the step the publisher is at | create, push, propose, wait, merge, protect, read back | failure after a remote effect, a second attempt beside a child of the first, other users, reruns | the candidate lands on main once at most, over its own root; what is merged was validated; success only when everything was read back |
| owned native command (`Publish-LegacyRepository.ps1`, `OwnedNativeCommandProcess.cs`) | one child process, its PID, its output; the retained identity; custody of what cannot be settled | start, capture the identity, read, stop, escalate, settle, dispose or keep | uncertain start, reused PIDs, programs that exec, children that hang or leave their output open, cleanups that fail | only the child is signalled; a call ends settled, or throws and keeps the child |
| deployment binding (`intranet_deployment_binding.py`) | the same cluster | read, create and patch Deployments for the handoff | reads and patch are separate commands | a patch changes what was read |
| benchmark runner, analytics receipts, scanners, validators | see section 6 | | | |

How they interact: `publish-image.yml` publishes a digest, `gitops-handoff`
proposes it in `maliev-gitops`, and the application handoff is the policy a
rollout of a digest follows; these meet in data (a commit, a digest) and not in
shared state. `normal_validation_custody.py` calls
`normal_validation_controller.py` once per stage, and the controller talks to the
exec gate over a socket and to systemd by commands. Every command of the
repository publisher is an owned native command. The evidence programs read what a
validation has left on disk.

## 2. Modules

| module | models | role |
|---|---|---|
| `HandoffCluster` | the Kubernetes objects and their other writers | external |
| `NativeSelectorDrain` | `NativeSelectorDrain` of `intranet_native_handoff.py`: checks, patches and read-backs of `route` and `drain` | operators used by the next |
| `NativeDeploymentBinding` | checks, tests and read-backs of `create` and `mutate` of `intranet_deployment_binding.py` | operators used by the next |
| `ApplicationHandoff` | `run_handoff`: one action per tool call, the failure handler included | composes the three above |
| `TrafficHandoff` | what a handoff promises the public | abstract specification |
| `ApplicationHandoffProofs` | | proofs |
| `GreenMetadata` | `green_metadata.py`, `startup_protection.py` and the reads of the binding that feed them | |
| `UserManager` | the systemd user manager, cgroup, wrapper and clock | external |
| `NativeStage` | what `Controller.run` promises `run_all` | abstract specification |
| `OwnedStage` | `Controller.run`, `cleanup`, `cleanup_wrapper` and the exec gate | composes `UserManager`, refines `NativeStage` |
| `OwnedStageProofs` | | proofs |
| `ValidationCustody` | `prepare` and `run-all` of `normal_validation_custody.py` and the wrapper that loads them | composes `NativeStage` |
| `ValidationCustodyProofs` | | proofs |
| `StageLifecycle` | `stage_wire` and `verify`: the evidence of one stage | |
| `JobClock` | `budget`, `Budget` and the qualification's `Fence` over two clocks | |
| `HostedStatic` | `main` of `run-hosted-static.py` and the bootstrap child | |
| `SourceEvidence` | the order in which four programs observe and read | |
| `TestReport` | what three programs keep of a test report | |
| `BoundedReads` | `stable_read`, `read_git_output` | |
| `GitOpsHandoff` | the action and its script, GitHub and its reviewers | |
| `GitOpsHandoffProofs` | | proofs |
| `CiRuns` | validation runs of a commit | external |
| `AtomicGate` | a gate that looks once | abstract specification |
| `ValidationGate` | the gate's five reads | refines `AtomicGate` |
| `ImagePublication` | the steps of the publishing job, with the gate's three uses as `AtomicGate` looks | composes `CiRuns` |
| `ImageInspection` | the two packaged-image inspections | |
| `PublicationProofs` | | proofs of the gate, the publication and the inspections |
| `OwnedCommand` | what a native command promises its caller | abstract specification |
| `OwnedNativeCommand` | `Invoke-RedactedProcess`, `Complete-RedactedProcessCleanup`, `OwnedHostProcessIdentity` | refines `OwnedCommand` |
| `OwnedNativeCommandProofs` | | proofs |
| `RepositoryPublication` | the publication: each command, what the publisher makes of its answer, GitHub and its users | composes `OwnedCommand` |
| `RepositoryPublicationProofs` | | proofs |
| `ToolsProofs` | | proofs of `SourceEvidence`, `JobClock`, `BoundedReads`, `StageLifecycle`, `HostedStatic` and `GreenMetadata` |
| `MCHandoff`, `MCStage`, `MCCustody`, `MCGitOps`, `MCRepository` | | instances for TLC |
| `MCPublication`, `MCTools` | | several specifications that share no state, side by side: `part` chooses the one that runs, the others stay in an initial state. What they check is what the parts would show on their own, and it is proved of each part's own specification |

A definition named `<Definition>_<slip>` repeats the definition it stands before
with one plausible mistake. Nothing uses these; substituted for the original,
each makes the property it is listed with fail, which shows that the property
depends on the code's doing it right.

### Application handoff

`pc` names the tool call that `run_handoff` is about to make. Reads
(`current()`), proofs (`prove()`) and observations (`observe()`) either satisfy
the policy and go on, are rejected, or fail as calls (`faults`). A selector route
is check, patch, confirm; a drain is scale, prove, delete; another actor may act
between any of them. The receipt's contents are reduced to what the policy
compares: uid (with replica count), image, settings, readiness, selector,
resourceVersion. `mode` is how the policy is called: with a startup contract,
with a green contract, or *bound*, through `run_bound_handoff`. Bound, the
creation and the mutation are their commands too (create, read back; read,
patch, read back); otherwise they are one call of an external owner. `Raise` is `HandoffFailure` reaching `except`: it chooses
between rollback, fallback and `fallback_blocked`.

Assumed of what is external: a receipt is truthful and is a snapshot of one
moment; `processVerified` is given only after the rollout has settled; the
owner of `MUTATE_CANONICAL` in an unbound run fences on the uid, image and
Service it is handed. The adapter's
field-by-field reads are not such a snapshot, but its patch tests the
resourceVersion it read first. Left out: `KeyError` when a `CREATE_GREEN`
receipt has no uid.

### Validation stage

One run of the controller. `receipt` is the record in memory and `disk` the last
that `save` renamed into place; a failed save leaves its `.pending` file
(`pending`) and every later save fails. Any call can raise (`MaxFaults`), the
first cancellation can arrive in any call, a `finally` block included, and the
process can be killed at any point. `UserManager` lets the unit start late
(`ActivationDelay`) or be refused, fork, exit with any status, be killed by its
lease, and leave an unkillable process behind for a while.

Points that only the code shows and the model keeps: an exception inside `Popen`
loses the wrapper's handle while the wrapper runs; `RuntimeMaxSec` counts from
the unit's activation while `expiryMono` counts from before the request, so the lease may end
later than `expiryMono` (the cleanup reserve must absorb the difference: assumption
`SetupDelay + ActivationDelay <= Reserve`); a native stage that fails is noticed only at `expiryMono`;
the late reacquisition uses the native budget, not the cleanup one. The
`systemctl stop` by name is not fenced by the invocation; unit names hold 128
random bits and are assumed never reused. `SdkOf` is what the stage shows its
caller: the SDK is *released* while the gate holds the payload, *runs* while its main
process does, is *left* while only processes it started remain in the scope, and has *passed* when it ended with status 0 in a run that goes on. `RELEASED_LIFECYCLE = False` keeps this code from
being reached through `normal_validation_custody.py` in this commit; `ValidationCustody`
makes it the constant `Released`, and the run sets it.

### Validation custody

An invocation is one process of `prepare` or `run-all`; several follow one another,
in the same attempt of the job or a later one, and name the same root or another. A
call, a check or a budget may raise anywhere (`Raise`), and the process may be killed
between any two writes. `code` is what executes: the inline wrapper, or the modules it
has authenticated and then compiled from the authenticated bytes; others alter
and restore the package on disk (`altered`) all the while. `files[r][n]` is the invocation that
wrote a file, created exclusively; `worker` is the metadata child of `owned_http`,
`rows` the list of resources in memory against the workers that were really started,
`account` that list as written.
`ran[r][p]` records which process ran a phase natively, with what end and with pinned
code. A phase's run is a `NativeStage`, whose `native` SDK outlives a run that raises or
is killed: it may be running then, or not be running yet, because a gate that was sent
its payload hashes the executable before it becomes the SDK
(`normal_validation_exec_gate.py:49-68`) and `physical_admission` looks only for
processes named `dotnet`. For the same reason nothing is claimed of what an SDK has
left behind (`left`: a test host, a shell, a browser): after a kill the next phase may
be admitted beside such processes, until the lease of their unit ends them
(`OwnedStage`, `LeaseEnds`). That the gate has become the SDK, or has ended, before
another process gets as far as its first admission is assumed (`Start`): the way there
is several requests to GitHub, that of the gate one pass over at most 128 MiB. Without the
assumption `StartsOnceAlone` fails: the controller is killed after the send, the next
invocation is admitted, and the first SDK starts beside its own.

`StageLifecycle` asks something else of the same code: the controller's observations
are taken one after the other, and `verify` compares them in pairs. Evidence is
assembled from two stages whose PIDs, inodes and namespace numbers may coincide, as
far as the kernel allows within one boot, and is either of one stage or refused.

`JobClock` has no program but the arithmetic of two: a record pairs the wall and the
monotonic clock, and every later process derives what is left. One of the two clocks
fails in a behaviour (suspend, reboot, or the wall clock is set), the wall clock being
right when the record is made.

### Hosted static suite and its bootstrap

`step` is where `main` stands on Windows, `boot` the child's own steps with its
`owned_cache`, `owned_root` and `success`. The child may die after any of them; the
cleanup in both `finally` blocks goes by what each has established. `sdk` records who
created the directory and who owns it, so that an installation found there differs
from the one this run made. The first failure is kept and later ones are not. Of the
sealed kit only what `main` compares is here.

### Evidence and reads

In `SourceEvidence` a program is its sequence of steps (`Plan`): observe a fact
(`head`, `clean`, ...), read something, make its target, bind. What left the expected
state is `left`, and `tainted` is what had left it when something was read. It is
assumed that what leaves does not come back while a program runs: a checkout moved
and moved back between two observations is invisible to all four. The two
`path.exists()` of `prepare` on one path are one read.

`BoundedReads` has the two reads those programs and the custody rest on, chunk by
chunk: a file that others write to or replace, and two pipes drained by two threads
against a limit and a deadline. `TestReport` asks what is kept of a report that
anybody may have written: reports with duplicate ids, rows of a theory, counters that
agree with the wrong rows. `outcome_trx` requires the total, compares the counters of
passed, failed and not executed cases where they are given, and copies every other
counter as it finds it; what is claimed of a report that was kept (`Exact`) is no more.
Only `transform` looks at all of them. Of the twelve outcomes the three that have a
counter are kept apart, and one stands for the other nine.

### Green metadata

The fields are three kinds (required probes, further container fields, pod fields).
`Read` is one command after the other, and others may edit either Deployment between
any two: the version, the image, the names of the containers and the fields nobody may
have, the names and kinds of the environment's entries, then each value by its name
(an entry that has gone, or is there twice by now, gives no reference, and a value that
is none), then of each field its presence and its value (gone in between, it reads as
null), and the lifecycle. A value's two reads, as text and as JSON, are one. So the
baseline, the version and the parts may be of different moments. The patch tests the
version that was read first.

### GitOps handoff

A job is checkout, no-op or prepare, push with lease, list, edit or create. The
tracking ref fetched by `fetch-depth: 0` is the lease, and without one the branch
must not exist. The script may refuse (`ScriptRefuses`: its reasons are not told apart),
and each call can fail with or without its effect (`Fail`, and the
ends of `EditPull` and `CreatePull`). Reviewers merge (when main still carries
the reference the commit replaces), close, delete the branch or add commits.
`commit[c].base` is the reference a commit replaces and `over[c]` the head it
knowingly replaced. GitHub accepts an edit of a closed pull request. `slots` is
the number of jobs that may run at once, which the callers of the action decide
and the action does not: any number up to `MaxRunning`.

### Image publication

`ValidationGate` is the gate read by read; a list of fewer than 100 rows is one
read, API reads are assumed linearizable and runs are not deleted.
`ImagePublication` uses the promise of the gate (`AtomicGate`), which
`GateLooksOnce` proves of the five reads; `slots` is the number of
publications that may run at once, and the type of `ci` is that of `CiRuns`. `caller`
decides which contract applies: the Intranet's, the Web's, or none. `image[p]` is what
the local commit tag names on p's runner, which `Retag` may move at any moment;
`verified[p]` is the image Id that the Intranet inspection hands to the scan and to the
push. For the Intranet the scan is of that Id and the push is refused when the tag names
another image; the comparison and `docker push`, two commands in a row, are one step here.
For the other callers nothing binds the pushed image to the scanned one, and so nothing is
claimed of them once the tag has moved.

`ImageInspection` models the daemon as a party that may carry out `create` or `rm` after
the client timed out, and may answer a removal before it is done with it. The
Intranet inspection ends in *verified*, *failed* or *recovery with a receipt*,
the Web inspection only in *verified* or *failed*. The Intranet looks again after its
`rm`, the Web does not after its `rm --force`: its container may still be on its way out
when it returns. When the Web inspection fails, or the runner kills either step, the
container may stay, and no line says so: `RemovesOrReports` excludes these two.

### Owned native command

`at` is where one invocation stands: `idle`, start, the four places of the identity
capture (`capture`, `observe`, `open`, `confirm`), `read`, the cleanup's stop
(`stop` to `killwait`), `settle`, `close`, `done`. `pid` is what an observation of
the child's PID would show at this moment: the child, the child after it has
executed another program, a stranger that was given the PID, or nobody. The
observation, the pidfd and the confirmation are separate steps, so that any of
these changes can fall between them; a confirmation and the `HasExited` after it
are one step, which is sound because a child that has not exited at the second
was alive at the first. `acted` and `code0` are what the child does. The two output streams are
one `pipe`: the code waits for both. Deadlines are one bit for the capture
(`overdue`) and otherwise a choice that is always open, since a deadline may pass
at any moment. Only the Linux branches are modelled; a signal of Windows goes to
the retained handle.

`OwnedCommand` keeps of this `phase`, `child`, `acted` and `kept`: a call begins,
returns only over a child that is gone, or throws, and then keeps a child
that lives.

### Repository publication

`step` is the command at hand, `reply` its output reduced to what the code
compares, and a step is: the call begins, its child acts (`Act`, which changes
GitHub), the call returns or throws, the publisher reacts. The child may act and
the call still throw, or the publisher die (`Killed`) or give up with the child
alive; it then may act in the middle of a later attempt (`strays`): the custody of
the native command is memory of a process that ends with `exit 1`. `settings` are the three
configurations a PUT puts in force, or accepts without putting in force. `main` is
the commits of the main branch in order. Others push to main while it is not
protected, move the publication branch, close the pull request and change the
visibility; they do not undo settings, or create or merge a pull request. That `default_branch` is
`main`, which the last read compares too, is left out. A run of the head commit may be skipped
(the run succeeds, its job did not), and be rerun while its pull request is open.

## 3. What the runs check

| run | instance | shows |
|---|---|---|
| `handoff_faults` | 2 replicas, every mode, 3 failed calls, 2 flaps, no other writer | `ZeroDowntime`: without flaps, a ready backend is selected in every state; `HandlerAcceptsOwnLeftovers`: the failure handler blocks only without a ready green; `NoFormerImageAfterMutation`, `UnblockedFailureIsSafe`; `KeepsPromise`: refinement of `TrafficHandoff`; `Ends` under fairness |
| `handoff_drift` | every mode, 2 foreign changes, 1 flap, 1 failed call | `CapacityReserved`, `CompletedClean`, `NoClobber`, `OwnerMutatesOffTraffic`, `MutatesBaseline`, `DrainsOnlyOwned` |
| `handoff_binding` | 1 foreign change | `MutatesOffTraffic` fails in a bound run (section 5) |
| `stage` | job of 6 ticks, reserve 2, delays 1, 1 failed call | `RecordsAreTrue`: what the records claim (`ClaimsAreTrue`) and name (`DurableCustody`) is so; `PassIsClean`, `ReserveHolds`; `KeepsPromise`: refinement of `NativeStage`; `Terminates` and `LeaseEnds`, each under the fairness it states |
| `custody` | 4 invocations, 2 phases, 2 roots of one attempt, 2 attempts, 1 file of the package | `ReceiptIsWhole`: what a receipt stands for; `StartsOnceAlone`: once, in order, never beside the SDK of another; `InvocationEnds` under fairness |
| `gitops` | 3 jobs, 1 fixup, 2 digests, any number of concurrent slots | `NothingLost`, `SuccessIsProposed`; `TruthfulWhenSerial`: with one slot the pull request says what it carries |
| `gitops_race` | 2 jobs at once | `PullRequestTruthful` fails (section 5) |
| `publication` | 2 publications, 1 or 2 slots, 2 runs of 2 attempts; each caller, and the local tag moved at any moment; the gate; both inspections | `DigestIsTruthful`: a reported digest is of a cleared image, and with one slot of what the job pushed itself; `LooksOnce`: refinement of `AtomicGate`; `RemovesOrReports`: an inspection that returns, and one of the Intranet that fails without a recovery receipt, has removed its container, and a receipt is true |
| `publication_race` | 2 publications at once | `DigestIsOwnImage` fails (section 5) |
| `tools`, command | one call after another, no bound | `StrikesOnlyChild`; `KeepsPromise`: refinement of `OwnedCommand`; `CallEnds` under fairness |
| `tools`, lifecycle | two stages, clock to 3 | `NoMixVerifies`: evidence that verifies is of one stage |
| `tools`, clock | job of 5, reserve and tolerance 1, time to 6 | `GrantsInsideJob`: no grant ends after the job, whatever one clock does |
| `tools`, hosted | one run, every failure | `CleansOnlyOwn`: ends with nothing of its own running, reports the first failure, leaves another's SDK alone |
| `tools`, source | each of the four programs | `BindsWhatWas` |
| `tools`, reads and report | 2 chunks, limit 2, 3 writes; 2 names, 5 lines | `ReadsExactly`: what is returned of a file or a child is all of it as it was at one moment; a report is kept exactly when its rows are one to one and its compared counters are right |
| `tools`, metadata | 1 change by others, beside one environment (`EditedFrom`), none beside the others | `ReplacesWhatWasPlanned`: canonical is patched only while it is what green was planned from |
| `repository` | 2 attempts, 1 act of another user, 1 rerun | `SuccessIsProtected`, `MergedWasValidated`; `LandsOnce`: the candidate is on main once at most, and over its own root; `AttemptEnds` under fairness |
| `repository_resume` | 2 attempts, nobody else | `ResumesOwnPublication` fails (section 5) |

**Bounds.** `MaxFaults`, `MaxForeign`, `MaxFlaps` cap events that come from
outside. Three failed calls reach a failure in the main sequence followed by
failures in the handler and in a route of the handler, which is as deep as the
code nests. Two foreign changes give a write and a write back. A stage of
three ticks in a job of six, with a reserve of two, puts every deadline of the
code (stage, native, job) before and after each step. Three jobs are enough for
one to replace, one to be replaced and one to hold a stale lease; two digests
suffice because a job only compares for equality. Two runs with two attempts
give a new run and a rerun between any two reads; beside the publications one run with a
rerun (`RunsBeside`), which opens and closes their gates at any moment. Two attempts of the publisher suffice
for a child of the first to act in the second; the second may find every state the
first can leave. One act of another user falls between any two steps. `RunCount` and `MaxAttempt`
bound GitHub's data, `MaxTime` the clock (past the end of the job). Of the custody's five
phases two are kept: the second stands for every phase that has one before it, and
the code treats all alike; four invocations (`MaxProcesses`) are a `prepare` and three
`run-all`, in one root or two, killed or not. Two chunks, a limit of two and three writes put a write
before, between and after the reads, and output below, at and above the limit.
Two definitions and two results of a report give a theory row, a duplicate and a wrong join. One
change by others falls between any two reads of the metadata, where the environment has one
reference and one literal; every other environment and template is planned, created and
read back undisturbed. In `JobClock` one unit
of reserve and of tolerance in a job of five lets a deadline fall on each side of both.

`CHECK_DEADLOCK FALSE` appears where the modelled program stops and the
environment runs out of bounded events (custody, image and repository publication, the
tools); the
other specifications have an explicit final stutter, so that TLC reports any
state in which the code waits for something that cannot come.

**Symmetry** is used on the jobs and digests of `gitops`, which checks
invariants only; no definition singles one out.

**Fairness.** `FairSpec` of the handoff: weak fairness of the policy, which is
synchronous straight-line code whose tool calls return. The liveness properties
of the stage carry their fairness as a premise. `Terminates` supposes
`ControllerActs` (a controller step that does not raise is taken in the end) and
`ManagerActs` (the manager and the clock go on), and nothing of the SDK, its
children or the wrapper: every wait of the controller is on the clock.
`FairSpec` of the custody: weak fairness of the
invocation's own steps (`Step`), every one of which the code takes under a deadline; nothing
of the metadata worker, which may never die, of a stage's leftovers or of who starts the
next invocation. The native command (its `FairSpec`, and in `MCTools` the same two
conditions): its own
code is taken on (every wait in it has a deadline) and time passes; nothing of the
child, which may ignore its signals or leave its output open. `FairSpec` of the
repository: the publisher goes on, which `CallEnds` justifies for its calls, and the
wait for a run has its deadline; nothing of GitHub.
`LeaseEnds` supposes nothing of the controller, only `ManagerActs` and
`KilledProcessesEnd` (a process killed with a failed unit eventually dies).

## 4. What is proved

TLAPS checks every theorem from nothing. Each safety theorem goes the same way:
an inductive invariant, initial states satisfy it, each action keeps it, it
implies the property, and one temporal step. Where an invariant is not the
property with its types, it had to be found; the last column says what it adds.

| module | theorems | inductive invariant and why it is needed |
|---|---|---|
| `ApplicationHandoffProofs` | `TypeCorrect`, `NeverClobbers` (`NoClobber`), `CapacityAlwaysReserved`, `CompletesClean`, `MutatesOnlyOffTraffic` (`OwnerMutatesOffTraffic`), `MutatesWhatItRead` (`MutatesBaseline`), `DrainsOwnedGreen` (`DrainsOnlyOwned`) | types together with which `pc` still hold a reservation, a green or a not-begun mutation, and that an unseen foreign write has moved the resourceVersion past the one the policy remembers; and that canonical is the ready Deployment of the snapshot while its version has not moved since `mutate` read it (`ReadInv`). The action properties follow from the tests of the patch and this last fact |
| `ApplicationHandoffProofs` | `ServesThroughout` (`ZeroDowntime`), `NeverFormerAgain` (`NoFormerImageAfterMutation`), `UnblockedMeansSafe` (`UnblockedFailureIsSafe`), `HandlerCopes` (`HandlerAcceptsOwnLeftovers`), `HandoffRefines` (`KeepsPromise`) | as long as nobody else has changed the cluster (`foreign = 0`, as in run `handoff_faults`). `Standing`: whatever the selector names is ready, and once the mutation has begun `original` is selected only over a renewed canonical. That is not inductive without what is known at each program point: whether the mutation has begun (`StartedAt`), where the traffic is (`SelectedAt`), what has been proved ready (`StandsAt`), what was read (`ReadAt`); `PlacedStep` keeps these for each call, with a response that is lost, a partial effect and each way out through the handler. The refinement is step simulation: a patch of the selector, a creation, a drain and an end show; the rest stutters |
| `OwnedStageProofs` | `TypeCorrect`, `LeaseWithinJob` (`ReserveHolds`), `CustodySurvives` (`DurableCustody`), `AbsenceIsFinal` (`ClaimsAreTrue`), both together `RecordsTrue` (`RecordsAreTrue`) | `Lease` relates the unit's deadline to the job's clock through request and activation; `Custody` says what is on disk at each `pc`; `Absence` says that a recorded absence excludes every later start |
| `OwnedStageProofs` | `ReturnMeansClean` (`PassIsClean`) | `Unbroken`: while nothing has failed, each place of the code implies everything that was seen before it, and what was seen cannot be taken back (`Lasting`, `Learns`): neither by a process that is still running, nor by a later save. `Fresh`: a unit that has not been activated has no process |
| `OwnedStageProofs` | `StageKeepsPromise` (`KeepsPromise`) | step simulation over the same invariant and `SentToGate` (only a gate that waits is sent the payload, so that no unit is activated after it): whatever kills or ends processes is `End` or changes nothing (`EndsOrStays`), a send is `Release`, an exception out of `run` leaves the SDK as it finds it (`RaisesAsItIs`), and by `Unbroken` a return finds it passed |
| `ValidationCustodyProofs` | `TypeCorrect`, `ReceiptStandsForAll` (`ReceiptIsWhole`), `PhaseStartsOnceAlone` (`StartsOnceAlone`) | `LogIsRun`: a phase ran natively in a root exactly when its log exists, and for the invocation that created it, since creation is exclusive; `Progress` and `Done`: every phase before the one at hand is this invocation's own, clean and pinned, with its three files; `RowsSettled`: at most the worker of the call being made is not settled; `NoReceiptYet`: a receipt is the last thing an invocation writes, so that an older receipt is never about a later run; `NoGateLeft`: once no stage runs and another process does, no gate can become the SDK, so that the SDK admission sees is the only one there can be |
| `GitOpsHandoffProofs` | `TypeCorrect`, `WorkIsKept` (`NothingLost`), `SuccessProposes` (`SuccessIsProposed`), `TruthfulInTurn` (`TruthfulWhenSerial`) | `OneCommit` (a job has pushed exactly when it is past its push), `HeadIsPushed`, `ListedWasOpen` (a listed number was open after this job's push). For the last, `OwnDigest`, and `Serial`: with one slot the branch that a job has pushed is still its own and the number it listed is the only one open |
| `PublicationProofs` | `TypeCorrect`, `DigestTruthful` (`DigestIsTruthful`) | `Checked`: what each step has found, of the image Id handed on for the Intranet, of what the local tag names for the others until it moves (`Subject`, `Judged`); `Tagged` and `Reported` (what the registry's tag names, or a digest reports, was cleared); and `Alone`: with one slot whoever runs is the only one, so that the registry's tag is still its own |
| `PublicationProofs` | `GateTypeCorrect`, `GateLooksOnce` (`LooksOnce`) | `OutcomesOpen` (an outcome is written once), `Bound` (the attempt whose jobs were read passed). The second list then shows all runs succeeded and the same attempt latest, which is the abstract gate's one look |
| `PublicationProofs` | `InspectionRemovesOrReports` (`RemovesOrReports`) | `DaemonHolds`: what the daemon can hold at each step, where a removal it has answered can only end, and that a container whose Id is known is no longer being created; `PathOfRole`: which inspection takes which way out |
| `OwnedNativeCommandProofs` | `TypeCorrect`, `OnlyChildIsStruck` (`StrikesOnlyChild`), `CallSettles` (`SettledOrKept`, stated here only), `CallKeepsPromise` (`KeepsPromise`) | `Birth` and `Opened`: a child that lives has its PID, so a descriptor that was opened for the PID of a child still alive at the confirmation is the child's; `Finished`: only a read to the end leaves no failure; `Kept`. The refinement is step simulation: three actions and the child's own show, everything else stutters |
| `RepositoryPublicationProofs` | `TypeCorrect`, `SuccessProtects` (`SuccessIsProtected`), `MergesValidated` (`MergedWasValidated`), `LandsAtMostOnce` (`LandsOnce`) | `Validated`: an attempt of the job has succeeded wherever a merge is next or still under way in a stray child; `Merged`: the merge has taken effect wherever the code is past it; `ReadIsTrue`: what was read is in force. For the last, `Landing`: an attempt is `Late` once its push of the root is behind it; when a late child has outlived its attempt, the present one has found content and is turned away (`Turned`), so that of two merges one is never begun; and once the candidate is on main nobody is left who could create or reopen its pull request |
| `ToolsProofs` | `EvidenceTypeCorrect`, `DocumentsBind` (`BindsWhatWas`) | `ObservedLast`: a fact observed in a step with no reading after it has held at every reading, since what leaves does not return; `PlansSettleClaims` shows of each program's sequence that everything it claims is observed after its last reading |
| `ToolsProofs` | `GrantsEndInside` (`GrantsInsideJob`) | `OneIsRight`: which clock fails is fixed, and the other relates its reading to the time since the record; a monotonic clock that fails only falls behind. `OwnerBounded`: an owner's deadline is its true end on the record's scale, but for the tolerance (`Slack`) when the wall clock is the one that fails. A grant is then arithmetic |
| `ToolsProofs` | `EvidenceOfOne` (`NoMixVerifies`) | evidence is judged at once, so the invariant only says that it was judged by `verify`; the work is `MixIsRefused`: of every way to mix two stages, some pair that `verify` compares differs |
| `ToolsProofs` | `SuiteCleansOnlyOwn` (`CleansOnlyOwn`) | `NothingLost`: a child of `main` runs only where `main` waits for it or has it quarantined; `RootIsOwn`: the child's `owned_root` is set only over a root it made; `TellsWhatWas`: what the receipt says is what the first failure was |
| `ToolsProofs` | `ReadsWhole`, with it `ReadsAndReportsWhole` (`ReadsExactly`) | `ReadBetween`: every chunk lies between the version at the open and the present one as long as the path names the same file; `ReadersTell`: a reader that has left its loop has drained its closed pipe or said that it has not. Of the reports: the next row |
| `ToolsProofs` | `KeptMeansExact`, `DiagnosticIsExact` | stated of any report and any lines, not only those of `ReportInit`; the counters of an exact report are those the code compares. Rows that are each joined to a case, no two to the same, and as many as the cases, meet every case (an injection of a finite set into itself is onto), which gives the numbering that an exact report has. Of a diagnostic, the lines that say something are mapped one to one onto the controls, `ran` and `OK`, which are different names by `ToolsAssumption` |
| `ToolsProofs` | `ReplacesAsPlanned` (`ReplacesWhatWasPlanned`) | `ReadOfOneVersion`: versions only grow, so that while canonical still has the version that was read first, what has been read since, command by command (`EnvSoFar`, `FieldsSoFar`), is what canonical is, and in the end equals the baseline; `PlanAcceptedAt`: the plan was accepted for what was read, whose values have the names that were read before them (`NamedAlike`). What the loop over the environment does to it (`CarriedIsLoop`) is proved for an environment of any length, by induction on how much of it has been read |

The theorems hold for every replica count, bound, clock, set of jobs, digests,
phases, roots, runs and attempts that satisfies the named assumptions: `ClusterAssumption`,
`FaultAssumption`; `ClockAssumption`, `StageAssumption`; `CustodyAssumption`;
`NoneIsNew`, `NoneIsNoCommit`, `CommitsDistinct`, `TagIsNoDigest`,
`MaxRunningPositive`; `CiBounds`, `NoneIsNoImage`, `NoneIsNotPushed`, `PubsAreFinite`;
`PublicationAssumption`; `ToolsAssumption`. Only these constrain the system:
`StageAssumption` and `ClockAssumption` require that setup and activation of a
unit fit into the 300 s reserve; without it `ReserveHolds` is false. The others say
that bounds are naturals and that names differ.

What is proved of a run's property is the property itself. Where the code runs a loop
over a sequence (`Carried`), the model has it as a recursive function over the length that has been
read, and what it computes is proved by induction over the naturals in the form of
`SetInduction`: a set of naturals that contains 0 and with each number the next one contains them
all, which follows from the well-foundedness of the strict subset ordering of finite sets.

Only model-checked: the liveness properties `Ends`, `Terminates`, `LeaseEnds`,
`InvocationEnds`, `CallEnds` and `AttemptEnds`, since liveness under fairness is out of the
prover's reach. Types that are proved are not checked again in a run.

## 5. Where code and documentation disagree

* `handoff_binding`. `mutate` (`scripts/intranet_deployment_binding.py:163`)
  reads the Service and then patches the canonical Deployment; a JSON patch can
  test only the object it changes. "Both native identities and selected metadata
  are re-read at the actual mutation boundary", says its comment, and the test
  `test_fresh_uid_replicas_metadata_service_green_races_never_canonical_patch`
  injects a Service race, but before `mutate` begins. When traffic is moved back
  between the read and the patch, canonical is mutated while it serves. What
  does hold is `MutatesBaseline`, of the Deployment itself.
* `gitops_race`. The step "Open or update the GitOps pull request"
  (`actions/gitops-handoff/action.yml:138`) writes the body of the pull request
  some time after the push it describes. Nothing serialises the jobs of one
  service; when two overlap, the branch may carry the digest of one and the body,
  after both have reported success, name the digest of the other. With one job at a
  time (`TruthfulWhenSerial`, run `gitops`) the property holds.
* `publication_race`. "Publish and resolve immutable digest"
  (`.github/workflows/publish-image.yml:748`) reads the digest back through the
  mutable commit tag. Two admitted publications of one commit can push in turn
  before either reads. The reported digest is then of an image the other job
  built and scanned: cleared, but not the one this job built. With one publication
  at a time (`DigestIsTruthful`, run `publication`, and proved) the property holds.
* `repository_resume`. The test "reuses the exact open candidate pull request when
  publication resumes" (`tests/publication/Test-LegacyPublication.Tests.ps1:827`) has
  a missing repository with a pull request. A real attempt pushes the root commit
  first, and from then on every attempt stops at "Target GitHub repository is
  unexpectedly non-empty" (`scripts/Publish-LegacyRepository.ps1:219`): an attempt that
  failed after its first push is never resumed, and the reuse of the pull request
  (lines 242-253) is reached only when someone else has opened it during the attempt.
* Seen and not run as a check: `README.md` of the repository (lines 85-95)
  speaks of seven packaged assets and of an exempt BFF, while the inspection
  verifies six assets and three assembly files, for the BFF as well.

## 6. What is not modelled

* Pure validators of documents and trees, with neither state nor concurrency:
  the credential and JWT scanners, the FDM gates, the
  observability and build-context validators, `Test-LegacyPublication.ps1`; of the offline
  release source the deployment plan, the manifest wrapper and the PowerShell wrapper.
* `validate.yml`, `dotnet-validate.yml` and the rest of `actions/dotnet-validate`: one step
  after another on a fresh runner.
* `test-hosted-static.py`: the tests of the hosted suite. What
  `run-hosted-static.py` runs on Linux, the supervisor and the suite are members of
  the sealed kit, which is not in the repository.
* `qualify_normal_validation_custody.py` but its `Fence`: it builds argument vectors
  and a report, and starts nothing in this commit.
* The analytics receipts, a fold over a list of events, and the benchmark runner: in the plan.
* Throughout: formatting, hashing, JSON shapes, messages. A digest is a model
  value, a receipt is the fields that are compared.

## 7. Plan

In order of importance:

1. The link between `BoundedReads` and `SourceEvidence` as a refinement rather than as a
   remark.
2. `AdditiveBenchmark` runner over the process model of the owned command;
   `OutcomeReceipts` as operators against a reference definition, with what its fold
   computes proved by `SetInduction`.
