---------------------------- MODULE HostedStatic ----------------------------
(***************************************************************************)
(* The hosted static qualification on Windows: main() of                   *)
(* run-hosted-static.py, and hosted-sdk-bootstrap.py as the child process  *)
(* that installs a disposable SDK under a fixed path.  The owned-command   *)
(* library and the supervisor come out of the sealed kit (external): a     *)
(* command whose end cannot be verified is quarantined, and the supervisor *)
(* returns when nothing is quarantined any more.                           *)
(*                                                                         *)
(* Definitions named <Definition>_<slip> are the definition they precede   *)
(* with a plausible slip in it; nothing uses them.                         *)
(***************************************************************************)
EXTENDS Naturals

VARIABLES
  lease,       \* the permit: current or expired
  kit,         \* what the host answers for the blob
  sdk,         \* the directory SDK_ROOT
  cache,       \* the downloaded archive is on disk
  step,        \* of main()
  failure,     \* preserve_first_failure: none, or what failed first
  quarantined, \* commands whose end was not verified
  git,         \* the last git command is running
  boot,        \* of the bootstrap: step, owned_cache, owned_root, success
  report       \* wrapper-receipt.json

hostedVars == <<lease, kit, sdk, cache, step, failure, quarantined, git, boot, report>>
bootVars == <<sdk, cache, boot>>

Absent == [by |-> "nobody", owner |-> "none", whole |-> FALSE]
There == sdk # Absent
NoBoot == [at |-> "none", cache |-> FALSE, root |-> FALSE, success |-> FALSE]
NoReport == [written |-> FALSE, failure |-> "none", removed |-> FALSE]
Outside == {"permit", "fetch", "roots", "provider"}
Body == {"head", "admission", "checkout", "materialize", "bootstrap", "installing", "core"}

\* A root left by an earlier run may be in place: of this lease, when the job
\* was rerun under its permit, of another one, or without its owner file.
HostedInit ==
  /\ lease = "current" /\ kit \in {"sealed", "other"}
  /\ sdk \in {Absent} \cup [by : {"earlier"}, owner : {"this", "other", "none"}, whole : {TRUE}]
  /\ cache \in BOOLEAN
  /\ step = "permit" /\ failure = "none" /\ quarantined = {} /\ git = FALSE
  /\ boot = NoBoot /\ report = NoReport

HGoes(from, to) == step = from /\ step' = to
-----------------------------------------------------------------------------
(* main(), up to the try: what fails here is raised with nothing to clean.  *)

ValidatePermit ==
  /\ HGoes("permit", "fetch") /\ lease = "current"
  /\ UNCHANGED <<lease, kit, failure, quarantined, git, bootVars, report>>

\* The blob, its inventory and every member are those of the policy.
SealedKit ==
  /\ HGoes("fetch", "roots") /\ kit = "sealed"
  /\ UNCHANGED <<lease, kit, failure, quarantined, git, bootVars, report>>

FreshRoots ==
  /\ HGoes("roots", "provider")
  /\ UNCHANGED <<lease, kit, failure, quarantined, git, bootVars, report>>

PinnedProvider ==
  /\ HGoes("provider", "head")
  /\ UNCHANGED <<lease, kit, failure, quarantined, git, bootVars, report>>

RaisesBare ==
  /\ step \in Outside /\ step' = "raised" /\ failure' = "bare"
  /\ UNCHANGED <<lease, kit, quarantined, git, bootVars, report>>
-----------------------------------------------------------------------------
(* The body of the try.                                                     *)

\* A command that fails may have been left behind, still running.
Fails(what) ==
  /\ step \in Body /\ step' = "supervise" /\ failure' = "body"
  /\ quarantined' = quarantined \cup what

Git(from, to) ==
  /\ \/ HGoes(from, to) /\ UNCHANGED <<failure, quarantined, git>>
     \/ /\ step = from
        /\ \E left \in BOOLEAN : git' = left /\ Fails(IF left THEN {"git"} ELSE {})
  /\ UNCHANGED <<lease, kit, bootVars, report>>

Prepare ==
  \/ Git("head", "admission")
  \/ Git("checkout", "materialize")
  \/ /\ \/ HGoes("admission", "checkout")
        \/ HGoes("materialize", "bootstrap")
     /\ UNCHANGED <<lease, kit, failure, quarantined, git, bootVars, report>>

\* The permit is validated anew before the SDK is installed; the bootstrap is
\* its reviewed bytes.
StartBootstrap ==
  /\ HGoes("bootstrap", "installing") /\ lease = "current"
  /\ boot' = [NoBoot EXCEPT !.at = "fresh"]
  /\ UNCHANGED <<lease, kit, sdk, cache, failure, quarantined, git, report>>

\* Its end, or its timeout: killed, or retained when it cannot be.
Installed ==
  /\ boot.at = "done" /\ HGoes("installing", "core")
  /\ UNCHANGED <<lease, kit, failure, quarantined, git, bootVars, report>>

NotInstalled ==
  /\ step = "installing"
  /\ \/ Fails({}) /\ boot' = [boot EXCEPT !.at = IF @ = "done" THEN @ ELSE "gone"]
     \/ boot.at \notin {"done", "gone"} /\ Fails({"bootstrap"}) /\ UNCHANGED boot
  /\ UNCHANGED <<lease, kit, sdk, cache, git, report>>

\* hosted_static_core of the kit; it has the SDK at its disposal.
Core ==
  /\ HGoes("core", "supervise")
  /\ UNCHANGED <<lease, kit, failure, quarantined, git, bootVars, report>>

BodyRaises ==
  /\ step # "installing" /\ Fails({})
  /\ UNCHANGED <<lease, kit, git, bootVars, report>>
-----------------------------------------------------------------------------
(* The finally: cleanup() and receipt() under preserve_first_failure.       *)

First(error) == failure' = IF failure = "none" THEN error ELSE failure

Ended(name) == IF name = "git" THEN ~git ELSE boot.at \in {"done", "gone"}

\* While something is quarantined whatever is raised is caught and the loop
\* supervises again.
Supervise ==
  /\ step = "supervise"
  /\ \/ /\ \E name \in quarantined : Ended(name) /\ quarantined' = quarantined \ {name}
        /\ UNCHANGED step
     \/ quarantined = {} /\ step' = "sdk" /\ UNCHANGED quarantined
  /\ UNCHANGED <<lease, kit, failure, git, bootVars, report>>

CleanupRaises(removed) ==
  /\ step' = "receipt" /\ First("cleanup")
  /\ report' = [report EXCEPT !.removed = FALSE]

\* validate_sdk_cleanup: the identity admitted at the start, permit or not.
OwnedSdk_anyLease == sdk.owner # "none"
OwnedSdk == sdk.owner = "this"

RemoveSdk ==
  /\ step = "sdk"
  /\ \/ /\ There => OwnedSdk
        /\ sdk' = Absent /\ step' = "receipt"
        /\ report' = [report EXCEPT !.removed = TRUE] /\ UNCHANGED failure
     \/ \* rmtree fails half way
        /\ There /\ OwnedSdk
        /\ \E owner \in {"this", "none"} : sdk' = [sdk EXCEPT !.owner = owner, !.whole = FALSE]
        /\ CleanupRaises(FALSE)
     \/ CleanupRaises(FALSE) /\ UNCHANGED sdk
  /\ UNCHANGED <<lease, kit, cache, quarantined, git, boot>>

Receipt ==
  /\ step = "receipt"
  /\ \/ /\ report' = [report EXCEPT !.written = TRUE,
                                    !.failure = IF failure = "body" THEN "body" ELSE "none"]
        /\ step' = (IF failure = "none" THEN "passed" ELSE "raised")
        /\ UNCHANGED failure
     \/ First("receipt") /\ step' = "raised" /\ UNCHANGED report
  /\ UNCHANGED <<lease, kit, quarantined, git, bootVars>>
-----------------------------------------------------------------------------
(* The bootstrap.                                                           *)

BGoes(from, to) == boot.at = from /\ boot' = [boot EXCEPT !.at = to]

FreshSdk == BGoes("fresh", "cache") /\ ~There /\ UNCHANGED <<sdk, cache>>

Download ==
  \/ /\ boot.at = "cache" /\ ~cache /\ cache' = TRUE
     /\ boot' = [boot EXCEPT !.at = "archive", !.cache = TRUE] /\ UNCHANGED sdk
  \/ BGoes("archive", "mkdir") /\ UNCHANGED <<sdk, cache>>

MakeRoot ==
  /\ boot.at = "mkdir" /\ ~There
  /\ sdk' = [by |-> "this", owner |-> "none", whole |-> FALSE]
  /\ boot' = [boot EXCEPT !.at = "owner", !.root = TRUE] /\ UNCHANGED cache

WriteOwner == BGoes("owner", "extract") /\ sdk' = [sdk EXCEPT !.owner = "this"] /\ UNCHANGED cache

SafeExtract ==
  /\ boot.at = "extract" /\ sdk' = [sdk EXCEPT !.whole = TRUE]
  /\ boot' = [boot EXCEPT !.at = "unlink", !.success = TRUE] /\ UNCHANGED cache

BootFails ==
  \/ BGoes("fresh", "gone") /\ UNCHANGED <<sdk, cache>>
  \/ /\ boot.at \in {"cache", "archive", "mkdir", "owner", "extract"}
     /\ boot' = [boot EXCEPT !.at = "unlink"] /\ UNCHANGED <<sdk, cache>>

\* Its finally; what fails in it leaves the rest undone.
BootFinally ==
  \/ BGoes("unlink", "rmtree") /\ cache' = (cache /\ ~boot.cache) /\ UNCHANGED sdk
  \/ /\ BGoes("rmtree", IF boot.success THEN "done" ELSE "gone")
     /\ sdk' = (IF boot.root /\ ~boot.success THEN Absent ELSE sdk) /\ UNCHANGED cache
  \/ (BGoes("unlink", "gone") \/ BGoes("rmtree", "gone")) /\ UNCHANGED <<sdk, cache>>

Bootstrap ==
  /\ FreshSdk \/ Download \/ MakeRoot \/ WriteOwner \/ SafeExtract \/ BootFails \/ BootFinally
  /\ UNCHANGED <<lease, kit, step, failure, quarantined, git, report>>

\* The permit expires; what was left running ends, or is killed at last.
World ==
  /\ \/ lease = "current" /\ lease' = "expired" /\ UNCHANGED <<git, boot>>
     \/ git /\ git' = FALSE /\ UNCHANGED <<lease, boot>>
     \/ /\ "bootstrap" \in quarantined /\ ~Ended("bootstrap")
        /\ boot' = [boot EXCEPT !.at = "gone"] /\ UNCHANGED <<lease, git>>
  /\ UNCHANGED <<kit, sdk, cache, step, failure, quarantined, report>>

Main == ValidatePermit \/ SealedKit \/ FreshRoots \/ PinnedProvider \/ RaisesBare \/ Prepare
        \/ StartBootstrap \/ Installed \/ NotInstalled \/ Core \/ BodyRaises
        \/ Supervise \/ RemoveSdk \/ Receipt
HostedNext == Main \/ Bootstrap \/ World

HostedSpec == HostedInit /\ [][HostedNext]_hostedVars
-----------------------------------------------------------------------------
\* Whatever fails, and however long a command that could not be stopped goes
\* on: when main() has entered its try and ends, no process of its own is left;
\* it passes only when its body, its cleanup and its receipt have succeeded and
\* the SDK is gone; a receipt names the failure of the body, and says that the
\* SDK is removed only when it is.
EndsTruthfully ==
  step \in {"passed", "raised"} =>
    /\ ~git /\ (boot = NoBoot \/ Ended("bootstrap"))
    /\ step = "passed" => failure = "none" /\ report.written /\ report.removed
    /\ report.removed => ~There
    /\ report.written => (report.failure = "body" <=> failure = "body")

\* So it is, and a root of another lease, or one nobody can be shown to own, is
\* never touched unless this run has made it.
CleansOnlyOwn ==
  [][/\ EndsTruthfully'
     /\ sdk.by = "earlier" /\ sdk.owner # "this" => sdk' = sdk]_hostedVars
=============================================================================
