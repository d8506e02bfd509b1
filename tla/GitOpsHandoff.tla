--------------------------- MODULE GitOpsHandoff ---------------------------
(***************************************************************************)
(* actions/gitops-handoff/action.yml with scripts/Set-GitOpsImageDigest.ps1: *)
(* workflow runs ("jobs") propose an image digest by rewriting one          *)
(* deterministic branch of maliev-gitops and opening, or editing, the pull  *)
(* request of that branch.  Nothing in the action serialises the jobs of a  *)
(* service; MaxRunning is the number a caller lets run at once.             *)
(*                                                                         *)
(* The repository on GitHub (main, the branch, its pull requests) and the   *)
(* people who merge, close and fix up pull requests are external.           *)
(*                                                                         *)
(* Definitions named <Definition>_<slip> are the definition they precede    *)
(* with a plausible slip in it; nothing uses them.                          *)
(***************************************************************************)
EXTENDS Naturals, Sequences, FiniteSets

CONSTANTS
  Jobs,        \* runs of the action for one allowlisted service
  Fixups,      \* commits a person may add to the branch
  Digests,     \* published image digests
  Tag,         \* a manifest that still carries newTag instead of digest
  None,        \* no branch, no pull request number
  MaxRunning   \* bound: jobs a caller lets run at the same time

ASSUME NoneIsNew == None \notin Jobs \cup Fixups
ASSUME NoneIsNoCommit == None \notin [digest : Digests, base : Digests \cup {Tag}]
ASSUME CommitsDistinct == Jobs \cap Fixups = {}
ASSUME TagIsNoDigest == Tag \notin Digests
ASSUME MaxRunningPositive == MaxRunning \in Nat \ {0}

VARIABLES
  main,      \* the reference in the manifest on main
  branch,    \* the commit at the head of the branch, or None
  commit,    \* commit[c]: the reference it sets, and the one it replaces
  over,      \* over[c]: the head that c knowingly replaced
  pulls,     \* the pull requests of the branch, by number
  merged,    \* commits that reached main
  withdrawn, \* commits whose pull request or branch a person closed
  job,       \* job[j]: step, digest, tracking ref, pull request number
  slots      \* jobs the caller lets run at the same time

vars == <<main, branch, commit, over, pulls, merged, withdrawn, job, slots>>
remote == <<main, branch, commit, over, pulls, merged, withdrawn>>

Commits == Jobs \cup Fixups
Steps == {"queued", "checkedOut", "prepared", "pushed", "listed",
          "updated", "noOp", "failed"}
Running(j) == job[j].pc \in {"checkedOut", "prepared", "pushed", "listed"}

OpenNumbers == {n \in DOMAIN pulls : pulls[n].state = "open"}
Pushed(c) == commit[c] # None

TypeOK ==
  /\ main \in Digests \cup {Tag}
  /\ branch \in Commits \cup {None}
  /\ commit \in [Commits -> [digest : Digests, base : Digests \cup {Tag}] \cup {None}]
  /\ over \in [Commits -> Commits \cup {None}]
  /\ pulls \in Seq([state : {"open", "closed"}, body : Digests])
  /\ \A m, n \in OpenNumbers : m = n
  /\ merged \subseteq Commits
  /\ withdrawn \subseteq Commits
  /\ job \in [Jobs -> [pc : Steps, digest : Digests, base : Digests \cup {Tag},
                       tracking : Commits \cup {None}, number : Nat]]
  /\ slots \in 1 .. MaxRunning

Init ==
  /\ main \in Digests \cup {Tag}
  /\ branch = None
  /\ commit = [c \in Commits |-> None]
  /\ over = [c \in Commits |-> None]
  /\ pulls = <<>>
  /\ merged = {}
  /\ withdrawn = {}
  /\ \E d \in [Jobs -> Digests] :
       job = [j \in Jobs |-> [pc |-> "queued", digest |-> d[j], base |-> main,
                              tracking |-> None, number |-> 0]]
  /\ slots \in 1 .. MaxRunning

-----------------------------------------------------------------------------
(* One job.                                                                *)

(* actions/checkout with fetch-depth 0: main, and every remote branch as a  *)
(* tracking ref.                                                           *)
Checkout(j) ==
  /\ job[j].pc = "queued"
  /\ Cardinality({k \in Jobs : Running(k)}) < slots
  /\ job' = [job EXCEPT ![j].pc = "checkedOut", ![j].base = main,
                        ![j].tracking = branch]
  /\ UNCHANGED remote

(* The script reports no-op when the checked out manifest already carries   *)
(* the digest; otherwise it rewrites the one reference, and the job         *)
(* validates and commits it on the deterministic branch.                    *)
Changed(j) == job[j].base # job[j].digest

NoOp(j) ==
  /\ job[j].pc = "checkedOut"
  /\ ~Changed(j)
  /\ job' = [job EXCEPT ![j].pc = "noOp"]
  /\ UNCHANGED remote

Prepare(j) ==
  /\ job[j].pc = "checkedOut"
  /\ Changed(j)
  /\ job' = [job EXCEPT ![j].pc = "prepared"]
  /\ UNCHANGED remote

(* push --force-with-lease: the remote head must still be the tracking ref; *)
(* without a tracking ref the branch must not exist.                        *)
LeaseHolds_forced(j) == TRUE

LeaseHolds(j) == branch = job[j].tracking

Push(j) ==
  /\ job[j].pc = "prepared"
  /\ LeaseHolds(j)
  /\ branch' = j
  /\ commit' = [commit EXCEPT ![j] = [digest |-> job[j].digest, base |-> job[j].base]]
  /\ over' = [over EXCEPT ![j] = job[j].tracking]
  /\ job' = [job EXCEPT ![j].pc = "pushed"]
  /\ UNCHANGED <<main, pulls, merged, withdrawn>>

PushRefused(j) ==
  /\ job[j].pc = "prepared"
  /\ ~LeaseHolds(j)
  /\ job' = [job EXCEPT ![j].pc = "failed"]
  /\ UNCHANGED remote

(* gh pr list --head BRANCH --state open, .[0].number or empty (0).         *)
Listed_anyState == Len(pulls)

Listed == IF OpenNumbers = {} THEN 0 ELSE CHOOSE n \in OpenNumbers : TRUE

ListPulls(j) ==
  /\ job[j].pc = "pushed"
  /\ job' = [job EXCEPT ![j].pc = "listed", ![j].number = Listed]
  /\ UNCHANGED remote

(* gh pr edit: GitHub accepts it for a closed pull request too.  A call     *)
(* that took effect may still be reported as failed.                        *)
EditPull_titleOnly(j) ==
  /\ job[j].pc = "listed"
  /\ job[j].number # 0
  /\ \E end \in {"updated", "failed"} : job' = [job EXCEPT ![j].pc = end]
  /\ UNCHANGED remote

EditPull(j) ==
  /\ job[j].pc = "listed"
  /\ job[j].number # 0
  /\ pulls' = [pulls EXCEPT ![job[j].number].body = job[j].digest]
  /\ \E end \in {"updated", "failed"} : job' = [job EXCEPT ![j].pc = end]
  /\ UNCHANGED <<main, branch, commit, over, merged, withdrawn>>

(* gh pr create: refused when the branch is gone, has nothing main lacks,   *)
(* or has an open pull request.                                            *)
CanCreate == branch # None /\ branch \notin merged /\ OpenNumbers = {}

CreatePull(j) ==
  /\ job[j].pc = "listed"
  /\ job[j].number = 0
  /\ CanCreate
  /\ pulls' = Append(pulls, [state |-> "open", body |-> job[j].digest])
  /\ \E end \in {"updated", "failed"} : job' = [job EXCEPT ![j].pc = end]
  /\ UNCHANGED <<main, branch, commit, over, merged, withdrawn>>

CreateRefused(j) ==
  /\ job[j].pc = "listed"
  /\ job[j].number = 0
  /\ ~CanCreate
  /\ job' = [job EXCEPT ![j].pc = "failed"]
  /\ UNCHANGED remote

(* The script refuses the inputs, the contract or the checked out manifest. *)
ScriptRefuses(j) ==
  /\ job[j].pc = "checkedOut"
  /\ job' = [job EXCEPT ![j].pc = "failed"]
  /\ UNCHANGED remote

(* A later validation refuses, a call is lost or the runner dies.           *)
Fail(j) ==
  /\ Running(j)
  /\ job' = [job EXCEPT ![j].pc = "failed"]
  /\ UNCHANGED remote

JobStep(j) ==
  \/ Checkout(j) \/ NoOp(j) \/ Prepare(j) \/ Push(j) \/ PushRefused(j)
  \/ ListPulls(j) \/ EditPull(j) \/ CreatePull(j) \/ CreateRefused(j) \/ ScriptRefuses(j)
  \/ Fail(j)

-----------------------------------------------------------------------------
(* The people who review the pull request.                                 *)

Close(n) == pulls' = [pulls EXCEPT ![n].state = "closed"]

(* git merges the branch when main still carries the reference the commit   *)
(* replaces; the reviewer, or GitHub, may then delete the branch.           *)
Merge ==
  /\ branch \in Commits
  /\ main = commit[branch].base
  /\ \E n \in OpenNumbers : Close(n)
  /\ main' = commit[branch].digest
  /\ merged' = merged \cup {branch}
  /\ branch' \in {branch, None}
  /\ UNCHANGED <<commit, over, withdrawn, job>>

ClosePull ==
  /\ \E n \in OpenNumbers : Close(n)
  /\ withdrawn' = withdrawn \cup ({branch} \ {None})
  /\ branch' \in {branch, None}
  /\ UNCHANGED <<main, commit, over, merged, job>>

(* A person adds a commit to the branch of an open pull request.            *)
AddFixup(f) ==
  /\ commit[f] = None
  /\ OpenNumbers # {}
  /\ branch \in Commits
  /\ commit' = [commit EXCEPT ![f] = commit[branch]]
  /\ over' = [over EXCEPT ![f] = branch]
  /\ branch' = f
  /\ UNCHANGED <<main, pulls, merged, withdrawn, job>>

Done ==
  /\ \A j \in Jobs : job[j].pc \in {"updated", "noOp", "failed"}
  /\ UNCHANGED vars

Next ==
  /\ \/ \E j \in Jobs : JobStep(j)
     \/ Merge
     \/ ClosePull
     \/ \E f \in Fixups : AddFixup(f)
     \/ Done
  /\ UNCHANGED slots

Spec == Init /\ [][Next]_vars

-----------------------------------------------------------------------------

KnowinglyReplaced(c) == \E k \in Commits : Pushed(k) /\ over[k] = c

(* No push discards work its job had not seen: every commit that was ever   *)
(* at the head of the branch is still there, reached main, was withdrawn by *)
(* a person, or was replaced by a commit whose author started from it.      *)
NothingLost ==
  \A c \in Commits : Pushed(c) =>
     c = branch \/ c \in merged \/ c \in withdrawn \/ KnowinglyReplaced(c)

(* A job that reports "updated" has put its digest before a reviewer: its   *)
(* commit is the head of an open pull request, unless it was merged,        *)
(* withdrawn by a person, or knowingly replaced by a later commit.          *)
SuccessIsProposed ==
  \A j \in Jobs : job[j].pc = "updated" =>
     \/ branch = j /\ OpenNumbers # {}
     \/ j \in merged \cup withdrawn
     \/ KnowinglyReplaced(j)

(* The open pull request says which digest it hands off: once the job whose *)
(* commit heads the branch has succeeded, the body names that digest.       *)
PullRequestTruthful ==
  \A n \in OpenNumbers :
     branch \in Jobs /\ job[branch].pc = "updated" =>
       pulls[n].body = commit[branch].digest

(* It does when the caller lets one job run after the other.                *)
TruthfulWhenSerial == slots = 1 => PullRequestTruthful
=============================================================================
