------------------------ MODULE GitOpsHandoffProofs ------------------------
(***************************************************************************)
(* Proofs about GitOpsHandoff for any number of jobs at the same time, any  *)
(* digests and any interleaving with the people who review.                 *)
(***************************************************************************)
EXTENDS GitOpsHandoff, SequenceTheorems, FiniteSetTheorems, TLAPS

Settled(c) == c \in merged \cup withdrawn \/ KnowinglyReplaced(c)

(* A job that has not pushed has no commit; one that is past its push has.  *)
OneCommit ==
  \A j \in Jobs :
     /\ job[j].pc \in {"queued", "checkedOut", "prepared", "noOp"} => commit[j] = None
     /\ job[j].pc \in {"pushed", "listed", "updated"} => commit[j] # None

(* A number a job listed exists, and what it listed was open while the      *)
(* job's commit was on the branch or had been settled.                      *)
ListedWasOpen ==
  \A j \in Jobs :
     /\ job[j].pc = "listed" /\ job[j].number # 0 => job[j].number \in DOMAIN pulls
     /\ \/ job[j].pc = "listed" /\ job[j].number # 0
        \/ job[j].pc = "updated"
        => OpenNumbers # {} \/ Settled(j)

HeadIsPushed == branch # None => Pushed(branch)

Inv == TypeOK /\ OneCommit /\ HeadIsPushed /\ NothingLost /\ ListedWasOpen

USE NoneIsNew, CommitsDistinct, TagIsNoDigest DEF Commits

-----------------------------------------------------------------------------
(* What the calls do to the pull requests.                                 *)

PullRequests == [state : {"open", "closed"}, body : Digests]

LEMMA PullOfNumber ==
  ASSUME TypeOK, NEW n \in DOMAIN pulls
  PROVE  /\ pulls \in Seq(PullRequests)
         /\ n \in 1 .. Len(pulls)
         /\ pulls[n] \in PullRequests
<1>1. pulls \in Seq(PullRequests) /\ n \in 1 .. Len(pulls)
  BY DEF TypeOK, PullRequests
<1> QED
  BY <1>1, ElementOfSeq

(* Editing one pull request keeps the others and their numbers.             *)
LEMMA EditOne ==
  ASSUME TypeOK, NEW n \in DOMAIN pulls, NEW p \in PullRequests,
         pulls' = [pulls EXCEPT ![n] = p]
  PROVE  /\ pulls' \in Seq(PullRequests)
         /\ DOMAIN pulls' = DOMAIN pulls
         /\ pulls'[n] = p
         /\ \A m \in DOMAIN pulls \ {n} : pulls'[m] = pulls[m]
<1>1. pulls \in Seq(PullRequests) /\ n \in 1 .. Len(pulls)
  BY PullOfNumber
<1>2. pulls' \in Seq(PullRequests)
  BY <1>1, ExceptSeq
<1> QED
  BY <1>1, <1>2

LEMMA ListedIsOpen ==
  ASSUME TypeOK
  PROVE  /\ Listed \in Nat
         /\ Listed # 0 => Listed \in OpenNumbers
         /\ Listed = 0 <=> OpenNumbers = {}
  BY DEF Listed, OpenNumbers, TypeOK

LEMMA EditKeepsOpen ==
  ASSUME TypeOK, NEW n \in DOMAIN pulls, NEW d \in Digests,
         pulls' = [pulls EXCEPT ![n].body = d]
  PROVE  /\ pulls' \in Seq(PullRequests)
         /\ DOMAIN pulls' = DOMAIN pulls
         /\ OpenNumbers' = OpenNumbers
<1> DEFINE p == [pulls[n] EXCEPT !.body = d]
<1>1. pulls[n] \in PullRequests
  BY PullOfNumber
<1>2. p \in PullRequests /\ p.state = pulls[n].state
  BY <1>1 DEF PullRequests
<1>3. pulls' = [pulls EXCEPT ![n] = p]
  OBVIOUS
<1> HIDE DEF p
<1>4. /\ pulls' \in Seq(PullRequests)
      /\ DOMAIN pulls' = DOMAIN pulls
      /\ \A m \in DOMAIN pulls : pulls'[m].state = pulls[m].state
  BY <1>2, <1>3, EditOne
<1> QED
  BY <1>4 DEF OpenNumbers

LEMMA CreateOpens ==
  ASSUME TypeOK, NEW d \in Digests, OpenNumbers = {},
         pulls' = Append(pulls, [state |-> "open", body |-> d])
  PROVE  /\ pulls' \in Seq(PullRequests)
         /\ DOMAIN pulls \subseteq DOMAIN pulls'
         /\ OpenNumbers' = {Len(pulls) + 1}
<1> DEFINE p == [state |-> "open", body |-> d]
<1>0. p \in PullRequests /\ p.state = "open" /\ pulls \in Seq(PullRequests)
  BY DEF PullRequests, TypeOK
<1> HIDE DEF p
<1>1. /\ pulls' \in Seq(PullRequests)
      /\ DOMAIN pulls' = 1 .. (Len(pulls) + 1)
      /\ DOMAIN pulls = 1 .. Len(pulls)
      /\ Len(pulls) \in Nat
  BY <1>0, AppendProperties DEF p
<1>2. /\ \A m \in DOMAIN pulls : pulls'[m] = pulls[m]
      /\ pulls'[Len(pulls) + 1].state = "open"
  BY <1>0, AppendProperties DEF p
<1> QED
  BY <1>1, <1>2 DEF OpenNumbers

LEMMA CloseLeavesNone ==
  ASSUME TypeOK, NEW n \in OpenNumbers, Close(n)
  PROVE  /\ pulls' \in Seq(PullRequests)
         /\ DOMAIN pulls' = DOMAIN pulls
         /\ OpenNumbers' = {}
<1> DEFINE p == [pulls[n] EXCEPT !.state = "closed"]
<1>1. n \in DOMAIN pulls /\ pulls[n] \in PullRequests
  BY PullOfNumber DEF OpenNumbers
<1>2. p \in PullRequests /\ p.state = "closed"
  BY <1>1 DEF PullRequests
<1>3. pulls' = [pulls EXCEPT ![n] = p]
  BY DEF Close
<1> HIDE DEF p
<1>4. /\ pulls' \in Seq(PullRequests)
      /\ DOMAIN pulls' = DOMAIN pulls
      /\ pulls'[n].state = "closed"
      /\ \A m \in DOMAIN pulls \ {n} : pulls'[m] = pulls[m]
  BY <1>1, <1>2, <1>3, EditOne
<1> QED
  BY <1>4 DEF OpenNumbers, TypeOK

-----------------------------------------------------------------------------
LEMMA InitInv == Init => Inv
<1> SUFFICES ASSUME Init PROVE Inv
  OBVIOUS
<1>1. OpenNumbers = {}
  BY DEF Init, OpenNumbers
<1>2. PICK d \in [Jobs -> Digests] :
        job = [j \in Jobs |-> [pc |-> "queued", digest |-> d[j], base |-> main,
                               tracking |-> None, number |-> 0]]
  BY DEF Init
<1>3. job \in [Jobs -> [pc : Steps, digest : Digests, base : Digests \cup {Tag},
                        tracking : Commits \cup {None}, number : Nat]]
  BY <1>2 DEF Init, Steps
<1>4. TypeOK
  BY <1>1, <1>3 DEF Init, TypeOK
<1> QED
  BY <1>1, <1>2, <1>4 DEF Inv, Init, OneCommit, HeadIsPushed, NothingLost, ListedWasOpen, Pushed

(* A step that only moves one job on, and leaves GitHub alone.              *)
LEMMA LocalStep ==
  ASSUME Inv, NEW j \in Jobs, NEW r, UNCHANGED <<remote, slots>>,
         r \in [pc : Steps, digest : Digests, base : Digests \cup {Tag},
                tracking : Commits \cup {None}, number : Nat],
         job' = [job EXCEPT ![j] = r],
         r.pc \in {"queued", "checkedOut", "prepared", "noOp"} => commit[j] = None,
         r.pc \in {"pushed", "listed", "updated"} => commit[j] # None,
         r.pc # "updated",
         r.pc = "listed" => r.number = Listed
  PROVE  Inv'
<1>1. TypeOK'
  BY DEF Inv, TypeOK, OpenNumbers, remote
<1>2. OneCommit'
  BY DEF Inv, TypeOK, OneCommit, remote
<1>3. (HeadIsPushed /\ NothingLost)'
  BY DEF Inv, HeadIsPushed, NothingLost, KnowinglyReplaced, Pushed, remote
<1>4. ListedWasOpen'
  BY ListedIsOpen DEF Inv, TypeOK, ListedWasOpen, OpenNumbers, Settled, KnowinglyReplaced, Pushed, remote
<1> QED
  BY <1>1, <1>2, <1>3, <1>4 DEF Inv

(* The steps of a job that leave GitHub alone.                              *)
LEMMA JobMoves ==
  ASSUME Inv, NEW j \in Jobs,
         \/ Checkout(j) \/ NoOp(j) \/ Prepare(j) \/ PushRefused(j)
         \/ ListPulls(j) \/ CreateRefused(j) \/ ScriptRefuses(j) \/ Fail(j),
         UNCHANGED slots
  PROVE  Inv'
<1>0. TypeOK /\ OneCommit
  BY DEF Inv
<1> DEFINE Records == [pc : Steps, digest : Digests, base : Digests \cup {Tag},
                       tracking : Commits \cup {None}, number : Nat]
<1>t. job[j] \in Records /\ job \in [Jobs -> Records]
  BY <1>0 DEF TypeOK
<1>1. CASE Checkout(j)
  <2> DEFINE r == [job[j] EXCEPT !.pc = "checkedOut", !.base = main, !.tracking = branch]
  <2>1. r \in Records /\ r.pc = "checkedOut"
    BY <1>0, <1>t DEF TypeOK, Steps
  <2>2. job' = [job EXCEPT ![j] = r] /\ UNCHANGED remote
    BY <1>1 DEF Checkout
  <2>3. commit[j] = None
    BY <1>0, <1>1 DEF OneCommit, Checkout
  <2> HIDE DEF r
  <2> QED
    BY <2>1, <2>2, <2>3, LocalStep
<1>2. CASE NoOp(j) \/ Prepare(j)
  <2> PICK s \in {"noOp", "prepared"} : job' = [job EXCEPT ![j].pc = s]
    BY <1>2 DEF NoOp, Prepare
  <2> DEFINE r == [job[j] EXCEPT !.pc = s]
  <2>1. r \in Records /\ r.pc = s
    BY <1>t DEF Steps
  <2>2. job' = [job EXCEPT ![j] = r] /\ UNCHANGED remote
    BY <1>2 DEF NoOp, Prepare
  <2>3. commit[j] = None
    BY <1>0, <1>2 DEF OneCommit, NoOp, Prepare
  <2> HIDE DEF r
  <2> QED
    BY <2>1, <2>2, <2>3, LocalStep
<1>3. CASE PushRefused(j) \/ CreateRefused(j) \/ ScriptRefuses(j) \/ Fail(j)
  <2> DEFINE r == [job[j] EXCEPT !.pc = "failed"]
  <2>1. r \in Records /\ r.pc = "failed"
    BY <1>t DEF Steps
  <2>2. job' = [job EXCEPT ![j] = r] /\ UNCHANGED remote
    BY <1>3 DEF PushRefused, CreateRefused, ScriptRefuses, Fail
  <2> HIDE DEF r
  <2> QED
    BY <2>1, <2>2, LocalStep
<1>4. CASE ListPulls(j)
  <2> DEFINE r == [job[j] EXCEPT !.pc = "listed", !.number = Listed]
  <2>1. r \in Records /\ r.pc = "listed" /\ r.number = Listed
    BY <1>0, <1>t, ListedIsOpen DEF Steps
  <2>2. job' = [job EXCEPT ![j] = r] /\ UNCHANGED remote
    BY <1>4 DEF ListPulls
  <2>3. commit[j] # None
    BY <1>0, <1>4 DEF OneCommit, ListPulls
  <2> HIDE DEF r
  <2> QED
    BY <2>1, <2>2, <2>3, LocalStep
<1> QED
  BY <1>1, <1>2, <1>3, <1>4

(* The lease makes the pushed commit the successor of the head it replaces. *)
LEMMA PushKeeps ==
  ASSUME Inv, NEW j \in Jobs, Push(j), UNCHANGED slots
  PROVE  Inv'
<1>0. TypeOK /\ OneCommit /\ HeadIsPushed /\ NothingLost /\ ListedWasOpen
  BY DEF Inv
<1>1. /\ branch' = j /\ over' = [over EXCEPT ![j] = branch]
      /\ commit' = [commit EXCEPT ![j] = [digest |-> job[j].digest, base |-> job[j].base]]
      /\ job' = [job EXCEPT ![j].pc = "pushed"]
      /\ UNCHANGED <<main, pulls, merged, withdrawn>>
      /\ commit[j] = None
  BY <1>0 DEF Push, LeaseHolds, OneCommit
<1>2. commit'[j] # None
  BY <1>0, <1>1, NoneIsNoCommit DEF TypeOK
<1>3. \A c \in Commits \ {j} : commit'[c] = commit[c] /\ over'[c] = over[c]
  BY <1>0, <1>1 DEF TypeOK
<1>4. over'[j] = branch
  BY <1>0, <1>1 DEF TypeOK
<1>5. TypeOK'
  <2>1. commit' \in [Commits -> [digest : Digests, base : Digests \cup {Tag}] \cup {None}]
    BY <1>0, <1>1 DEF TypeOK
  <2>2. job' \in [Jobs -> [pc : Steps, digest : Digests, base : Digests \cup {Tag},
                          tracking : Commits \cup {None}, number : Nat]]
    <3> DEFINE Rows == [pc : Steps, digest : Digests, base : Digests \cup {Tag},
                        tracking : Commits \cup {None}, number : Nat]
               row == [job[j] EXCEPT !.pc = "pushed"]
    <3>1. job \in [Jobs -> Rows] /\ job[j] \in Rows
      BY <1>0 DEF TypeOK
    <3>2. row \in Rows
      BY <3>1 DEF Steps
    <3>3. job' = [job EXCEPT ![j] = row]
      BY <1>1
    <3> HIDE DEF Rows, row
    <3>4. job' \in [Jobs -> Rows]
      BY <3>1, <3>2, <3>3
    <3> QED
      BY <3>4 DEF Rows
  <2>3. branch' \in Commits \cup {None} /\ over' \in [Commits -> Commits \cup {None}]
    BY <1>0, <1>1 DEF TypeOK
  <2>4. OpenNumbers' = OpenNumbers
    BY <1>1 DEF OpenNumbers
  <2> QED
    BY <1>0, <1>1, <2>1, <2>2, <2>3, <2>4 DEF TypeOK
<1>6. \A k \in Jobs : job'[k] = IF k = j THEN [job[j] EXCEPT !.pc = "pushed"] ELSE job[k]
  BY <1>0, <1>1 DEF TypeOK
<1>7. OneCommit'
  BY <1>0, <1>2, <1>3, <1>6 DEF OneCommit, TypeOK
<1>8. \A c \in Commits : KnowinglyReplaced(c) => KnowinglyReplaced(c)'
  BY <1>1, <1>3 DEF KnowinglyReplaced, Pushed
<1>9. \A c \in Commits : c = branch => KnowinglyReplaced(c)'
  BY <1>0, <1>1, <1>2, <1>4 DEF KnowinglyReplaced, Pushed
<1>10. NothingLost'
  BY <1>0, <1>1, <1>2, <1>3, <1>8, <1>9 DEF NothingLost, Pushed, TypeOK
<1>11. HeadIsPushed'
  BY <1>1, <1>2 DEF HeadIsPushed, Pushed
<1>12. ListedWasOpen'
  <2>1. OpenNumbers' = OpenNumbers
    BY <1>1 DEF OpenNumbers
  <2>2. \A k \in Jobs : job'[k].pc \in {"listed", "updated"} => job'[k] = job[k]
    BY <1>0, <1>6 DEF TypeOK
  <2>3. \A c \in Commits : Settled(c) => Settled(c)'
    BY <1>1, <1>8 DEF Settled
  <2> QED
    BY <1>0, <1>1, <2>1, <2>2, <2>3 DEF ListedWasOpen
<1> QED
  BY <1>5, <1>7, <1>10, <1>11, <1>12 DEF Inv

(* Editing or creating a pull request leaves an open one, or a settled job. *)
LEMMA PullKeeps ==
  ASSUME Inv, NEW j \in Jobs, EditPull(j) \/ CreatePull(j), UNCHANGED slots
  PROVE  Inv'
<1>0. TypeOK /\ OneCommit /\ HeadIsPushed /\ NothingLost /\ ListedWasOpen
  BY DEF Inv
<1>1. /\ UNCHANGED <<main, branch, commit, over, merged, withdrawn>>
      /\ job[j].pc = "listed" /\ job[j].digest \in Digests
  BY <1>0 DEF EditPull, CreatePull, TypeOK
<1>2. PICK end \in {"updated", "failed"} : job' = [job EXCEPT ![j].pc = end]
  BY DEF EditPull, CreatePull
<1>3. /\ pulls' \in Seq(PullRequests)
      /\ DOMAIN pulls \subseteq DOMAIN pulls'
      /\ \A m, n \in OpenNumbers' : m = n
      /\ OpenNumbers # {} => OpenNumbers' # {}
      /\ OpenNumbers' # {} \/ Settled(j)
  <2>1. CASE EditPull(j)
    <3>1. /\ job[j].number \in DOMAIN pulls
          /\ OpenNumbers # {} \/ Settled(j)
      BY <1>0, <1>1, <2>1 DEF ListedWasOpen, EditPull
    <3>2. pulls' = [pulls EXCEPT ![job[j].number].body = job[j].digest]
      BY <2>1 DEF EditPull
    <3>3. /\ pulls' \in Seq(PullRequests)
          /\ DOMAIN pulls' = DOMAIN pulls
          /\ OpenNumbers' = OpenNumbers
      BY <1>0, <1>1, <3>1, <3>2, EditKeepsOpen
    <3> QED
      BY <1>0, <3>1, <3>3 DEF TypeOK
  <2>2. CASE CreatePull(j)
    <3>1. OpenNumbers = {} /\ pulls' = Append(pulls, [state |-> "open", body |-> job[j].digest])
      BY <2>2 DEF CreatePull, CanCreate
    <3> QED
      BY <1>0, <1>1, <3>1, CreateOpens
  <2> QED
    BY <2>1, <2>2
<1>4. \A k \in Jobs : job'[k] = IF k = j THEN [job[j] EXCEPT !.pc = end] ELSE job[k]
  BY <1>0, <1>2 DEF TypeOK
<1>5. TypeOK'
  BY <1>0, <1>1, <1>2, <1>3 DEF TypeOK, Steps, PullRequests
<1>6. OneCommit'
  BY <1>0, <1>1, <1>4 DEF OneCommit, TypeOK
<1>7. HeadIsPushed' /\ NothingLost'
  BY <1>0, <1>1 DEF HeadIsPushed, NothingLost, Pushed, KnowinglyReplaced
<1>8. ListedWasOpen'
  <2>1. \A c \in Commits : Settled(c)' = Settled(c)
    BY <1>1 DEF Settled, KnowinglyReplaced, Pushed
  <2>2. job'[j].pc # "listed"
    BY <1>0, <1>4 DEF TypeOK
  <2>3. \A k \in Jobs \ {j} : job'[k] = job[k]
    BY <1>4
  <2> QED
    BY <1>0, <1>3, <2>1, <2>2, <2>3 DEF ListedWasOpen
<1> QED
  BY <1>5, <1>6, <1>7, <1>8 DEF Inv

(* Closing the open pull request settles the commit at the head, and every  *)
(* other commit was settled before.                                         *)
LEMMA PersonKeeps ==
  ASSUME Inv, Merge \/ ClosePull, UNCHANGED slots
  PROVE  Inv'
<1>0. TypeOK /\ OneCommit /\ HeadIsPushed /\ NothingLost /\ ListedWasOpen
  BY DEF Inv
<1>1. /\ UNCHANGED <<commit, over, job>> /\ branch' \in {branch, None}
      /\ merged \subseteq merged' /\ withdrawn \subseteq withdrawn'
      /\ merged' \subseteq Commits /\ withdrawn' \subseteq Commits
      /\ main' \in Digests \cup {Tag}
      /\ branch # None => branch \in merged' \cup withdrawn'
  BY <1>0 DEF Merge, ClosePull, TypeOK, HeadIsPushed, Pushed
<1>2. PICK n \in OpenNumbers : Close(n)
  BY DEF Merge, ClosePull
<1>3. /\ pulls' \in Seq(PullRequests)
      /\ DOMAIN pulls' = DOMAIN pulls
      /\ OpenNumbers' = {}
  BY <1>0, <1>2, CloseLeavesNone
<1>4. TypeOK'
  BY <1>0, <1>1, <1>3 DEF TypeOK, PullRequests
<1>5. \A c \in Commits : Pushed(c) => Settled(c)'
  BY <1>0, <1>1 DEF NothingLost, Settled, KnowinglyReplaced, Pushed
<1>6. OneCommit' /\ HeadIsPushed'
  BY <1>0, <1>1 DEF OneCommit, HeadIsPushed, Pushed
<1>7. NothingLost'
  BY <1>1, <1>5 DEF NothingLost, Settled, Pushed
<1>8. ListedWasOpen'
  BY <1>0, <1>1, <1>3, <1>5 DEF ListedWasOpen, OneCommit, Pushed
<1> QED
  BY <1>4, <1>6, <1>7, <1>8 DEF Inv

(* A person's commit knowingly follows the head it is added to.             *)
LEMMA FixupKeeps ==
  ASSUME Inv, NEW f \in Fixups, AddFixup(f), UNCHANGED slots
  PROVE  Inv'
<1>0. TypeOK /\ OneCommit /\ HeadIsPushed /\ NothingLost /\ ListedWasOpen
  BY DEF Inv
<1>1. /\ branch' = f /\ over' = [over EXCEPT ![f] = branch]
      /\ commit' = [commit EXCEPT ![f] = commit[branch]]
      /\ UNCHANGED <<main, pulls, merged, withdrawn, job>>
      /\ commit[f] = None /\ branch \in Commits
  BY DEF AddFixup
<1>2. commit[branch] # None /\ commit[branch] \in [digest : Digests, base : Digests \cup {Tag}]
  BY <1>0, <1>1 DEF HeadIsPushed, Pushed, TypeOK
<1>3. /\ commit'[f] # None /\ over'[f] = branch
      /\ \A c \in Commits \ {f} : commit'[c] = commit[c] /\ over'[c] = over[c]
  BY <1>0, <1>1, <1>2 DEF TypeOK
<1>4. TypeOK'
  BY <1>0, <1>1, <1>2 DEF TypeOK, OpenNumbers
<1>5. OneCommit'
  BY <1>0, <1>1, <1>3 DEF OneCommit
<1>6. HeadIsPushed'
  BY <1>1, <1>3 DEF HeadIsPushed, Pushed
<1>7. \A c \in Commits : KnowinglyReplaced(c) \/ c = branch => KnowinglyReplaced(c)'
  BY <1>1, <1>3 DEF KnowinglyReplaced, Pushed
<1>8. NothingLost'
  BY <1>0, <1>1, <1>3, <1>7 DEF NothingLost, Pushed, TypeOK
<1>9. ListedWasOpen'
  BY <1>0, <1>1, <1>7 DEF ListedWasOpen, Settled, OpenNumbers
<1> QED
  BY <1>4, <1>5, <1>6, <1>8, <1>9 DEF Inv

LEMMA NextInv == Inv /\ [Next]_vars => Inv'
<1> SUFFICES ASSUME Inv, [Next]_vars PROVE Inv'
  OBVIOUS
<1>1. CASE UNCHANGED vars
  BY <1>1 DEF vars, Inv, TypeOK, OneCommit, HeadIsPushed, NothingLost, ListedWasOpen,
              OpenNumbers, Pushed, KnowinglyReplaced, Settled
<1>2. ASSUME NEW j \in Jobs, JobStep(j), UNCHANGED slots PROVE Inv'
  BY <1>2, JobMoves, PushKeeps, PullKeeps DEF JobStep
<1> QED
  BY <1>1, <1>2, PersonKeeps, FixupKeeps DEF Next, Done

THEOREM Invariance == Spec => []Inv
  BY InitInv, NextInv, PTL DEF Spec

(* The state of the jobs, of the branch and of its pull requests keeps its  *)
(* type, and the branch never has two open pull requests.                   *)
THEOREM TypeCorrect == Spec => []TypeOK
<1>1. Inv => TypeOK
  BY DEF Inv
<1> QED
  BY <1>1, Invariance, PTL

(* No commit ever pushed to the branch disappears without a later author    *)
(* having started from it: push --force-with-lease with the tracking ref of *)
(* the checkout is enough, however many jobs run at the same time.          *)
THEOREM WorkIsKept == Spec => []NothingLost
<1>1. Inv => NothingLost
  BY DEF Inv
<1> QED
  BY <1>1, Invariance, PTL

(* A job that reports "updated" has its digest in front of a reviewer, or a *)
(* reviewer or a later commit has dealt with it.                            *)
THEOREM SuccessProposes == Spec => []SuccessIsProposed
<1>1. Inv => SuccessIsProposed
  BY DEF Inv, SuccessIsProposed, NothingLost, ListedWasOpen, OneCommit, Settled, Pushed
<1> QED
  BY <1>1, Invariance, PTL
-----------------------------------------------------------------------------
(* A job's commit carries the digest the job was given.                     *)
OwnDigest ==
  \A j \in Jobs : job[j].pc \in {"pushed", "listed", "updated"} =>
     commit[j].digest = job[j].digest

(* With one slot, whoever runs runs alone: since its push no other job has  *)
(* been at the branch, and since it listed none has opened a pull request.  *)
Serial ==
  slots = 1 =>
    /\ \A j, k \in Jobs : Running(j) /\ Running(k) => j = k
    /\ \A j \in Jobs : job[j].pc \in {"pushed", "listed"} /\ branch \in Jobs => branch = j
    /\ \A j \in Jobs : job[j].pc = "listed" => \A n \in OpenNumbers : n = job[j].number
    /\ PullRequestTruthful

SerialInv == OwnDigest /\ Serial

(* What a step of one job does to the record of the job.                    *)
LEMMA JobRecord ==
  ASSUME TypeOK, NEW j \in Jobs, JobStep(j)
  PROVE  /\ \A k \in Jobs \ {j} : job'[k] = job[k]
         /\ job'[j].digest = job[j].digest
         /\ job'[j].pc \in {"pushed", "listed"} => Push(j) \/ ListPulls(j)
         /\ job'[j].pc = "updated" => EditPull(j) \/ CreatePull(j)
         /\ Running(j)' => Running(j) \/ Checkout(j)
<1> DEFINE Records == [pc : Steps, digest : Digests, base : Digests \cup {Tag},
                       tracking : Commits \cup {None}, number : Nat]
<1>t. job[j] \in Records /\ job \in [Jobs -> Records]
  BY DEF TypeOK
<1>1. CASE Checkout(j)
  <2> DEFINE r == [job[j] EXCEPT !.pc = "checkedOut", !.base = main, !.tracking = branch]
  <2>1. r.pc = "checkedOut" /\ r.digest = job[j].digest
    BY <1>t
  <2>2. job' = [job EXCEPT ![j] = r]
    BY <1>1 DEF Checkout
  <2> HIDE DEF r, Records
  <2> QED BY <1>1, <1>t, <2>1, <2>2
<1>2. CASE ListPulls(j)
  <2> DEFINE r == [job[j] EXCEPT !.pc = "listed", !.number = Listed]
  <2>1. r.pc = "listed" /\ r.digest = job[j].digest
    BY <1>t
  <2>2. job' = [job EXCEPT ![j] = r] /\ Running(j)
    BY <1>2 DEF ListPulls, Running
  <2> HIDE DEF r, Records
  <2> QED BY <1>2, <1>t, <2>1, <2>2
<1>3. CASE ~Checkout(j) /\ ~ListPulls(j)
  <2>1. PICK s \in {"noOp", "prepared", "pushed", "failed", "updated"} :
          /\ job' = [job EXCEPT ![j].pc = s]
          /\ s = "pushed" => Push(j)
          /\ s = "updated" => EditPull(j) \/ CreatePull(j)
          /\ s \in {"prepared", "pushed"} => Running(j)
    BY <1>3 DEF JobStep, NoOp, Prepare, Push, PushRefused, EditPull, CreatePull, CreateRefused,
                ScriptRefuses, Fail, Running
  <2> DEFINE r == [job[j] EXCEPT !.pc = s]
  <2>2. r.pc = s /\ r.digest = job[j].digest
    BY <1>t
  <2>3. job' = [job EXCEPT ![j] = r]
    BY <2>1
  <2> HIDE DEF r, Records
  <2>4. job'[j] = r /\ \A k \in Jobs \ {j} : job'[k] = job[k]
    BY <1>t, <2>3
  <2> QED BY <2>1, <2>2, <2>4 DEF Running
<1> QED BY <1>1, <1>2, <1>3

(* A job is let in only when none runs; the others stop running.            *)
LEMMA OneRuns ==
  ASSUME TypeOK, slots = 1, NEW j \in Jobs, JobStep(j),
         \A k, l \in Jobs : Running(k) /\ Running(l) => k = l
  PROVE  /\ \A k, l \in Jobs : Running(k)' /\ Running(l)' => k = l
         /\ \A k \in Jobs \ {j} : ~Running(k)
<1>1. CASE Checkout(j)
  <2>1. Cardinality({k \in Jobs : Running(k)}) < 1
    BY <1>1 DEF Checkout
  <2>2. \A k \in Jobs : ~Running(k)
    <3> SUFFICES ASSUME NEW k \in Jobs, Running(k) PROVE FALSE
      OBVIOUS
    <3>1. {l \in Jobs : Running(l)} = {k}
      OBVIOUS
    <3>2. Cardinality({k}) = 1
      BY FS_Singleton
    <3> QED BY <2>1, <3>1, <3>2
  <2>3. \A k \in Jobs \ {j} : ~Running(k)'
    BY <2>2, JobRecord DEF Running
  <2> QED BY <2>2, <2>3
<1>2. CASE ~Checkout(j)
  <2>1. Running(j)
    BY <1>2 DEF JobStep, NoOp, Prepare, Push, PushRefused, ListPulls, EditPull, CreatePull,
                CreateRefused, ScriptRefuses, Fail, Running
  <2>2. \A k \in Jobs \ {j} : ~Running(k)
    BY <2>1
  <2>3. \A k \in Jobs \ {j} : ~Running(k)'
    BY <2>2, JobRecord DEF Running
  <2> QED BY <2>2, <2>3
<1> QED BY <1>1, <1>2

LEMMA OwnDigestKeeps ==
  ASSUME Inv, OwnDigest, [Next]_vars
  PROVE  OwnDigest'
<1>0. TypeOK
  BY DEF Inv
<1>1. ASSUME NEW j \in Jobs, JobStep(j)
      PROVE  OwnDigest'
  <2>1. \A k \in Jobs \ {j} : job'[k] = job[k] /\ commit'[k] = commit[k]
    <3>1. \A k \in Jobs \ {j} : commit'[k] = commit[k]
      <4>1. CASE Push(j)
        BY <1>0, <4>1 DEF Push, TypeOK
      <4>2. CASE ~Push(j)
        BY <1>1, <4>2 DEF JobStep, Checkout, NoOp, Prepare, PushRefused, ListPulls, EditPull,
                          CreatePull, CreateRefused, ScriptRefuses, Fail, remote
      <4> QED BY <4>1, <4>2
    <3> QED BY <1>0, <1>1, <3>1, JobRecord
  <2>2. job'[j].pc \in {"pushed", "listed", "updated"} => commit'[j].digest = job'[j].digest
    <3>1. CASE Push(j)
      <4>1. commit'[j] = [digest |-> job[j].digest, base |-> job[j].base]
        BY <1>0, <3>1 DEF Push, TypeOK
      <4> QED BY <1>0, <1>1, <4>1, JobRecord
    <3>2. CASE ListPulls(j) \/ EditPull(j) \/ CreatePull(j)
      <4>1. commit' = commit /\ job[j].pc \in {"pushed", "listed"}
        BY <3>2 DEF ListPulls, EditPull, CreatePull, remote
      <4> QED BY <1>0, <1>1, <4>1, JobRecord DEF OwnDigest
    <3> QED BY <1>0, <1>1, <3>1, <3>2, JobRecord
  <2> QED BY <2>1, <2>2 DEF OwnDigest
<1>2. CASE Merge \/ ClosePull \/ UNCHANGED vars
  BY <1>2 DEF OwnDigest, Merge, ClosePull, vars
<1>3. ASSUME NEW f \in Fixups, AddFixup(f)
      PROVE  OwnDigest'
  <2>1. job' = job /\ \A k \in Jobs : commit'[k] = commit[k]
    BY <1>0, <1>3 DEF AddFixup, TypeOK
  <2> QED BY <2>1 DEF OwnDigest
<1> QED
  BY <1>1, <1>2, <1>3 DEF Next, Done

(* With one slot, a step of the job that runs.                              *)
LEMMA SerialJob ==
  ASSUME Inv, OwnDigest, Serial, slots = 1, NEW j \in Jobs, JobStep(j), UNCHANGED slots
  PROVE  Serial'
<1>0. TypeOK /\ ListedWasOpen
  BY DEF Inv
<1>s. /\ \A k, l \in Jobs : Running(k) /\ Running(l) => k = l
      /\ \A k \in Jobs : job[k].pc \in {"pushed", "listed"} /\ branch \in Jobs => branch = k
      /\ \A k \in Jobs : job[k].pc = "listed" => \A n \in OpenNumbers : n = job[k].number
      /\ PullRequestTruthful
  BY DEF Serial
<1>1. /\ \A k, l \in Jobs : Running(k)' /\ Running(l)' => k = l
      /\ \A k \in Jobs \ {j} : ~Running(k)
  BY <1>0, <1>s, OneRuns
<1>2. /\ \A k \in Jobs \ {j} : job'[k] = job[k] /\ job'[k].pc \notin {"pushed", "listed"}
      /\ job'[j].digest = job[j].digest
      /\ job'[j].pc \in {"pushed", "listed"} => Push(j) \/ ListPulls(j)
      /\ job'[j].pc = "updated" => EditPull(j) \/ CreatePull(j)
  BY <1>0, <1>1, JobRecord DEF Running
<1>3. CASE Push(j)
  <2>1. branch' = j /\ pulls' = pulls /\ job'[j].pc = "pushed"
    BY <1>0, <1>3 DEF Push, TypeOK
  <2> QED BY <1>1, <1>2, <2>1 DEF Serial, PullRequestTruthful
<1>4. CASE ListPulls(j)
  <2>1. /\ UNCHANGED <<branch, pulls, commit>> /\ job[j].pc = "pushed"
        /\ job'[j].pc = "listed" /\ job'[j].number = Listed
    BY <1>0, <1>4 DEF ListPulls, remote, TypeOK
  <2>2. OpenNumbers' = OpenNumbers /\ \A n \in OpenNumbers : n = Listed
    BY <1>0, <2>1, ListedIsOpen DEF OpenNumbers, TypeOK
  <2>3. PullRequestTruthful'
    BY <1>s, <1>2, <2>1, <2>2 DEF PullRequestTruthful
  <2> QED BY <1>s, <1>1, <1>2, <2>1, <2>2, <2>3 DEF Serial
<1>5. CASE EditPull(j) \/ CreatePull(j)
  <2>1. /\ UNCHANGED <<branch, commit>> /\ job[j].pc = "listed" /\ job[j].digest \in Digests
        /\ commit[j].digest = job[j].digest /\ job'[j].pc \notin {"pushed", "listed"}
    <3>1. job[j].pc = "listed" /\ job[j].digest \in Digests /\ UNCHANGED <<branch, commit>>
      BY <1>0, <1>5 DEF EditPull, CreatePull, TypeOK
    <3>2. job'[j].pc \in {"updated", "failed"}
      BY <1>0, <1>5 DEF EditPull, CreatePull, TypeOK
    <3> QED BY <3>1, <3>2 DEF OwnDigest
  <2>2. \A n \in OpenNumbers' : pulls'[n].body = job[j].digest
    <3>1. CASE EditPull(j)
      <4> DEFINE m == job[j].number
                 p == [pulls[m] EXCEPT !.body = job[j].digest]
      <4>1. m \in DOMAIN pulls /\ pulls' = [pulls EXCEPT ![m].body = job[j].digest]
        BY <1>0, <2>1, <3>1 DEF EditPull, ListedWasOpen
      <4>2. OpenNumbers' = OpenNumbers
        BY <1>0, <2>1, <4>1, EditKeepsOpen
      <4>3. pulls[m] \in PullRequests
        BY <1>0, <4>1, PullOfNumber
      <4>4. p \in PullRequests /\ p.body = job[j].digest
        BY <2>1, <4>3 DEF PullRequests
      <4>5. pulls' = [pulls EXCEPT ![m] = p]
        BY <4>1
      <4> HIDE DEF m, p
      <4>6. pulls'[m] = p
        BY <1>0, <4>1, <4>4, <4>5, EditOne
      <4>7. \A n \in OpenNumbers' : n = m
        BY <1>s, <2>1, <4>2 DEF m
      <4> QED BY <4>4, <4>6, <4>7
    <3>2. CASE CreatePull(j)
      <4> DEFINE p == [state |-> "open", body |-> job[j].digest]
      <4>1. OpenNumbers = {} /\ pulls' = Append(pulls, p)
        BY <3>2 DEF CreatePull, CanCreate
      <4>2. OpenNumbers' = {Len(pulls) + 1}
        BY <1>0, <2>1, <4>1, CreateOpens
      <4>3. p \in PullRequests /\ pulls \in Seq(PullRequests) /\ p.body = job[j].digest
        BY <1>0, <2>1 DEF PullRequests, TypeOK
      <4> HIDE DEF p
      <4>4. pulls'[Len(pulls) + 1] = p
        BY <4>1, <4>3, AppendProperties
      <4> QED BY <4>2, <4>3, <4>4
    <3> QED BY <1>5, <3>1, <3>2
  <2>3. branch \in Jobs => branch = j
    BY <1>s, <2>1
  <2>4. PullRequestTruthful'
    BY <2>1, <2>2, <2>3 DEF PullRequestTruthful
  <2> QED BY <1>1, <1>2, <2>1, <2>4 DEF Serial
<1>6. CASE ~Push(j) /\ ~ListPulls(j) /\ ~EditPull(j) /\ ~CreatePull(j)
  <2>1. UNCHANGED <<branch, pulls, commit>>
    BY <1>6 DEF JobStep, Checkout, NoOp, Prepare, PushRefused, CreateRefused, ScriptRefuses, Fail, remote
  <2>2. job'[j].pc \notin {"pushed", "listed", "updated"}
    BY <1>2, <1>6
  <2>3. PullRequestTruthful'
    BY <1>s, <1>2, <2>1, <2>2 DEF PullRequestTruthful, OpenNumbers
  <2> QED BY <1>1, <1>2, <2>1, <2>2, <2>3 DEF Serial
<1> QED BY <1>3, <1>4, <1>5, <1>6

LEMMA SerialKeeps ==
  ASSUME Inv, OwnDigest, Serial, [Next]_vars
  PROVE  Serial'
<1> SUFFICES ASSUME slots' = 1 PROVE Serial'
  BY DEF Serial
<1>0. slots = 1 /\ UNCHANGED slots
  BY DEF Next, vars
<1>1. ASSUME NEW j \in Jobs, JobStep(j)
      PROVE  Serial'
  BY <1>0, <1>1, SerialJob
<1>2. CASE Merge \/ ClosePull
  <2>1. PICK n \in OpenNumbers : Close(n)
    BY <1>2 DEF Merge, ClosePull
  <2>2. OpenNumbers' = {}
    BY <2>1, CloseLeavesNone DEF Inv
  <2>3. job' = job /\ branch' \in {branch, None}
    BY <1>2 DEF Merge, ClosePull
  <2> QED BY <1>0, <2>2, <2>3 DEF Serial, PullRequestTruthful, Running
<1>3. ASSUME NEW f \in Fixups, AddFixup(f)
      PROVE  Serial'
  <2>1. job' = job /\ branch' = f /\ pulls' = pulls /\ f \notin Jobs
    BY <1>3 DEF AddFixup
  <2> QED BY <1>0, <2>1 DEF Serial, PullRequestTruthful, Running, OpenNumbers
<1>4. CASE UNCHANGED vars
  BY <1>0, <1>4 DEF vars, Serial, PullRequestTruthful, Running, OpenNumbers
<1> QED
  BY <1>1, <1>2, <1>3, <1>4 DEF Next, Done

(* The open pull request names the digest of the commit at the head of the  *)
(* branch once the job that pushed it has succeeded, when the caller lets   *)
(* one job run after the other: what was listed is still the one open pull  *)
(* request, and the branch is still the job's, people's work aside.         *)
THEOREM TruthfulInTurn == Spec => []TruthfulWhenSerial
<1>1. Init => SerialInv
  BY DEF Init, SerialInv, OwnDigest, Serial, Running, PullRequestTruthful, OpenNumbers
<1>2. Inv /\ SerialInv /\ [Next]_vars => SerialInv'
  BY OwnDigestKeeps, SerialKeeps DEF SerialInv
<1>3. SerialInv => TruthfulWhenSerial
  BY DEF SerialInv, Serial, TruthfulWhenSerial
<1> QED
  BY <1>1, <1>2, <1>3, Invariance, PTL DEF Spec
=============================================================================
