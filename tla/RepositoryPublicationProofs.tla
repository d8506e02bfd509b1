---------------------- MODULE RepositoryPublicationProofs ----------------------
(***************************************************************************)
(* Proofs about RepositoryPublication for any number of attempts, acts of  *)
(* others and reruns: the candidate lands on main at most once and over    *)
(* its root, what is merged has been validated, and a reported success is  *)
(* protected.                                                              *)
(***************************************************************************)
EXTENDS RepositoryPublication, SequenceTheorems, TLAPS

Commits == {"root", "squash", "foreign"}
Squashed == "squash" \in Range(main)
MainOK == main \in Seq(Commits)
Pushed == main # <<>> /\ main[1] = "root"
SquashedOnce(s) == \A i, j \in DOMAIN s : s[i] = "squash" /\ s[j] = "squash" => j = i

\* What each place of the publisher knows of the validation.
Validated ==
  /\ run = "passed" => passed = TRUE
  /\ step = "jobs" /\ reply = "success" => passed = TRUE
  /\ step = "merge" \/ "merge" \in strays => passed = TRUE

\* The merge is behind it from here on.
AfterMerge == {"readMain", "pvr", "protection", "environment"} \cup DOMAIN ReadSteps
Merged ==
  /\ phase = "returned" => acted = TRUE
  /\ step = "merge" /\ acted = TRUE => Squashed
  /\ step \in AfterMerge => Squashed

\* What the reads have shown is in force, and stays so.
InForce == settings \cup {"repository"}
ReadIsTrue ==
  /\ settings \subseteq Settings
  /\ step \in DOMAIN ReadSteps /\ reply = "yes" => ReadSteps[step] \in InForce
  /\ readback \subseteq InForce

IInv ==
  /\ MainOK /\ acted \in BOOLEAN
  /\ Validated /\ Merged /\ ReadIsTrue
  /\ MergedWasValidated /\ SuccessIsProtected

\* An attempt is late when its push of the root is behind it; of the children
\* that have outlived their attempt, some are of a late one.
LateChanges == {"pushBranch", "prCreate", "merge"} \cup Settings
Late == AfterMerge \cup LateChanges \cup {"list", "relist", "runs", "watch", "jobs"}
LateStrays == strays \cap LateChanges

\* An attempt that finds content gets no further than its view, or into a
\* creation that cannot act.
Turned ==
  /\ step \in {"gate", "head", "root", "view", "create"}
  /\ step = "view" => reply # "public"
  /\ step = "create" => acted = FALSE

\* Who may still act once the root is on main, and once the candidate is.
Landing ==
  /\ step = "pushMain" /\ acted = TRUE => Pushed
  /\ step \in Late => Pushed
  /\ LateStrays # {} \/ pr # "none" \/ Squashed => Pushed
  /\ main # <<>> => visibility # "absent"
  /\ LateStrays # {} => Turned
  /\ "merge" \in strays => "prCreate" \notin strays
  /\ Squashed => /\ pr # "open" /\ "prCreate" \notin strays
                 /\ Turned \/ step \in {"merge"} \cup AfterMerge
  /\ SquashedOnce(main)

-----------------------------------------------------------------------------
(* Growing sequences.                                                       *)

\* Appending keeps what is there, and squashes once what was not squashed.
LEMMA AppendGrows ==
  ASSUME NEW s \in Seq(Commits), NEW c \in Commits
  PROVE  /\ Append(s, c) \in Seq(Commits) /\ Append(s, c) # <<>>
         /\ s # <<>> => Append(s, c)[1] = s[1]
         /\ Range(Append(s, c)) = Range(s) \cup {c}
         /\ SquashedOnce(s) /\ (c = "squash" => "squash" \notin Range(s))
              => SquashedOnce(Append(s, c))
<1> DEFINE t == Append(s, c)
<1>1. /\ t \in Seq(Commits) /\ Len(t) = Len(s) + 1
      /\ \A i \in 1 .. Len(s) : t[i] = s[i]
      /\ t[Len(s) + 1] = c
  BY AppendProperties
<1>2. t # <<>> /\ (s # <<>> => t[1] = s[1])
  BY <1>1
<1>3. Range(t) = {t[i] : i \in 1 .. Len(t)} /\ Range(s) = {s[i] : i \in 1 .. Len(s)}
  BY <1>1, RangeEquality
<1>4. Range(t) = Range(s) \cup {c}
  BY <1>1, <1>3
<1>5. ASSUME SquashedOnce(s), c = "squash" => "squash" \notin Range(s)
      PROVE  SquashedOnce(t)
  <2>1. DOMAIN s = 1 .. Len(s) /\ DOMAIN t = 1 .. Len(t)
    BY <1>1
  <2>2. ASSUME NEW i \in DOMAIN t, NEW j \in DOMAIN t, t[i] = "squash", t[j] = "squash"
        PROVE  j = i
    <3>1. CASE c = "squash"
      BY <1>1, <1>3, <1>5, <2>1, <2>2, <3>1
    <3>2. CASE c # "squash"
      BY <1>1, <1>5, <2>1, <2>2, <3>2 DEF SquashedOnce
    <3> QED
      BY <3>1, <3>2
  <2> QED
    BY <2>2 DEF SquashedOnce
<1> QED
  BY <1>1, <1>2, <1>4, <1>5

\* What one step may do to main.
Grows(squashes) ==
  /\ MainOK' /\ Range(main) \subseteq Range(main')
  /\ Squashed' => Squashed \/ squashes
  /\ Pushed => Pushed'
  /\ SquashedOnce(main) /\ ~(squashes /\ Squashed) => SquashedOnce(main')

\* A step that leaves main alone does no harm.
LEMMA UnchangedGrows == ASSUME MainOK, main' = main, NEW squashes \in BOOLEAN PROVE Grows(squashes)
  BY DEF MainOK, Grows, Squashed, Pushed

\* The first push puts the root on an empty main, or finds it there.
LEMMA PushMainGrows == ASSUME MainOK, PushMain PROVE Grows(FALSE)
<1>1. CASE main = <<"root">>
  BY <1>1, UnchangedGrows DEF PushMain
<1>2. CASE main = <<>>
  <2>1. main' = <<"root">>
    BY DEF PushMain
  <2>2. main' = Append(main, "root")
    BY <1>2, <2>1
  <2> QED
    BY <2>2, AppendGrows DEF MainOK, Grows, Squashed, Pushed, Commits
<1> QED
  BY <1>1, <1>2 DEF PushMain

\* No command takes anything from main; only the merge brings the candidate.
LEMMA CarryGrows ==
  ASSUME MainOK, NEW c, Carry(c)
  PROVE  Grows(c = "merge") /\ settings \subseteq settings'
<1>1. CASE c = "pushMain"
  <2>1. PushMain
    BY <1>1 DEF Carry, Settings
  <2> QED
    BY <1>1, <2>1, PushMainGrows DEF PushMain, Grows
<1>2. CASE c = "merge"
  <2>1. MergePullRequest
    BY <1>2 DEF Carry, Settings
  <2> QED
    BY <1>2, <2>1, AppendGrows DEF MergePullRequest, MainOK, Grows, Squashed, Pushed, Commits
<1>3. CASE c \notin {"pushMain", "merge"}
  <2>1. main' = main /\ settings \subseteq settings'
    BY <1>3 DEF Carry, CreateRepository, AddOrigin, PushBranch, CreatePullRequest, Configure,
                Inquire, contentVars
  <2> QED
    BY <2>1, UnchangedGrows
<1> QED
  BY <1>1, <1>2, <1>3
-----------------------------------------------------------------------------
(* The invariant.                                                           *)

USE DEF AfterMerge, ReadSteps, Settings

\* The first state has an empty main or another one's.
LEMMA InitInv == Init => IInv
<1> SUFFICES ASSUME Init PROVE IInv
  OBVIOUS
<1>1. main \in Seq(Commits) /\ ~Squashed
  <2>1. CASE main = <<>>
    BY <2>1 DEF Squashed, Range
  <2>2. CASE main = <<"foreign">>
    BY <2>2 DEF Squashed, Range, Commits
  <2> QED
    BY <2>1, <2>2 DEF Init
<1> QED
  BY <1>1 DEF Init, Fresh, IInv, MainOK, Validated, Merged, ReadIsTrue, InForce,
              MergedWasValidated, SuccessIsProtected, Squashed

\* Where a succeeding command leads: never into the merge, and behind it only
\* from the merge.
LEMMA FollowingSteps ==
  ASSUME NEW c \in DOMAIN Following
  PROVE  /\ Following[c] # "merge"
         /\ Following[c] \in AfterMerge => c = "merge" \/ c \in AfterMerge
<1>1. c \in {"gate", "head", "root", "create", "addOrigin", "pushMain", "pushBranch",
            "prCreate", "watch", "merge", "readMain", "pvr", "protection", "environment"}
  BY DEF Following
<1>2. CASE c \in {"gate", "head", "root", "create", "addOrigin", "pushMain", "pushBranch",
                 "prCreate", "watch"}
  <2>1. Following[c] \in {"head", "root", "view", "origin", "pushMain", "pushBranch", "list",
                         "relist", "jobs"}
    BY <1>2 DEF Following
  <2> QED
    BY <2>1
<1>3. CASE c \in {"merge", "readMain", "pvr", "protection", "environment"}
  BY <1>3 DEF Following
<1> QED
  BY <1>1, <1>2, <1>3

\* The publisher's reactions keep it.
LEMMA ReactInv == ASSUME IInv, React PROVE IInv'
<1> USE DEF IInv, Validated, Merged, ReadIsTrue, InForce, MergedWasValidated,
            SuccessIsProtected, Squashed, MainOK, Keeps, contentVars, ciVars,
            Continue, EndsAs, Renew, commandVars, Succeeds
<1>1. CASE GiveUp
  BY <1>1 DEF React, GiveUp
<1>2. CASE Advance
  BY <1>2, FollowingSteps DEF React, Advance
<1>3. CASE InspectTarget
  BY <1>3 DEF React, InspectTarget
<1>4. CASE ConfigureOrigin
  BY <1>4 DEF React, ConfigureOrigin
<1>5. CASE IdentifyPullRequest
  BY <1>5 DEF React, IdentifyPullRequest
<1>6. CASE FindRun
  BY <1>6 DEF React, FindRun
<1>7. CASE CheckJob
  BY <1>7 DEF React, CheckJob
<1>8. CASE ReadBack
  BY <1>8 DEF React, ReadBack, ReadBackFor, Confirmed, NextRead
<1> QED
  BY <1>1, <1>2, <1>3, <1>4, <1>5, <1>6, <1>7, <1>8 DEF React

\* A child at work keeps it: the merge brings the candidate to main, the job
\* that is read as successful has completed.
LEMMA ActInv == ASSUME IInv, Act PROVE IInv'
<1>1. Carry(step) /\ reply' = Answer(step) /\ acted' = TRUE /\ phase' = phase
  BY DEF Act, Work
<1>2. UNCHANGED <<run, passed, step, readback, outcome, strays>>
  BY DEF Act, ciVars
<1>3. Grows(step = "merge") /\ settings \subseteq settings'
  BY <1>1, CarryGrows DEF IInv
<1>4. Squashed => Squashed'
  BY <1>3 DEF Grows, Squashed
<1>5. settings' \subseteq Settings
  BY <1>1, <1>2 DEF Carry, CreateRepository, AddOrigin, PushMain, PushBranch, CreatePullRequest,
     MergePullRequest, Configure, Inquire, contentVars, IInv, ReadIsTrue
<1>6. step = "merge" => Squashed'
  <2>1. step = "merge" => MergePullRequest
    BY <1>1 DEF Carry
  <2> QED
    BY <2>1, AppendGrows DEF MergePullRequest, IInv, MainOK, Squashed, Commits
<1>7. Validated'
  <2>1. step = "jobs" /\ reply' = "success" => run = "passed"
    BY <1>1 DEF Answer
  <2> QED
    BY <1>2, <2>1 DEF IInv, Validated
<1>8. Merged'
  BY <1>1, <1>2, <1>4, <1>6 DEF IInv, Merged
<1>9. ReadIsTrue'
  <2>1. step \in DOMAIN ReadSteps /\ reply' = "yes" => ReadSteps[step] \in InForce
    BY <1>1 DEF Answer, Yes, InForce
  <2> QED
    BY <1>2, <1>3, <1>5, <2>1 DEF IInv, ReadIsTrue, InForce
<1>10. MergedWasValidated'
  BY <1>2, <1>3 DEF IInv, MergedWasValidated, Validated, Grows, Squashed
<1>11. SuccessIsProtected'
  BY <1>2, <1>3, <1>4, <1>5 DEF IInv, SuccessIsProtected, Squashed
<1> QED
  BY <1>1, <1>3, <1>7, <1>8, <1>9, <1>10, <1>11 DEF IInv, Grows

\* So does a child of an earlier attempt.
LEMMA StrayInv == ASSUME IInv, StrayActs PROVE IInv'
<1>1. PICK c \in strays : Carry(c) /\ strays' = strays \ {c}
  BY DEF StrayActs
<1>2. UNCHANGED <<run, passed, step, reply, readback, outcome, phase, acted>>
  BY DEF StrayActs, ciVars, commandVars
<1>3. Grows(c = "merge") /\ settings \subseteq settings'
  BY <1>1, CarryGrows DEF IInv
<1>4. Squashed => Squashed'
  BY <1>3 DEF Grows, Squashed
<1>5. settings' \subseteq Settings
  BY <1>1, <1>2 DEF Carry, CreateRepository, AddOrigin, PushMain, PushBranch, CreatePullRequest,
     MergePullRequest, Configure, Inquire, contentVars, IInv, ReadIsTrue
<1>6. Validated' /\ Merged'
  BY <1>1, <1>2, <1>4 DEF IInv, Validated, Merged
<1>7. ReadIsTrue'
  BY <1>2, <1>3, <1>5 DEF IInv, ReadIsTrue, InForce
<1>8. MergedWasValidated'
  BY <1>1, <1>2, <1>3 DEF IInv, MergedWasValidated, Validated, Grows, Squashed
<1>9. SuccessIsProtected'
  BY <1>2, <1>3, <1>4, <1>5 DEF IInv, SuccessIsProtected, Squashed
<1> QED
  BY <1>2, <1>3, <1>6, <1>7, <1>8, <1>9 DEF IInv, Grows

\* And other users, who only add to main.
LEMMA OthersInv == ASSUME IInv, Others PROVE IInv' /\ Grows(FALSE)
<1>1. UNCHANGED <<run, passed, settings, phase, acted>>
  BY DEF Others, commandVars
<1>2. UNCHANGED <<step, reply, readback, outcome, strays>>
  BY DEF Others, publisherVars
<1>3. Grows(FALSE)
  <2>1. CASE main' = main
    BY <2>1, UnchangedGrows DEF IInv
  <2>2. CASE main' = Append(main, "foreign")
    BY <2>2, AppendGrows DEF IInv, MainOK, Grows, Squashed, Pushed, Commits
  <2> QED
    BY <2>1, <2>2 DEF Others
<1> QED
  BY <1>1, <1>2, <1>3 DEF IInv, Validated, Merged, ReadIsTrue, InForce, MergedWasValidated,
     SuccessIsProtected, Grows, Squashed

\* Every other step leaves main and its settings alone.
LEMMA QuietInv ==
  ASSUME IInv,
         \/ Call /\ UNCHANGED <<contentVars, ciVars, publisherVars>>
         \/ Killed \/ Retry \/ Workflows \/ WaitEnds \/ UNCHANGED vars
         \/ ChildEnds /\ UNCHANGED <<contentVars, ciVars, publisherVars>>
  PROVE  IInv'
<1> USE DEF IInv, Validated, Merged, ReadIsTrue, InForce, MergedWasValidated,
            SuccessIsProtected, Squashed, MainOK, contentVars, ciVars, publisherVars, commandVars
<1>1. CASE Call /\ UNCHANGED <<contentVars, ciVars, publisherVars>>
  BY <1>1 DEF Call, Begin, Return, Throw
<1>2. CASE Killed
  BY <1>2 DEF Killed
<1>3. CASE Retry
  BY <1>3 DEF Retry, Renew
<1>4. CASE Workflows
  BY <1>4 DEF Workflows, RunStarts, RunEnds, Rerun
<1>5. CASE WaitEnds
  BY <1>5 DEF WaitEnds
<1>6. CASE UNCHANGED vars
  BY <1>6 DEF vars
<1>7. CASE ChildEnds /\ UNCHANGED <<contentVars, ciVars, publisherVars>>
  BY <1>7 DEF ChildEnds
<1> QED
  BY <1>1, <1>2, <1>3, <1>4, <1>5, <1>6, <1>7

\* Every step keeps the invariant.
LEMMA NextInv == IInv /\ [Next]_vars => IInv'
  BY ReactInv, ActInv, StrayInv, OthersInv, QuietInv DEF Next, Publisher

\* The invariant of every publication.
THEOREM Invariance == Spec => []IInv
<1>1. IInv /\ [Next]_vars => IInv'
  BY NextInv
<1> QED
  BY InitInv, <1>1, PTL DEF Spec
-----------------------------------------------------------------------------
\* A reported success has the candidate on a protected main.
THEOREM SuccessProtects == Spec => []SuccessIsProtected
<1>1. IInv => SuccessIsProtected
  BY DEF IInv
<1> QED
  BY <1>1, Invariance, PTL

\* The candidate is merged only after its job has completed with success.
THEOREM MergesValidated == Spec => []MergedWasValidated
<1>1. IInv => MergedWasValidated
  BY DEF IInv
<1> QED
  BY <1>1, Invariance, PTL

(* Landing.                                                                 *)

LEMMA InitLanding == Init => Landing
<1> SUFFICES ASSUME Init PROVE Landing
  OBVIOUS
<1>1. ~Squashed
  BY InitInv DEF IInv, MergedWasValidated, Squashed, Init
<1>2. SquashedOnce(main)
  BY DEF Init, SquashedOnce
<1> QED
  BY <1>1, <1>2 DEF Init, Landing, Late, LateChanges, LateStrays

\* What a command does to the repository besides.
LEMMA CarryOpens ==
  ASSUME NEW c, Carry(c)
  PROVE  /\ visibility # "absent" => visibility' # "absent"
         /\ main' # main => visibility # "absent" \/ pr # "none"
         /\ c = "create" => visibility = "absent"
         /\ c = "pushMain" => visibility # "absent" /\ Pushed'
         /\ c = "merge" => pr = "open" /\ pr' = "merged"
         /\ c = "prCreate" => main # <<>>
         /\ c \notin {"merge", "prCreate"} => pr' = pr
  BY DEF Carry, CreateRepository, AddOrigin, PushMain, PushBranch, CreatePullRequest,
     MergePullRequest, Configure, Inquire, contentVars, Pushed

\* A child of the current attempt: it merges only when no earlier one can.
LEMMA ActLanding == ASSUME IInv, Landing, Act PROVE Landing'
<1>1. Carry(step) /\ reply' = Answer(step) /\ acted = FALSE /\ acted' = TRUE
  BY DEF Act, Work, IInv
<1>2. UNCHANGED <<step, strays>>
  BY DEF Act
<1>3. Grows(step = "merge")
  BY <1>1, CarryGrows DEF IInv
<1> HIDE DEF Grows
<1>4. step = "merge" => ~Squashed /\ "prCreate" \notin strays
  BY <1>1, CarryOpens DEF Landing, Turned, LateStrays, LateChanges
<1>5. (step = "pushMain" \/ step \in Late \/ LateStrays # {} \/ pr' # "none" \/ Squashed') => Pushed'
  BY <1>1, <1>3, CarryOpens DEF Landing, Grows, Late, LateChanges
<1>6. main' # <<>> => visibility' # "absent"
  BY <1>1, CarryOpens DEF Landing, Pushed
<1>7. Turned /\ main # <<>> => Turned'
  <2>1. step = "view" /\ main # <<>> => reply' = "nonempty"
    BY <1>1 DEF Answer
  <2>2. main # <<>> => step # "create"
    BY <1>1, CarryOpens DEF Landing
  <2> QED
    BY <1>2, <2>1, <2>2 DEF Turned
<1>8. LateStrays # {} => Turned'
  BY <1>7 DEF Landing, Pushed
<1>9. Squashed' => /\ pr' # "open" /\ "prCreate" \notin strays
                   /\ Turned' \/ step \in {"merge"} \cup AfterMerge
  BY <1>1, <1>3, <1>4, <1>7, CarryOpens DEF Landing, Grows, Pushed, Turned
<1>10. SquashedOnce(main')
  BY <1>3, <1>4 DEF Landing, Grows
<1> QED
  BY <1>2, <1>5, <1>6, <1>8, <1>9, <1>10 DEF Landing, LateStrays

\* A child of an earlier attempt: while it may merge, nobody can ask for more.
LEMMA StrayLanding == ASSUME IInv, Landing, StrayActs PROVE Landing'
<1>1. PICK c \in strays : Carry(c) /\ strays' = strays \ {c}
  BY DEF StrayActs
<1>2. UNCHANGED <<step, reply, acted>>
  BY DEF StrayActs, commandVars
<1>3. Grows(c = "merge")
  BY <1>1, CarryGrows DEF IInv
<1>4. c = "merge" => ~Squashed /\ "prCreate" \notin strays /\ Turned
  BY <1>1, CarryOpens DEF Landing, LateStrays, LateChanges
<1>5. c = "prCreate" => ~Squashed /\ Pushed
  BY <1>1 DEF Landing, LateStrays, LateChanges
<1>6. LateStrays' \subseteq LateStrays
  BY <1>1 DEF LateStrays
<1>7. pr' # "none" \/ Squashed' => Pushed'
  BY <1>1, <1>3, <1>5, CarryOpens DEF Landing, Grows
<1>8. main' # <<>> => visibility' # "absent"
  BY <1>1, CarryOpens DEF Landing, Pushed
<1>9. Turned' <=> Turned
  BY <1>2 DEF Turned
<1>10. Squashed' => /\ pr' # "open" /\ "prCreate" \notin strays'
                    /\ Turned' \/ step' \in {"merge"} \cup AfterMerge
  BY <1>1, <1>2, <1>3, <1>4, <1>5, <1>9, CarryOpens DEF Landing, Grows
<1>11. SquashedOnce(main')
  BY <1>3, <1>4 DEF Landing, Grows
<1>12. (step = "pushMain" /\ acted = TRUE) \/ step \in Late \/ LateStrays' # {} => Pushed'
  BY <1>3, <1>6 DEF Landing, Grows
<1> QED
  BY <1>1, <1>2, <1>6, <1>7, <1>8, <1>9, <1>10, <1>11, <1>12 DEF Landing

\* Other users add to main, close the pull request, and change the rest.
LEMMA OthersLanding == ASSUME IInv, Landing, Others PROVE Landing'
<1>1. UNCHANGED <<step, reply, acted, strays>>
  BY DEF Others, commandVars, publisherVars
<1>2. Grows(FALSE)
  BY OthersInv
<1>3. /\ pr' \in {pr, "closed"} /\ (pr' # pr => pr = "open")
      /\ main' # <<>> => visibility' # "absent"
  BY DEF Others, Landing
<1>4. LateStrays' = LateStrays /\ (Turned' <=> Turned)
  BY <1>1 DEF LateStrays, Turned
<1>5. Squashed' => Squashed
  BY <1>2 DEF Grows
<1> QED
  BY <1>1, <1>2, <1>3, <1>4, <1>5 DEF Landing, Grows

\* Where the publisher goes next: to what changes the repository late only
\* from the push of the root, and nowhere behind a view that found content.
LEMMA ReactPlaces ==
  ASSUME React
  PROVE  /\ step' \in Late => step \in Late \/ (step = "pushMain" /\ phase = "returned")
         /\ step' = "pushMain" => step' = step \/ acted' = FALSE
         /\ step \in {"merge"} \cup AfterMerge => step' \in {"merge"} \cup AfterMerge
         /\ Turned /\ (phase = "returned" => acted = TRUE) => Turned'
<1>1. CASE GiveUp
  BY <1>1 DEF GiveUp, EndsAs, commandVars, Turned
<1>2. CASE Advance
  <2>1. step \in {"gate", "head", "root", "create", "addOrigin", "pushMain", "pushBranch",
                  "prCreate", "watch", "merge", "readMain", "pvr", "protection", "environment"}
    BY <1>2 DEF Advance, Following
  <2>2. acted' = FALSE /\ reply' = "none" /\ step' = Following[step] /\ phase = "returned"
    BY <1>2 DEF Advance, Continue, Renew, Succeeds
  <2>3. CASE step \in {"gate", "head", "root", "create"}
    BY <2>2, <2>3 DEF Following, Late, LateChanges, Turned
  <2>4. CASE step \in {"addOrigin", "pushMain", "pushBranch", "prCreate", "watch"}
    BY <2>2, <2>4 DEF Following, Late, LateChanges, Turned
  <2>5. CASE step \in {"merge", "readMain", "pvr", "protection", "environment"}
    BY <2>2, <2>5 DEF Following, Late, LateChanges, Turned
  <2> QED
    BY <2>1, <2>3, <2>4, <2>5
<1>3. CASE InspectTarget \/ ConfigureOrigin
  BY <1>3 DEF InspectTarget, ConfigureOrigin, Continue, EndsAs, Renew, Late, LateChanges, Turned,
     commandVars
<1>4. CASE IdentifyPullRequest \/ FindRun \/ CheckJob
  BY <1>4 DEF IdentifyPullRequest, FindRun, CheckJob, Continue, EndsAs, Renew, Late, LateChanges,
     Turned, commandVars
<1>5. CASE ReadBack
  BY <1>5 DEF ReadBack, ReadBackFor, NextRead, Continue, EndsAs, Renew, Late, LateChanges,
     Turned, commandVars
<1> QED
  BY <1>1, <1>2, <1>3, <1>4, <1>5 DEF React

LEMMA ReactLanding == ASSUME IInv, Landing, React PROVE Landing'
<1>1. UNCHANGED <<main, visibility, pr, strays>>
  BY DEF React, Keeps, contentVars
<1>2. LateStrays' = LateStrays /\ (Squashed' <=> Squashed) /\ (Pushed' <=> Pushed)
  BY <1>1 DEF LateStrays, Squashed, Pushed
<1>3. phase = "returned" => acted = TRUE
  BY DEF IInv, Merged
<1>4. step' = "pushMain" /\ acted' = TRUE => step = "pushMain" /\ acted = TRUE
  <2>1. acted' = acted \/ acted' = FALSE
    BY DEF React, GiveUp, Advance, InspectTarget, ConfigureOrigin, IdentifyPullRequest, FindRun,
       CheckJob, ReadBack, ReadBackFor, Continue, EndsAs, Renew, commandVars
  <2> QED
    BY <2>1, ReactPlaces
<1>5. (step' = "pushMain" /\ acted' = TRUE) \/ step' \in Late => Pushed
  BY <1>3, <1>4, ReactPlaces DEF Landing
<1>6. Turned => Turned'
  BY <1>3, ReactPlaces
<1> QED
  BY <1>1, <1>2, <1>5, <1>6, ReactPlaces DEF Landing

\* A new attempt starts early, and adds at most one late stray to none.
LEMMA RetryLanding == ASSUME IInv, Landing, Retry PROVE Landing'
<1>1. UNCHANGED <<main, visibility, pr>>
  BY DEF Retry, contentVars
<1>2. step' = "gate" /\ strays' \subseteq strays \cup {step}
  BY DEF Retry
<1>3. (Squashed' <=> Squashed) /\ (Pushed' <=> Pushed)
  BY <1>1 DEF Squashed, Pushed
<1>4. Turned' /\ step' \notin Late
  BY <1>2 DEF Turned, Late, LateChanges
<1>5. step \in LateChanges => LateStrays = {} /\ step \in Late
  BY DEF Landing, Turned, Late, LateChanges
<1>6. LateStrays' # {} => Pushed
  BY <1>2, <1>5 DEF Landing, LateStrays
<1>7. /\ "merge" \in strays' => "prCreate" \notin strays'
      /\ Squashed => "prCreate" \notin strays'
  BY <1>2, <1>5 DEF Landing, LateStrays, LateChanges, Turned
<1> QED
  BY <1>1, <1>2, <1>3, <1>4, <1>6, <1>7 DEF Landing

\* Nothing else moves the publisher or the repository.
LEMMA QuietLanding ==
  ASSUME IInv, Landing,
         \/ Call /\ UNCHANGED <<contentVars, ciVars, publisherVars>>
         \/ Killed \/ Workflows \/ WaitEnds \/ UNCHANGED vars
         \/ ChildEnds /\ UNCHANGED <<contentVars, ciVars, publisherVars>>
  PROVE  Landing'
<1>1. UNCHANGED <<main, visibility, pr, strays, step, reply, acted>>
  BY DEF Call, Begin, Return, Throw, Killed, Workflows, WaitEnds, ChildEnds, vars, contentVars,
     commandVars, publisherVars
<1>2. LateStrays' = LateStrays /\ (Squashed' <=> Squashed) /\ (Pushed' <=> Pushed)
  BY <1>1 DEF LateStrays, Squashed, Pushed
<1>3. Turned' <=> Turned
  BY <1>1 DEF Turned
<1> QED
  BY <1>1, <1>2, <1>3 DEF Landing

\* The candidate lands once at most, over its own root, whichever attempt's
\* child does it and whenever.
THEOREM LandsAtMostOnce == Spec => []LandsOnce
<1>1. IInv /\ Landing /\ [Next]_vars => Landing'
  BY ActLanding, StrayLanding, OthersLanding, ReactLanding, RetryLanding, QuietLanding
     DEF Next, Publisher
<1>2. Landing => LandsOnce
  <2> SUFFICES ASSUME Landing, NEW i \in DOMAIN main, main[i] = "squash"
               PROVE  main[1] = "root" /\ \A j \in DOMAIN main : main[j] = "squash" => j = i
    BY DEF LandsOnce
  <2>1. Squashed
    BY DEF Squashed, Range
  <2> QED
    BY <2>1 DEF Landing, Pushed, SquashedOnce
<1> QED
  BY <1>1, <1>2, InitLanding, Invariance, PTL DEF Spec
-----------------------------------------------------------------------------
(* The types.                                                               *)

\* The places of the publisher by name.
LEMMA StepNames ==
  {"gate", "head", "root", "view", "create", "origin", "addOrigin", "pushMain", "pushBranch",
   "list", "prCreate", "relist", "runs", "watch", "jobs", "merge", "readMain", "pvr",
   "protection", "environment", "readRepository", "readPvr", "readProtection",
   "readEnvironment"} \subseteq Steps
<1>1. /\ DOMAIN Following = {"gate", "head", "root", "create", "addOrigin", "pushMain",
           "pushBranch", "prCreate", "watch", "merge", "readMain", "pvr", "protection",
           "environment"}
      /\ DOMAIN ReadSteps = {"readRepository", "readPvr", "readProtection", "readEnvironment"}
  BY DEF Following
<1> QED
  BY <1>1 DEF Steps

LEMMA InitTypes == Init => TypeOK
<1> SUFFICES ASSUME Init PROVE TypeOK
  OBVIOUS
<1>1. main \in Seq(Commits)
  <2>1. CASE main = <<>>
    BY <2>1
  <2>2. CASE main = <<"foreign">>
    BY <2>2 DEF Commits
  <2> QED
    BY <2>1, <2>2 DEF Init
<1>2. ContentTypes
  BY <1>1 DEF Init, ContentTypes, Commits
<1>3. CiTypes
  <2>1. passed \in BOOLEAN
    BY DEF Init
  <2>2. run = "none" /\ meddling = 0 /\ reruns = 0
    BY DEF Init
  <2> QED
    BY <2>1, <2>2, PublicationAssumption DEF CiTypes
<1>4. PublisherTypes
  <2>1. step \in Steps
    BY StepNames DEF Init
  <2>2. single \in BOOLEAN /\ late \in BOOLEAN
    BY DEF Init
  <2>3. attempts = 1 /\ reply = "none" /\ readback = {} /\ outcome = "none" /\ strays = {}
    BY DEF Init
  <2> QED
    BY <2>1, <2>2, <2>3, PublicationAssumption DEF PublisherTypes
<1> QED
  BY <1>2, <1>3, <1>4 DEF Init, Fresh, TypeOK, CommandTypeOK

\* What a command may do, whenever its child acts.
LEMMA CarryTypes ==
  ASSUME ContentTypes, NEW c, Carry(c)
  PROVE  ContentTypes'
<1>1. MainOK'
  BY CarryGrows DEF ContentTypes, MainOK, Commits, Grows
<1>2. /\ visibility' \in {visibility, "public"} /\ branch' \in {branch, "head", "none"}
      /\ pr' \in {pr, "open", "merged"} /\ origin' \in {origin, "right"}
      /\ settings' \subseteq settings \cup Settings
  BY DEF Carry, CreateRepository, AddOrigin, PushMain, PushBranch, CreatePullRequest,
         MergePullRequest, Configure, Inquire, contentVars, ContentTypes
<1> QED
  BY <1>1, <1>2 DEF ContentTypes, MainOK, Commits

LEMMA AnswerTypes ==
  ASSUME ContentTypes, CiTypes, NEW c
  PROVE  Answer(c) \in {"none", "done", "yes", "nonempty", "public", "private", "absent",
                        "right", "wrong", "match", "mismatch", "run", "success"}
  BY DEF Answer, Yes, ContentTypes, CiTypes

\* What a reaction may turn the publisher to.
LEMMA ReactTypes ==
  ASSUME TypeOK, React
  PROVE  TypeOK'
<1>1. CommandTypeOK /\ PublisherTypes
  BY DEF TypeOK
<1>2. /\ step' \in Steps /\ (reply' = reply \/ reply' = "none") /\ late' \in {late, FALSE}
      /\ outcome' \in {outcome, "failed", "nonempty", "refused", "mismatch", "published"}
      /\ readback' \subseteq readback \cup Settings \cup {"repository"}
      /\ Renew \/ UNCHANGED commandVars
  <2> USE <1>1 DEF PublisherTypes, Continue, EndsAs
  <2>1. CASE Advance
    <3>1. Following[step] \in Steps
      BY <2>1, StepNames DEF Advance, Following
    <3> QED
      BY <2>1, <3>1 DEF Advance
  <2>2. CASE ReadBack
    <3>1. step \in DOMAIN ReadSteps /\ ReadSteps[step] \in Settings \cup {"repository"}
      BY <2>2 DEF ReadBack, ReadBackFor
    <3>2. readback' \subseteq readback \cup Settings \cup {"repository"}
      BY <2>2, <3>1 DEF ReadBack, ReadBackFor, Confirmed
    <3>3. step \in DOMAIN NextRead => NextRead[step] \in Steps
      BY <3>1, StepNames DEF NextRead
    <3> QED
      BY <2>2, <3>2, <3>3 DEF ReadBack, ReadBackFor
  <2>3. CASE GiveUp \/ InspectTarget \/ ConfigureOrigin \/ IdentifyPullRequest \/ FindRun
             \/ CheckJob
    BY <2>3, StepNames DEF GiveUp, InspectTarget, ConfigureOrigin, IdentifyPullRequest, FindRun, CheckJob
  <2> QED
    BY <2>1, <2>2, <2>3 DEF React
<1>3. ContentTypes' /\ CiTypes' /\ UNCHANGED <<single, attempts, strays>>
  BY DEF React, Keeps, contentVars, ciVars, TypeOK, ContentTypes, CiTypes
<1>4. CommandTypeOK'
  BY <1>1, <1>2 DEF CommandTypeOK, Renew, commandVars
<1>5. PublisherTypes'
  BY <1>1, <1>2, <1>3 DEF PublisherTypes
<1> QED
  BY <1>3, <1>4, <1>5 DEF TypeOK

LEMMA NextTypes == TypeOK /\ [Next]_vars => TypeOK'
<1> SUFFICES ASSUME TypeOK, [Next]_vars PROVE TypeOK'
  OBVIOUS
<1>0. CommandTypeOK /\ ContentTypes /\ CiTypes /\ PublisherTypes
  BY DEF TypeOK
<1>1. CASE UNCHANGED vars
  BY <1>0, <1>1 DEF vars, commandVars, contentVars, ciVars, publisherVars, TypeOK,
     CommandTypeOK, ContentTypes, CiTypes, PublisherTypes
<1>2. CASE (Call \/ ChildEnds) /\ UNCHANGED <<contentVars, ciVars, publisherVars>>
  <2>1. CommandTypeOK'
    BY <1>0, <1>2 DEF CommandTypeOK, Call, Begin, Return, Throw, ChildEnds
  <2> QED
    BY <1>0, <1>2, <2>1 DEF contentVars, ciVars, publisherVars, TypeOK, ContentTypes, CiTypes,
       PublisherTypes
<1>3. CASE Act
  <2>1. ContentTypes' /\ CommandTypeOK'
    BY <1>0, <1>3, CarryTypes DEF Act, Work, CommandTypeOK
  <2> QED
    BY <1>0, <1>3, <2>1, AnswerTypes DEF Act, ciVars, TypeOK, CiTypes, PublisherTypes
<1>4. CASE StrayActs
  <2>1. ContentTypes'
    BY <1>0, <1>4, CarryTypes DEF StrayActs
  <2> QED
    BY <1>0, <1>4, <2>1 DEF StrayActs, commandVars, ciVars, TypeOK, CommandTypeOK, CiTypes,
       PublisherTypes
<1>5. CASE Workflows
  <2>1. CiTypes'
    <3>1. run' \in {"none", "running", "passed", "skipped", "failed"} /\ passed' \in BOOLEAN
      BY <1>0, <1>5 DEF Workflows, RunStarts, RunEnds, Rerun, CiTypes
    <3>2. meddling' = meddling /\ (reruns' = reruns \/ (reruns < MaxReruns /\ reruns' = reruns + 1))
      <4>0. meddling' = meddling
        BY <1>5 DEF Workflows
      <4>1. CASE RunStarts \/ RunEnds
        <5>1. RunStarts => reruns' = reruns
          BY DEF RunStarts
        <5>2. RunEnds => reruns' = reruns
          BY DEF RunEnds
        <5>3. reruns' = reruns
          BY <4>1, <5>1, <5>2
        <5> QED
          BY <4>0, <5>3
      <4>2. CASE Rerun
        BY <4>0, <4>2 DEF Rerun
      <4> QED
        BY <1>5, <4>1, <4>2 DEF Workflows
    <3> QED
      BY <1>0, <3>1, <3>2, PublicationAssumption DEF CiTypes
  <2> QED
    BY <1>0, <1>5, <2>1 DEF Workflows, commandVars, contentVars, publisherVars, TypeOK,
       CommandTypeOK, ContentTypes, PublisherTypes
<1>6. CASE Others
  <2>1. CiTypes' /\ CommandTypeOK' /\ PublisherTypes'
    BY <1>0, <1>6, PublicationAssumption DEF Others, commandVars, publisherVars, CiTypes,
       CommandTypeOK, PublisherTypes
  <2>2. main' \in Seq(Commits)
    BY <1>0, <1>6, AppendGrows DEF Others, ContentTypes, Commits
  <2>3. /\ visibility' \in {visibility, "private"} /\ branch' \in {branch, "other"}
        /\ pr' \in {pr, "closed"} /\ UNCHANGED <<settings, origin>>
    BY <1>6 DEF Others
  <2>4. ContentTypes'
    BY <1>0, <2>2, <2>3 DEF ContentTypes, Commits
  <2> QED
    BY <2>1, <2>4 DEF TypeOK
<1>7. CASE WaitEnds \/ Killed
  <2>1. /\ late' \in BOOLEAN /\ outcome' \in {outcome, "killed"}
        /\ UNCHANGED <<single, step, reply, readback, attempts, strays>>
    BY <1>0, <1>7 DEF WaitEnds, Killed, PublisherTypes
  <2>2. PublisherTypes'
    BY <1>0, <2>1 DEF PublisherTypes
  <2> QED
    BY <1>0, <1>7, <2>2 DEF WaitEnds, Killed, commandVars, contentVars, ciVars, TypeOK,
       CommandTypeOK, ContentTypes, CiTypes
<1>8. CASE Retry
  <2>1. PublisherTypes'
    <3>1. step' \in Steps /\ attempts' \in 1..MaxAttempts
      BY <1>0, <1>8, StepNames, PublicationAssumption DEF Retry, PublisherTypes
    <3> QED
      BY <1>0, <1>8, <3>1 DEF Retry, PublisherTypes
  <2> QED
    BY <1>0, <1>8, <2>1 DEF Retry, Renew, contentVars, ciVars, TypeOK, CommandTypeOK,
       ContentTypes, CiTypes
<1> QED
  BY <1>1, <1>2, <1>3, <1>4, <1>5, <1>6, <1>7, <1>8, ReactTypes DEF Next, Publisher

\* The repository, its runs and the publisher keep their types.
THEOREM TypeCorrect == Spec => []TypeOK
  BY InitTypes, NextTypes, PTL DEF Spec
=============================================================================
