-------------------------- MODULE PublicationProofs --------------------------
(***************************************************************************)
(* The publications of publish-image.yml: DigestIsTruthful of              *)
(* ImagePublication for any number of publications of the commit, that     *)
(* ValidationGate implements AtomicGate for any number of runs and         *)
(* attempts, and RemovesOrReports of the inspections.                      *)
(***************************************************************************)
EXTENDS MCPublication, FiniteSetTheorems, TLAPS

PubRecords == [pc : Steps, digest : Pushed \cup {None}]

(* What the checks between building and pushing have found: of the image Id *)
(* handed on for the Intranet, else of what the publication built, as long   *)
(* as the local tag names it.                                               *)
Subject(p) == IF caller = "intranet" THEN verified[p] ELSE image[p]
Judged(p) == caller = "intranet" \/ image[p].built
Contract(i) == caller # "other" => i.complete
Checked ==
  \A p \in Pubs :
    /\ pub[p].pc \in {"built", "inspected", "scanned", "cleared"} => image[p] # None
    /\ caller # "intranet" => verified[p] = None
    /\ pub[p].pc \in {"inspected", "scanned", "cleared"} =>
         /\ caller = "intranet" => verified[p] # None
         /\ Judged(p) => Contract(Subject(p))
    /\ pub[p].pc \in {"scanned", "cleared"} => (Judged(p) => Subject(p).clean)

(* What is pushed was found sound, and so is whatever digest is reported.   *)
Cleared(d) == caller = "intranet" \/ d.image.built => d.image.clean /\ Contract(d.image)
Tagged ==
  /\ registry # None => Cleared(registry)
  /\ \A p \in Pubs : pub[p].pc = "pushed" => registry # None
Reported ==
  \A p \in Pubs : pub[p].pc = "published" => pub[p].digest # None /\ Cleared(pub[p].digest)

(* With one slot, whoever runs runs alone, and so the tag is still its own. *)
Alone ==
  slots = 1 =>
    /\ \A p, q \in Pubs : Running(p) /\ Running(q) => p = q
    /\ \A p \in Pubs : pub[p].pc = "pushed" => registry # None /\ registry.by = p
    /\ \A p \in Pubs : pub[p].pc = "published" => pub[p].digest # None /\ pub[p].digest.by = p

Inv == TypeOK /\ Checked /\ Tagged /\ Reported /\ Alone

-----------------------------------------------------------------------------
LEMMA InitInv == Init => Inv
<1> SUFFICES ASSUME Init PROVE Inv
  OBVIOUS
<1>1. TypeOK
  BY DEF Init, TypeOK, PubRecords, Steps
<1>2. \A p \in Pubs : pub[p].pc = "queued" /\ verified[p] = None
  BY DEF Init
<1>3. registry = None
  BY DEF Init
<1> QED
  BY <1>1, <1>2, <1>3 DEF Inv, Checked, Tagged, Reported, Alone, Running

(* A step of p to another place, its images and the tag as they are.        *)
LEMMA GoesKeeps ==
  ASSUME Inv, NEW p \in Pubs, NEW to \in Steps,
         UNCHANGED <<caller, image, verified, registry, slots>>,
         pub' = [pub EXCEPT ![p].pc = to],
         \/ to = "failed"
         \/ pub[p].pc \in Steps \ {"queued", "pushed", "published", "failed"} /\
            \/ to \in {"admitted", "authorized"}
            \/ to = "scanned" /\ pub[p].pc = "inspected" /\ (Judged(p) => Subject(p).clean)
            \/ to = "cleared" /\ pub[p].pc = "scanned"
         \/ /\ to = "validated"
            /\ pub[p].pc = "queued"
            /\ slots = 1 => \A q \in Pubs : ~Running(q)
  PROVE  Inv'
<1>0. TypeOK /\ Checked /\ Tagged /\ Reported /\ Alone
  BY DEF Inv
<1>1. /\ pub[p] \in PubRecords /\ pub'[p].pc = to /\ pub'[p].digest = pub[p].digest
      /\ \A q \in Pubs : q # p => pub'[q] = pub[q]
  BY <1>0 DEF TypeOK, PubRecords
<1>2. TypeOK'
  BY <1>0 DEF TypeOK, PubRecords
<1>3. to \notin {"built", "inspected", "pushed", "published"} /\ to # "queued"
  BY DEF Steps
<1>4. Checked'
  BY <1>0, <1>1, <1>3 DEF Checked, Judged, Subject, Contract
<1>5. \A q \in Pubs : pub'[q].pc \in {"pushed", "published"} => pub'[q] = pub[q]
  BY <1>0, <1>1, <1>3
<1>6. Tagged' /\ Reported'
  BY <1>0, <1>5 DEF Tagged, Reported, Cleared, Contract
<1>8. Alone'
  <2>1. CASE \A q \in Pubs : Running(q)' => Running(q)
    BY <1>0, <1>5, <2>1 DEF Alone
  <2>2. CASE to # "failed" /\ to # "validated"
    <3>1. Running(p)
      BY <2>2 DEF Running, Ended
    <3>2. \A q \in Pubs : Running(q)' => Running(q)
      BY <1>1, <3>1 DEF Running
    <3> QED
      BY <2>1, <3>2
  <2>3. CASE to = "failed"
    BY <1>1, <2>1, <2>3 DEF Running, Ended
  <2>4. CASE to = "validated"
    <3>1. slots = 1 => \A q \in Pubs : Running(q)' => q = p
      BY <1>1, <2>4 DEF Running
    <3> QED
      BY <1>0, <1>1, <1>5, <3>1 DEF Alone
  <2> QED
    BY <2>2, <2>3, <2>4
<1> QED
  BY <1>2, <1>4, <1>6, <1>8 DEF Inv

LEMMA ValidateKeeps ==
  ASSUME Inv, NEW p \in Pubs, Validate(p), UNCHANGED <<caller, slots>>
  PROVE  Inv'
<1> DEFINE R == {q \in Pubs : Running(q)}
<1>1. slots = 1 => R = {}
  <2>1. IsFiniteSet(R)
    BY PubsAreFinite, FS_Subset
  <2>2. Cardinality(R) \in Nat
    BY <2>1, FS_CardinalityType
  <2>3. Cardinality(R) < slots
    BY DEF Validate
  <2>4. slots = 1 => Cardinality(R) = 0
    BY <2>2, <2>3
  <2> QED
    BY <2>1, <2>4, FS_EmptySet
<1>2. slots = 1 => \A q \in Pubs : ~Running(q)
  BY <1>1
<1> QED
  BY <1>2, GoesKeeps DEF Validate, Goes, Steps

(* The steps that change what is known of p's own image: building it,       *)
(* inspecting it, and the local tag moved under the job.                    *)
LEMMA OwnImageKeeps ==
  ASSUME Inv, NEW p \in Pubs, Build(p) \/ Inspect(p) \/ Retag(p), UNCHANGED <<caller, slots>>
  PROVE  Inv'
<1>0. TypeOK /\ Checked /\ Tagged /\ Reported /\ Alone
  BY DEF Inv
<1>1. registry' = registry /\ Running(p)
  BY DEF Build, Inspect, Retag, Goes, Running, Ended
<1>2. pub[p] \in PubRecords
  BY <1>0 DEF TypeOK, PubRecords
<1>3. /\ \A q \in Pubs : q # p =>
           pub'[q] = pub[q] /\ image'[q] = image[q] /\ verified'[q] = verified[q]
      /\ pub'[p].pc \notin {"pushed", "published"} \/ pub'[p] = pub[p]
      /\ TypeOK'
      /\ Running(p)'
  <2>1. CASE Build(p)
    <3>1. PICK i \in Images : i.built /\ image' = [image EXCEPT ![p] = i]
      BY <2>1 DEF Build
    <3>2. pub' = [pub EXCEPT ![p].pc = "built"] /\ UNCHANGED <<verified, registry>>
      BY <2>1 DEF Build, Goes
    <3> QED
      BY <1>0, <1>2, <3>1, <3>2 DEF TypeOK, PubRecords, Steps, Running, Ended
  <2>2. CASE Inspect(p)
    <3>1. /\ pub[p].pc = "built" /\ pub' = [pub EXCEPT ![p].pc = "inspected"]
          /\ verified' = IF caller = "intranet" THEN [verified EXCEPT ![p] = image[p]] ELSE verified
          /\ UNCHANGED <<image, registry>>
      BY <2>2 DEF Inspect, Goes
    <3> QED
      BY <1>0, <1>2, <3>1 DEF TypeOK, PubRecords, Steps, Running, Ended
  <2>3. CASE Retag(p)
    <3>1. PICK i \in Images : ~i.built /\ image' = [image EXCEPT ![p] = i]
      BY <2>3 DEF Retag
    <3>2. UNCHANGED <<pub, verified, registry>>
      BY <2>3 DEF Retag
    <3> QED
      BY <1>0, <1>1, <1>2, <3>1, <3>2 DEF TypeOK, Running
  <2> QED
    BY <2>1, <2>2, <2>3
<1>4. /\ pub'[p].pc \in {"built", "inspected", "scanned", "cleared"} => image'[p] # None
      /\ caller # "intranet" => verified'[p] = None
      /\ pub'[p].pc \in {"inspected", "scanned", "cleared"} =>
           /\ caller = "intranet" => verified'[p] # None
           /\ Judged(p)' => Contract(Subject(p))'
      /\ pub'[p].pc \in {"scanned", "cleared"} => (Judged(p)' => Subject(p)'.clean)
  <2>1. CASE Build(p)
    <3>1. PICK i \in Images : image' = [image EXCEPT ![p] = i]
      BY <2>1 DEF Build
    <3>2. image'[p] \in Images /\ pub'[p].pc = "built" /\ verified' = verified
      BY <1>0, <2>1, <3>1 DEF TypeOK, Build, Goes
    <3> QED
      BY <1>0, <3>2, NoneIsNoImage DEF Checked
  <2>2. CASE Inspect(p)
    <3>1. /\ pub[p].pc = "built" /\ pub'[p].pc = "inspected" /\ image' = image
          /\ image[p] # None /\ Contract(image[p])
          /\ verified'[p] = IF caller = "intranet" THEN image[p] ELSE verified[p]
      BY <1>0, <2>2 DEF TypeOK, Checked, Inspect, Goes, Contract
    <3> QED
      BY <1>0, <3>1 DEF Checked, Subject, Contract
  <2>3. CASE Retag(p)
    <3>1. PICK i \in Images : ~i.built /\ image' = [image EXCEPT ![p] = i]
      BY <2>3 DEF Retag
    <3>2. /\ image'[p] # None /\ ~image'[p].built
          /\ pub' = pub /\ verified' = verified
      BY <1>0, <2>3, <3>1, NoneIsNoImage DEF TypeOK, Retag
    <3> QED
      BY <1>0, <3>2 DEF Checked, Judged, Subject, Contract
  <2> QED
    BY <2>1, <2>2, <2>3
<1>5. Checked'
  BY <1>0, <1>3, <1>4 DEF Checked, Judged, Subject, Contract
<1>6. \A q \in Pubs : pub'[q].pc \in {"pushed", "published"} => pub'[q] = pub[q]
  BY <1>3
<1>7. Tagged' /\ Reported'
  BY <1>0, <1>1, <1>6 DEF Tagged, Reported, Cleared, Contract
<1>8. Alone'
  <2>1. \A q \in Pubs : Running(q)' => Running(q)
    BY <1>1, <1>3 DEF Running
  <2> QED
    BY <1>0, <1>1, <1>6, <2>1 DEF Alone
<1> QED
  BY <1>3, <1>5, <1>7, <1>8 DEF Inv

(* The push: the tag is now p's, and what it names is what was found sound;  *)
(* p ran, so with one slot nobody else is between its push and its digest.  *)
LEMMA PushKeeps ==
  ASSUME Inv, NEW p \in Pubs, Push(p), UNCHANGED <<caller, slots>>
  PROVE  Inv'
<1>0. TypeOK /\ Checked /\ Tagged /\ Reported /\ Alone
  BY DEF Inv
<1>1. PICK to \in {"pushed", "failed"} :
       pub[p].pc = "cleared" /\ pub' = [pub EXCEPT ![p].pc = to]
  BY DEF Push, Goes
<1> DEFINE d == [by |-> p, image |-> image[p]]
<1>2. /\ registry' = d /\ UNCHANGED <<image, verified>>
      /\ caller = "intranet" => image[p] = verified[p]
  BY DEF Push
<1>3. /\ pub[p] \in PubRecords /\ pub'[p].pc = to
      /\ \A q \in Pubs : q # p => pub'[q] = pub[q]
  BY <1>0, <1>1 DEF TypeOK, PubRecords
<1>4. image[p] \in Images
  BY <1>0, <1>1 DEF TypeOK, Checked
<1>5. d \in Pushed /\ d.by = p /\ d.image = image[p] /\ d # None
  BY <1>4, NoneIsNotPushed DEF Pushed
<1>6. Cleared(d)
  BY <1>0, <1>1, <1>2, <1>5 DEF Checked, Cleared, Judged, Subject
<1> HIDE DEF d
<1>7. TypeOK'
  BY <1>0, <1>1, <1>2, <1>5 DEF TypeOK, PubRecords, Steps
<1>8. Checked'
  BY <1>0, <1>1, <1>2, <1>3 DEF Checked, Judged, Subject, Contract
<1>9. Tagged'
  BY <1>2, <1>5, <1>6 DEF Tagged, Cleared, Contract
<1>10. \A q \in Pubs : pub'[q].pc = "published" => pub'[q] = pub[q]
  BY <1>1, <1>3
<1>11. Reported'
  BY <1>0, <1>10 DEF Reported, Cleared, Contract
<1>12. Alone'
  <2>1. Running(p)
    BY <1>1 DEF Running, Ended
  <2>2. \A q \in Pubs : Running(q)' => Running(q)
    BY <1>3, <2>1 DEF Running
  <2>3. \A q \in Pubs : pub'[q].pc = "pushed" => Running(q)
    BY <1>3, <2>1 DEF Running, Ended
  <2>4. slots = 1 => \A q \in Pubs : pub'[q].pc = "pushed" => q = p
    BY <1>0, <2>1, <2>3 DEF Alone
  <2> QED
    BY <1>0, <1>2, <1>5, <1>10, <2>2, <2>4 DEF Alone
<1> QED
  BY <1>7, <1>8, <1>9, <1>11, <1>12 DEF Inv

LEMMA ResolveKeeps ==
  ASSUME Inv, NEW p \in Pubs, ResolveDigest(p), UNCHANGED <<caller, slots>>
  PROVE  Inv'
<1>0. TypeOK /\ Checked /\ Tagged /\ Reported /\ Alone
  BY DEF Inv
<1>1. /\ pub[p].pc = "pushed" /\ UNCHANGED <<image, verified, registry>>
      /\ pub' = [pub EXCEPT ![p] = [pc |-> "published", digest |-> registry]]
  BY DEF ResolveDigest
<1>2. /\ pub'[p].pc = "published" /\ pub'[p].digest = registry
      /\ \A q \in Pubs : q # p => pub'[q] = pub[q]
  BY <1>0, <1>1 DEF TypeOK
<1>3. registry \in Pushed /\ registry # None /\ Cleared(registry)
  BY <1>0, <1>1 DEF Tagged, TypeOK
<1>4. TypeOK'
  BY <1>0, <1>1 DEF TypeOK, PubRecords, Steps
<1>5. Checked'
  BY <1>0, <1>1, <1>2 DEF Checked, Judged, Subject, Contract
<1>6. Tagged' /\ Reported'
  BY <1>0, <1>1, <1>2, <1>3 DEF Tagged, Reported, Cleared, Contract
<1>7. Alone'
  <2>1. \A q \in Pubs : Running(q)' => Running(q)
    BY <1>2 DEF Running, Ended
  <2> QED
    BY <1>0, <1>1, <1>2, <2>1 DEF Alone
<1> QED
  BY <1>4, <1>5, <1>6, <1>7 DEF Inv

LEMMA NextInv == Inv /\ [Next]_vars => Inv'
<1> SUFFICES ASSUME Inv, [Next]_vars PROVE Inv'
  OBVIOUS
<1>1. CASE UNCHANGED <<caller, image, verified, registry, pub, slots>>
  BY <1>1 DEF Inv, TypeOK, Checked, Judged, Subject, Contract, Tagged, Cleared, Reported, Alone,
              Running
<1>2. ASSUME NEW p \in Pubs, PubStep(p) \/ Retag(p), UNCHANGED <<caller, slots>> PROVE Inv'
  <2>1. CASE Admit(p) \/ Authorize(p) \/ Scan(p) \/ Clear(p) \/ Fail(p)
    <3>1. PICK to \in {"admitted", "authorized", "scanned", "cleared", "failed"} :
            pub' = [pub EXCEPT ![p].pc = to] /\ UNCHANGED <<image, verified, registry>> /\
            \/ to = "failed"
            \/ pub[p].pc \in Steps \ {"queued", "pushed", "published", "failed"} /\
               \/ to \in {"admitted", "authorized"}
               \/ to = "scanned" /\ pub[p].pc = "inspected" /\ (Judged(p) => Subject(p).clean)
               \/ to = "cleared" /\ pub[p].pc = "scanned"
      <4>1. CASE Scan(p)
        <5>1. /\ caller # "intranet" => verified[p] = None
              /\ caller = "intranet" => verified[p] # None
          BY <4>1 DEF Inv, Checked, Scan, Goes
        <5> QED
          BY <4>1, <5>1 DEF Scan, Goes, Steps, Subject
      <4> QED
        BY <1>2, <2>1, <4>1 DEF Admit, Authorize, Clear, Fail, Goes, Steps
    <3>2. to \in Steps
      BY DEF Steps
    <3> QED
      BY <1>2, <3>1, <3>2, GoesKeeps
  <2> QED
    BY <1>2, <2>1, ValidateKeeps, OwnImageKeeps, PushKeeps, ResolveKeeps DEF PubStep
<1> QED
  BY <1>1, <1>2 DEF Next, vars

THEOREM Invariance == Spec => []Inv
  BY InitInv, NextInv, PTL DEF Spec

(* The images, the tag and the publications keep their types.               *)
THEOREM TypeCorrect == Spec => []TypeOK
<1>1. Inv => TypeOK
  BY DEF Inv
<1> QED
  BY <1>1, Invariance, PTL

(* Whatever digest a publication reports is that of an image that was       *)
(* scanned clean and met the contract of its caller, the Intranet's also if  *)
(* the local tag was moved under the job, and of what the publication pushed *)
(* itself when the callers serialise the publications of a commit.          *)
THEOREM DigestTruthful == Spec => []DigestIsTruthful
<1>1. Inv => DigestIsTruthful
  BY DEF Inv, Reported, Cleared, Contract, Alone, DigestIsTruthful, DigestIsCleared, DigestIsOwnImage
<1> QED
  BY <1>1, Invariance, PTL
-----------------------------------------------------------------------------
(* The outcome of an attempt is written once: it is still open while the    *)
(* attempt is active, and so are those of later attempts.                   *)
OutcomesOpen ==
  \A r \in Runs : \A a \in 1 .. MaxAttempt :
     a > ci[r].attempt \/ (a = ci[r].attempt /\ ci[r].status = "active")
       => ci[r].outcome[a] = "none"

(* What the gate has bound, and, once it has read them, that the jobs of    *)
(* the bound attempt passed.                                               *)
Bound ==
  /\ gate.pc \in {"listed", "bound", "jobsRead", "observedAgain"} =>
       gate.run \in Runs /\ gate.attempt \in 1 .. MaxAttempt
  /\ gate.pc \in {"jobsRead", "observedAgain"} =>
       ci[gate.run].outcome[gate.attempt] = "passed"

GateInv == GateTypeOK /\ OutcomesOpen /\ Bound

USE CiBounds DEF Runs

-----------------------------------------------------------------------------
LEMMA GateInitInv == GateInit => GateInv
  BY DEF GateInit, CiInit, GateInv, GateTypeOK, CiTypeOK, OutcomesOpen, Bound, GateSteps, Outcomes

RunRecords == [attempt : 0 .. MaxAttempt, status : {"active", "completed"},
               outcome : [1 .. MaxAttempt -> Outcomes]]

(* GitHub writes an outcome only where there was none.                      *)
LEMMA WorldKeeps ==
  ASSUME GateInv, CiStep, UNCHANGED gate
  PROVE  GateInv'
<1>0. GateTypeOK /\ OutcomesOpen /\ Bound
  BY DEF GateInv
<1>1. PICK r \in Runs : StartRun(r) \/ Rerun(r) \/ Complete(r)
  BY DEF CiStep
<1>2. /\ ci \in [Runs -> RunRecords] /\ ci[r] \in RunRecords
      /\ ci[r].attempt \in 0 .. MaxAttempt
  BY <1>0 DEF GateTypeOK, CiTypeOK, RunRecords
<1>3. ASSUME NEW x, x \in RunRecords, ci' = [ci EXCEPT ![r] = x],
             \A a \in 1 .. MaxAttempt :
               /\ ci[r].outcome[a] # "none" => x.outcome[a] = ci[r].outcome[a]
               /\ a > x.attempt \/ (a = x.attempt /\ x.status = "active") => x.outcome[a] = "none"
      PROVE  GateInv'
  <2>1. GateTypeOK'
    BY <1>0, <1>2, <1>3 DEF GateTypeOK, CiTypeOK, RunRecords
  <2>2. \A q \in Runs : ci'[q] = IF q = r THEN x ELSE ci[q]
    BY <1>2, <1>3
  <2>3. OutcomesOpen'
    BY <1>0, <1>3, <2>2 DEF OutcomesOpen
  <2>4. \A q \in Runs : \A a \in 1 .. MaxAttempt :
          ci[q].outcome[a] = "passed" => ci'[q].outcome[a] = "passed"
    BY <1>3, <2>2
  <2>5. Bound'
    BY <1>0, <2>4 DEF Bound
  <2> QED
    BY <2>1, <2>3, <2>5 DEF GateInv
<1>4. ASSUME NEW n \in 1 .. MaxAttempt, n > ci[r].attempt, Activate(r, n)
      PROVE  GateInv'
  <2> DEFINE x == [attempt |-> n, status |-> "active", outcome |-> ci[r].outcome]
  <2>1. x \in RunRecords
    BY <1>2 DEF RunRecords
  <2>2. ci' = [ci EXCEPT ![r] = x]
    BY <1>4 DEF Activate
  <2>3. \A a \in 1 .. MaxAttempt : a >= n => ci[r].outcome[a] = "none"
    BY <1>0, <1>2, <1>4 DEF OutcomesOpen
  <2>4. /\ x.attempt = n /\ x.attempt \in 1 .. MaxAttempt
        /\ x.outcome = ci[r].outcome
    OBVIOUS
  <2> HIDE DEF x
  <2>5. \A a \in 1 .. MaxAttempt :
          /\ ci[r].outcome[a] # "none" => x.outcome[a] = ci[r].outcome[a]
          /\ a > x.attempt \/ (a = x.attempt /\ x.status = "active") => x.outcome[a] = "none"
    BY <2>3, <2>4
  <2> QED
    BY <1>3, <2>1, <2>2, <2>5
<1>5. CASE StartRun(r) \/ Rerun(r)
  <2>1. PICK n \in 1 .. MaxAttempt : n > ci[r].attempt /\ Activate(r, n)
    BY <1>2, <1>5 DEF StartRun, Rerun
  <2> QED
    BY <1>4, <2>1
<1>6. CASE Complete(r)
  <2>1. PICK o \in Outcomes \ {"none"} :
          ci' = [ci EXCEPT ![r].status = "completed", ![r].outcome[ci[r].attempt] = o]
    BY <1>6 DEF Complete
  <2> DEFINE n == ci[r].attempt
             x == [ci[r] EXCEPT !.status = "completed", !.outcome[n] = o]
  <2>2. ci' = [ci EXCEPT ![r] = x]
    BY <2>1
  <2>3. /\ x \in RunRecords /\ x.attempt = n /\ x.status = "completed"
        /\ \A a \in 1 .. MaxAttempt : x.outcome[a] = IF a = n THEN o ELSE ci[r].outcome[a]
    BY <1>2 DEF RunRecords
  <2> HIDE DEF x
  <2>4. \A a \in 1 .. MaxAttempt : a >= n => ci[r].outcome[a] = "none"
    BY <1>0, <1>2, <1>6 DEF OutcomesOpen, Complete
  <2>5. \A a \in 1 .. MaxAttempt :
          /\ ci[r].outcome[a] # "none" => x.outcome[a] = ci[r].outcome[a]
          /\ a > x.attempt \/ (a = x.attempt /\ x.status = "active") => x.outcome[a] = "none"
    BY <1>2, <2>3, <2>4
  <2> QED
    BY <1>3, <2>2, <2>3, <2>5
<1> QED
  BY <1>1, <1>5, <1>6

LEMMA GateKeeps ==
  ASSUME GateInv, GateStep
  PROVE  GateInv'
<1>0. GateTypeOK /\ OutcomesOpen /\ Bound
  BY DEF GateInv
<1>1. UNCHANGED ci
  BY DEF GateStep, ListRuns, ReadRun, ReadJobs, ReadRunAgain, ListAgain, RefuseStep, Moves
<1>2. CiTypeOK' /\ OutcomesOpen'
  BY <1>0, <1>1 DEF GateTypeOK, CiTypeOK, OutcomesOpen
<1>3. CASE ListRuns
  <2>1. PICK r \in Existing :
          gate' = [pc |-> "listed", run |-> r, attempt |-> ci[r].attempt]
    BY <1>3 DEF ListRuns
  <2>2. r \in Runs /\ ci[r].attempt \in 1 .. MaxAttempt
    BY <1>0, <2>1 DEF Existing, GateTypeOK, CiTypeOK
  <2> QED
    BY <1>2, <2>1, <2>2 DEF GateInv, GateTypeOK, Bound, GateSteps
<1>4. CASE ReadRun \/ ReadJobs \/ ReadRunAgain \/ ListAgain \/ RefuseStep
  <2>1. PICK to \in GateSteps : gate' = [gate EXCEPT !.pc = to]
    BY <1>4 DEF ReadRun, ReadJobs, ReadRunAgain, ListAgain, RefuseStep, Moves, GateSteps
  <2>2. GateTypeOK' /\ gate'.run = gate.run /\ gate'.attempt = gate.attempt /\ gate'.pc = to
    BY <1>0, <1>2, <2>1 DEF GateTypeOK
  <2>3. ASSUME to \in {"verified", "refused"} PROVE Bound'
    BY <2>2, <2>3 DEF Bound
  <2>4. ASSUME to \notin {"verified", "refused"} PROVE Bound'
    <3>1. \/ gate.pc = "listed" /\ to = "bound"
          \/ /\ gate.pc = "bound" /\ to = "jobsRead"
             /\ ci[gate.run].outcome[gate.attempt] = "passed"
          \/ gate.pc = "jobsRead" /\ to = "observedAgain"
      BY <1>0, <1>4, <2>1, <2>2, <2>4
         DEF GateTypeOK, JobsPassed, ReadRun, ReadJobs, ReadRunAgain, ListAgain, RefuseStep, Moves
    <3> QED
      BY <1>0, <1>1, <2>2, <3>1 DEF Bound
  <2>5. Bound'
    BY <2>3, <2>4
  <2> QED
    BY <1>2, <2>2, <2>5 DEF GateInv
<1> QED
  BY <1>3, <1>4 DEF GateStep

LEMMA GateNextInv == GateInv /\ [GateNext]_gateVars => GateInv'
<1> SUFFICES ASSUME GateInv, [GateNext]_gateVars PROVE GateInv'
  OBVIOUS
<1>1. CASE UNCHANGED gateVars
  BY <1>1 DEF gateVars, GateInv, GateTypeOK, CiTypeOK, OutcomesOpen, Bound
<1> QED
  BY <1>1, WorldKeeps, GateKeeps DEF GateNext

THEOREM GateInvariance == GateSpec => []GateInv
  BY GateInitInv, GateNextInv, PTL DEF GateSpec

(* The runs on GitHub and the gate's position keep their type.              *)
THEOREM GateTypeCorrect == GateSpec => []GateTypeOK
<1>1. GateInv => GateTypeOK
  BY DEF GateInv
<1> QED
  BY <1>1, GateInvariance, PTL

-----------------------------------------------------------------------------
(* The second list decides: what it accepts is green at that moment.        *)
LEMMA AcceptsGreen ==
  ASSUME GateInv, ListAgain
  PROVE  Green
<1>0. GateTypeOK /\ Bound /\ gate.pc = "observedAgain"
  BY DEF GateInv, ListAgain, Moves
<1>1. /\ Existing # {} /\ \A r \in Existing : Succeeded(r)
      /\ IsLatest(gate.run)
      /\ ci[gate.run].attempt = gate.attempt
  BY DEF ListAgain, AllSucceeded
<1>2. ci[gate.run].outcome[ci[gate.run].attempt] = "passed"
  BY <1>0, <1>1 DEF Bound
<1>3. ASSUME NEW r \in Existing, IsLatest(r) PROVE r = gate.run
  BY <1>1, <1>3 DEF IsLatest, Existing
<1> QED
  BY <1>1, <1>2, <1>3 DEF Green, JobsPassed

LEMMA StepImplements ==
  ASSUME GateInv, [GateNext]_gateVars
  PROVE  [Atomic!Pass \/ Atomic!Refuse \/ Atomic!World]_<<ci, Verdict>>
<1>0. GateTypeOK
  BY DEF GateInv
<1>1. CASE UNCHANGED gateVars \/ (CiStep /\ UNCHANGED gate)
  BY <1>1 DEF gateVars, Verdict, Atomic!World, Atomic!CiStep, CiStep, StartRun, Rerun, Complete, Activate, Existing,
     Atomic!StartRun, Atomic!Rerun, Atomic!Complete, Atomic!Activate, Atomic!Existing, Atomic!Runs, Atomic!Outcomes, Outcomes
<1>2. CASE ListAgain
  <2>1. Green /\ gate.pc = "observedAgain" /\ gate'.pc = "verified" /\ UNCHANGED ci
    BY <1>0, <1>2, AcceptsGreen DEF ListAgain, Moves, GateTypeOK
  <2>2. Atomic!Green
    BY <2>1 DEF Green, Existing, Succeeded, IsLatest, JobsPassed, Atomic!Green, Atomic!Existing,
       Atomic!Succeeded, Atomic!IsLatest, Atomic!JobsPassed, Atomic!Runs
  <2> QED
    BY <2>1, <2>2 DEF Verdict, Atomic!Pass
<1>3. CASE ListRuns \/ ReadRun \/ ReadJobs \/ ReadRunAgain
  <2>1. /\ gate.pc \notin {"verified", "refused"} /\ gate'.pc \notin {"verified", "refused"}
        /\ UNCHANGED ci
    BY <1>0, <1>3 DEF ListRuns, ReadRun, ReadJobs, ReadRunAgain, Moves, GateTypeOK
  <2> QED
    BY <2>1 DEF Verdict
<1>4. CASE RefuseStep
  <2>1. gate.pc \notin {"verified", "refused"} /\ gate'.pc = "refused" /\ UNCHANGED ci
    BY <1>0, <1>4 DEF RefuseStep, GateTypeOK
  <2> QED
    BY <2>1 DEF Verdict, Atomic!Refuse
<1> QED
  BY <1>1, <1>2, <1>3, <1>4 DEF GateNext, GateStep

LEMMA InitImplements == GateInit => Atomic!AtomicInit
  BY DEF GateInit, CiInit, Atomic!AtomicInit, Atomic!CiInit, Atomic!Runs, Verdict

(* The gate's five reads, whatever GitHub does between them, amount to one  *)
(* look at a single moment: it verifies only a commit that was green then.  *)
THEOREM GateLooksOnce == GateSpec => LooksOnce
<1>1. [GateNext]_gateVars /\ GateInv => [Atomic!Pass \/ Atomic!Refuse \/ Atomic!World]_<<ci, Verdict>>
  BY StepImplements
<1> QED
  BY <1>1, InitImplements, GateInvariance, PTL DEF GateSpec, LooksOnce, Atomic!AtomicSpec
-----------------------------------------------------------------------------
(***************************************************************************)
(* ImageInspection.  Where the code is tells what the daemon may hold, and *)
(* a container whose Id is known is no longer being created.               *)
(***************************************************************************)
IntranetOnly == {"own", "find", "ownFound", "lastFence", "remove", "checkGone", "recovery"}
InspectionTypeOK ==
  /\ daemon \in {"absent", "creating", "exists", "removing", "leaving"}
  /\ role \in {"intranet", "web"}
  /\ pc \in Inspection!Body \cup Inspection!Finally
            \cup {"verified", "failed", "recovery", "killed"}
  /\ known \in BOOLEAN /\ created \in BOOLEAN /\ passed \in BOOLEAN

DaemonHolds ==
  /\ pc \in {"fence", "create"} => daemon = "absent"
  /\ pc = "verified" => daemon = "absent" \/ (role = "web" /\ daemon = "leaving")
  /\ pc = "failed" /\ role = "intranet" => daemon = "absent"
  /\ pc \in {"own", "export", "verify"} => daemon = "exists"
  /\ pc = "forceRemove" /\ passed => daemon = "exists"
  /\ known => daemon # "creating"
PathOfRole ==
  /\ pc \in IntranetOnly => role = "intranet"
  /\ pc = "forceRemove" => role = "web"
  /\ pc \in Inspection!Body => ~passed
  /\ pc \in {"fence", "create"} => ~known
  /\ pc \in {"lastFence", "remove", "checkGone"} => known
  /\ pc = "recovery" => receipt = [containerId |-> known, mayBeInFlight |-> ~known]
InspectionInv == InspectionTypeOK /\ DaemonHolds /\ PathOfRole

LEMMA InspectionInitInv == Inspection!Init => InspectionInv
BY DEF Inspection!Init, InspectionInv, InspectionTypeOK, DaemonHolds, PathOfRole, IntranetOnly,
       Inspection!Body, Inspection!Finally

LEMMA InspectionStep ==
  ASSUME InspectionInv, [Inspection!Next]_(Inspection!vars)
  PROVE  InspectionInv'
<1> USE DEF Inspection!Goes, Inspection!Same, Inspection!code, Inspection!Body, Inspection!Finally,
            IntranetOnly, Inspection!FinallyStep, Inspection!Recovery, Inspection!Leave,
            Inspection!Listed, Inspection!AfterRemove
<1>1. InspectionTypeOK /\ DaemonHolds /\ PathOfRole
  BY DEF InspectionInv
<1>2. CASE Inspection!Fence
  BY <1>1, <1>2 DEF Inspection!Fence, InspectionInv, InspectionTypeOK, DaemonHolds, PathOfRole
<1>3. CASE Inspection!Created
  BY <1>1, <1>3 DEF Inspection!Created, InspectionInv, InspectionTypeOK, DaemonHolds, PathOfRole
<1>4. CASE Inspection!CreateFails
  BY <1>1, <1>4 DEF Inspection!CreateFails, InspectionInv, InspectionTypeOK, DaemonHolds, PathOfRole
<1>5. CASE Inspection!Own
  BY <1>1, <1>5 DEF Inspection!Own, InspectionInv, InspectionTypeOK, DaemonHolds, PathOfRole
<1>6. CASE Inspection!Export
  BY <1>1, <1>6 DEF Inspection!Export, InspectionInv, InspectionTypeOK, DaemonHolds, PathOfRole
<1>7. CASE Inspection!Verify
  BY <1>1, <1>7 DEF Inspection!Verify, InspectionInv, InspectionTypeOK, DaemonHolds, PathOfRole
<1>8. CASE Inspection!BodyFails
  BY <1>1, <1>8 DEF Inspection!BodyFails, InspectionInv, InspectionTypeOK, DaemonHolds, PathOfRole
<1>9. CASE Inspection!Find
  BY <1>1, <1>9 DEF Inspection!Find, InspectionInv, InspectionTypeOK, DaemonHolds, PathOfRole
<1>10. CASE Inspection!OwnFound
  BY <1>1, <1>10 DEF Inspection!OwnFound, InspectionInv, InspectionTypeOK, DaemonHolds, PathOfRole
<1>11. CASE Inspection!LastFence
  BY <1>1, <1>11 DEF Inspection!LastFence, InspectionInv, InspectionTypeOK, DaemonHolds, PathOfRole
<1>12. CASE Inspection!Remove
  BY <1>1, <1>12 DEF Inspection!Remove, InspectionInv, InspectionTypeOK, DaemonHolds, PathOfRole
<1>13. CASE Inspection!RemoveFails
  BY <1>1, <1>13 DEF Inspection!RemoveFails, InspectionInv, InspectionTypeOK, DaemonHolds, PathOfRole
<1>14. CASE Inspection!CheckGone
  BY <1>1, <1>14 DEF Inspection!CheckGone, InspectionInv, InspectionTypeOK, DaemonHolds, PathOfRole
<1>15. CASE Inspection!FinallyFails
  BY <1>1, <1>15 DEF Inspection!FinallyFails, InspectionInv, InspectionTypeOK, DaemonHolds, PathOfRole
<1>16. CASE Inspection!ForceRemove
  BY <1>1, <1>16 DEF Inspection!ForceRemove, InspectionInv, InspectionTypeOK, DaemonHolds, PathOfRole
<1>17. CASE Inspection!ForceRemoveFails
  BY <1>1, <1>17
     DEF Inspection!ForceRemoveFails, InspectionInv, InspectionTypeOK, DaemonHolds, PathOfRole
<1>18. CASE Inspection!Kill
  BY <1>1, <1>18 DEF Inspection!Kill, InspectionInv, InspectionTypeOK, DaemonHolds, PathOfRole
<1>19. CASE Inspection!DaemonSettles
  BY <1>1, <1>19
     DEF Inspection!DaemonSettles, InspectionInv, InspectionTypeOK, DaemonHolds, PathOfRole
<1>20. CASE Inspection!Retag \/ UNCHANGED Inspection!vars
  BY <1>1, <1>20
     DEF Inspection!Retag, Inspection!vars, InspectionInv, InspectionTypeOK, DaemonHolds, PathOfRole
<1> QED
  BY <1>2, <1>3, <1>4, <1>5, <1>6, <1>7, <1>8, <1>9, <1>10, <1>11, <1>12, <1>13, <1>14, <1>15,
     <1>16, <1>17, <1>18, <1>19, <1>20 DEF Inspection!Next, Inspection!CodeStep

\* Whatever docker call fails, times out or is carried out later, an inspection
\* that returns, and an Intranet inspection that fails without a recovery
\* receipt, leaves no container and no request that could create one, the Web's
\* at most a removal the daemon has accepted, and a recovery receipt is true.
THEOREM InspectionRemovesOrReports == Inspection!Spec => []RemovesOrReports
<1>1. InspectionInv => RemovesOrReports
  <2> SUFFICES ASSUME InspectionInv PROVE RemovesOrReports
    OBVIOUS
  <2>1. Inspection!NoSilentLeak
    BY DEF InspectionInv, DaemonHolds, Inspection!NoSilentLeak
  <2>2. ASSUME pc = "recovery"
        PROVE  /\ receipt.containerId \/ receipt.mayBeInFlight
               /\ daemon = "creating" => receipt.mayBeInFlight
    <3>1. receipt = [containerId |-> known, mayBeInFlight |-> ~known]
      BY <2>2 DEF InspectionInv, PathOfRole
    <3>2. (receipt.containerId <=> known) /\ (receipt.mayBeInFlight <=> ~known)
      BY <3>1
    <3> QED
      BY <3>2 DEF InspectionInv, DaemonHolds
  <2> QED
    BY <2>1, <2>2 DEF RemovesOrReports, Inspection!ReceiptIsTruthful
<1>2. InspectionInv /\ [Inspection!Next]_(Inspection!vars) => InspectionInv'
  BY InspectionStep
<1> QED
  BY <1>1, <1>2, InspectionInitInv, PTL DEF Inspection!Spec
=============================================================================
