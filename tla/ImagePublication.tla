-------------------------- MODULE ImagePublication --------------------------
(***************************************************************************)
(* The jobs of .github/workflows/publish-image.yml for one commit: gate,    *)
(* build, inspect, scan, gate again, push the commit's tag, and resolve the *)
(* digest behind it.  A push and a dispatch of the same commit are two      *)
(* publications; each builds its own image on its own runner, and both use  *)
(* the tag IMAGE:GITHUB_SHA of one registry.  The gate is one look at the   *)
(* commit, which ValidationGate justifies.                                  *)
(*                                                                         *)
(* Definitions named <Definition>_<slip> are the definition they precede    *)
(* with a plausible slip in it; nothing uses them.                          *)
(***************************************************************************)
EXTENDS CiRuns, FiniteSets

CONSTANTS
  Pubs,        \* publications of the commit
  None,
  MaxRunning   \* bound: publications the callers let run at the same time

\* An image: whether it meets the contract of its repository, whether it is
\* free of vulnerabilities, and whether it is the one the publication built.
Images == [complete : BOOLEAN, clean : BOOLEAN, built : BOOLEAN]
Pushed == [by : Pubs, image : Images]

ASSUME NoneIsNoImage == None \notin Images
ASSUME NoneIsNotPushed == None \notin Pushed
ASSUME PubsAreFinite == IsFiniteSet(Pubs)
ASSUME MaxRunningPositive == MaxRunning \in Nat \ {0}

VARIABLES
  caller,    \* the repository that calls the workflow
  image,     \* image[p]: what COMMIT_TAG names on p's runner, or None
  verified,  \* verified[p]: the imageId of p's Intranet inspection, or None
  registry,  \* the image the commit's tag names and who pushed it, or None
  pub,       \* pub[p]: step and reported digest
  slots      \* publications the callers let run at the same time

vars == <<ci, caller, image, verified, registry, pub, slots>>

Steps == {"queued", "validated", "admitted", "authorized", "built", "inspected",
          "scanned", "cleared", "pushed", "published", "failed"}
Ended == {"published", "failed"}

\* ci is typed by CiRuns.
TypeOK ==
  /\ caller \in {"intranet", "web", "other"}
  /\ image \in [Pubs -> Images \cup {None}]
  /\ verified \in [Pubs -> Images \cup {None}]
  /\ registry \in Pushed \cup {None}
  /\ pub \in [Pubs -> [pc : Steps, digest : Pushed \cup {None}]]
  /\ slots \in 1 .. MaxRunning

Init ==
  /\ CiInit
  /\ caller \in {"intranet", "web", "other"}
  /\ image = [p \in Pubs |-> None]
  /\ verified = [p \in Pubs |-> None]
  /\ registry = None
  /\ pub = [p \in Pubs |-> [pc |-> "queued", digest |-> None]]
  /\ slots \in 1 .. MaxRunning

-----------------------------------------------------------------------------
Goes(p, from, to) == pub[p].pc = from /\ pub' = [pub EXCEPT ![p].pc = to]
Running(p) == pub[p].pc \notin Ended \cup {"queued"}

(* The validation job, the first step of the publish job, the step before   *)
(* the cloud authentication and the one before the push.                    *)
Validate(p) ==
  /\ Goes(p, "queued", "validated")
  /\ Green
  /\ Cardinality({q \in Pubs : Running(q)}) < slots
  /\ UNCHANGED <<ci, image, verified, registry>>

Admit(p) ==
  Green /\ Goes(p, "validated", "admitted") /\ UNCHANGED <<ci, image, verified, registry>>

Authorize(p) ==
  Green /\ Goes(p, "admitted", "authorized") /\ UNCHANGED <<ci, image, verified, registry>>

(* Builds of one commit differ; the image carries the commit as a label.    *)
Build(p) ==
  /\ Goes(p, "authorized", "built")
  /\ \E i \in Images : i.built /\ image' = [image EXCEPT ![p] = i]
  /\ UNCHANGED <<ci, verified, registry>>

(* The local tag is moved to another image while the job runs.              *)
Retag(p) ==
  /\ Running(p) /\ image[p] # None
  /\ \E i \in Images : ~i.built /\ image' = [image EXCEPT ![p] = i]
  /\ UNCHANGED <<ci, verified, registry, pub>>

(* The contracts of the Intranet and of the Web; both are not applicable to *)
(* other callers.  Only the Intranet's hands the image Id it checked on.    *)
Inspect(p) ==
  /\ Goes(p, "built", "inspected")
  /\ caller # "other" => image[p].complete
  /\ verified' = IF caller = "intranet" THEN [verified EXCEPT ![p] = image[p]] ELSE verified
  /\ UNCHANGED <<ci, image, registry>>

(* Of the image Id handed on, else of whatever COMMIT_TAG names.            *)
Scan(p) ==
  /\ Goes(p, "inspected", "scanned")
  /\ IF verified[p] # None THEN verified[p].clean ELSE image[p].clean
  /\ UNCHANGED <<ci, image, verified, registry>>

Clear(p) ==
  Green /\ Goes(p, "scanned", "cleared") /\ UNCHANGED <<ci, image, verified, registry>>

(* docker push COMMIT_TAG moves the tag to what COMMIT_TAG names here, for  *)
(* the Intranet only to the image Id handed on; a push that took effect may *)
(* be reported as failed.                                                   *)
Push_unfenced(p) ==
  /\ \E to \in {"pushed", "failed"} : Goes(p, "cleared", to)
  /\ caller = "intranet" => verified[p] # None
  /\ registry' = [by |-> p, image |-> image[p]]
  /\ UNCHANGED <<ci, image, verified>>

Push(p) ==
  /\ \E to \in {"pushed", "failed"} : Goes(p, "cleared", to)
  /\ caller = "intranet" => verified[p] # None /\ image[p] = verified[p]
  /\ registry' = [by |-> p, image |-> image[p]]
  /\ UNCHANGED <<ci, image, verified>>

(* imagetools inspect COMMIT_TAG: whatever the tag names now.               *)
ResolveDigest(p) ==
  /\ pub[p].pc = "pushed"
  /\ pub' = [pub EXCEPT ![p] = [pc |-> "published", digest |-> registry]]
  /\ UNCHANGED <<ci, image, verified, registry>>

(* A check refuses, a call fails, the job is cancelled or times out.        *)
Fail(p) ==
  /\ pub[p].pc \notin Ended
  /\ pub' = [pub EXCEPT ![p].pc = "failed"]
  /\ UNCHANGED <<ci, image, verified, registry>>

PubStep(p) ==
  \/ Validate(p) \/ Admit(p) \/ Authorize(p) \/ Build(p) \/ Inspect(p) \/ Scan(p)
  \/ Clear(p) \/ Push(p) \/ ResolveDigest(p) \/ Fail(p)

Next ==
  /\ \/ \E p \in Pubs : PubStep(p) \/ Retag(p)
     \/ CiStep /\ UNCHANGED <<image, verified, registry, pub>>
  /\ UNCHANGED <<caller, slots>>

Spec == Init /\ [][Next]_vars

-----------------------------------------------------------------------------
(* Whatever digest a publication reports, the image behind it was scanned   *)
(* clean and, where the caller has a contract, met it, also when another    *)
(* publication of the same commit moved the tag before the digest was       *)
(* resolved; for the Intranet, which pushes the image Id it inspected, also *)
(* when the local tag was moved under the job, and for the others as long   *)
(* as it was not.                                                           *)
DigestIsCleared ==
  \A p \in Pubs : pub[p].pc = "published" =>
     /\ pub[p].digest # None
     /\ caller = "intranet" \/ pub[p].digest.image.built =>
          /\ pub[p].digest.image.clean
          /\ caller # "other" => pub[p].digest.image.complete

(* A publication reports the digest of the image it published itself.       *)
DigestIsOwnImage ==
  \A p \in Pubs : pub[p].pc = "published" => pub[p].digest # None /\ pub[p].digest.by = p

(* When the callers let one publication of a commit run after the other,    *)
(* the digest is in addition that of what the publication pushed itself.    *)
DigestIsTruthful ==
  /\ DigestIsCleared
  /\ slots = 1 => DigestIsOwnImage
=============================================================================
