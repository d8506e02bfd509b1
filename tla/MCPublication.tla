---------------------------- MODULE MCPublication ----------------------------
(***************************************************************************)
(* publish-image.yml: the publications of a commit, and two parts of them  *)
(* that are checked in the same run on their own, the gate read by read    *)
(* and the inspection.  `part' chooses the one that runs, the others stay  *)
(* in their initial states.                                                *)
(***************************************************************************)
EXTENDS ImagePublication, ValidationGate

VARIABLES part, daemon, retagged, role, pc, known, created, passed, receipt

inspectionVars == <<daemon, retagged, role, pc, known, created, passed, receipt>>
publicationVars == <<caller, image, verified, registry, pub, slots>>

Inspection == INSTANCE ImageInspection

\* Bound: workflow runs of the commit beside its publications.
RunsBeside == 1

PartsInit ==
  /\ part \in {"publication", "gate", "inspection"}
  /\ Init /\ GateInit /\ Inspection!Init
  /\ part # "publication" => slots = 1 /\ caller = "other"
PartsNext ==
  \/ /\ part = "publication" /\ Next
     /\ \A r \in Runs : r > RunsBeside => ci'[r] = ci[r]
     /\ UNCHANGED <<gate, inspectionVars, part>>
  \/ part = "gate" /\ GateNext /\ UNCHANGED <<publicationVars, inspectionVars, part>>
  \/ part = "inspection" /\ Inspection!Next /\ UNCHANGED <<vars, gate, part>>
PartsSpec == PartsInit /\ [][PartsNext]_<<vars, gate, inspectionVars, part>>

\* An inspection that returns its result, and one of the Intranet that fails
\* without asking for recovery, leaves no container behind beyond a removal the
\* daemon has accepted, and what a recovery receipt says of the container is so.
RemovesOrReports == Inspection!NoSilentLeak /\ Inspection!ReceiptIsTruthful
=============================================================================
