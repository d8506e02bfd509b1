------------------------ MODULE NativeDeploymentBinding ------------------------
(***************************************************************************)
(* The kubectl binding of intranet_deployment_binding.py for the green     *)
(* Deployment and for the mutation of the canonical one.  It adds to the   *)
(* routes and the drain of NativeSelectorDrain: create is a command and    *)
(* its read-backs, mutate a series of reads, one patch, and a read-back.   *)
(***************************************************************************)
EXTENDS NativeSelectorDrain

\* The read-backs of create(): the Deployment found under the name is the one
\* created, with its run, replica count and metadata.
CreationConfirmed == OwnedGreen("green")

\* The reads of mutate() before its patch: the Deployment of the snapshot,
\* ready and unchanged; the Service exactly as the policy read it, selecting
\* green; and green, owned and ready.
MutationAdmitted(snapshot, read, uid) ==
  /\ canon.uid = snapshot.uid /\ canon.image = snapshot.image
  /\ canon.settings = snapshot.settings /\ canon.healthy
  /\ svc.id = read.id /\ svc.rv = read.rv
  /\ svc.selector = "green" /\ UidOf("green") = read.uid /\ read.uid = uid
  /\ OwnedGreen(uid) /\ greenDep.running /\ greenDep.healthy

CanonicalPatchTests_noVersion(snapshot) ==
  canon.uid = snapshot.uid /\ canon.image = snapshot.image

\* The JSON patch of mutate(): its tests are all of the canonical Deployment.
CanonicalPatchTests(snapshot) ==
  ~moved /\ canon.uid = snapshot.uid /\ canon.image = snapshot.image

\* The read-back after it: identity, image and rollout settings.
MutationConfirmed(snapshot, image) ==
  /\ canon.uid = snapshot.uid /\ canon.image = image
  /\ canon.settings = "planned"
=============================================================================
