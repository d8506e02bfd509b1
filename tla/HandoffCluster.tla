---------------------------- MODULE HandoffCluster ----------------------------
(***************************************************************************)
(* The cluster that a blue/green handoff acts on, as far as the code under *)
(* scripts/ observes it: one Service whose label selector picks a backend, *)
(* the canonical Deployment, the green Deployment created for this run,    *)
(* and the capacity reservation.  The cluster itself is external; its      *)
(* shape comes from the receipts application_handoff_policy.py admits and  *)
(* from the kubectl commands intranet_native_handoff.py issues.            *)
(*                                                                         *)
(* A Deployment uid stands for uid and desired replica count, a Service id *)
(* for uid and ports signature: the code compares each pair together.      *)
(***************************************************************************)
EXTENDS Integers

CONSTANTS N,           \* desired replicas of the canonical Deployment
          MaxForeign,  \* bound: changes made by actors other than the handoff
          MaxFlaps     \* bound: spontaneous health changes

ASSUME ClusterAssumption == /\ N \in 1..10
                            /\ MaxForeign \in Nat
                            /\ MaxFlaps \in Nat

VARIABLES svc,       \* the Service: id, resourceVersion, selector
          canon,     \* the canonical Deployment
          greenDep,  \* the Deployment behind the green selector labels
          reserved,  \* slots the capacity owner holds for this run
          unseen,    \* a foreign Service write happened since the last read
          moved,     \* the canonical Deployment is not known to be at the
                     \* resourceVersion that the binding read to mutate it
          foreign, flaps

clusterVars == <<svc, canon, greenDep, reserved, unseen, moved, foreign, flaps>>

Selectors == {"original", "green", "alien"}
Images == {"old", "new", "alien"}
Settings == {"base", "planned", "alien"}
Uids == {"none", "canon", "green", "alien"}

ServiceType == [id : {"service", "alien"}, rv : Nat, selector : Selectors]
CanonType == [uid : {"canon", "alien"}, image : Images, settings : Settings,
              healthy : BOOLEAN, surging : BOOLEAN]
GreenType == [uid : {"none", "green", "alien"}, running : BOOLEAN,
              healthy : BOOLEAN]

ClusterTypeOK ==
  /\ svc \in ServiceType
  /\ canon \in CanonType
  /\ greenDep \in GreenType
  /\ reserved \in {0, N + 1}
  /\ unseen \in BOOLEAN
  /\ moved \in BOOLEAN
  /\ foreign \in 0..MaxForeign
  /\ flaps \in 0..MaxFlaps

\* The labels of a selector name a Deployment; selectorUid in a receipt is
\* the uid found behind them ("none": no such Deployment).
UidOf(selector) == IF selector = "original" THEN canon.uid
                   ELSE IF selector = "green" THEN greenDep.uid
                   ELSE "none"

GreenUp == greenDep.uid = "green" /\ greenDep.running

PublicHealthy == \/ svc.selector = "original" /\ canon.healthy
                 \/ svc.selector = "green" /\ greenDep.running /\ greenDep.healthy

\* Replicas of this application that exist because of the handoff or before
\* it: the baseline, the rolling-update surge, and the green standby.
ReplicasInUse == N + (IF canon.surging THEN 1 ELSE 0) + (IF GreenUp THEN N ELSE 0)

\* The run may start on an image that is already the requested one.
ClusterInit ==
  /\ svc = [id |-> "service", rv |-> 1, selector |-> "original"]
  /\ \E image \in {"old", "new"}, settings \in {"base", "planned"} :
       canon = [uid |-> "canon", image |-> image, settings |-> settings,
                healthy |-> TRUE, surging |-> FALSE]
  /\ greenDep = [uid |-> "none", running |-> FALSE, healthy |-> FALSE]
  /\ reserved = 0
  /\ unseen = FALSE
  /\ moved = TRUE
  /\ foreign = 0
  /\ flaps = 0
-----------------------------------------------------------------------------
(***************************************************************************)
(* Other actors.  Every write to the Service moves its resourceVersion;    *)
(* that of a Deployment also moves with its status.                        *)
(***************************************************************************)
Foreign == foreign < MaxForeign /\ foreign' = foreign + 1

ForeignService ==
  /\ Foreign
  /\ \E id \in {svc.id, "alien"}, selector \in Selectors :
       svc' = [id |-> id, rv |-> svc.rv + 1, selector |-> selector]
  /\ unseen' = TRUE
  /\ UNCHANGED <<canon, greenDep, reserved, moved, flaps>>

ForeignCanonical ==
  /\ Foreign
  /\ \E uid \in {canon.uid, "alien"}, image \in {"old", "alien"},
        settings \in {canon.settings, "alien"} :
       canon' = [canon EXCEPT !.uid = uid, !.image = image, !.settings = settings]
  /\ moved' = TRUE
  /\ UNCHANGED <<svc, greenDep, reserved, unseen, flaps>>

ForeignGreen ==
  /\ Foreign
  /\ greenDep.uid # "none"
  /\ \E uid \in {"none", "alien"} :
       greenDep' = [greenDep EXCEPT !.uid = uid, !.running = (uid = "alien")]
  /\ UNCHANGED <<svc, canon, reserved, unseen, moved, flaps>>

Flap ==
  /\ flaps < MaxFlaps
  /\ flaps' = flaps + 1
  /\ \/ canon' = [canon EXCEPT !.healthy = ~canon.healthy] /\ moved' = TRUE
          /\ UNCHANGED greenDep
     \/ /\ greenDep.running
        /\ greenDep' = [greenDep EXCEPT !.healthy = ~greenDep.healthy]
        /\ UNCHANGED <<canon, moved>>
  /\ UNCHANGED <<svc, reserved, unseen, foreign>>

\* The rolling update settles, with or without a ready canonical backend.
RolloutSettles ==
  /\ canon.surging
  /\ \E ok \in BOOLEAN : canon' = [canon EXCEPT !.surging = FALSE, !.healthy = ok]
  /\ moved' = TRUE
  /\ UNCHANGED <<svc, greenDep, reserved, unseen, foreign, flaps>>

Environment == ForeignService \/ ForeignCanonical \/ ForeignGreen \/ Flap
                 \/ RolloutSettles
=============================================================================
