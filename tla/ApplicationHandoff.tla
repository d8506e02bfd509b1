--------------------------- MODULE ApplicationHandoff ---------------------------
(***************************************************************************)
(* run_handoff of application_handoff_policy.py, driven through            *)
(* run_current_handoff of intranet_native_handoff.py, whose caller owns    *)
(* creation and mutation, or through run_bound_handoff of                  *)
(* intranet_deployment_binding.py.  Every tool call is one step; those of  *)
(* the bindings are several (NativeSelectorDrain, NativeDeploymentBinding).*)
(* Other actors of the cluster act between any two steps.  pc names the    *)
(* call about to be made; a call that is made more than once has a suffix. *)
(***************************************************************************)
EXTENDS NativeDeploymentBinding

VARIABLES mode,      \* how run_handoff is called; fixed for the run
          pc,
          started,   \* canonical_started
          baseline,  \* the SNAPSHOT Deployment and Service identity
          service,   \* the Service of the last current() that returned
          green,     \* uid of the green receipt, "none" for None
          blocked    \* fallback_blocked

policyVars == <<mode, pc, started, baseline, service, green, blocked>>
vars == <<clusterVars, adapterVars, policyVars>>

\* A startup_contract, a green_contract whose plan applies is given; the call
\* comes from run_bound_handoff, which gives a green contract and no other.
Modes == {m \in [startup : BOOLEAN, green : BOOLEAN, bound : BOOLEAN] :
            m.bound => m.green /\ ~m.startup}
StartupContract == mode.startup
GreenContract == mode.green
Bound == mode.bound

New == "new"

NoDeployment == [uid |-> "none", image |-> "none", settings |-> "none",
                 service |-> "none"]
NoService == [id |-> "none", rv |-> 0, selector |-> "none", uid |-> "none"]

MainSteps ==
  {"SNAPSHOT", "VERIFY_SOURCE", "VERIFY_IMAGE", "RESERVE_CAPACITY", "CREATE_GREEN",
   "VERIFY_GREEN", "BEFORE_FIRST_SELECTOR", "READ_FIRST", "ROUTE_GREEN",
   "GREEN_HEALTH", "RECHECK_CAPACITY", "READ_MUTATE", "VERIFY_GREEN_AGAIN",
   "MUTATE_CANONICAL", "VERIFY_CANONICAL", "BEFORE_CANONICAL_SELECTOR",
   "READ_CANONICAL", "ROUTE_CANONICAL", "CANONICAL_HEALTH",
   "VERIFY_CANONICAL_ROUTED", "DRAIN_GREEN", "FINAL_HEALTH", "READ_FINAL",
   "VERIFY_CANONICAL_FINAL", "RELEASE_CAPACITY"}
HandlerSteps == {"VERIFY_FALLBACK", "READ_FALLBACK", "FALLBACK_SELECTOR",
                 "READ_ROLLBACK", "ROLLBACK_SELECTOR"}
RouteSteps == {"ROUTE_GREEN", "ROUTE_CANONICAL", "FALLBACK_SELECTOR",
               "ROLLBACK_SELECTOR"}
Ended == {"COMPLETED", "RAISED"}

PolicyTypeOK ==
  /\ mode \in Modes
  /\ pc \in MainSteps \cup HandlerSteps \cup Ended
  /\ started \in BOOLEAN
  /\ baseline \in [uid : {"canon", "alien"}, image : Images, settings : Settings,
                   service : {"service", "alien"}] \cup {NoDeployment}
  /\ service \in [id : {"service", "alien"}, rv : Nat,
                  selector : {"original", "green"}, uid : Uids] \cup {NoService}
  /\ green \in {"none", "green", "alien"}
  /\ blocked \in BOOLEAN

\* The type of every variable, of the policy, the binding and the cluster.
TypeOK == ClusterTypeOK /\ AdapterTypeOK /\ PolicyTypeOK

Init ==
  /\ ClusterInit
  /\ AdapterInit
  /\ mode \in Modes
  /\ pc = "SNAPSHOT"
  /\ started = FALSE
  /\ baseline = NoDeployment
  /\ service = NoService
  /\ green = "none"
  /\ blocked = FALSE
-----------------------------------------------------------------------------
(***************************************************************************)
(* Definitions named <Definition>_<slip> are the definition they precede   *)
(* with a plausible slip in it.  Nothing uses them: put in its place, each *)
(* must make some property fail.                                           *)
(***************************************************************************)
Raise_noHandlerExit(hasBaseline, inFlight, ownsGreen) ==
  /\ tool' = "idle"
  /\ IF ~hasBaseline THEN pc' = "RAISED" /\ UNCHANGED blocked
     ELSE IF inFlight /\ ownsGreen THEN pc' = "VERIFY_FALLBACK" /\ UNCHANGED blocked
     ELSE IF inFlight THEN pc' = "RAISED" /\ blocked' = TRUE
     ELSE pc' = "READ_ROLLBACK" /\ UNCHANGED blocked

Raise_ignoresMarker(hasBaseline, inFlight, ownsGreen) ==
  /\ tool' = "idle"
  /\ IF pc \in HandlerSteps \/ ~hasBaseline
       THEN pc' = "RAISED" /\ blocked' = (blocked \/ pc \in HandlerSteps)
       ELSE pc' = "READ_ROLLBACK" /\ UNCHANGED blocked

(***************************************************************************)
(* HandoffFailure: where control goes.  hasBaseline and inFlight are the   *)
(* values of `baseline is not None' and canonical_started when it raises.  *)
(***************************************************************************)
Raise(hasBaseline, inFlight, ownsGreen) ==
  /\ tool' = "idle"
  /\ IF pc \in HandlerSteps \/ ~hasBaseline
       THEN pc' = "RAISED" /\ blocked' = (blocked \/ pc \in HandlerSteps)
     ELSE IF inFlight /\ ownsGreen
       THEN pc' = "VERIFY_FALLBACK" /\ UNCHANGED blocked
     ELSE IF inFlight
       THEN pc' = "RAISED" /\ blocked' = TRUE
     ELSE pc' = "READ_ROLLBACK" /\ UNCHANGED blocked

Reject == Raise(baseline # NoDeployment, started, green # "none")

Goto(step) == pc' = step /\ tool' = "idle" /\ UNCHANGED blocked

\* A call that reads and proves: it returns when the receipt satisfies the
\* policy, and is rejected when it does not or when the call itself fails.
Prove(step, proved, next) ==
  /\ pc = step
  /\ \/ proved /\ Goto(next) /\ UNCHANGED faults
     \/ ~proved /\ Reject /\ UNCHANGED faults
     \/ Fault /\ Reject
  /\ UNCHANGED <<clusterVars, started, baseline, service, green>>

\* current(): what every read of Deployment and Service must show.
CurrentShape ==
  /\ svc.selector \in {"original", "green"}
  /\ UidOf(svc.selector) # "none"

CurrentBound ==
  /\ canon.uid = baseline.uid
  /\ svc.id = baseline.service
  /\ svc.selector = "green" => green # "none" /\ greenDep.uid = green

\* With expected_image; the startup plan is verified at its stage, and the
\* green contract pins the canonical metadata before the mutation.
CurrentHealthy(image) ==
  /\ CurrentShape
  /\ CurrentBound
  /\ canon.healthy
  /\ canon.image = image
  /\ ~started => canon.settings = baseline.settings
  /\ started /\ StartupContract => canon.settings = "planned"

CurrentFallback_newImageOnly ==
  CurrentShape /\ CurrentBound /\ canon.image = New

\* require_healthy=False, the read of the failure handler after the mutation.
CurrentFallback ==
  /\ CurrentShape
  /\ CurrentBound
  /\ canon.image \in {baseline.image, New}

Observed == [id |-> svc.id, rv |-> svc.rv, selector |-> svc.selector,
             uid |-> UidOf(svc.selector)]

Read(step, admitted, next) ==
  /\ pc = step
  /\ \/ /\ admitted
        /\ Goto(next)
        /\ service' = Observed
        /\ unseen' = FALSE
        /\ UNCHANGED faults
     \/ ~admitted /\ Reject /\ UNCHANGED <<service, unseen, faults>>
     \/ Fault /\ Reject /\ UNCHANGED <<service, unseen>>
  /\ UNCHANGED <<svc, canon, greenDep, reserved, moved, foreign, flaps, started, baseline, green>>

GreenReady == GreenUp /\ greenDep.healthy

GreenProved_notReady == green = "green" /\ GreenUp

\* prove(): healthy, the uid of the target, the new image and its process,
\* the rollout settings (a settled rollout), and for green its run and standby.
GreenProved == green = "green" /\ GreenReady
CanonicalProved ==
  /\ canon.uid = baseline.uid
  /\ canon.healthy /\ ~canon.surging
  /\ canon.image = New /\ canon.settings = "planned"

\* observe(): public health, endpoints and process route of the target.
GreenServes == svc.selector = "green" /\ GreenReady
CanonicalServes ==
  /\ svc.selector = "original"
  /\ canon.uid = baseline.uid /\ canon.image = New /\ canon.healthy
-----------------------------------------------------------------------------
(***************************************************************************)
(* The main sequence.                                                      *)
(***************************************************************************)
Snapshot ==
  /\ pc = "SNAPSHOT"
  /\ \/ /\ CurrentShape /\ svc.selector = "original" /\ canon.healthy
        /\ baseline' = [uid |-> canon.uid, image |-> canon.image,
                        settings |-> canon.settings, service |-> svc.id]
        /\ service' = Observed
        /\ unseen' = FALSE
        \* the startup or green plan may reject what the snapshot shows
        /\ \/ Goto("VERIFY_SOURCE")
           \/ (StartupContract \/ GreenContract) /\ Raise(TRUE, FALSE, FALSE)
        /\ UNCHANGED faults
     \/ /\ \/ /\ ~(CurrentShape /\ svc.selector = "original" /\ canon.healthy)
              /\ UNCHANGED faults
           \/ Fault
        /\ Reject
        /\ UNCHANGED <<baseline, service, unseen>>
  /\ UNCHANGED <<svc, canon, greenDep, reserved, moved, foreign, flaps, started, green>>

VerifySource == Prove("VERIFY_SOURCE", TRUE, "VERIFY_IMAGE")
VerifyImage == Prove("VERIFY_IMAGE", TRUE, "RESERVE_CAPACITY")

TemporarySlots_noSurge == N

\* Green, and one canonical surge.
TemporarySlots == N + 1

ReserveCapacity ==
  /\ pc = "RESERVE_CAPACITY"
  /\ \/ reserved' = TemporarySlots /\ Goto("CREATE_GREEN") /\ UNCHANGED faults
     \/ reserved' \in {reserved, TemporarySlots} /\ Fault /\ Reject
  /\ UNCHANGED <<svc, canon, greenDep, unseen, moved, foreign, flaps, started, baseline,
                 service, green>>

\* green is assigned before its receipt is required to be the owned one, so a
\* rejected receipt leaves it set; a failed call leaves it None whatever it did.
Created == \E ok \in BOOLEAN :
             greenDep' = [uid |-> "green", running |-> TRUE, healthy |-> ok]

CreateGreen ==
  /\ ~Bound
  /\ pc = "CREATE_GREEN"
  /\ \/ Created /\ green' = "green" /\ Goto("VERIFY_GREEN") /\ UNCHANGED faults
     \/ /\ Created \/ UNCHANGED greenDep
        /\ Fault /\ Reject
        /\ green' \in {"none", "green", "alien"}
  /\ UNCHANGED <<svc, canon, reserved, unseen, moved, foreign, flaps, started, baseline,
                 service>>

VerifyGreen == Prove("VERIFY_GREEN", GreenProved, "BEFORE_FIRST_SELECTOR")
BeforeFirstSelector ==
  Prove("BEFORE_FIRST_SELECTOR", PublicHealthy /\ greenDep.uid = green, "READ_FIRST")
ReadFirst ==
  Read("READ_FIRST", svc.selector = "original" /\ CurrentHealthy(baseline.image),
       "ROUTE_GREEN")

GreenHealth == Prove("GREEN_HEALTH", GreenServes, "RECHECK_CAPACITY")
RecheckCapacity == Prove("RECHECK_CAPACITY", reserved = TemporarySlots, "READ_MUTATE")
ReadMutate_anySelector ==
  Read("READ_MUTATE", CurrentHealthy(baseline.image),
       IF GreenContract THEN "VERIFY_GREEN_AGAIN" ELSE "MUTATE_CANONICAL")
ReadMutate ==
  Read("READ_MUTATE", svc.selector = "green" /\ CurrentHealthy(baseline.image),
       IF GreenContract THEN "VERIFY_GREEN_AGAIN" ELSE "MUTATE_CANONICAL")
VerifyGreenAgain == Prove("VERIFY_GREEN_AGAIN", GreenProved, "MUTATE_CANONICAL")

\* The request carries the Deployment uid and image and the Service that were
\* read; the owner of the mutation fences on them.  A failed call may have
\* applied, in part or whole; started is set before it is made.
MutationFenced ==
  /\ canon.uid = baseline.uid /\ canon.image = baseline.image
  /\ PatchTests(service)

Mutated(settings) ==
  \E ok \in BOOLEAN :
    canon' = [canon EXCEPT !.image = New, !.settings = settings,
                           !.surging = TRUE, !.healthy = ok]

MutateCanonical ==
  /\ ~Bound
  /\ pc = "MUTATE_CANONICAL"
  /\ started' = TRUE
  /\ \/ MutationFenced /\ Mutated("planned") /\ Goto("VERIFY_CANONICAL") /\ UNCHANGED faults
     \/ /\ \/ ~MutationFenced /\ UNCHANGED <<canon, faults>>
           \/ Fault /\ UNCHANGED canon
           \/ Fault /\ MutationFenced
                /\ \E settings \in {canon.settings, "planned"} : Mutated(settings)
        /\ Raise(TRUE, TRUE, green # "none")
  /\ UNCHANGED <<svc, greenDep, reserved, unseen, moved, foreign, flaps, baseline, service, green>>

VerifyCanonical ==
  Prove("VERIFY_CANONICAL", CanonicalProved, "BEFORE_CANONICAL_SELECTOR")
BeforeCanonicalSelector ==
  Prove("BEFORE_CANONICAL_SELECTOR",
        PublicHealthy /\ canon.uid = baseline.uid /\ canon.image = New,
        "READ_CANONICAL")
ReadCanonical_drainsFirst ==
  Read("READ_CANONICAL", svc.selector = "green" /\ CurrentHealthy(New), "DRAIN_GREEN")
ReadCanonical ==
  Read("READ_CANONICAL", svc.selector = "green" /\ CurrentHealthy(New),
       "ROUTE_CANONICAL")

CanonicalHealth ==
  Prove("CANONICAL_HEALTH", CanonicalServes, "VERIFY_CANONICAL_ROUTED")
VerifyCanonicalRouted ==
  Prove("VERIFY_CANONICAL_ROUTED", CanonicalProved, "DRAIN_GREEN")

FinalHealth == Prove("FINAL_HEALTH", CanonicalServes, "READ_FINAL")
ReadFinal ==
  Read("READ_FINAL", svc.selector = "original" /\ CurrentHealthy(New),
       "VERIFY_CANONICAL_FINAL")
VerifyCanonicalFinal ==
  Prove("VERIFY_CANONICAL_FINAL", CanonicalProved, "RELEASE_CAPACITY")

ReleaseCapacity ==
  /\ pc = "RELEASE_CAPACITY"
  /\ \/ reserved' = 0 /\ Goto("COMPLETED") /\ UNCHANGED faults
     \/ reserved' \in {reserved, 0} /\ Fault /\ Reject
  /\ UNCHANGED <<svc, canon, greenDep, unseen, moved, foreign, flaps, started, baseline,
                 service, green>>
-----------------------------------------------------------------------------
(***************************************************************************)
(* route(): the adapter's checks, its patch and its read-back.  A patch    *)
(* whose response is lost is a patch followed by a fault.                  *)
(***************************************************************************)
SelectorOf(step) ==
  IF step \in {"ROUTE_GREEN", "FALLBACK_SELECTOR"} THEN "green" ELSE "original"
TargetOf(step) == IF SelectorOf(step) = "green" THEN green ELSE baseline.uid
AfterRoute(step) == CASE step = "ROUTE_GREEN" -> "GREEN_HEALTH"
                      [] step = "ROUTE_CANONICAL" -> "CANONICAL_HEALTH"
                      [] OTHER -> "RAISED"

RouteCheck ==
  /\ pc \in RouteSteps /\ tool = "idle"
  /\ LET admitted == RouteAdmitted(service, SelectorOf(pc), TargetOf(pc)) IN
       \/ admitted /\ tool' = "checked" /\ UNCHANGED <<pc, blocked, faults>>
       \/ ~admitted /\ Reject /\ UNCHANGED faults
       \/ Fault /\ Reject
  /\ UNCHANGED <<clusterVars, started, baseline, service, green>>

RoutePatch ==
  /\ pc \in RouteSteps /\ tool = "checked"
  /\ \/ PatchTests(service) /\ Select(SelectorOf(pc))
          /\ tool' = "patched" /\ UNCHANGED <<pc, blocked, faults>>
     \/ UNCHANGED svc /\ Reject /\ (Fault \/ (~PatchTests(service) /\ UNCHANGED faults))
  /\ UNCHANGED <<canon, greenDep, reserved, unseen, moved, foreign, flaps, started,
                 baseline, service, green>>

RouteConfirm ==
  /\ pc \in RouteSteps /\ tool = "patched"
  /\ LET confirmed == RouteConfirmed(service, SelectorOf(pc), TargetOf(pc)) IN
       \/ confirmed /\ Goto(AfterRoute(pc)) /\ UNCHANGED faults
       \/ ~confirmed /\ Reject /\ UNCHANGED faults
       \/ Fault /\ Reject
  /\ UNCHANGED <<clusterVars, started, baseline, service, green>>
-----------------------------------------------------------------------------
(***************************************************************************)
(* drain(): scale to zero, prove the processes gone, delete, read absent.  *)
(* A scale whose response is lost is a scale followed by a fault.          *)
(***************************************************************************)
DrainUnchanged == UNCHANGED <<svc, canon, reserved, unseen, moved, foreign, flaps, started,
                              baseline, service>>

DrainScale ==
  /\ pc = "DRAIN_GREEN" /\ tool = "idle"
  /\ LET admitted == OwnedGreen(green) /\ greenDep.running IN
       \/ admitted /\ ScaleToZero /\ tool' = "scaled" /\ UNCHANGED <<pc, blocked, faults>>
       \/ UNCHANGED greenDep /\ Reject /\ (Fault \/ (~admitted /\ UNCHANGED faults))
  /\ UNCHANGED green
  /\ DrainUnchanged

DrainProve ==
  /\ pc = "DRAIN_GREEN" /\ tool = "scaled"
  /\ \/ DeleteAdmitted(green) /\ tool' = "proved" /\ UNCHANGED <<pc, blocked, faults>>
     \/ ~DeleteAdmitted(green) /\ Reject /\ UNCHANGED faults
     \/ Fault /\ Reject
  /\ UNCHANGED <<greenDep, green>>
  /\ DrainUnchanged

DrainDelete_unchecked ==
  /\ pc = "DRAIN_GREEN" /\ tool = "proved"
  /\ \/ DeleteAdmitted(green) /\ DeleteGreen /\ UNCHANGED faults
     \/ UNCHANGED greenDep /\ (Fault \/ (~DeleteAdmitted(green) /\ UNCHANGED faults))
  /\ green' = "none" /\ Goto("FINAL_HEALTH")
  /\ DrainUnchanged

DrainDelete ==
  /\ pc = "DRAIN_GREEN" /\ tool = "proved"
  /\ \/ DeleteAdmitted(green) /\ DeleteGreen /\ green' = "none"
          /\ Goto("FINAL_HEALTH") /\ UNCHANGED faults
     \/ DeleteAdmitted(green) /\ DeleteGreen /\ Fault /\ Reject /\ UNCHANGED green
     \/ /\ UNCHANGED <<greenDep, green>> /\ Reject
        /\ Fault \/ (~DeleteAdmitted(green) /\ UNCHANGED faults)
  /\ DrainUnchanged
-----------------------------------------------------------------------------
(***************************************************************************)
(* create() and mutate() of the deployment binding.  A command whose       *)
(* response is lost is the command followed by a fault.                    *)
(***************************************************************************)
BoundCreate ==
  /\ Bound /\ pc = "CREATE_GREEN" /\ tool = "idle"
  /\ \/ Created /\ tool' = "created" /\ UNCHANGED <<pc, blocked, faults>>
     \/ UNCHANGED greenDep /\ Fault /\ Reject
  /\ UNCHANGED <<svc, canon, reserved, unseen, moved, foreign, flaps, started, baseline,
                 service, green>>

\* A rejected read-back fails the call: the policy never learns of the green.
BoundCreateConfirm ==
  /\ Bound /\ pc = "CREATE_GREEN" /\ tool = "created"
  /\ \/ CreationConfirmed /\ green' = "green" /\ Goto("VERIFY_GREEN") /\ UNCHANGED faults
     \/ Reject /\ UNCHANGED green /\ (Fault \/ (~CreationConfirmed /\ UNCHANGED faults))
  /\ UNCHANGED <<clusterVars, started, baseline, service>>

BoundMutateCheck ==
  /\ Bound /\ pc = "MUTATE_CANONICAL" /\ tool = "idle"
  /\ started' = TRUE
  /\ LET admitted == MutationAdmitted(baseline, service, green) IN
       \/ /\ admitted /\ tool' = "checked" /\ moved' = FALSE
          /\ UNCHANGED <<pc, blocked, faults>>
       \/ /\ Raise(TRUE, TRUE, green # "none") /\ UNCHANGED moved
          /\ Fault \/ (~admitted /\ UNCHANGED faults)
  /\ UNCHANGED <<svc, canon, greenDep, reserved, unseen, foreign, flaps, baseline,
                 service, green>>

BoundMutatePatch ==
  /\ Bound /\ pc = "MUTATE_CANONICAL" /\ tool = "checked"
  /\ LET admitted == CanonicalPatchTests(baseline) IN
       \/ admitted /\ Mutated("planned") /\ tool' = "patched"
            /\ UNCHANGED <<pc, blocked, faults>>
       \/ UNCHANGED canon /\ Reject /\ (Fault \/ (~admitted /\ UNCHANGED faults))
  /\ moved' = TRUE
  /\ UNCHANGED <<svc, greenDep, reserved, unseen, foreign, flaps, started, baseline,
                 service, green>>

BoundMutateConfirm ==
  /\ Bound /\ pc = "MUTATE_CANONICAL" /\ tool = "patched"
  /\ LET confirmed == MutationConfirmed(baseline, New) IN
       \/ confirmed /\ Goto("VERIFY_CANONICAL") /\ UNCHANGED faults
       \/ Reject /\ (Fault \/ (~confirmed /\ UNCHANGED faults))
  /\ UNCHANGED <<clusterVars, started, baseline, service, green>>
-----------------------------------------------------------------------------
(***************************************************************************)
(* The failure handler.  It ends by raising the original failure.          *)
(***************************************************************************)
VerifyFallback == Prove("VERIFY_FALLBACK", GreenProved, "READ_FALLBACK")
ReadFallback ==
  Read("READ_FALLBACK", CurrentFallback,
       IF svc.selector = "green" THEN "RAISED" ELSE "FALLBACK_SELECTOR")
ReadRollback_stale ==
  Read("READ_ROLLBACK", CurrentHealthy(baseline.image),
       IF service.selector = "green" THEN "ROLLBACK_SELECTOR" ELSE "RAISED")
ReadRollback ==
  Read("READ_ROLLBACK", CurrentHealthy(baseline.image),
       IF svc.selector = "green" THEN "ROLLBACK_SELECTOR" ELSE "RAISED")

Main ==
  \/ Snapshot \/ VerifySource \/ VerifyImage \/ ReserveCapacity \/ CreateGreen
  \/ VerifyGreen \/ BeforeFirstSelector \/ ReadFirst \/ GreenHealth
  \/ RecheckCapacity \/ ReadMutate \/ VerifyGreenAgain \/ MutateCanonical
  \/ VerifyCanonical \/ BeforeCanonicalSelector \/ ReadCanonical \/ CanonicalHealth
  \/ VerifyCanonicalRouted \/ DrainScale \/ DrainProve \/ DrainDelete
  \/ FinalHealth \/ ReadFinal \/ VerifyCanonicalFinal \/ ReleaseCapacity
Routing == RouteCheck \/ RoutePatch \/ RouteConfirm
Binding == BoundCreate \/ BoundCreateConfirm \/ BoundMutateCheck \/ BoundMutatePatch
             \/ BoundMutateConfirm
Handler == VerifyFallback \/ ReadFallback \/ ReadRollback

Policy == (Main \/ Routing \/ Binding \/ Handler) /\ UNCHANGED mode
Others == Environment /\ UNCHANGED <<adapterVars, policyVars>>
Finished == pc \in Ended /\ UNCHANGED vars

Next == Policy \/ Others \/ Finished
Spec == Init /\ [][Next]_vars

\* run_handoff is synchronous straight-line code: while its tool calls return,
\* it takes its next step.
FairSpec == Spec /\ WF_vars(Policy)
(***************************************************************************)
(* What must hold whatever other actors do.                                *)
(***************************************************************************)

\* A selector write of the run replaces only a Service state that the run has
\* read: a foreign write in between, even one that restored the same
\* selector, makes the patch fail (route(), resourceVersion test).
NoClobber == [][svc' # svc /\ foreign' = foreign => ~unseen]_vars

\* The replicas the run adds - standby green and canonical surge - are always
\* covered by its reservation, through every failure and lost response:
\* the peak is N + (N + 1), and capacity is returned only after both are gone.
CapacityReserved == ReplicasInUse <= N + reserved

\* The run itself rewrites the template of the canonical Deployment.
Rewrites == /\ foreign' = foreign
            /\ canon'.image # canon.image \/ canon'.settings # canon.settings

\* The canonical Deployment is changed only while the public is on green: a
\* foreign move of traffic after the last read makes the mutation a refusal.
\* "Both native identities and selected metadata are re-read at the actual
\* mutation boundary" (intranet_deployment_binding.py, mutate()), and
\* tests/test_intranet_deployment_binding.py:169 lists the Service among the
\* "races [that] never canonical patch".
MutatesOffTraffic == [][Rewrites => svc.selector = "green"]_vars

\* So it is when the owner of the mutation fences on the Service it is handed.
OwnerMutatesOffTraffic == [][Rewrites /\ ~Bound => svc.selector = "green"]_vars

\* The deployment binding rewrites only the Deployment of the snapshot, on its
\* former image and ready at the very moment of the patch: no write and no
\* readiness change between its reads and its patch goes unnoticed.
MutatesBaseline ==
  [][Rewrites /\ Bound => /\ canon.uid = baseline.uid
                         /\ canon.image = baseline.image
                         /\ canon.healthy]_vars

\* The drain never scales or deletes a Deployment that is not the green of
\* this run, even one recreated under the same name while the drain runs.
DrainsOnlyOwned ==
  [][greenDep' # greenDep /\ foreign' = foreign /\ flaps' = flaps
       => greenDep.uid = "green" \/ pc = "CREATE_GREEN"]_vars

\* A completed run leaves neither its green nor its reservation behind.
CompletedClean == pc = "COMPLETED" => greenDep.uid # "green" /\ reserved = 0

\* The run ends: it neither loops in its failure handler nor waits for
\* anything but the return of its own tool calls.
Ends == <>(pc \in Ended)
-----------------------------------------------------------------------------
(***************************************************************************)
(* What must hold when nobody else changes the cluster (MaxForeign = 0).   *)
(***************************************************************************)

\* While backends stay as ready as they were proved the public is served by a
\* ready backend at every moment, whatever calls fail or lose their response.
ZeroDowntime == flaps = 0 => PublicHealthy

\* Once the mutation has begun the original selector means the new image
\* with the planned settings: the former image is never served again.
NoFormerImageAfterMutation ==
  started /\ svc.selector = "original"
    => canon.image = New /\ canon.settings = "planned"

\* A failure that is not reported as blocked has left traffic where the
\* handler promises: on the untouched original, or on the owned green.
UnblockedFailureIsSafe ==
  pc = "RAISED" /\ ~blocked /\ baseline # NoDeployment =>
    IF started THEN svc.selector = "green" /\ GreenUp
    ELSE /\ svc.selector = "original"
         /\ canon.image = baseline.image /\ canon.settings = baseline.settings

\* The failure handler accepts every cluster state a failed run can leave,
\* partial mutations and lost patches included: unless one of its own calls
\* fails or a backend flaps, it blocks only when no ready green is left to
\* fall back to.
HandlerAcceptsOwnLeftovers ==
  [][(pc \in HandlerSteps) /\ blocked' # blocked /\ faults' = faults /\ flaps = 0
       => started /\ ~GreenReady]_vars

\* The handoff implements the promise of TrafficHandoff.
Abstract == INSTANCE TrafficHandoff WITH
  serving <- IF svc.selector = "green" THEN "standby"
             ELSE IF started THEN "renewed" ELSE "former",
  standby <- IF GreenUp THEN "ready"
             ELSE IF started THEN "retired" ELSE "absent",
  committed <- started,
  verdict <- CASE pc = "COMPLETED" -> "completed"
               [] pc = "RAISED" -> "failed"
               [] OTHER -> "running"
KeepsPromise == Abstract!ASpec
=============================================================================
