------------------------ MODULE ApplicationHandoffProofs ------------------------
(***************************************************************************)
(* Theorems about ApplicationHandoff for every replica count, every number *)
(* of foreign changes, flaps and faults, and with or without the contracts.*)
(***************************************************************************)
EXTENDS ApplicationHandoff, TLAPS

Steps == MainSteps \cup HandlerSteps \cup Ended

\* Every way of failing leads to a step of the policy and idles the adapter.
LEMMA RaiseType ==
  ASSUME PolicyTypeOK, NEW b \in BOOLEAN, NEW i \in BOOLEAN, NEW o \in BOOLEAN,
         Raise(b, i, o)
  PROVE  pc' \in HandlerSteps \cup Ended /\ blocked' \in BOOLEAN /\ tool' = "idle"
BY DEF Raise, PolicyTypeOK, HandlerSteps, Ended

LEMMA RejectType ==
  ASSUME PolicyTypeOK, Reject
  PROVE  pc' \in HandlerSteps \cup Ended /\ blocked' \in BOOLEAN /\ tool' = "idle"
BY RaiseType DEF Reject, PolicyTypeOK

\* A proving call changes only where the policy goes next.
LEMMA ProveType ==
  ASSUME TypeOK, mode' = mode, NEW step, NEW proved, NEW next \in Steps,
         Prove(step, proved, next)
  PROVE  TypeOK'
<1>1. PolicyTypeOK /\ faults \in 0..MaxFaults /\ MaxFaults \in Nat
  BY FaultAssumption DEF TypeOK, AdapterTypeOK
<1>2. /\ pc' \in Steps /\ blocked' \in BOOLEAN /\ tool' = "idle"
      /\ faults' \in 0..MaxFaults
  <2>1. CASE Goto(next) /\ UNCHANGED faults
    BY <1>1, <2>1 DEF Goto, PolicyTypeOK
  <2>2. CASE Reject /\ (Fault \/ UNCHANGED faults)
    BY <1>1, <2>2, RejectType DEF Fault, Steps
  <2> QED BY <2>1, <2>2 DEF Prove
<1> QED
  BY <1>2 DEF Prove, TypeOK, ClusterTypeOK, AdapterTypeOK, PolicyTypeOK, clusterVars, Steps

\* What an admitted read records of the Service.
LEMMA ObservedType ==
  ASSUME TypeOK, CurrentShape
  PROVE  Observed \in [id : {"service", "alien"}, rv : Nat,
                       selector : {"original", "green"}, uid : Uids]
<1>1. svc.id \in {"service", "alien"} /\ svc.rv \in Nat
      /\ canon.uid \in Uids /\ greenDep.uid \in Uids
  BY DEF TypeOK, ClusterTypeOK, ServiceType, CanonType, GreenType, Uids
<1> QED BY <1>1 DEF CurrentShape, Observed, UidOf, Uids

\* A read admits only a Service that is of the shape the policy keeps.
LEMMA ReadType ==
  ASSUME TypeOK, mode' = mode, NEW step, NEW admitted \in BOOLEAN, NEW next \in Steps,
         admitted => CurrentShape, Read(step, admitted, next)
  PROVE  TypeOK'
<1>1. PolicyTypeOK /\ faults \in 0..MaxFaults /\ MaxFaults \in Nat
  BY FaultAssumption DEF TypeOK, AdapterTypeOK
<1>2. /\ pc' \in Steps /\ blocked' \in BOOLEAN /\ tool' = "idle"
      /\ faults' \in 0..MaxFaults
      /\ service' = service \/ (CurrentShape /\ service' = Observed)
      /\ unseen' \in {unseen, FALSE}
  <2>1. CASE admitted /\ Goto(next) /\ service' = Observed /\ unseen' = FALSE
               /\ UNCHANGED faults
    BY <1>1, <2>1 DEF Goto, PolicyTypeOK
  <2>2. CASE Reject /\ (Fault \/ UNCHANGED faults) /\ UNCHANGED <<service, unseen>>
    BY <1>1, <2>2, RejectType DEF Fault, Steps
  <2> QED BY <2>1, <2>2 DEF Read
<1>3. CurrentShape => Observed \in [id : {"service", "alien"}, rv : Nat,
                                    selector : {"original", "green"}, uid : Uids]
  BY ObservedType
<1> QED
  BY <1>2, <1>3 DEF Read, TypeOK, ClusterTypeOK, AdapterTypeOK, PolicyTypeOK, Steps

\* The initial cluster and policy are typed.
LEMMA TypeInit == Init => TypeOK
<1> SUFFICES ASSUME Init PROVE TypeOK
  OBVIOUS
<1>1. svc \in ServiceType
  BY DEF Init, ClusterInit, ServiceType, Selectors
<1>2. PICK image \in {"old", "new"}, settings \in {"base", "planned"} :
        canon = [uid |-> "canon", image |-> image, settings |-> settings,
                 healthy |-> TRUE, surging |-> FALSE]
  BY DEF Init, ClusterInit
<1>3. canon \in CanonType
  BY <1>2 DEF CanonType, Images, Settings
<1>4. greenDep \in GreenType
  BY DEF Init, ClusterInit, GreenType
<1>5. reserved \in {0, N + 1} /\ unseen \in BOOLEAN /\ moved \in BOOLEAN
      /\ foreign \in 0..MaxForeign /\ flaps \in 0..MaxFlaps
  <2>1. reserved = 0 /\ unseen = FALSE /\ moved = TRUE /\ foreign = 0 /\ flaps = 0
    BY DEF Init, ClusterInit
  <2>2. unseen \in BOOLEAN /\ moved \in BOOLEAN
    BY <2>1
  <2>3. reserved \in {0, N + 1} /\ foreign \in 0..MaxForeign /\ flaps \in 0..MaxFlaps
    BY <2>1, ClusterAssumption
  <2> QED BY <2>2, <2>3
<1>6. AdapterTypeOK
  BY FaultAssumption DEF Init, AdapterInit, AdapterTypeOK
<1>7. PolicyTypeOK
  BY DEF Init, PolicyTypeOK, MainSteps
<1> QED
  BY <1>1, <1>3, <1>4, <1>5, <1>6, <1>7 DEF TypeOK, ClusterTypeOK

\* Every action keeps the types.
LEMMA TypeStep == TypeOK /\ [Next]_vars => TypeOK'
<1> SUFFICES ASSUME TypeOK, [Next]_vars PROVE TypeOK'
  OBVIOUS
<1> USE ClusterAssumption, FaultAssumption
<1>p. /\ PolicyTypeOK /\ ClusterTypeOK /\ AdapterTypeOK
  BY DEF TypeOK
<1>m. mode' = mode
  BY DEF Next, Policy, Others, Finished, vars, policyVars
<1> USE <1>m
<1>g. \A step \in Steps : Goto(step) => pc' \in Steps /\ tool' = "idle" /\ blocked' = blocked
  BY DEF Goto
<1>r. ASSUME Reject
      PROVE  pc' \in Steps /\ blocked' \in BOOLEAN /\ tool' = "idle"
  BY <1>p, <1>r, RejectType DEF Steps
<1>f. ASSUME Fault PROVE faults' \in 0..MaxFaults
  BY <1>p, <1>f DEF Fault, AdapterTypeOK
<1>1. CASE Snapshot
  <2>1. /\ pc' \in Steps /\ blocked' \in BOOLEAN /\ tool' = "idle"
        /\ faults' \in 0..MaxFaults
    <3>1. ASSUME Raise(TRUE, FALSE, FALSE)
          PROVE  pc' \in Steps /\ blocked' \in BOOLEAN /\ tool' = "idle"
      BY <1>p, <3>1, RaiseType DEF Steps
    <3> QED BY <1>1, <1>p, <1>g, <1>r, <1>f, <3>1
            DEF Snapshot, AdapterTypeOK, PolicyTypeOK, Steps, MainSteps
  <2>2. baseline' = baseline \/ baseline' \in
          [uid : {"canon", "alien"}, image : Images, settings : Settings,
           service : {"service", "alien"}]
    <3>1. canon.uid \in {"canon", "alien"} /\ canon.image \in Images
          /\ canon.settings \in Settings /\ svc.id \in {"service", "alien"}
      BY <1>p DEF ClusterTypeOK, CanonType, ServiceType
    <3>2. \/ baseline' = baseline
          \/ baseline' = [uid |-> canon.uid, image |-> canon.image,
                          settings |-> canon.settings, service |-> svc.id]
      BY <1>1 DEF Snapshot
    <3> QED BY <3>1, <3>2
  <2>3. service' = service \/ service' \in
          [id : {"service", "alien"}, rv : Nat, selector : {"original", "green"}, uid : Uids]
    BY <1>1, ObservedType DEF Snapshot
  <2> QED BY <1>1, <1>p, <2>1, <2>2, <2>3
          DEF Snapshot, TypeOK, ClusterTypeOK, AdapterTypeOK, PolicyTypeOK, Steps
<1>2. CASE VerifySource
  BY <1>2, ProveType DEF VerifySource, Steps, MainSteps
<1>3. CASE VerifyImage
  BY <1>3, ProveType DEF VerifyImage, Steps, MainSteps
<1>4. CASE ReserveCapacity
  BY <1>4, <1>p, <1>g, <1>r, <1>f
     DEF ReserveCapacity, TemporarySlots, TypeOK, ClusterTypeOK, AdapterTypeOK,
         PolicyTypeOK, Steps, MainSteps
<1>5. CASE CreateGreen
  <2>1. greenDep' \in GreenType
    <3>1. \/ greenDep' = greenDep
          \/ \E ok \in BOOLEAN :
               greenDep' = [uid |-> "green", running |-> TRUE, healthy |-> ok]
      BY <1>5 DEF CreateGreen, Created
    <3>2. CASE greenDep' = greenDep
      BY <3>2, <1>p DEF ClusterTypeOK
    <3>3. ASSUME NEW ok \in BOOLEAN,
                 greenDep' = [uid |-> "green", running |-> TRUE, healthy |-> ok]
          PROVE  greenDep' \in GreenType
      BY <3>3 DEF GreenType
    <3> QED BY <3>1, <3>2, <3>3
  <2> QED BY <2>1, <1>5, <1>p, <1>g, <1>r, <1>f
     DEF CreateGreen, TypeOK, ClusterTypeOK, AdapterTypeOK,
         PolicyTypeOK, Steps, MainSteps
<1>6. CASE VerifyGreen
  BY <1>6, ProveType DEF VerifyGreen, Steps, MainSteps
<1>7. CASE BeforeFirstSelector
  BY <1>7, ProveType DEF BeforeFirstSelector, Steps, MainSteps
<1>8. CASE ReadFirst
  BY <1>8, ReadType DEF ReadFirst, CurrentHealthy, Steps, MainSteps
<1>9. CASE GreenHealth
  BY <1>9, ProveType DEF GreenHealth, Steps, MainSteps
<1>10. CASE RecheckCapacity
  BY <1>10, ProveType DEF RecheckCapacity, Steps, MainSteps
<1>11. CASE ReadMutate
  BY <1>11, ReadType DEF ReadMutate, CurrentHealthy, Steps, MainSteps
<1>12. CASE VerifyGreenAgain
  BY <1>12, ProveType DEF VerifyGreenAgain, Steps, MainSteps
<1>13. CASE MutateCanonical
  <2>1. ASSUME Raise(TRUE, TRUE, green # "none")
        PROVE  pc' \in Steps /\ blocked' \in BOOLEAN /\ tool' = "idle"
    BY <1>p, <2>1, RaiseType DEF Steps
  <2>2. canon' \in CanonType
    BY <1>13, <1>p DEF MutateCanonical, Mutated, New, CanonType, ClusterTypeOK, Images, Settings
  <2>3. /\ pc' \in Steps /\ blocked' \in BOOLEAN /\ tool' = "idle"
        /\ faults' \in 0..MaxFaults
    BY <1>13, <1>p, <1>g, <1>f, <2>1
       DEF MutateCanonical, AdapterTypeOK, PolicyTypeOK, Steps, MainSteps
  <2> QED BY <1>13, <1>p, <2>2, <2>3
          DEF MutateCanonical, TypeOK, ClusterTypeOK, AdapterTypeOK, PolicyTypeOK, Steps
<1>14. CASE VerifyCanonical
  BY <1>14, ProveType DEF VerifyCanonical, Steps, MainSteps
<1>15. CASE BeforeCanonicalSelector
  BY <1>15, ProveType DEF BeforeCanonicalSelector, Steps, MainSteps
<1>16. CASE ReadCanonical
  BY <1>16, ReadType DEF ReadCanonical, CurrentHealthy, Steps, MainSteps
<1>17. CASE CanonicalHealth
  BY <1>17, ProveType DEF CanonicalHealth, Steps, MainSteps
<1>18. CASE VerifyCanonicalRouted
  BY <1>18, ProveType DEF VerifyCanonicalRouted, Steps, MainSteps
<1>19. CASE DrainScale
  <2>1. greenDep' \in GreenType
    BY <1>19, <1>p DEF DrainScale, ScaleToZero, GreenType, ClusterTypeOK
  <2> QED BY <2>1, <1>19, <1>p, <1>r, <1>f
     DEF DrainScale, DrainUnchanged, TypeOK, ClusterTypeOK,
         AdapterTypeOK, PolicyTypeOK, Steps
<1>20. CASE DrainProve
  BY <1>20, <1>p, <1>r, <1>f
     DEF DrainProve, DrainUnchanged, TypeOK, ClusterTypeOK, AdapterTypeOK, PolicyTypeOK, Steps
<1>21. CASE DrainDelete
  <2>1. greenDep' \in GreenType
    BY <1>21, <1>p DEF DrainDelete, DeleteGreen, GreenType, ClusterTypeOK
  <2> QED BY <2>1, <1>21, <1>p, <1>g, <1>r, <1>f
     DEF DrainDelete, DrainUnchanged, TypeOK, ClusterTypeOK,
         AdapterTypeOK, PolicyTypeOK, Steps, MainSteps
<1>22. CASE FinalHealth
  BY <1>22, ProveType DEF FinalHealth, Steps, MainSteps
<1>23. CASE ReadFinal
  BY <1>23, ReadType DEF ReadFinal, CurrentHealthy, Steps, MainSteps
<1>24. CASE VerifyCanonicalFinal
  BY <1>24, ProveType DEF VerifyCanonicalFinal, Steps, MainSteps
<1>25. CASE ReleaseCapacity
  BY <1>25, <1>p, <1>g, <1>r, <1>f
     DEF ReleaseCapacity, TypeOK, ClusterTypeOK, AdapterTypeOK, PolicyTypeOK, Steps, Ended
<1>26. CASE RouteCheck
  BY <1>26, <1>p, <1>r, <1>f
     DEF RouteCheck, clusterVars, TypeOK, ClusterTypeOK, AdapterTypeOK, PolicyTypeOK, Steps
<1>27. CASE RoutePatch
  <2>1. svc' \in ServiceType
    <3>1. SelectorOf(pc) \in Selectors
      BY DEF SelectorOf, Selectors
    <3>2. svc' = svc \/ svc' = [svc EXCEPT !.selector = SelectorOf(pc), !.rv = svc.rv + 1]
      BY <1>27 DEF RoutePatch, Select
    <3>3. CASE svc' = svc
      BY <3>3, <1>p DEF ClusterTypeOK
    <3>4. CASE svc' = [svc EXCEPT !.selector = SelectorOf(pc), !.rv = svc.rv + 1]
      <4>1. svc \in [id : {"service", "alien"}, rv : Nat, selector : Selectors]
        BY <1>p DEF ServiceType, ClusterTypeOK
      <4>2. svc.rv + 1 \in Nat
        BY <4>1
      <4>3. \A v \in Nat, s \in Selectors :
              [svc EXCEPT !.selector = s, !.rv = v]
                \in [id : {"service", "alien"}, rv : Nat, selector : Selectors]
        BY <4>1
      <4> QED BY <4>2, <4>3, <3>1, <3>4 DEF ServiceType
    <3> QED BY <3>2, <3>3, <3>4
  <2> QED BY <2>1, <1>27, <1>p, <1>r, <1>f
     DEF RoutePatch, TypeOK, ClusterTypeOK,
         AdapterTypeOK, PolicyTypeOK, Steps
<1>28. CASE RouteConfirm
  <2>1. AfterRoute(pc) \in Steps
    BY DEF AfterRoute, Steps, MainSteps, Ended
  <2> QED BY <1>28, <1>p, <1>g, <1>r, <1>f, <2>1
          DEF RouteConfirm, clusterVars, TypeOK, ClusterTypeOK, AdapterTypeOK, PolicyTypeOK, Steps
<1>29. CASE VerifyFallback
  BY <1>29, ProveType DEF VerifyFallback, Steps, HandlerSteps
<1>30. CASE ReadFallback
  BY <1>30, ReadType DEF ReadFallback, CurrentFallback, Steps, HandlerSteps, Ended
<1>31. CASE ReadRollback
  BY <1>31, ReadType DEF ReadRollback, CurrentHealthy, Steps, HandlerSteps, Ended
<1>32. CASE Others
  <2>o. AdapterTypeOK' /\ PolicyTypeOK'
    BY <1>32, <1>p DEF Others, adapterVars, policyVars, AdapterTypeOK, PolicyTypeOK
  <2>f. Foreign => foreign' \in 0..MaxForeign
    BY <1>p DEF Foreign, ClusterTypeOK
  <2>1. CASE ForeignService
    <3>1. svc' \in ServiceType
      BY <2>1, <1>p DEF ForeignService, ServiceType, ClusterTypeOK
    <3> QED BY <3>1, <2>1, <2>o, <2>f, <1>p DEF ForeignService, TypeOK, ClusterTypeOK
  <2>2. CASE ForeignCanonical
    <3>1. PICK uid \in {canon.uid, "alien"}, image \in {"old", "alien"},
               settings \in {canon.settings, "alien"} :
            canon' = [canon EXCEPT !.uid = uid, !.image = image, !.settings = settings]
      BY <2>2 DEF ForeignCanonical
    <3>2. uid \in {"canon", "alien"} /\ image \in Images /\ settings \in Settings
      BY <1>p DEF ClusterTypeOK, CanonType, Images, Settings
    <3>3. canon' \in CanonType
      BY <3>1, <3>2, <1>p DEF CanonType, ClusterTypeOK
    <3> QED BY <3>3, <2>2, <2>o, <2>f, <1>p DEF ForeignCanonical, TypeOK, ClusterTypeOK
  <2>3. CASE ForeignGreen
    <3>1. greenDep' \in GreenType
      BY <2>3, <1>p DEF ForeignGreen, GreenType, ClusterTypeOK
    <3> QED BY <3>1, <2>3, <2>o, <2>f, <1>p DEF ForeignGreen, TypeOK, ClusterTypeOK
  <2>4. CASE Flap
    <3>1. canon' \in CanonType /\ greenDep' \in GreenType
      BY <2>4, <1>p DEF Flap, CanonType, GreenType, ClusterTypeOK
    <3>2. moved' \in BOOLEAN
      BY Zenon, <2>4, <1>p DEF Flap, ClusterTypeOK
    <3>3. flaps' \in 0..MaxFlaps /\ UNCHANGED <<svc, reserved, unseen, foreign>>
      BY <2>4, <1>p DEF Flap, ClusterTypeOK
    <3> QED BY <3>1, <3>2, <3>3, <2>o, <1>p DEF TypeOK, ClusterTypeOK
  <2>5. CASE RolloutSettles
    <3>1. canon' \in CanonType
      BY <2>5, <1>p DEF RolloutSettles, CanonType, ClusterTypeOK
    <3> QED BY <3>1, <2>5, <2>o, <1>p DEF RolloutSettles, TypeOK, ClusterTypeOK
  <2> QED BY <1>32, <2>1, <2>2, <2>3, <2>4, <2>5 DEF Others, Environment
<1>33. CASE Finished \/ UNCHANGED vars
  BY <1>33, <1>p DEF Finished, vars, clusterVars, adapterVars, policyVars, TypeOK,
     ClusterTypeOK, AdapterTypeOK, PolicyTypeOK
<1>34. CASE BoundCreate
  <2>1. greenDep' \in GreenType
    <3>1. \/ greenDep' = greenDep
          \/ \E ok \in BOOLEAN :
               greenDep' = [uid |-> "green", running |-> TRUE, healthy |-> ok]
      BY <1>34 DEF BoundCreate, Created
    <3>2. CASE greenDep' = greenDep
      BY <3>2, <1>p DEF ClusterTypeOK
    <3>3. ASSUME NEW ok \in BOOLEAN,
                 greenDep' = [uid |-> "green", running |-> TRUE, healthy |-> ok]
          PROVE  greenDep' \in GreenType
      BY <3>3 DEF GreenType
    <3> QED BY <3>1, <3>2, <3>3
  <2> QED BY <2>1, <1>34, <1>p, <1>r, <1>f
     DEF BoundCreate, TypeOK, ClusterTypeOK, AdapterTypeOK, PolicyTypeOK, Steps
<1>35. CASE BoundCreateConfirm
  BY <1>35, <1>p, <1>g, <1>r, <1>f
     DEF BoundCreateConfirm, clusterVars, TypeOK, ClusterTypeOK, AdapterTypeOK, PolicyTypeOK,
         Steps, MainSteps
<1>36. CASE BoundMutateCheck
  <2>1. ASSUME Raise(TRUE, TRUE, green # "none")
        PROVE  pc' \in Steps /\ blocked' \in BOOLEAN /\ tool' = "idle"
    BY <1>p, <2>1, RaiseType DEF Steps
  <2>2. moved' \in BOOLEAN
    BY <1>36, <1>p DEF BoundMutateCheck, ClusterTypeOK
  <2>3. /\ pc' \in Steps /\ blocked' \in BOOLEAN /\ tool' \in {"idle", "checked"}
        /\ faults' \in 0..MaxFaults
    BY <1>36, <1>p, <1>f, <2>1 DEF BoundMutateCheck, AdapterTypeOK, PolicyTypeOK, Steps
  <2> QED BY <1>36, <1>p, <2>2, <2>3
     DEF BoundMutateCheck, TypeOK, ClusterTypeOK, AdapterTypeOK, PolicyTypeOK, Steps
<1>37. CASE BoundMutatePatch
  <2>1. canon' \in CanonType
    BY <1>37, <1>p DEF BoundMutatePatch, Mutated, New, CanonType, ClusterTypeOK, Images, Settings
  <2> QED BY <2>1, <1>37, <1>p, <1>r, <1>f
     DEF BoundMutatePatch, TypeOK, ClusterTypeOK, AdapterTypeOK, PolicyTypeOK, Steps
<1>38. CASE BoundMutateConfirm
  BY <1>38, <1>p, <1>g, <1>r, <1>f
     DEF BoundMutateConfirm, clusterVars, TypeOK, ClusterTypeOK, AdapterTypeOK, PolicyTypeOK,
         Steps, MainSteps
<1> QED
  BY <1>1, <1>2, <1>3, <1>4, <1>5, <1>6, <1>7, <1>8, <1>9, <1>10, <1>11, <1>12, <1>13,
     <1>14, <1>15, <1>16, <1>17, <1>18, <1>19, <1>20, <1>21, <1>22, <1>23, <1>24, <1>25,
     <1>26, <1>27, <1>28, <1>29, <1>30, <1>31, <1>32, <1>33, <1>34, <1>35, <1>36, <1>37,
     <1>38
     DEF Next, Policy, Main, Routing, Binding, Handler

\* Every variable keeps its type, whatever fails and whoever interferes.
THEOREM TypeCorrect == Spec => []TypeOK
BY TypeInit, TypeStep, PTL DEF Spec
-----------------------------------------------------------------------------
(***************************************************************************)
(* NoClobber.  The version a read recorded is never ahead of the Service,  *)
(* and is behind it as soon as somebody else has written.                  *)
(***************************************************************************)
VersionInv == /\ service.rv <= svc.rv
              /\ unseen => service.rv < svc.rv

\* The four things a step can do to the Service and to what is known of it.
LEMMA ServiceSteps ==
  ASSUME [Next]_vars
  PROVE  \/ UNCHANGED <<svc, service, unseen>>
         \/ svc' = svc /\ service' = Observed /\ unseen' = FALSE
         \/ /\ PatchTests(service) /\ UNCHANGED <<service, unseen>>
            /\ Select(SelectorOf(pc))
         \/ ForeignService /\ UNCHANGED service
<1>1. CASE Main
  BY <1>1 DEF Main, Snapshot, VerifySource, VerifyImage, ReserveCapacity, CreateGreen,
     VerifyGreen, BeforeFirstSelector, ReadFirst, GreenHealth, RecheckCapacity, ReadMutate,
     VerifyGreenAgain, MutateCanonical, VerifyCanonical, BeforeCanonicalSelector,
     ReadCanonical, CanonicalHealth, VerifyCanonicalRouted, DrainScale, DrainProve,
     DrainDelete, DrainUnchanged, FinalHealth, ReadFinal, VerifyCanonicalFinal,
     ReleaseCapacity, Prove, Read, clusterVars
<1>2. CASE Routing
  BY <1>2 DEF Routing, RouteCheck, RoutePatch, RouteConfirm, clusterVars
<1>3. CASE Handler
  BY <1>3 DEF Handler, VerifyFallback, ReadFallback, ReadRollback, Prove, Read, clusterVars
<1>4. CASE Others
  BY <1>4 DEF Others, Environment, ForeignCanonical, ForeignGreen, Flap, RolloutSettles,
     policyVars
<1>5. CASE Finished \/ UNCHANGED vars
  BY <1>5 DEF Finished, vars, clusterVars, policyVars
<1>6. CASE Binding
  BY <1>6 DEF Binding, BoundCreate, BoundCreateConfirm, BoundMutateCheck, BoundMutatePatch,
     BoundMutateConfirm, clusterVars
<1> QED BY <1>1, <1>2, <1>3, <1>4, <1>5, <1>6 DEF Next, Policy

\* VersionInv is inductive.
LEMMA VersionStep == TypeOK /\ VersionInv /\ [Next]_vars => VersionInv'
<1> SUFFICES ASSUME TypeOK, VersionInv, [Next]_vars PROVE VersionInv'
  OBVIOUS
<1>1. svc.rv \in Nat /\ service.rv \in Nat
  BY DEF TypeOK, ClusterTypeOK, ServiceType, PolicyTypeOK, NoService
<1>2. CASE UNCHANGED <<svc, service, unseen>>
  BY <1>2 DEF VersionInv
<1>3. CASE svc' = svc /\ service' = Observed /\ unseen' = FALSE
  <2>1. service'.rv = svc'.rv
    BY <1>3 DEF Observed
  <2> QED BY <1>1, <1>3, <2>1 DEF VersionInv
<1>4. ASSUME NEW other \in Nat, svc'.rv = other, other = svc.rv + 1, UNCHANGED service
      PROVE  VersionInv'
  BY <1>1, <1>4 DEF VersionInv
<1>5. CASE Select(SelectorOf(pc)) /\ UNCHANGED service
  <2>1. svc'.rv = svc.rv + 1
    BY <1>5 DEF Select, TypeOK, ClusterTypeOK, ServiceType
  <2> QED BY <1>1, <1>4, <1>5, <2>1
<1>6. CASE ForeignService /\ UNCHANGED service
  <2>1. svc'.rv = svc.rv + 1
    BY <1>6 DEF ForeignService
  <2> QED BY <1>1, <1>4, <1>6, <2>1
<1> QED BY <1>2, <1>3, <1>5, <1>6, ServiceSteps

\* No selector write of the run covers up a foreign write it has not read.
THEOREM NeverClobbers == Spec => NoClobber
<1>1. Init => VersionInv
  BY DEF Init, ClusterInit, NoService, VersionInv
<1>2. TypeOK /\ VersionInv /\ [Next]_vars
        => [svc' # svc /\ foreign' = foreign => ~unseen]_vars
  <2> SUFFICES ASSUME TypeOK, VersionInv, [Next]_vars,
                      svc' # svc, foreign' = foreign
               PROVE  ~unseen
    OBVIOUS
  <2>1. foreign \in Nat
    BY ClusterAssumption DEF TypeOK, ClusterTypeOK
  <2>2. ~ForeignService
    BY <2>1 DEF ForeignService, Foreign
  <2>3. PatchTests(service)
    BY <2>2, ServiceSteps
  <2>4. service.rv = svc.rv /\ svc.rv \in Nat
    BY <2>3 DEF PatchTests, TypeOK, ClusterTypeOK, ServiceType
  <2> QED BY <2>4 DEF VersionInv
<1> QED BY <1>1, <1>2, VersionStep, TypeCorrect, PTL DEF Spec, NoClobber
-----------------------------------------------------------------------------
(***************************************************************************)
(* CapacityReserved and CompletedClean.  By program point: nothing is held *)
(* before RESERVE_CAPACITY, the whole reservation from CREATE_GREEN to     *)
(* RELEASE_CAPACITY, and what it covers is gone by then.  In the failure   *)
(* handler only the middle conjunct is left, and it is enough there: the   *)
(* handler adds no replica.                                                *)
(***************************************************************************)
BeforeReserve == {"SNAPSHOT", "VERIFY_SOURCE", "VERIFY_IMAGE", "RESERVE_CAPACITY"}
AfterDrain == {"FINAL_HEALTH", "READ_FINAL", "VERIFY_CANONICAL_FINAL", "RELEASE_CAPACITY"}

CapacityInv ==
  /\ pc \in BeforeReserve => reserved = 0
  /\ reserved = 0 => greenDep.uid # "green" /\ canon.surging = FALSE
  /\ pc \in MainSteps \ BeforeReserve => reserved = N + 1
  /\ pc \in AfterDrain \cup {"COMPLETED"} => greenDep.uid # "green"
  /\ pc = "RELEASE_CAPACITY" => canon.surging = FALSE
  /\ pc = "COMPLETED" => reserved = 0

\* A failure always leaves the main sequence.
LEMMA RaiseLeaves ==
  ASSUME NEW b, NEW i, NEW o, Raise(b, i, o)
  PROVE  pc' \in HandlerSteps \cup {"RAISED"}
BY DEF Raise, HandlerSteps

LEMMA RejectLeaves == Reject => pc' \in HandlerSteps \cup {"RAISED"}
BY RaiseLeaves DEF Reject

\* Outside the main sequence the invariant asks only that an unreserved run
\* holds nothing.
LEMMA LeftMain ==
  ASSUME pc' \in HandlerSteps \cup {"RAISED"},
         (reserved = 0 => greenDep.uid # "green" /\ canon.surging = FALSE)'
  PROVE  CapacityInv'
BY DEF CapacityInv, HandlerSteps, MainSteps, BeforeReserve, AfterDrain

\* Calls that leave the cluster alone: enough that the next program point
\* asks for nothing that this one does not give.
LEMMA ProveCapacity ==
  ASSUME CapacityInv, NEW step, NEW proved, NEW next, Prove(step, proved, next),
         step \in MainSteps => next \in MainSteps,
         step \notin MainSteps => next \in HandlerSteps \cup {"RAISED"},
         next \in BeforeReserve <=> step \in BeforeReserve,
         next \in AfterDrain => step \in AfterDrain,
         next = "RELEASE_CAPACITY" /\ proved => canon.surging = FALSE
  PROVE  CapacityInv'
<1>1. CASE Reject
  BY <1>1, RejectLeaves, LeftMain DEF Prove, clusterVars, CapacityInv
<1>2. CASE proved /\ Goto(next)
  BY <1>2 DEF Prove, Goto, clusterVars, CapacityInv, MainSteps, HandlerSteps,
     BeforeReserve, AfterDrain
<1> QED BY <1>1, <1>2 DEF Prove

LEMMA ReadCapacity ==
  ASSUME CapacityInv, NEW step, NEW admitted, NEW next, Read(step, admitted, next),
         step \in MainSteps \ BeforeReserve => next \in MainSteps \ BeforeReserve,
         step \notin MainSteps => next \in HandlerSteps \cup {"RAISED"},
         step \notin BeforeReserve,
         next \in AfterDrain => step \in AfterDrain,
         next # "RELEASE_CAPACITY"
  PROVE  CapacityInv'
<1>1. CASE Reject
  BY <1>1, RejectLeaves, LeftMain DEF Read, CapacityInv
<1>2. CASE Goto(next)
  BY <1>2 DEF Read, Goto, CapacityInv, MainSteps, HandlerSteps, BeforeReserve, AfterDrain
<1> QED BY <1>1, <1>2 DEF Read

\* Every step keeps the reservation ahead of what the run holds.
LEMMA CapacityStep == TypeOK /\ CapacityInv /\ [Next]_vars => CapacityInv'
<1> SUFFICES ASSUME TypeOK, CapacityInv, [Next]_vars PROVE CapacityInv'
  OBVIOUS
<1>n. N + 1 # 0
  BY ClusterAssumption
<1>h. ASSUME Reject PROVE pc' \in HandlerSteps \cup {"RAISED"}
  BY <1>h, RejectLeaves
<1>1. CASE VerifySource
  BY <1>1, ProveCapacity DEF MainSteps, HandlerSteps, BeforeReserve, AfterDrain, VerifySource
<1>2. CASE VerifyImage
  BY <1>2, ProveCapacity DEF MainSteps, HandlerSteps, BeforeReserve, AfterDrain, VerifyImage
<1>3. CASE VerifyGreen
  BY <1>3, ProveCapacity DEF MainSteps, HandlerSteps, BeforeReserve, AfterDrain, VerifyGreen
<1>4. CASE BeforeFirstSelector
  BY <1>4, ProveCapacity DEF MainSteps, HandlerSteps, BeforeReserve, AfterDrain, BeforeFirstSelector
<1>5. CASE GreenHealth
  BY <1>5, ProveCapacity DEF MainSteps, HandlerSteps, BeforeReserve, AfterDrain, GreenHealth
<1>6. CASE RecheckCapacity
  BY <1>6, ProveCapacity DEF MainSteps, HandlerSteps, BeforeReserve, AfterDrain, RecheckCapacity
<1>7. CASE VerifyGreenAgain
  BY <1>7, ProveCapacity DEF MainSteps, HandlerSteps, BeforeReserve, AfterDrain, VerifyGreenAgain
<1>8. CASE VerifyCanonical
  BY <1>8, ProveCapacity DEF MainSteps, HandlerSteps, BeforeReserve, AfterDrain, VerifyCanonical
<1>9. CASE BeforeCanonicalSelector
  BY <1>9, ProveCapacity DEF MainSteps, HandlerSteps, BeforeReserve, AfterDrain, BeforeCanonicalSelector
<1>10. CASE CanonicalHealth
  BY <1>10, ProveCapacity DEF MainSteps, HandlerSteps, BeforeReserve, AfterDrain, CanonicalHealth
<1>11. CASE VerifyCanonicalRouted
  BY <1>11, ProveCapacity DEF MainSteps, HandlerSteps, BeforeReserve, AfterDrain, VerifyCanonicalRouted
<1>12. CASE FinalHealth
  BY <1>12, ProveCapacity DEF MainSteps, HandlerSteps, BeforeReserve, AfterDrain, FinalHealth
<1>13. CASE VerifyCanonicalFinal
  <2>1. CanonicalProved => canon.surging = FALSE
    BY Zenon DEF CanonicalProved, TypeOK, ClusterTypeOK, CanonType
  <2> QED BY <1>13, <2>1, ProveCapacity DEF MainSteps, HandlerSteps, BeforeReserve, AfterDrain,
     VerifyCanonicalFinal
<1>14. CASE VerifyFallback
  BY <1>14, ProveCapacity DEF MainSteps, HandlerSteps, BeforeReserve, AfterDrain, VerifyFallback
<1>15. CASE ReadFirst
  BY <1>15, ReadCapacity DEF MainSteps, HandlerSteps, BeforeReserve, AfterDrain, ReadFirst
<1>16. CASE ReadMutate
  BY <1>16, ReadCapacity DEF MainSteps, HandlerSteps, BeforeReserve, AfterDrain, ReadMutate
<1>17. CASE ReadCanonical
  BY <1>17, ReadCapacity DEF MainSteps, HandlerSteps, BeforeReserve, AfterDrain, ReadCanonical
<1>18. CASE ReadFinal
  BY <1>18, ReadCapacity DEF MainSteps, HandlerSteps, BeforeReserve, AfterDrain, ReadFinal
<1>19. CASE ReadFallback
  BY <1>19, ReadCapacity DEF MainSteps, HandlerSteps, BeforeReserve, AfterDrain, ReadFallback
<1>20. CASE ReadRollback
  BY <1>20, ReadCapacity DEF MainSteps, HandlerSteps, BeforeReserve, AfterDrain, ReadRollback
<1>21. CASE Snapshot
  <2>1. CASE pc' \in HandlerSteps \cup {"RAISED"}
    BY <1>21, <2>1, LeftMain DEF Snapshot, CapacityInv
  <2>2. CASE pc' = "VERIFY_SOURCE"
    BY <1>21, <2>2 DEF Snapshot, CapacityInv, MainSteps, BeforeReserve, AfterDrain
  <2> QED BY <1>21, <1>h, <2>1, <2>2, RaiseLeaves DEF Snapshot, Goto
<1>22. CASE ReserveCapacity
  <2>1. greenDep.uid # "green" /\ canon.surging = FALSE
    BY <1>22 DEF ReserveCapacity, CapacityInv, BeforeReserve
  <2>2. CASE Reject
    BY <1>22, <1>h, <2>1, <2>2, LeftMain DEF ReserveCapacity
  <2>3. CASE reserved' = TemporarySlots /\ Goto("CREATE_GREEN")
    BY <1>22, <1>n, <2>3 DEF ReserveCapacity, TemporarySlots, Goto, CapacityInv, MainSteps,
       BeforeReserve, AfterDrain
  <2> QED BY <1>22, <2>2, <2>3 DEF ReserveCapacity
<1>23. CASE CreateGreen
  <2>1. reserved = N + 1 /\ reserved' = reserved
    BY <1>23 DEF CreateGreen, CapacityInv, MainSteps, BeforeReserve
  <2>2. CASE Reject
    BY <1>h, <1>n, <2>1, <2>2, LeftMain
  <2>3. CASE Goto("VERIFY_GREEN")
    BY <1>n, <2>1, <2>3 DEF Goto, CapacityInv, MainSteps, BeforeReserve, AfterDrain
  <2> QED BY <1>23, <2>2, <2>3 DEF CreateGreen
<1>24. CASE MutateCanonical
  <2>1. reserved = N + 1 /\ reserved' = reserved
    BY <1>24 DEF MutateCanonical, CapacityInv, MainSteps, BeforeReserve
  <2>2. CASE pc' \in HandlerSteps \cup {"RAISED"}
    BY <1>n, <2>1, <2>2, LeftMain
  <2>3. CASE Goto("VERIFY_CANONICAL")
    BY <1>n, <2>1, <2>3 DEF Goto, CapacityInv, MainSteps, BeforeReserve, AfterDrain
  <2> QED BY <1>24, <2>2, <2>3, RaiseLeaves DEF MutateCanonical
<1>25. CASE DrainScale \/ DrainProve \/ DrainDelete
  <2>1. reserved = N + 1 /\ reserved' = reserved /\ pc = "DRAIN_GREEN"
    BY <1>25 DEF DrainScale, DrainProve, DrainDelete, DrainUnchanged, CapacityInv, MainSteps,
       BeforeReserve
  <2>2. CASE Reject
    BY <1>h, <1>n, <2>1, <2>2, LeftMain
  <2>3. CASE pc' = pc
    BY <1>n, <2>1, <2>3 DEF CapacityInv, MainSteps, BeforeReserve, AfterDrain
  <2>4. CASE Goto("FINAL_HEALTH") /\ greenDep'.uid # "green"
    BY <1>n, <2>1, <2>4 DEF Goto, CapacityInv, MainSteps, BeforeReserve, AfterDrain
  <2>5. DeleteGreen => greenDep'.uid # "green"
    BY DEF DeleteGreen, TypeOK, ClusterTypeOK, GreenType
  <2> QED BY <1>25, <2>2, <2>3, <2>4, <2>5 DEF DrainScale, DrainProve, DrainDelete
<1>26. CASE ReleaseCapacity
  <2>1. greenDep.uid # "green" /\ canon.surging = FALSE
    BY <1>26 DEF ReleaseCapacity, CapacityInv, AfterDrain
  <2>2. CASE Reject
    BY <1>26, <1>h, <2>1, <2>2, LeftMain DEF ReleaseCapacity
  <2>3. CASE reserved' = 0 /\ Goto("COMPLETED")
    BY <1>26, <2>1, <2>3 DEF ReleaseCapacity, Goto, CapacityInv, MainSteps, BeforeReserve,
       AfterDrain
  <2> QED BY <1>26, <2>2, <2>3 DEF ReleaseCapacity
<1>27. CASE Routing
  <2>1. UNCHANGED <<canon, greenDep, reserved>> /\ pc \in RouteSteps
    BY <1>27 DEF Routing, RouteCheck, RoutePatch, RouteConfirm, clusterVars
  <2>2. CASE Reject
    BY <1>h, <2>1, <2>2, LeftMain DEF CapacityInv
  <2>3. CASE pc' = pc
    BY <2>1, <2>3 DEF CapacityInv
  <2>4. CASE Goto(AfterRoute(pc))
    BY <2>1, <2>4 DEF Goto, AfterRoute, RouteSteps, CapacityInv, MainSteps, HandlerSteps,
       BeforeReserve, AfterDrain
  <2> QED BY <1>27, <2>2, <2>3, <2>4 DEF Routing, RouteCheck, RoutePatch, RouteConfirm
<1>28. CASE Others
  <2>1. pc' = pc /\ reserved' = reserved
    BY <1>28 DEF Others, policyVars, Environment, ForeignService, ForeignCanonical, ForeignGreen,
       Flap, RolloutSettles
  <2>2. greenDep'.uid = "green" => greenDep.uid = "green"
    BY <1>28 DEF Others, Environment, ForeignService, ForeignCanonical, ForeignGreen, Flap,
       RolloutSettles, TypeOK, ClusterTypeOK, GreenType
  <2>3. canon.surging = FALSE => canon'.surging = FALSE
    BY <1>28 DEF Others, Environment, ForeignService, ForeignCanonical, ForeignGreen, Flap,
       RolloutSettles, TypeOK, ClusterTypeOK, CanonType
  <2> QED BY <2>1, <2>2, <2>3 DEF CapacityInv
<1>29. CASE Finished \/ UNCHANGED vars
  BY <1>29 DEF Finished, vars, clusterVars, policyVars, CapacityInv
<1>30. CASE BoundCreate \/ BoundCreateConfirm
  <2>1. reserved = N + 1 /\ reserved' = reserved /\ pc = "CREATE_GREEN"
    BY <1>30 DEF BoundCreate, BoundCreateConfirm, clusterVars, CapacityInv, MainSteps,
       BeforeReserve
  <2>2. CASE Reject
    BY <1>h, <1>n, <2>1, <2>2, LeftMain
  <2>3. CASE pc' = pc
    BY <1>n, <2>1, <2>3 DEF CapacityInv, MainSteps, BeforeReserve, AfterDrain
  <2>4. CASE Goto("VERIFY_GREEN")
    BY <1>n, <2>1, <2>4 DEF Goto, CapacityInv, MainSteps, BeforeReserve, AfterDrain
  <2> QED BY <1>30, <2>2, <2>3, <2>4 DEF BoundCreate, BoundCreateConfirm
<1>31. CASE BoundMutateCheck \/ BoundMutatePatch \/ BoundMutateConfirm
  <2>1. reserved = N + 1 /\ reserved' = reserved /\ pc = "MUTATE_CANONICAL"
    BY <1>31 DEF BoundMutateCheck, BoundMutatePatch, BoundMutateConfirm, clusterVars,
       CapacityInv, MainSteps, BeforeReserve
  <2>2. CASE pc' \in HandlerSteps \cup {"RAISED"}
    BY <1>n, <2>1, <2>2, LeftMain
  <2>3. CASE pc' = pc
    BY <1>n, <2>1, <2>3 DEF CapacityInv, MainSteps, BeforeReserve, AfterDrain
  <2>4. CASE Goto("VERIFY_CANONICAL")
    BY <1>n, <2>1, <2>4 DEF Goto, CapacityInv, MainSteps, BeforeReserve, AfterDrain
  <2> QED BY <1>31, <1>h, <2>2, <2>3, <2>4, RaiseLeaves
       DEF BoundMutateCheck, BoundMutatePatch, BoundMutateConfirm
<1> QED
  BY <1>1, <1>2, <1>3, <1>4, <1>5, <1>6, <1>7, <1>8, <1>9, <1>10, <1>11, <1>12, <1>13,
     <1>14, <1>15, <1>16, <1>17, <1>18, <1>19, <1>20, <1>21, <1>22, <1>23, <1>24, <1>25,
     <1>26, <1>27, <1>28, <1>29, <1>30, <1>31
     DEF Next, Policy, Main, Binding, Handler

\* The reservation covers every replica the run adds, for every N.
THEOREM CapacityAlwaysReserved == Spec => []CapacityReserved
<1>1. Init => CapacityInv
  <2> SUFFICES ASSUME Init PROVE CapacityInv
    OBVIOUS
  <2>1. canon.surging = FALSE
    BY DEF Init, ClusterInit
  <2> QED BY <2>1 DEF Init, ClusterInit, CapacityInv, MainSteps, BeforeReserve, AfterDrain
<1>2. TypeOK /\ CapacityInv => CapacityReserved
  BY ClusterAssumption DEF TypeOK, ClusterTypeOK, CapacityInv, CapacityReserved, ReplicasInUse,
     GreenUp
<1> QED BY <1>1, <1>2, CapacityStep, TypeCorrect, PTL DEF Spec

\* A completed run has returned its reservation and deleted its green.
THEOREM CompletesClean == Spec => []CompletedClean
<1>1. Init => CapacityInv
  <2> SUFFICES ASSUME Init PROVE CapacityInv
    OBVIOUS
  <2>1. canon.surging = FALSE
    BY DEF Init, ClusterInit
  <2> QED BY <2>1 DEF Init, ClusterInit, CapacityInv, MainSteps, BeforeReserve, AfterDrain
<1>2. CapacityInv => CompletedClean
  BY DEF CapacityInv, CompletedClean
<1> QED BY <1>1, <1>2, CapacityStep, TypeCorrect, PTL DEF Spec
-----------------------------------------------------------------------------
(***************************************************************************)
(* MutatesOffTraffic: from the read before the mutation to the mutation,   *)
(* the Service that the run holds is one that selected green.              *)
(***************************************************************************)
GreenSelectedInv ==
  pc \in {"VERIFY_GREEN_AGAIN", "MUTATE_CANONICAL"} => service.selector = "green"

\* A failure never lands on the two program points of the invariant.
LEMMA RejectOffMutation ==
  Reject => pc' \notin {"VERIFY_GREEN_AGAIN", "MUTATE_CANONICAL"}
BY DEF Reject, Raise

\* A call that proves something reaches MUTATE_CANONICAL only from there on.
LEMMA ProveOffMutation ==
  ASSUME GreenSelectedInv, NEW step, NEW proved, NEW next, Prove(step, proved, next),
         next \in {"VERIFY_GREEN_AGAIN", "MUTATE_CANONICAL"}
           => step = "VERIFY_GREEN_AGAIN"
  PROVE  GreenSelectedInv'
<1>1. CASE Reject
  BY <1>1, RejectOffMutation DEF GreenSelectedInv
<1>2. CASE Goto(next)
  BY <1>2 DEF Prove, Goto, GreenSelectedInv
<1> QED BY <1>1, <1>2 DEF Prove

\* A read that lands there has seen green selected.
LEMMA ReadOffMutation ==
  ASSUME NEW step, NEW admitted, NEW next, Read(step, admitted, next),
         next \in {"VERIFY_GREEN_AGAIN", "MUTATE_CANONICAL"} /\ admitted
           => svc.selector = "green"
  PROVE  GreenSelectedInv'
<1>1. CASE Reject
  BY <1>1, RejectOffMutation DEF GreenSelectedInv
<1>2. CASE admitted /\ Goto(next) /\ service' = Observed
  BY <1>2 DEF Goto, Observed, GreenSelectedInv
<1> QED BY <1>1, <1>2 DEF Read

\* Every step keeps it.
LEMMA GreenSelectedStep == GreenSelectedInv /\ [Next]_vars => GreenSelectedInv'
<1> SUFFICES ASSUME GreenSelectedInv, [Next]_vars PROVE GreenSelectedInv'
  OBVIOUS
<1>h. ASSUME Reject PROVE GreenSelectedInv'
  BY <1>h, RejectOffMutation DEF GreenSelectedInv
<1>1. CASE VerifySource \/ VerifyImage \/ VerifyGreen \/ BeforeFirstSelector \/ GreenHealth
             \/ RecheckCapacity \/ VerifyGreenAgain
  BY <1>1, ProveOffMutation DEF VerifySource, VerifyImage, VerifyGreen, BeforeFirstSelector,
     GreenHealth, RecheckCapacity, VerifyGreenAgain
<1>2. CASE VerifyCanonical \/ BeforeCanonicalSelector \/ CanonicalHealth
             \/ VerifyCanonicalRouted \/ FinalHealth \/ VerifyCanonicalFinal \/ VerifyFallback
  BY <1>2, ProveOffMutation DEF VerifyCanonical, BeforeCanonicalSelector, CanonicalHealth,
     VerifyCanonicalRouted, FinalHealth, VerifyCanonicalFinal, VerifyFallback
<1>3. CASE ReadMutate
  BY <1>3, ReadOffMutation DEF ReadMutate
<1>4. CASE ReadFirst \/ ReadCanonical \/ ReadFinal \/ ReadFallback \/ ReadRollback
  BY <1>4, ReadOffMutation DEF ReadFirst, ReadCanonical, ReadFinal, ReadFallback, ReadRollback
<1>5. CASE Snapshot \/ ReserveCapacity \/ CreateGreen \/ MutateCanonical \/ ReleaseCapacity
  BY <1>5, <1>h DEF Snapshot, ReserveCapacity, CreateGreen, MutateCanonical, ReleaseCapacity,
     Goto, Raise, GreenSelectedInv
<1>6. CASE Routing
  <2>1. pc \in RouteSteps
    BY <1>6 DEF Routing, RouteCheck, RoutePatch, RouteConfirm
  <2>2. CASE Reject
    BY <2>2, <1>h
  <2>3. CASE pc' = pc
    BY <2>1, <2>3 DEF RouteSteps, GreenSelectedInv
  <2>4. CASE Goto(AfterRoute(pc))
    BY <2>1, <2>4 DEF Goto, AfterRoute, RouteSteps, GreenSelectedInv
  <2> QED BY <1>6, <2>2, <2>3, <2>4 DEF Routing, RouteCheck, RoutePatch, RouteConfirm
<1>7. CASE DrainScale \/ DrainProve \/ DrainDelete
  BY <1>7, <1>h DEF DrainScale, DrainProve, DrainDelete, Goto, GreenSelectedInv
<1>8. CASE Others \/ Finished \/ UNCHANGED vars
  BY <1>8 DEF Others, Finished, vars, policyVars, GreenSelectedInv
<1>9. CASE Binding
  BY <1>9, <1>h DEF Binding, BoundCreate, BoundCreateConfirm, BoundMutateCheck,
     BoundMutatePatch, BoundMutateConfirm, Goto, Raise, GreenSelectedInv
<1> QED
  BY <1>1, <1>2, <1>3, <1>4, <1>5, <1>6, <1>7, <1>8, <1>9 DEF Next, Policy, Main, Handler

\* The template of canonical is rewritten by the two mutations and no other step.
LEMMA RewriteSteps ==
  ASSUME TypeOK, [Next]_vars, Rewrites
  PROVE  (MutateCanonical \/ BoundMutatePatch) /\ UNCHANGED mode
<1>1. canon' # canon /\ foreign' = foreign
  BY DEF Rewrites
<1>2. CASE Main \/ Handler
  BY <1>1, <1>2 DEF Next, Policy, Main, Handler, Others, Finished, vars, policyVars,
     Snapshot, VerifySource, VerifyImage, ReserveCapacity, CreateGreen, VerifyGreen,
     BeforeFirstSelector, ReadFirst, GreenHealth, RecheckCapacity, ReadMutate,
     VerifyGreenAgain, VerifyCanonical, BeforeCanonicalSelector, ReadCanonical,
     CanonicalHealth, VerifyCanonicalRouted, DrainScale, DrainProve, DrainDelete,
     DrainUnchanged, FinalHealth, ReadFinal, VerifyCanonicalFinal, ReleaseCapacity,
     VerifyFallback, ReadFallback, ReadRollback, Prove, Read, clusterVars
<1>3. CASE Routing \/ Binding
  BY <1>1, <1>3 DEF Next, Policy, Others, Finished, vars, policyVars, Routing, Binding,
     RouteCheck, RoutePatch, RouteConfirm, BoundCreate, BoundCreateConfirm,
     BoundMutateCheck, BoundMutateConfirm, clusterVars
<1>4. CASE Others
  <2>1. foreign \in Int
    BY ClusterAssumption DEF TypeOK, ClusterTypeOK
  <2>2. ~Foreign
    BY <1>1, <2>1 DEF Foreign
  <2>3. Flap \/ RolloutSettles
    BY <1>1, <1>4, <2>2 DEF Others, Environment, ForeignService, ForeignCanonical, ForeignGreen
  <2>4. canon'.image = canon.image /\ canon'.settings = canon.settings
    BY <2>3 DEF Flap, RolloutSettles, TypeOK, ClusterTypeOK, CanonType
  <2> QED BY <2>4 DEF Rewrites
<1>5. CASE Finished \/ UNCHANGED vars
  BY <1>1, <1>5 DEF Finished, vars, clusterVars
<1> QED BY <1>2, <1>3, <1>4, <1>5 DEF Next, Policy

\* The owner's mutation changes the Deployment only under its fence.
LEMMA MutationOffTraffic ==
  TypeOK /\ GreenSelectedInv /\ [Next]_vars
    => (Rewrites /\ ~Bound => svc.selector = "green")
<1> SUFFICES ASSUME TypeOK, GreenSelectedInv, [Next]_vars, Rewrites, ~Bound
             PROVE  svc.selector = "green"
  OBVIOUS
<1>1. MutateCanonical
  BY RewriteSteps DEF BoundMutatePatch
<1>2. MutationFenced
  BY <1>1 DEF MutateCanonical, Rewrites
<1> QED BY <1>1, <1>2 DEF MutateCanonical, MutationFenced, PatchTests, GreenSelectedInv

\* An owner that fences on the Service it is handed changes the canonical
\* Deployment only while green serves.
THEOREM MutatesOnlyOffTraffic == Spec => OwnerMutatesOffTraffic
<1>1. Init => GreenSelectedInv
  BY DEF Init, GreenSelectedInv
<1>2. TypeOK /\ GreenSelectedInv /\ [Next]_vars
        => [Rewrites /\ ~Bound => svc.selector = "green"]_vars
  BY MutationOffTraffic
<1> QED BY <1>1, <1>2, GreenSelectedStep, TypeCorrect, PTL DEF Spec, OwnerMutatesOffTraffic
-----------------------------------------------------------------------------
(***************************************************************************)
(* MutatesBaseline: while its version has not moved, the canonical         *)
(* Deployment is the ready one of the snapshot that the binding has read.  *)
(***************************************************************************)
ReadInv ==
  tool = "checked" /\ pc = "MUTATE_CANONICAL" /\ ~moved
    => /\ canon.uid = baseline.uid /\ canon.image = baseline.image
       /\ canon.healthy

\* Every step keeps it: only the binding's reads establish its premise.
LEMMA ReadInvStep == TypeOK /\ ReadInv /\ [Next]_vars => ReadInv'
<1> SUFFICES ASSUME TypeOK, ReadInv, [Next]_vars,
                    tool' = "checked", pc' = "MUTATE_CANONICAL", ~moved'
             PROVE  canon'.uid = baseline'.uid /\ canon'.image = baseline'.image /\ canon'.healthy
  BY DEF ReadInv
<1>h. ~Reject /\ (\A step : ~Goto(step)) /\ (\A b, i, o : ~Raise(b, i, o))
  BY DEF Reject, Raise, Goto
<1>1. CASE Main \/ Handler
  BY <1>1, <1>h DEF Main, Handler, Snapshot, VerifySource, VerifyImage, ReserveCapacity,
     CreateGreen, VerifyGreen, BeforeFirstSelector, ReadFirst, GreenHealth, RecheckCapacity,
     ReadMutate, VerifyGreenAgain, MutateCanonical, VerifyCanonical,
     BeforeCanonicalSelector, ReadCanonical, CanonicalHealth, VerifyCanonicalRouted,
     DrainScale, DrainProve, DrainDelete, FinalHealth, ReadFinal,
     VerifyCanonicalFinal, ReleaseCapacity, VerifyFallback, ReadFallback, ReadRollback,
     Prove, Read
<1>2. CASE Routing
  BY <1>2, <1>h DEF Routing, RouteCheck, RoutePatch, RouteConfirm, RouteSteps
<1>3. CASE BoundMutateCheck
  BY <1>3, <1>h DEF BoundMutateCheck, MutationAdmitted
<1>4. CASE BoundCreate \/ BoundCreateConfirm \/ BoundMutatePatch \/ BoundMutateConfirm
  BY <1>4, <1>h DEF BoundCreate, BoundCreateConfirm, BoundMutatePatch, BoundMutateConfirm
<1>5. CASE Others
  <2>1. canon' = canon /\ moved' = moved
    BY <1>5 DEF Others, Environment, ForeignService, ForeignCanonical, ForeignGreen, Flap,
       RolloutSettles
  <2> QED BY <1>5, <2>1 DEF Others, adapterVars, policyVars, ReadInv
<1>6. CASE Finished \/ UNCHANGED vars
  BY <1>6 DEF Finished, vars, clusterVars, adapterVars, policyVars, ReadInv
<1> QED BY <1>1, <1>2, <1>3, <1>4, <1>5, <1>6 DEF Next, Policy, Binding

\* What the binding patches is what it has read, ready and on its former image.
THEOREM MutatesWhatItRead == Spec => MutatesBaseline
<1>1. Init => ReadInv
  BY DEF Init, AdapterInit, ReadInv
<1>2. TypeOK /\ ReadInv /\ [Next]_vars
        => [Rewrites /\ Bound => /\ canon.uid = baseline.uid
                                 /\ canon.image = baseline.image
                                 /\ canon.healthy]_vars
  <2> SUFFICES ASSUME TypeOK, ReadInv, [Next]_vars, Rewrites, Bound
               PROVE  /\ canon.uid = baseline.uid /\ canon.image = baseline.image
                      /\ canon.healthy
    OBVIOUS
  <2>1. BoundMutatePatch
    BY RewriteSteps DEF MutateCanonical
  <2>2. CanonicalPatchTests(baseline)
    BY <2>1 DEF BoundMutatePatch, Rewrites
  <2> QED BY <2>1, <2>2 DEF BoundMutatePatch, CanonicalPatchTests, ReadInv
<1> QED BY <1>1, <1>2, ReadInvStep, TypeCorrect, PTL DEF Spec, MutatesBaseline
-----------------------------------------------------------------------------
\* Of the run's own steps, only its creation and its drain write green, and
\* the drain only a Deployment with the uid of its receipt.
LEMMA DrainStep ==
  TypeOK /\ [Next]_vars => (greenDep' # greenDep /\ foreign' = foreign /\ flaps' = flaps
                              => greenDep.uid = "green" \/ pc = "CREATE_GREEN")
<1> SUFFICES ASSUME TypeOK, [Next]_vars, greenDep' # greenDep, foreign' = foreign, flaps' = flaps
             PROVE  greenDep.uid = "green" \/ pc = "CREATE_GREEN"
  OBVIOUS
<1>1. CASE Main \/ Handler
  BY <1>1 DEF Main, Handler,
     Snapshot, VerifySource, VerifyImage, ReserveCapacity, CreateGreen, VerifyGreen,
     BeforeFirstSelector, ReadFirst, GreenHealth, RecheckCapacity, ReadMutate,
     VerifyGreenAgain, MutateCanonical, VerifyCanonical, BeforeCanonicalSelector,
     ReadCanonical, CanonicalHealth, VerifyCanonicalRouted, DrainScale, DrainProve,
     DrainDelete, DrainUnchanged, OwnedGreen, DeleteAdmitted, FinalHealth, ReadFinal,
     VerifyCanonicalFinal, ReleaseCapacity, VerifyFallback, ReadFallback, ReadRollback,
     Prove, Read, clusterVars
<1>2. CASE Routing
  BY <1>2 DEF Routing, RouteCheck, RoutePatch, RouteConfirm, clusterVars
<1>3. CASE Others
  <2>1. foreign \in Int /\ flaps \in Int
    BY ClusterAssumption DEF TypeOK, ClusterTypeOK
  <2>2. foreign' # foreign + 1 /\ flaps' # flaps + 1
    BY <2>1
  <2>3. ~RolloutSettles
    BY DEF RolloutSettles
  <2> QED BY <1>3, <2>2, <2>3 DEF Others, Environment, ForeignService, ForeignCanonical,
     ForeignGreen, Flap, Foreign
<1>4. CASE Finished \/ UNCHANGED vars
  BY <1>4 DEF Finished, vars, clusterVars
<1>5. CASE Binding
  BY <1>5 DEF Binding, BoundCreate, BoundCreateConfirm, BoundMutateCheck, BoundMutatePatch,
     BoundMutateConfirm, clusterVars
<1> QED BY <1>1, <1>2, <1>3, <1>4, <1>5 DEF Next, Policy

\* The drain never touches a Deployment recreated under the green name.
THEOREM DrainsOwnedGreen == Spec => DrainsOnlyOwned
<1>1. TypeOK /\ [Next]_vars
        => [greenDep' # greenDep /\ foreign' = foreign /\ flaps' = flaps
              => greenDep.uid = "green" \/ pc = "CREATE_GREEN"]_vars
  BY DrainStep
<1> QED BY <1>1, TypeCorrect, PTL DEF Spec, DrainsOnlyOwned
-----------------------------------------------------------------------------
(***************************************************************************)
(* What holds until somebody else changes the cluster.  `Standing' says    *)
(* what the cluster, the marker and the receipt of green have to do with   *)
(* each other, wherever the run is; the four invariants after it say what  *)
(* is known at each program point: whether the mutation has begun, where   *)
(* the traffic is, what has been proved to be ready, and what was read.    *)
(***************************************************************************)
HasBaseline == baseline # NoDeployment
GreenStands == GreenUp /\ green = "green" /\ (flaps = 0 => greenDep.healthy)
Renewed == /\ canon.image = New /\ canon.settings = "planned"
           /\ canon.surging = FALSE /\ (flaps = 0 => canon.healthy)

Standing ==
  /\ svc.id = "service" /\ svc.selector \in {"original", "green"}
  /\ canon.uid = "canon"
  /\ greenDep.uid \in {"none", "green"} /\ (greenDep.running => greenDep.uid = "green")
  /\ HasBaseline => baseline.uid = "canon" /\ baseline.service = "service"
  /\ ~started => /\ canon.surging = FALSE /\ (flaps = 0 => canon.healthy)
                 /\ HasBaseline => canon.image = baseline.image
                                     /\ canon.settings = baseline.settings
  /\ started => HasBaseline /\ canon.image \in {baseline.image, New}
                  /\ green \in {"none", "green"}
  /\ started /\ svc.selector = "original" => Renewed
  /\ svc.selector = "green" => GreenStands

BeforeCreate == BeforeReserve \cup {"CREATE_GREEN"}
BeforeRoute == {"BEFORE_FIRST_SELECTOR", "READ_FIRST", "ROUTE_GREEN"}
OnGreen == {"GREEN_HEALTH", "RECHECK_CAPACITY", "READ_MUTATE", "VERIFY_GREEN_AGAIN"}
Proving == {"BEFORE_CANONICAL_SELECTOR", "READ_CANONICAL", "ROUTE_CANONICAL"}
OnRenewed == {"CANONICAL_HEALTH", "VERIFY_CANONICAL_ROUTED", "DRAIN_GREEN", "COMPLETED"}
               \cup AfterDrain
FallingBack == {"READ_FALLBACK", "FALLBACK_SELECTOR"}
Former == BeforeCreate \cup {"VERIFY_GREEN"} \cup BeforeRoute

StartedAt ==
  /\ pc = "SNAPSHOT" => ~HasBaseline
  /\ pc \notin {"SNAPSHOT", "RAISED"} => HasBaseline
  /\ pc # "RAISED" => ~blocked
  /\ pc \in Former \cup OnGreen \cup {"READ_ROLLBACK", "ROLLBACK_SELECTOR"} => ~started
  /\ pc = "MUTATE_CANONICAL" => (started <=> tool # "idle")
  /\ pc \in {"VERIFY_CANONICAL", "VERIFY_FALLBACK"} \cup Proving \cup OnRenewed \cup FallingBack
       => started

SelectedAt ==
  /\ pc \in (Former \cup OnRenewed) \ RouteSteps => svc.selector = "original"
  /\ pc \in (OnGreen \cup {"MUTATE_CANONICAL", "VERIFY_CANONICAL"} \cup Proving) \ RouteSteps
       => svc.selector = "green"
  /\ pc \in RouteSteps => (svc.selector = SelectorOf(pc) <=> tool = "patched")
  /\ pc = "RAISED" /\ ~blocked /\ HasBaseline => (svc.selector = "green" <=> started)

StandsAt ==
  /\ pc \in BeforeCreate => green = "none"
  /\ pc \in BeforeCreate /\ greenDep.uid = "green" => pc = "CREATE_GREEN" /\ tool = "created"
  /\ pc \in BeforeRoute \cup FallingBack => GreenStands
  /\ pc = "VERIFY_FALLBACK" => green = "green"
  /\ pc \in Proving => Renewed
  /\ pc = "DRAIN_GREEN" /\ tool # "idle" => ~greenDep.running
  /\ pc \in AfterDrain \cup {"COMPLETED"} => greenDep.uid # "green"

ReadAt ==
  pc \in RouteSteps =>
    /\ service.id = svc.id
    /\ tool = "patched" => service.rv < svc.rv
    /\ tool # "patched" => service = Observed

Quiet == Standing /\ StartedAt /\ SelectedAt /\ StandsAt /\ ReadAt

standingVars == <<svc, canon, greenDep, flaps, started, baseline, green>>

LEMMA StandingSame ==
  ASSUME Standing, UNCHANGED standingVars
  PROVE  Standing'
BY DEF standingVars, Standing, HasBaseline, GreenStands, Renewed, GreenUp

\* The steps that touch what Standing speaks of.
Touches == \/ Snapshot \/ CreateGreen \/ BoundCreate \/ BoundCreateConfirm \/ MutateCanonical
           \/ BoundMutateCheck \/ BoundMutatePatch \/ RoutePatch \/ DrainScale \/ DrainDelete
           \/ Others

LEMMA StandingSteps ==
  ASSUME [Next]_vars
  PROVE  UNCHANGED standingVars \/ Touches
<1>1. CASE Main \/ Handler
  BY <1>1 DEF Touches, standingVars, Main, Handler, VerifySource, VerifyImage, ReserveCapacity,
     VerifyGreen, BeforeFirstSelector, ReadFirst, GreenHealth, RecheckCapacity, ReadMutate,
     VerifyGreenAgain, VerifyCanonical, BeforeCanonicalSelector, ReadCanonical,
     CanonicalHealth, VerifyCanonicalRouted, DrainProve, DrainUnchanged, FinalHealth,
     ReadFinal, VerifyCanonicalFinal, ReleaseCapacity, VerifyFallback, ReadFallback,
     ReadRollback, Prove, Read, clusterVars
<1>2. CASE Routing \/ Binding
  BY <1>2 DEF Touches, standingVars, Routing, Binding, RouteCheck, RouteConfirm,
     BoundMutateConfirm, clusterVars
<1>3. CASE Others
  BY <1>3 DEF Touches
<1>4. CASE Finished \/ UNCHANGED vars
  BY <1>4 DEF Finished, vars, clusterVars, policyVars, standingVars
<1> QED BY <1>1, <1>2, <1>3, <1>4 DEF Next, Policy

\* With nobody else about, the cluster moves by readiness and rollout alone.
LEMMA QuietOthers ==
  ASSUME TypeOK, Others, foreign = 0, foreign' = 0
  PROVE  Flap \/ RolloutSettles
BY DEF Others, Environment, ForeignService, ForeignCanonical, ForeignGreen, Foreign

LEMMA StandingStep ==
  ASSUME TypeOK, Quiet, [Next]_vars, foreign = 0, foreign' = 0
  PROVE  Standing'
<1> USE DEF HasBaseline, GreenStands, Renewed, GreenUp
<1>t. canon \in CanonType /\ greenDep \in GreenType /\ svc \in ServiceType /\ flaps \in Nat
  BY ClusterAssumption DEF TypeOK, ClusterTypeOK
<1>q. Standing /\ StartedAt /\ SelectedAt /\ StandsAt
  BY DEF Quiet
<1>g. ASSUME greenDep' = greenDep \/ Created, UNCHANGED <<svc, canon, flaps, started, baseline>>,
             svc.selector = "original", ~started
      PROVE  Standing'
  <2>1. greenDep'.uid \in {"none", "green"} /\ (greenDep'.running => greenDep'.uid = "green")
    BY <1>g, <1>q DEF Standing, Created
  <2> QED BY <1>g, <1>q, <2>1 DEF Standing
<1>1. CASE Snapshot
  <2>1. UNCHANGED <<svc, canon, greenDep, flaps, started, green>> /\ pc = "SNAPSHOT"
    BY <1>1 DEF Snapshot
  <2>2. ~started /\ svc.selector = "original"
    BY <1>q, <2>1 DEF StartedAt, SelectedAt, Former, BeforeCreate, BeforeReserve, RouteSteps
  <2>3. \/ baseline' = baseline
        \/ baseline' = [uid |-> canon.uid, image |-> canon.image,
                        settings |-> canon.settings, service |-> svc.id]
    BY <1>1 DEF Snapshot
  <2>4. HasBaseline' => \/ baseline' = baseline /\ HasBaseline
                        \/ /\ baseline'.uid = "canon" /\ baseline'.service = "service"
                           /\ baseline'.image = canon.image
                           /\ baseline'.settings = canon.settings
    BY <1>q, <2>3 DEF Standing
  <2>5. HasBaseline' => /\ baseline'.uid = "canon" /\ baseline'.service = "service"
                        /\ canon.image = baseline'.image /\ canon.settings = baseline'.settings
    BY <1>q, <2>2, <2>4 DEF Standing
  <2> QED BY <1>q, <2>1, <2>2, <2>5 DEF Standing
<1>2. CASE CreateGreen \/ BoundCreate \/ BoundCreateConfirm
  <2>1. /\ pc = "CREATE_GREEN" /\ (greenDep' = greenDep \/ Created)
        /\ UNCHANGED <<svc, canon, flaps, started, baseline>>
    BY <1>2 DEF CreateGreen, BoundCreate, BoundCreateConfirm, clusterVars
  <2>2. ~started /\ svc.selector = "original"
    BY <1>q, <2>1 DEF StartedAt, SelectedAt, Former, BeforeCreate, BeforeReserve, RouteSteps
  <2> QED BY <1>g, <2>1, <2>2
<1>3. CASE MutateCanonical \/ BoundMutateCheck \/ BoundMutatePatch
  <2>1. /\ pc = "MUTATE_CANONICAL" /\ UNCHANGED <<svc, greenDep, flaps, baseline, green>>
        /\ canon' = canon \/ \E settings \in {canon.settings, "planned"} : Mutated(settings)
        /\ started' = started \/ started'
    BY <1>3 DEF MutateCanonical, BoundMutateCheck, BoundMutatePatch
  <2>2. HasBaseline /\ svc.selector = "green"
    BY <1>q, <2>1 DEF StartedAt, SelectedAt, RouteSteps
  <2>3. GreenStands
    BY <1>q, <2>2 DEF Standing
  <2>4. started'
    BY <1>3, <1>q DEF StartedAt, MutateCanonical, BoundMutateCheck, BoundMutatePatch
  <2>5. canon'.uid = canon.uid /\ canon'.image \in {canon.image, New}
    BY <1>t, <2>1 DEF Mutated, CanonType
  <2>6. canon'.image \in {baseline.image, New}
    BY <1>q, <2>2, <2>5 DEF Standing
  <2> QED BY <1>q, <2>1, <2>2, <2>3, <2>4, <2>5, <2>6 DEF Standing
<1>4. CASE RoutePatch
  <2>1. /\ pc \in RouteSteps /\ tool = "checked"
        /\ UNCHANGED <<canon, greenDep, flaps, started, baseline, green>>
        /\ svc' = svc \/ Select(SelectorOf(pc))
    BY <1>4 DEF RoutePatch
  <2>2. CASE svc' = svc
    BY <1>q, <2>1, <2>2, StandingSame DEF standingVars
  <2>3. CASE Select(SelectorOf(pc))
    <3>1. svc'.id = svc.id /\ svc'.selector = SelectorOf(pc)
      BY <1>t, <2>3 DEF Select, ServiceType
    <3>2. SelectorOf(pc) \in {"original", "green"}
      BY DEF SelectorOf
    <3>3. SelectorOf(pc) = "green" => GreenStands
      BY <1>q, <2>1 DEF SelectorOf, RouteSteps, StandsAt, BeforeRoute, FallingBack
    <3>4. SelectorOf(pc) = "original" /\ started => Renewed
      BY <1>q, <2>1 DEF SelectorOf, RouteSteps, StandsAt, StartedAt, Proving
    <3> QED BY <1>q, <2>1, <3>1, <3>2, <3>3, <3>4 DEF Standing
  <2> QED BY <2>1, <2>2, <2>3
<1>5. CASE DrainScale \/ DrainDelete
  <2>1. /\ pc = "DRAIN_GREEN" /\ UNCHANGED <<svc, canon, flaps, started, baseline>>
        /\ greenDep' = greenDep \/ ScaleToZero \/ (DeleteGreen /\ DeleteAdmitted(green))
        /\ green' \in {green, "none"}
    BY <1>5 DEF DrainScale, DrainDelete, DrainUnchanged
  <2>2. started /\ svc.selector = "original"
    BY <1>q, <2>1 DEF StartedAt, SelectedAt, OnRenewed, RouteSteps
  <2>3. greenDep'.uid \in {"none", "green"} /\ (greenDep'.running => greenDep'.uid = "green")
    BY <1>t, <1>q, <2>1 DEF Standing, ScaleToZero, DeleteGreen, DeleteAdmitted, GreenType
  <2> QED BY <1>q, <2>1, <2>2, <2>3 DEF Standing
<1>6. CASE Others
  <2>1. UNCHANGED <<started, baseline, green>> /\ (Flap \/ RolloutSettles)
    BY <1>6, QuietOthers DEF Others, policyVars
  <2>2. CASE Flap
    <3>1. flaps' # 0 /\ UNCHANGED svc
      BY <1>t, <2>2 DEF Flap
    <3>2. /\ canon'.uid = canon.uid /\ canon'.image = canon.image
          /\ canon'.settings = canon.settings /\ canon'.surging = canon.surging
          /\ greenDep'.uid = greenDep.uid
      BY <1>t, <2>2 DEF Flap, CanonType, GreenType
    <3>3. greenDep'.running = greenDep.running
      BY <1>t, <2>2 DEF Flap, GreenType
    <3> QED BY <1>q, <2>1, <3>1, <3>2, <3>3 DEF Standing
  <2>3. CASE RolloutSettles
    <3>1. canon.surging /\ UNCHANGED <<svc, greenDep, flaps>>
      BY <2>3 DEF RolloutSettles
    <3>2. canon'.uid = canon.uid /\ canon'.image = canon.image
          /\ canon'.settings = canon.settings
      BY <1>t, <2>3 DEF RolloutSettles, CanonType
    <3>3. started /\ svc.selector = "green"
      BY <1>q, <3>1 DEF Standing
    <3> QED BY <1>q, <2>1, <3>1, <3>2, <3>3 DEF Standing
  <2> QED BY <2>1, <2>2, <2>3
<1>7. CASE UNCHANGED standingVars
  BY <1>7, <1>q, StandingSame
<1> QED BY <1>1, <1>2, <1>3, <1>4, <1>5, <1>6, <1>7, StandingSteps DEF Touches

\* What is known where a failure leads: that is all the handler relies on.
Placed == StartedAt /\ SelectedAt /\ StandsAt /\ ReadAt

LEMMA RaisePlaced ==
  ASSUME StartedAt, pc \notin {"RAISED"}, NEW b \in BOOLEAN, NEW i \in BOOLEAN,
         NEW o \in BOOLEAN, Raise(b, i, o), b <=> HasBaseline',
         pc \notin HandlerSteps /\ b => (i <=> started') /\ (i /\ o => green' = "green")
  PROVE  Placed'
<1> USE DEF Former, BeforeCreate, BeforeReserve, BeforeRoute, OnGreen, Proving, OnRenewed,
            AfterDrain, FallingBack, RouteSteps
<1>1. CASE pc' = "RAISED" /\ (blocked' \/ ~HasBaseline')
  BY <1>1 DEF Placed, StartedAt, SelectedAt, StandsAt, ReadAt
<1>2. CASE /\ pc' = "VERIFY_FALLBACK" /\ ~blocked' /\ HasBaseline' /\ started'
           /\ green' = "green"
  BY <1>2 DEF Placed, StartedAt, SelectedAt, StandsAt, ReadAt
<1>3. CASE pc' = "READ_ROLLBACK" /\ ~blocked' /\ HasBaseline' /\ ~started'
  BY <1>3 DEF Placed, StartedAt, SelectedAt, StandsAt, ReadAt
<1>4. ~blocked
  BY DEF StartedAt
<1> QED BY <1>1, <1>2, <1>3, <1>4 DEF Raise

LEMMA RejectPlaced ==
  ASSUME TypeOK, Standing, StartedAt, pc # "RAISED", Reject, UNCHANGED <<baseline, started>>,
         started => green' = green
  PROVE  Placed'
<1>1. started \in BOOLEAN
  BY DEF TypeOK, PolicyTypeOK
<1>2. started /\ green # "none" => green' = "green"
  BY DEF Standing
<1>3. (baseline # NoDeployment) <=> HasBaseline'
  BY DEF HasBaseline
<1> QED BY <1>1, <1>2, <1>3, RaisePlaced DEF Reject

\* Calls that prove, by what they prove.
LEMMA ProvePlaced ==
  ASSUME TypeOK, Quiet,
         \/ VerifySource \/ VerifyImage \/ VerifyGreen \/ BeforeFirstSelector \/ GreenHealth
         \/ RecheckCapacity \/ VerifyGreenAgain \/ VerifyCanonical \/ BeforeCanonicalSelector
         \/ CanonicalHealth \/ VerifyCanonicalRouted \/ FinalHealth \/ VerifyCanonicalFinal
         \/ VerifyFallback
  PROVE  Placed'
<1> USE DEF Former, BeforeCreate, BeforeReserve, BeforeRoute, OnGreen, Proving, OnRenewed,
            AfterDrain, FallingBack, RouteSteps, HasBaseline, GreenStands, Renewed, GreenUp
<1>q. Standing /\ StartedAt /\ SelectedAt /\ StandsAt
  BY DEF Quiet
<1>c. canon.surging \in BOOLEAN
  BY DEF TypeOK, ClusterTypeOK, CanonType
<1>r. ASSUME NEW step, NEW proved, NEW next, step # "RAISED", Prove(step, proved, next)
      PROVE  \/ Placed'
             \/ /\ proved /\ pc = step /\ pc' = next /\ tool' = "idle" /\ blocked' = blocked
                /\ UNCHANGED <<svc, canon, greenDep, flaps, started, baseline, green>>
  BY <1>q, <1>r, RejectPlaced DEF Prove, Goto, clusterVars
<1>j. ASSUME Reject, UNCHANGED <<baseline, started, green>>, pc # "RAISED"
      PROVE  Placed'
  BY <1>j, <1>q, RejectPlaced
<1> DEFINE Next1(step, next) ==
             /\ pc = step /\ pc' = next /\ tool' = "idle" /\ blocked' = blocked
             /\ UNCHANGED <<svc, canon, greenDep, flaps, started, baseline, green>>
<1>1. CASE VerifySource \/ VerifyImage
  <2>1. Placed' \/ Next1("VERIFY_SOURCE", "VERIFY_IMAGE")
                \/ Next1("VERIFY_IMAGE", "RESERVE_CAPACITY")
    BY <1>1, <1>j DEF VerifySource, VerifyImage, Prove, Goto, clusterVars
  <2> QED BY <1>q, <2>1 DEF Placed, StartedAt, SelectedAt, StandsAt, ReadAt
<1>2. CASE VerifyGreen
  <2>1. Placed' \/ (Next1("VERIFY_GREEN", "BEFORE_FIRST_SELECTOR") /\ GreenProved)
    BY <1>2, <1>r DEF VerifyGreen
  <2> QED BY <1>q, <2>1 DEF Placed, StartedAt, SelectedAt, StandsAt, ReadAt, GreenProved, GreenReady
<1>3. CASE BeforeFirstSelector \/ GreenHealth \/ RecheckCapacity
  <2>1. Placed' \/ Next1("BEFORE_FIRST_SELECTOR", "READ_FIRST")
                \/ Next1("GREEN_HEALTH", "RECHECK_CAPACITY")
                \/ Next1("RECHECK_CAPACITY", "READ_MUTATE")
    BY <1>3, <1>r DEF BeforeFirstSelector, GreenHealth, RecheckCapacity
  <2> QED BY <1>q, <2>1 DEF Placed, StartedAt, SelectedAt, StandsAt, ReadAt
<1>4. CASE VerifyGreenAgain \/ BeforeCanonicalSelector
  <2>1. Placed' \/ Next1("VERIFY_GREEN_AGAIN", "MUTATE_CANONICAL")
                \/ Next1("BEFORE_CANONICAL_SELECTOR", "READ_CANONICAL")
    BY <1>4, <1>r DEF VerifyGreenAgain, BeforeCanonicalSelector
  <2> QED BY <1>q, <2>1 DEF Placed, StartedAt, SelectedAt, StandsAt, ReadAt
<1>5. CASE VerifyCanonical
  <2>1. \/ Placed'
        \/ Next1("VERIFY_CANONICAL", "BEFORE_CANONICAL_SELECTOR") /\ CanonicalProved
    BY <1>5, <1>r DEF VerifyCanonical
  <2>2. CanonicalProved => Renewed
    BY <1>c DEF CanonicalProved
  <2> HIDE DEF Renewed
  <2>3. UNCHANGED <<canon, flaps>> /\ Renewed => Renewed'
    BY DEF Renewed
  <2> QED BY <1>q, <2>1, <2>2, <2>3 DEF Placed, StartedAt, SelectedAt, StandsAt, ReadAt
<1>6. CASE CanonicalHealth \/ VerifyCanonicalRouted
  <2>1. Placed' \/ Next1("CANONICAL_HEALTH", "VERIFY_CANONICAL_ROUTED")
                \/ Next1("VERIFY_CANONICAL_ROUTED", "DRAIN_GREEN")
    BY <1>6, <1>r DEF CanonicalHealth, VerifyCanonicalRouted
  <2> QED BY <1>q, <2>1 DEF Placed, StartedAt, SelectedAt, StandsAt, ReadAt
<1>7. CASE FinalHealth \/ VerifyCanonicalFinal
  <2>1. Placed' \/ Next1("FINAL_HEALTH", "READ_FINAL")
                \/ Next1("VERIFY_CANONICAL_FINAL", "RELEASE_CAPACITY")
    BY <1>7, <1>r DEF FinalHealth, VerifyCanonicalFinal
  <2> QED BY <1>q, <2>1 DEF Placed, StartedAt, SelectedAt, StandsAt, ReadAt
<1>8. CASE VerifyFallback
  <2>1. Placed' \/ (Next1("VERIFY_FALLBACK", "READ_FALLBACK") /\ GreenProved)
    BY <1>8, <1>r DEF VerifyFallback
  <2> QED BY <1>q, <2>1 DEF Placed, StartedAt, SelectedAt, StandsAt, ReadAt, GreenProved, GreenReady
<1> QED BY <1>1, <1>2, <1>3, <1>4, <1>5, <1>6, <1>7, <1>8

\* Calls that read, by what they admit.
LEMMA ReadPlaced ==
  ASSUME TypeOK, Quiet,
         ReadFirst \/ ReadMutate \/ ReadCanonical \/ ReadFinal \/ ReadFallback \/ ReadRollback
  PROVE  Placed'
<1> USE DEF Former, BeforeCreate, BeforeReserve, BeforeRoute, OnGreen, Proving, OnRenewed,
            AfterDrain, FallingBack, RouteSteps, HasBaseline, GreenStands, Renewed, GreenUp,
            SelectorOf
<1>q. Standing /\ StartedAt /\ SelectedAt /\ StandsAt
  BY DEF Quiet
<1> DEFINE Next1(step, next) ==
             /\ pc = step /\ pc' = next /\ tool' = "idle" /\ blocked' = blocked
             /\ service' = Observed /\ Observed' = Observed
             /\ UNCHANGED <<svc, canon, greenDep, flaps, started, baseline, green>>
<1>r. ASSUME Reject, UNCHANGED <<baseline, started, green>>, pc # "RAISED"
      PROVE  Placed'
  BY <1>r, <1>q, RejectPlaced
<1>o. UNCHANGED <<svc, canon, greenDep>> => Observed' = Observed
  BY DEF Observed, UidOf
<1>i. Observed.id = svc.id
  BY DEF Observed
<1>1. CASE ReadFirst
  <2>1. Placed' \/ (Next1("READ_FIRST", "ROUTE_GREEN") /\ svc.selector = "original")
    BY <1>1, <1>r, <1>o DEF ReadFirst, Read, Goto
  <2> QED BY <1>q, <1>i, <2>1 DEF Placed, StartedAt, SelectedAt, StandsAt, ReadAt
<1>2. CASE ReadMutate
  <2>1. Placed' \/ (/\ Next1("READ_MUTATE", pc') /\ svc.selector = "green"
                    /\ pc' \in {"VERIFY_GREEN_AGAIN", "MUTATE_CANONICAL"})
    BY <1>2, <1>r, <1>o DEF ReadMutate, Read, Goto
  <2> QED BY <1>q, <2>1 DEF Placed, StartedAt, SelectedAt, StandsAt, ReadAt
<1>3. CASE ReadCanonical
  <2>1. Placed' \/ (Next1("READ_CANONICAL", "ROUTE_CANONICAL") /\ svc.selector = "green")
    BY <1>3, <1>r, <1>o DEF ReadCanonical, Read, Goto
  <2> QED BY <1>q, <1>i, <2>1 DEF Placed, StartedAt, SelectedAt, StandsAt, ReadAt
<1>4. CASE ReadFinal
  <2>1. Placed' \/ Next1("READ_FINAL", "VERIFY_CANONICAL_FINAL")
    BY <1>4, <1>r, <1>o DEF ReadFinal, Read, Goto
  <2> QED BY <1>q, <2>1 DEF Placed, StartedAt, SelectedAt, StandsAt, ReadAt
<1>5. CASE ReadFallback
  <2>1. \/ Placed'
        \/ Next1("READ_FALLBACK", "RAISED") /\ svc.selector = "green"
        \/ Next1("READ_FALLBACK", "FALLBACK_SELECTOR") /\ svc.selector # "green"
    BY <1>5, <1>r, <1>o DEF ReadFallback, Read, Goto
  <2> QED BY <1>q, <1>i, <2>1 DEF Standing, Placed, StartedAt, SelectedAt, StandsAt, ReadAt
<1>6. CASE ReadRollback
  <2>1. \/ Placed'
        \/ Next1("READ_ROLLBACK", "RAISED") /\ svc.selector # "green"
        \/ Next1("READ_ROLLBACK", "ROLLBACK_SELECTOR") /\ svc.selector = "green"
    BY <1>6, <1>r, <1>o DEF ReadRollback, Read, Goto
  <2> QED BY <1>q, <1>i, <2>1 DEF Standing, Placed, StartedAt, SelectedAt, StandsAt, ReadAt
<1> QED BY <1>1, <1>2, <1>3, <1>4, <1>5, <1>6

\* The routes: a checked patch tests the version that was read.
LEMMA RoutePlaced ==
  ASSUME TypeOK, Quiet, Routing
  PROVE  Placed'
<1> USE DEF Former, BeforeCreate, BeforeReserve, BeforeRoute, OnGreen, Proving, OnRenewed,
            AfterDrain, FallingBack, RouteSteps, HasBaseline, GreenStands, Renewed, GreenUp
<1>q. Standing /\ StartedAt /\ SelectedAt /\ StandsAt /\ ReadAt
  BY DEF Quiet
<1>t. svc \in ServiceType
  BY DEF TypeOK, ClusterTypeOK
<1>p. /\ pc \in RouteSteps
      /\ UNCHANGED <<canon, greenDep, flaps, started, baseline, service, green>>
  BY DEF Routing, RouteCheck, RoutePatch, RouteConfirm, clusterVars
<1>r. ASSUME Reject PROVE Placed'
  BY <1>r, <1>p, <1>q, RejectPlaced
<1>s. /\ pc \in {"ROUTE_GREEN", "FALLBACK_SELECTOR"} => SelectorOf(pc) = "green"
      /\ pc \in {"ROUTE_CANONICAL", "ROLLBACK_SELECTOR"} => SelectorOf(pc) = "original"
  BY DEF SelectorOf
<1>1. CASE RouteCheck
  <2>1. Placed' \/ (tool = "idle" /\ tool' = "checked" /\ UNCHANGED <<pc, blocked, svc>>)
    BY <1>1, <1>r DEF RouteCheck, clusterVars
  <2>2. UNCHANGED <<svc, canon, greenDep>> => Observed' = Observed
    BY DEF Observed, UidOf
  <2>3. pc' = pc => SelectorOf(pc)' = SelectorOf(pc)
    BY DEF SelectorOf
  <2> QED
    BY <1>q, <1>p, <2>1, <2>2, <2>3 DEF Placed, StartedAt, SelectedAt, StandsAt, ReadAt
<1>2. CASE RoutePatch
  <2>1. \/ Placed'
        \/ /\ PatchTests(service) /\ Select(SelectorOf(pc))
           /\ tool = "checked" /\ tool' = "patched" /\ UNCHANGED <<pc, blocked>>
    BY <1>2, <1>r DEF RoutePatch
  <2> SUFFICES ASSUME PatchTests(service), Select(SelectorOf(pc)),
                      tool = "checked", tool' = "patched", UNCHANGED <<pc, blocked>>
               PROVE  Placed'
    BY <2>1
  <2>2. svc'.id = svc.id /\ svc'.selector = SelectorOf(pc) /\ svc'.rv = svc.rv + 1
    BY <1>t DEF Select, ServiceType
  <2>3. service.rv < svc'.rv
    BY <1>t, <2>2 DEF PatchTests, ServiceType
  <2>4. StartedAt' /\ StandsAt'
    BY <1>q, <1>p DEF StartedAt, StandsAt
  <2>5. SelectedAt'
    BY <1>p, <2>2 DEF SelectedAt, SelectorOf
  <2>6. ReadAt'
    BY <1>q, <1>p, <2>2, <2>3 DEF ReadAt
  <2> QED BY <2>4, <2>5, <2>6 DEF Placed
<1>3. CASE RouteConfirm
  <2>1. \/ Placed'
        \/ /\ svc.selector = SelectorOf(pc) /\ pc' = AfterRoute(pc) /\ tool' = "idle"
           /\ UNCHANGED <<blocked, svc>>
    BY <1>3, <1>r DEF RouteConfirm, RouteConfirmed, Goto, clusterVars
  <2> SUFFICES ASSUME svc.selector = SelectorOf(pc), pc' = AfterRoute(pc), tool' = "idle",
                      UNCHANGED <<blocked, svc>>
               PROVE  Placed'
    BY <2>1
  <2>2. CASE pc = "ROUTE_GREEN"
    BY <1>q, <1>p, <1>s, <2>2
       DEF AfterRoute, Placed, StartedAt, SelectedAt, StandsAt, ReadAt
  <2>3. CASE pc = "ROUTE_CANONICAL"
    BY <1>q, <1>p, <1>s, <2>3
       DEF AfterRoute, Placed, StartedAt, SelectedAt, StandsAt, ReadAt
  <2>4. CASE pc \in {"FALLBACK_SELECTOR", "ROLLBACK_SELECTOR"}
    BY <1>q, <1>p, <1>s, <2>4
       DEF AfterRoute, Placed, StartedAt, SelectedAt, StandsAt, ReadAt
  <2> QED BY <1>p, <2>2, <2>3, <2>4
<1> QED BY <1>1, <1>2, <1>3 DEF Routing

\* Creation, mutation and drain.
LEMMA ChangePlaced ==
  ASSUME TypeOK, Quiet,
         \/ CreateGreen \/ BoundCreate \/ BoundCreateConfirm
         \/ MutateCanonical \/ BoundMutateCheck \/ BoundMutatePatch \/ BoundMutateConfirm
         \/ DrainScale \/ DrainProve \/ DrainDelete
  PROVE  Placed'
<1> USE DEF Former, BeforeCreate, BeforeReserve, BeforeRoute, OnGreen, Proving, OnRenewed,
            AfterDrain, FallingBack, RouteSteps, HasBaseline, GreenStands, Renewed, GreenUp
<1>q. Standing /\ StartedAt /\ SelectedAt /\ StandsAt
  BY DEF Quiet
<1>t. greenDep \in GreenType /\ started \in BOOLEAN
  BY DEF TypeOK, ClusterTypeOK, PolicyTypeOK
<1>r. ASSUME Reject, UNCHANGED <<baseline, started>>, started => green' = green, pc # "RAISED"
      PROVE  Placed'
  BY <1>r, <1>q, RejectPlaced
<1>1. CASE CreateGreen \/ BoundCreate \/ BoundCreateConfirm
  <2>1. /\ pc = "CREATE_GREEN" /\ ~started /\ svc.selector = "original"
        /\ UNCHANGED <<svc, canon, flaps, baseline, started>>
    BY <1>1, <1>q DEF CreateGreen, BoundCreate, BoundCreateConfirm, clusterVars, StartedAt,
       SelectedAt
  <2>2. \/ Placed'
        \/ pc' = "VERIFY_GREEN" /\ tool' = "idle" /\ blocked' = blocked
        \/ /\ pc' = "CREATE_GREEN" /\ tool' = "created" /\ blocked' = blocked
           /\ green' = green
    BY <1>1, <1>r, <2>1 DEF CreateGreen, BoundCreate, BoundCreateConfirm, Goto
  <2> QED BY <1>q, <2>1, <2>2 DEF Placed, StartedAt, SelectedAt, StandsAt, ReadAt
<1>2. CASE MutateCanonical \/ BoundMutateCheck
  <2>1. /\ pc = "MUTATE_CANONICAL" /\ started' /\ svc.selector = "green"
        /\ UNCHANGED <<svc, greenDep, flaps, baseline, green>>
    BY <1>2, <1>q DEF MutateCanonical, BoundMutateCheck, SelectedAt
  <2>2. HasBaseline' /\ green = "green"
    BY <1>q, <2>1 DEF StartedAt, Standing
  <2>3. ASSUME Raise(TRUE, TRUE, green # "none") PROVE Placed'
    <3>1. pc # "RAISED" /\ started' = TRUE
      BY <1>2, <2>1 DEF MutateCanonical, BoundMutateCheck
    <3>2. /\ TRUE \in BOOLEAN /\ (green # "none") \in BOOLEAN
          /\ green # "none" => green' = "green"
      BY <2>1, <2>2
    <3> QED BY <1>q, <2>2, <2>3, <3>1, <3>2, RaisePlaced
  <2>4. \/ Placed'
        \/ pc' = "VERIFY_CANONICAL" /\ tool' = "idle" /\ blocked' = blocked
        \/ pc' = pc /\ tool' = "checked" /\ blocked' = blocked
    BY <1>2, <2>3 DEF MutateCanonical, BoundMutateCheck, Goto
  <2> QED BY <1>q, <2>1, <2>2, <2>4 DEF Placed, StartedAt, SelectedAt, StandsAt, ReadAt
<1>3. CASE BoundMutatePatch \/ BoundMutateConfirm
  <2>1. /\ pc = "MUTATE_CANONICAL" /\ tool \in {"checked", "patched"}
        /\ UNCHANGED <<svc, greenDep, flaps, baseline, started, green>>
    BY <1>3 DEF BoundMutatePatch, BoundMutateConfirm, clusterVars
  <2>2. started /\ svc.selector = "green"
    BY <1>q, <2>1 DEF StartedAt, SelectedAt
  <2>3. \/ Placed'
        \/ pc' = "VERIFY_CANONICAL" /\ tool' = "idle" /\ blocked' = blocked
        \/ pc' = pc /\ tool' = "patched" /\ blocked' = blocked
    BY <1>3, <1>r, <2>1 DEF BoundMutatePatch, BoundMutateConfirm, Goto
  <2> QED BY <1>q, <2>1, <2>2, <2>3 DEF Placed, StartedAt, SelectedAt, StandsAt, ReadAt
<1>4. CASE DrainScale \/ DrainProve
  <2>1. /\ pc = "DRAIN_GREEN" /\ UNCHANGED <<svc, baseline, started, green>>
    BY <1>4 DEF DrainScale, DrainProve, DrainUnchanged
  <2>2. \/ Placed'
        \/ /\ pc' = pc /\ tool' \in {"scaled", "proved"} /\ blocked' = blocked
           /\ ScaleToZero \/ (greenDep' = greenDep /\ ~greenDep.running)
    BY <1>4, <1>r, <2>1 DEF DrainScale, DrainProve, DeleteAdmitted
  <2>3. ScaleToZero => ~greenDep'.running
    BY <1>t DEF ScaleToZero, GreenType
  <2> QED BY <1>q, <2>1, <2>2, <2>3 DEF Placed, StartedAt, SelectedAt, StandsAt, ReadAt
<1>5. CASE DrainDelete
  <2>1. pc = "DRAIN_GREEN" /\ UNCHANGED <<svc, baseline, started>>
    BY <1>5 DEF DrainDelete, DrainUnchanged
  <2>2. \/ Placed'
        \/ /\ pc' = "FINAL_HEALTH" /\ tool' = "idle" /\ blocked' = blocked
           /\ DeleteGreen
    BY <1>5, <1>r, <2>1 DEF DrainDelete, Goto
  <2>3. DeleteGreen => greenDep'.uid # "green"
    BY <1>t DEF DeleteGreen, GreenType
  <2> QED BY <1>q, <2>1, <2>2, <2>3 DEF Placed, StartedAt, SelectedAt, StandsAt, ReadAt
<1> QED BY <1>1, <1>2, <1>3, <1>4, <1>5

LEMMA PlacedStep ==
  ASSUME TypeOK, Quiet, [Next]_vars, foreign = 0, foreign' = 0
  PROVE  Placed'
<1> USE DEF Former, BeforeCreate, BeforeReserve, BeforeRoute, OnGreen, Proving, OnRenewed,
            AfterDrain, FallingBack, RouteSteps, HasBaseline, GreenStands, Renewed, GreenUp
<1>q. Standing /\ StartedAt /\ SelectedAt /\ StandsAt /\ ReadAt
  BY DEF Quiet
<1>t. /\ canon \in CanonType /\ greenDep \in GreenType /\ flaps \in Nat
      /\ started \in BOOLEAN
  BY ClusterAssumption DEF TypeOK, ClusterTypeOK, PolicyTypeOK
<1>r. ASSUME Reject, UNCHANGED <<baseline, started, green>>, pc # "RAISED"
      PROVE  Placed'
  BY <1>r, <1>q, RejectPlaced
<1>1. CASE Snapshot
  <2>1. /\ pc = "SNAPSHOT" /\ UNCHANGED <<svc, canon, greenDep, flaps, started, green>>
        /\ ~started
    BY <1>1, <1>q DEF Snapshot, StartedAt
  <2>2. CASE baseline' = [uid |-> canon.uid, image |-> canon.image,
                          settings |-> canon.settings, service |-> svc.id]
    <3>1. baseline'.uid = "canon"
      BY <1>q, <2>2 DEF Standing
    <3>2. NoDeployment.uid = "none"
      BY DEF NoDeployment
    <3>3. HasBaseline'
      BY <3>1, <3>2
    <3>4. CASE Goto("VERIFY_SOURCE")
      BY <1>q, <2>1, <3>3, <3>4 DEF Goto, Placed, StartedAt, SelectedAt, StandsAt, ReadAt
    <3>5. CASE Raise(TRUE, FALSE, FALSE)
      <4>1. started' = FALSE /\ TRUE \in BOOLEAN /\ FALSE \in BOOLEAN /\ pc # "RAISED"
        BY <1>t, <2>1
      <4> QED BY <1>q, <3>3, <3>5, <4>1, RaisePlaced
    <3>6. CASE Reject /\ UNCHANGED baseline
      BY <1>r, <2>1, <3>6
    <3> QED BY <1>1, <3>4, <3>5, <3>6 DEF Snapshot
  <2>3. CASE Reject /\ UNCHANGED baseline
    BY <1>r, <2>1, <2>3
  <2> QED BY <1>1, <2>2, <2>3 DEF Snapshot
<1>2. CASE ReserveCapacity \/ ReleaseCapacity
  <2>1. /\ UNCHANGED <<svc, canon, greenDep, flaps, started, baseline, green>>
        /\ \/ Placed'
           \/ /\ tool' = "idle" /\ blocked' = blocked
              /\ \/ pc = "RESERVE_CAPACITY" /\ pc' = "CREATE_GREEN"
                 \/ pc = "RELEASE_CAPACITY" /\ pc' = "COMPLETED"
    BY <1>2, <1>r DEF ReserveCapacity, ReleaseCapacity, Goto
  <2> QED BY <1>q, <2>1 DEF Placed, StartedAt, SelectedAt, StandsAt, ReadAt
<1>3. CASE Others
  <2>1. UNCHANGED <<tool, pc, started, baseline, service, green, blocked>>
        /\ (Flap \/ RolloutSettles)
    BY <1>3, QuietOthers DEF Others, adapterVars, policyVars
  <2>s. /\ SelectorOf(pc)' = SelectorOf(pc)
        /\ greenDep'.uid = greenDep.uid /\ canon'.uid = canon.uid /\ svc' = svc
    BY <1>t, <2>1 DEF SelectorOf, Flap, RolloutSettles, CanonType, GreenType
  <2>o. Observed' = Observed
    BY <2>s DEF Observed, UidOf
  <2>2. CASE Flap
    <3>1. /\ flaps' # 0 /\ greenDep'.running = greenDep.running
      BY <1>t, <2>2 DEF Flap, GreenType
    <3>2. /\ canon'.image = canon.image /\ canon'.settings = canon.settings
          /\ canon'.surging = canon.surging
      BY <1>t, <2>2 DEF Flap, CanonType
    <3> QED BY <1>q, <2>1, <2>s, <2>o, <3>1, <3>2
            DEF Placed, StartedAt, SelectedAt, StandsAt, ReadAt
  <2>3. CASE RolloutSettles
    <3>1. canon.surging /\ UNCHANGED <<svc, greenDep, flaps>>
      BY <2>3 DEF RolloutSettles
    <3>2. pc \notin Proving
      BY <1>q, <3>1 DEF StandsAt
    <3> QED BY <1>q, <2>1, <2>s, <2>o, <3>1, <3>2
            DEF Placed, StartedAt, SelectedAt, StandsAt, ReadAt
  <2> QED BY <2>1, <2>2, <2>3
<1>4. CASE Finished \/ UNCHANGED vars
  BY <1>4, <1>q DEF Finished, vars, clusterVars, adapterVars, policyVars, Placed, StartedAt,
     SelectedAt, StandsAt, ReadAt, SelectorOf, Observed, UidOf
<1>5. CASE Routing
  BY <1>5, RoutePlaced
<1>6. CASE Binding
  BY <1>6, ChangePlaced DEF Binding
<1>7. CASE Handler
  BY <1>7, ProvePlaced, ReadPlaced DEF Handler
<1>8. CASE Main
  BY <1>8, <1>1, <1>2, ProvePlaced, ReadPlaced, ChangePlaced DEF Main
<1> QED BY <1>3, <1>4, <1>5, <1>6, <1>7, <1>8 DEF Next, Policy

\* Changes by others are counted, and the count never goes back.
LEMMA ForeignCounts ==
  ASSUME TypeOK, [Next]_vars, foreign' = 0
  PROVE  foreign = 0
<1>1. foreign \in Nat
  BY ClusterAssumption DEF TypeOK, ClusterTypeOK
<1>2. foreign' = foreign \/ foreign' = foreign + 1
  <2>1. CASE Others
    BY <2>1 DEF Others, Environment, ForeignService, ForeignCanonical, ForeignGreen, Flap,
       RolloutSettles, Foreign
  <2>2. CASE Main \/ Handler
    BY <2>2 DEF Main, Handler, Snapshot, VerifySource, VerifyImage, ReserveCapacity,
       CreateGreen, VerifyGreen, BeforeFirstSelector, ReadFirst, GreenHealth,
       RecheckCapacity, ReadMutate, VerifyGreenAgain, MutateCanonical, VerifyCanonical,
       BeforeCanonicalSelector, ReadCanonical, CanonicalHealth, VerifyCanonicalRouted,
       DrainScale, DrainProve, DrainDelete, DrainUnchanged, FinalHealth, ReadFinal,
       VerifyCanonicalFinal, ReleaseCapacity, VerifyFallback, ReadFallback, ReadRollback,
       Prove, Read, clusterVars
  <2>3. CASE Routing \/ Binding
    BY <2>3 DEF Routing, Binding, RouteCheck, RoutePatch, RouteConfirm, BoundCreate,
       BoundCreateConfirm, BoundMutateCheck, BoundMutatePatch, BoundMutateConfirm, clusterVars
  <2>4. CASE Finished \/ UNCHANGED vars
    BY <2>4 DEF Finished, vars, clusterVars
  <2> QED BY <2>1, <2>2, <2>3, <2>4 DEF Next, Policy
<1> QED BY <1>1, <1>2

Undisturbed == foreign = 0 => Quiet

LEMMA QuietHolds == Spec => [](TypeOK /\ Undisturbed)
<1>1. Init => Quiet
  <2> SUFFICES ASSUME Init PROVE Quiet
    OBVIOUS
  <2>1. Standing
    BY DEF Init, ClusterInit, Standing, HasBaseline, GreenStands, Renewed, GreenUp
  <2>2. StartedAt /\ SelectedAt /\ StandsAt /\ ReadAt
    BY DEF Init, ClusterInit, StartedAt, SelectedAt, StandsAt, ReadAt, HasBaseline, Former,
       BeforeCreate, BeforeReserve, BeforeRoute, OnGreen, Proving, OnRenewed, AfterDrain,
       FallingBack, RouteSteps
  <2> QED BY <2>1, <2>2 DEF Quiet
<1>2. TypeOK /\ Undisturbed /\ [Next]_vars => Undisturbed'
  BY ForeignCounts, StandingStep, PlacedStep DEF Undisturbed, Quiet, Placed
<1>3. Quiet => Undisturbed
  BY DEF Undisturbed
<1> QED BY <1>1, <1>2, <1>3, TypeInit, TypeStep, PTL DEF Spec

\* Until another actor changes the cluster, and while backends stay as ready as
\* they were proved, a ready backend serves the public at every moment of the
\* run, whatever calls fail, apply in part, or lose their response.
THEOREM ServesThroughout == Spec => [](foreign = 0 => ZeroDowntime)
<1>1. Quiet => ZeroDowntime
  BY DEF Quiet, Standing, ZeroDowntime, PublicHealthy, GreenStands, GreenUp, Renewed
<1> QED BY <1>1, QuietHolds, PTL DEF Undisturbed

\* From the start of the mutation, as it is marked before the call is made, the
\* public is never again served by the former image or by half of the plan.
THEOREM NeverFormerAgain == Spec => [](foreign = 0 => NoFormerImageAfterMutation)
<1>1. Quiet => NoFormerImageAfterMutation
  BY DEF Quiet, Standing, NoFormerImageAfterMutation, Renewed
<1> QED BY <1>1, QuietHolds, PTL DEF Undisturbed

\* A failure that the handler does not report as blocked has left the traffic
\* on the untouched original, or on the green of this run.
THEOREM UnblockedMeansSafe == Spec => [](foreign = 0 => UnblockedFailureIsSafe)
<1>1. Quiet => UnblockedFailureIsSafe
  BY DEF Quiet, Standing, StartedAt, SelectedAt, UnblockedFailureIsSafe, HasBaseline,
     GreenStands
<1> QED BY <1>1, QuietHolds, PTL DEF Undisturbed

\* A call of the handler whose conditions hold is not refused: what it can
\* refuse a failed run for is a green that is not ready.
LEMMA HandlerStep ==
  ASSUME TypeOK, Quiet, [Next]_vars,
         pc \in HandlerSteps, blocked' # blocked, faults' = faults, flaps = 0
  PROVE  started /\ ~GreenReady
<1>q. Standing /\ StartedAt /\ SelectedAt /\ StandsAt /\ ReadAt
  BY DEF Quiet
<1>f. ~Fault
  <2>1. faults \in Int
    BY FaultAssumption DEF TypeOK, AdapterTypeOK
  <2> QED BY <2>1 DEF Fault
<1>b. HasBaseline /\ baseline.uid = "canon" /\ baseline.service = "service"
  BY <1>q DEF StartedAt, Standing, HandlerSteps
<1>c. CurrentShape /\ CurrentBound
  BY <1>q, <1>b DEF Standing, CurrentShape, CurrentBound, UidOf, GreenStands, GreenUp
<1>g. \A step : ~Goto(step)
  BY DEF Goto
<1>1. CASE VerifyFallback
  <2>1. pc = "VERIFY_FALLBACK" /\ ~GreenProved
    BY <1>1, <1>f, <1>g DEF VerifyFallback, Prove
  <2> QED BY <1>q, <2>1 DEF StartedAt, StandsAt, GreenProved
<1>2. CASE ReadFallback
  <2>1. pc = "READ_FALLBACK" /\ ~CurrentFallback
    BY <1>2, <1>f, <1>g DEF ReadFallback, Read
  <2>2. canon.image \in {baseline.image, New}
    BY <1>q, <2>1 DEF StartedAt, FallingBack, Standing
  <2> QED BY <1>c, <2>1, <2>2 DEF CurrentFallback
<1>3. CASE ReadRollback
  <2>1. pc = "READ_ROLLBACK" /\ ~CurrentHealthy(baseline.image)
    BY <1>3, <1>f, <1>g DEF ReadRollback, Read
  <2>2. ~started
    BY <1>q, <2>1 DEF StartedAt
  <2> QED BY <1>q, <1>b, <1>c, <2>1, <2>2 DEF Standing, CurrentHealthy
<1>4. CASE Routing
  <2>1. pc \in {"FALLBACK_SELECTOR", "ROLLBACK_SELECTOR"}
    BY <1>4 DEF Routing, RouteCheck, RoutePatch, RouteConfirm, RouteSteps, HandlerSteps
  <2>2. /\ pc = "FALLBACK_SELECTOR" => SelectorOf(pc) = "green" /\ TargetOf(pc) = green
        /\ pc = "ROLLBACK_SELECTOR" => SelectorOf(pc) = "original"
                                         /\ TargetOf(pc) = baseline.uid
    BY DEF SelectorOf, TargetOf
  <2>3. UidOf(SelectorOf(pc)) = TargetOf(pc)
    <3>1. CASE pc = "FALLBACK_SELECTOR"
      BY <1>q, <2>2, <3>1 DEF StandsAt, FallingBack, GreenStands, GreenUp, UidOf
    <3>2. CASE pc = "ROLLBACK_SELECTOR"
      BY <1>q, <1>b, <2>2, <3>2 DEF Standing, UidOf
    <3> QED BY <2>1, <3>1, <3>2
  <2>4. tool # "patched" => /\ service.id = svc.id /\ service.rv = svc.rv
                            /\ service.selector = svc.selector
                            /\ service.uid = UidOf(svc.selector)
    BY <1>q, <2>1 DEF ReadAt, RouteSteps, Observed
  <2>5. CASE RouteCheck
    <3>1. tool = "idle" /\ ~RouteAdmitted(service, SelectorOf(pc), TargetOf(pc))
      BY <2>5, <1>f DEF RouteCheck
    <3> QED BY <2>3, <2>4, <3>1 DEF RouteAdmitted
  <2>6. CASE RoutePatch
    <3>1. tool = "checked" /\ ~PatchTests(service)
      BY <2>6, <1>f DEF RoutePatch
    <3> QED BY <2>4, <3>1 DEF PatchTests
  <2>7. CASE RouteConfirm
    <3>1. tool = "patched" /\ ~RouteConfirmed(service, SelectorOf(pc), TargetOf(pc))
      BY <2>7, <1>f, <1>g DEF RouteConfirm
    <3>2. svc.selector = SelectorOf(pc) /\ service.id = svc.id /\ service.rv < svc.rv
      BY <1>q, <2>1, <3>1 DEF SelectedAt, ReadAt, RouteSteps
    <3>3. svc.rv \in Nat /\ service.rv \in Nat
      BY DEF TypeOK, ClusterTypeOK, ServiceType, PolicyTypeOK, NoService
    <3> QED BY <2>3, <3>1, <3>2, <3>3 DEF RouteConfirmed
  <2> QED BY <1>4, <2>5, <2>6, <2>7 DEF Routing
<1>5. CASE Main \/ Binding
  BY <1>5 DEF Main, Binding, Snapshot, VerifySource, VerifyImage, ReserveCapacity,
     CreateGreen, VerifyGreen, BeforeFirstSelector, ReadFirst, GreenHealth, RecheckCapacity,
     ReadMutate, VerifyGreenAgain, MutateCanonical, VerifyCanonical,
     BeforeCanonicalSelector, ReadCanonical, CanonicalHealth, VerifyCanonicalRouted,
     DrainScale, DrainProve, DrainDelete, FinalHealth, ReadFinal, VerifyCanonicalFinal,
     ReleaseCapacity, Prove, Read, BoundCreate, BoundCreateConfirm, BoundMutateCheck,
     BoundMutatePatch, BoundMutateConfirm, HandlerSteps
<1>6. CASE Others \/ Finished \/ UNCHANGED vars
  BY <1>6 DEF Others, Finished, vars, policyVars
<1> QED BY <1>1, <1>2, <1>3, <1>4, <1>5, <1>6 DEF Next, Policy, Handler

\* In a run that nobody else disturbs the failure handler accepts whatever
\* state the run itself can leave behind, a half-applied mutation and a patch
\* with a lost response included.
THEOREM HandlerCopes == Spec /\ [](foreign = 0) => HandlerAcceptsOwnLeftovers
<1>1. TypeOK /\ Quiet /\ [Next]_vars
        => [(pc \in HandlerSteps) /\ blocked' # blocked /\ faults' = faults /\ flaps = 0
              => started /\ ~GreenReady]_vars
  BY HandlerStep
<1> QED BY <1>1, QuietHolds, PTL DEF Spec, Undisturbed, HandlerAcceptsOwnLeftovers
-----------------------------------------------------------------------------
(***************************************************************************)
(* The refinement of TrafficHandoff: each step of the run is one of its    *)
(* moves of traffic, or changes nothing that it speaks of.                 *)
(***************************************************************************)
Serving == IF svc.selector = "green" THEN "standby"
           ELSE IF started THEN "renewed" ELSE "former"
Standby == IF GreenUp THEN "ready" ELSE IF started THEN "retired" ELSE "absent"
Verdict == CASE pc = "COMPLETED" -> "completed"
             [] pc = "RAISED" -> "failed"
             [] OTHER -> "running"

\* Where the verdict is fixed, and that it stays.
LEMMA VerdictSteps ==
  ASSUME [Next]_vars
  PROVE  /\ pc \in Ended => pc' = pc
         /\ pc' = "COMPLETED" /\ pc # "COMPLETED" => pc = "RELEASE_CAPACITY"
<1>r. ASSUME Reject PROVE pc' # "COMPLETED"
  BY <1>r, RejectLeaves DEF HandlerSteps
<1>a. \A b, i, o : Raise(b, i, o) => pc' # "COMPLETED"
  BY DEF Raise
<1>1. CASE Main
  BY <1>1, <1>r, <1>a DEF Main, Snapshot, VerifySource, VerifyImage, ReserveCapacity,
     CreateGreen, VerifyGreen, BeforeFirstSelector, ReadFirst, GreenHealth,
     RecheckCapacity, ReadMutate, VerifyGreenAgain, MutateCanonical, VerifyCanonical,
     BeforeCanonicalSelector, ReadCanonical, CanonicalHealth, VerifyCanonicalRouted,
     DrainScale, DrainProve, DrainDelete, FinalHealth, ReadFinal, VerifyCanonicalFinal,
     ReleaseCapacity, Prove, Read, Goto, Ended
<1>2. CASE Handler
  BY <1>2, <1>r DEF Handler, VerifyFallback, ReadFallback, ReadRollback, Prove, Read, Goto,
     Ended
<1>3. CASE Routing
  <2>1. AfterRoute(pc) # "COMPLETED"
    BY DEF AfterRoute
  <2>2. pc \notin Ended
    BY <1>3 DEF Routing, RouteCheck, RoutePatch, RouteConfirm, RouteSteps, Ended
  <2> QED BY <1>3, <1>r, <2>1, <2>2 DEF Routing, RouteCheck, RoutePatch, RouteConfirm, Goto
<1>4. CASE Binding
  BY <1>4, <1>r, <1>a DEF Binding, BoundCreate, BoundCreateConfirm, BoundMutateCheck,
     BoundMutatePatch, BoundMutateConfirm, Goto, Ended
<1>5. CASE Others \/ Finished \/ UNCHANGED vars
  BY <1>5 DEF Others, Finished, vars, policyVars
<1> QED BY <1>1, <1>2, <1>3, <1>4, <1>5 DEF Next, Policy

\* A step that moves no traffic ends the run or is not seen at all.
LEMMA Unmoved ==
  ASSUME TypeOK, Quiet, [Next]_vars, Serving' = Serving, Standby' = Standby, started' = started
  PROVE  [Abstract!ANext]_(Abstract!avars)
<1>1. pc \in Ended => pc' = pc
  BY VerdictSteps
<1>2. CASE pc' = "COMPLETED" /\ pc # "COMPLETED"
  <2>1. pc = "RELEASE_CAPACITY" /\ Quiet
    BY <1>2, VerdictSteps
  <2>2. started /\ svc.selector = "original" /\ greenDep.uid # "green"
    BY <2>1 DEF Quiet, StartedAt, SelectedAt, StandsAt, OnRenewed, AfterDrain, RouteSteps
  <2>3. Serving = "renewed" /\ Standby = "retired"
    BY <2>2 DEF Serving, Standby, GreenUp
  <2>4. Abstract!Complete
    BY <1>2, <2>1, <2>3 DEF Abstract!Complete, Abstract!Open, Serving, Standby
  <2> QED BY <2>4 DEF Abstract!ANext
<1>3. CASE pc' = "RAISED" /\ pc # "RAISED"
  <2>1. Abstract!GiveUp
    BY <1>1, <1>3 DEF Abstract!GiveUp, Abstract!Open, Serving, Standby, Ended
  <2> QED BY <2>1 DEF Abstract!ANext
<1>4. CASE pc' = pc \/ (pc' \notin Ended /\ pc \notin Ended)
  BY <1>4 DEF Abstract!avars, Serving, Standby, Ended
<1> QED BY <1>1, <1>2, <1>3, <1>4 DEF Ended

\* Every step is a move of the abstract handoff or a stutter.
LEMMA PromiseStep ==
  ASSUME TypeOK, Quiet, [Next]_vars, foreign = 0, foreign' = 0
  PROVE  [Abstract!ANext]_(Abstract!avars)
<1>q. Standing /\ StartedAt /\ SelectedAt /\ StandsAt
  BY DEF Quiet
<1>t. greenDep \in GreenType /\ svc \in ServiceType /\ started \in BOOLEAN
  BY DEF TypeOK, ClusterTypeOK, PolicyTypeOK
<1>u. ASSUME svc'.selector = svc.selector, GreenUp' = GreenUp, started' = started
      PROVE  [Abstract!ANext]_(Abstract!avars)
  <2>1. Serving' = Serving /\ Standby' = Standby
    BY <1>u DEF Serving, Standby
  <2> QED BY <1>u, <2>1, Unmoved
<1>v. pc \notin Ended /\ pc' \notin Ended => Abstract!Open /\ Verdict' = Verdict
  BY DEF Abstract!Open, Verdict, Ended
<1>1. CASE UNCHANGED <<svc, greenDep, started>>
  BY <1>1, <1>u DEF GreenUp
<1>2. CASE CreateGreen \/ BoundCreate
  <2>1. /\ pc = "CREATE_GREEN" /\ UNCHANGED <<svc, started, baseline>>
        /\ greenDep' = greenDep \/ Created
    BY <1>2 DEF CreateGreen, BoundCreate
  <2>2. ~started /\ svc.selector = "original" /\ HasBaseline
    BY <1>q, <2>1 DEF StartedAt, SelectedAt, Former, BeforeCreate, BeforeReserve, RouteSteps
  <2>3. CASE greenDep' = greenDep
    BY <1>1, <2>1, <2>3
  <2>4. CASE Created /\ ~GreenUp
    <3>1. pc' \notin Ended
      BY <1>2, <2>1, <2>2
         DEF CreateGreen, BoundCreate, Goto, Reject, Raise, HasBaseline, HandlerSteps, Ended
    <3>2. GreenUp'
      BY <2>4 DEF Created, GreenUp
    <3>3. Abstract!Prepare
      BY <2>1, <2>2, <2>4, <3>1, <3>2 DEF Abstract!Prepare, Abstract!Open, Ended
    <3> QED BY <3>3 DEF Abstract!ANext
  <2>5. CASE Created /\ GreenUp
    <3>1. GreenUp'
      BY <2>5 DEF Created, GreenUp
    <3> QED BY <1>u, <2>1, <2>5, <3>1
  <2> QED BY <2>1, <2>3, <2>4, <2>5
<1>3. CASE MutateCanonical \/ BoundMutateCheck
  <2>1. /\ pc = "MUTATE_CANONICAL" /\ UNCHANGED <<svc, greenDep, baseline, green>>
        /\ started' = TRUE
    BY <1>3 DEF MutateCanonical, BoundMutateCheck
  <2>2. svc.selector = "green" /\ GreenUp /\ green = "green"
    BY <1>q, <2>1 DEF SelectedAt, RouteSteps, Standing, GreenStands
  <2>3. CASE started
    BY <1>1, <1>t, <2>1, <2>3
  <2>4. CASE ~started
    <3>1. pc' \notin Ended
      BY <1>3, <2>1, <2>2 DEF MutateCanonical, BoundMutateCheck, Goto, Raise, HandlerSteps, Ended
    <3>2. GreenUp'
      BY <2>1, <2>2 DEF GreenUp
    <3>3. Abstract!Commit
      BY <2>1, <2>2, <2>4, <3>1, <3>2 DEF Abstract!Commit, Abstract!Open, Ended
    <3> QED BY <3>3 DEF Abstract!ANext
  <2> QED BY <2>3, <2>4
<1>4. CASE RoutePatch
  <2>1. /\ pc \in RouteSteps /\ tool = "checked" /\ UNCHANGED <<greenDep, started>>
    BY <1>4 DEF RoutePatch
  <2>2. CASE svc' = svc
    BY <1>1, <2>1, <2>2
  <2>3. CASE Select(SelectorOf(pc)) /\ pc' = pc
    <3>1. svc'.selector = SelectorOf(pc) /\ GreenUp' = GreenUp
      BY <1>t, <2>1, <2>3 DEF Select, ServiceType, GreenUp
    <3>2. CASE pc = "ROUTE_GREEN"
      <4>1. /\ svc.selector = "original" /\ ~started /\ GreenUp
            /\ svc'.selector = "green"
        BY <1>q, <2>1, <3>1, <3>2 DEF Standing, SelectedAt, StartedAt, StandsAt, SelectorOf,
           Former, BeforeRoute, GreenStands
      <4>2. Abstract!ShiftToStandby
        BY <2>1, <2>3, <3>1, <3>2, <4>1 DEF Abstract!ShiftToStandby, Abstract!Open
      <4> QED BY <4>2 DEF Abstract!ANext
    <3>3. CASE pc = "ROUTE_CANONICAL"
      <4>1. /\ svc.selector = "green" /\ started
            /\ svc'.selector = "original"
        BY <1>q, <2>1, <3>1, <3>3 DEF Standing, SelectedAt, StartedAt, SelectorOf, Proving
      <4>2. Abstract!ShiftToRenewed
        BY <2>1, <2>3, <3>1, <3>3, <4>1 DEF Abstract!ShiftToRenewed, Abstract!Open
      <4> QED BY <4>2 DEF Abstract!ANext
    <3>4. CASE pc = "FALLBACK_SELECTOR"
      <4>1. /\ svc.selector = "original" /\ started /\ GreenUp
            /\ svc'.selector = "green"
        BY <1>q, <2>1, <3>1, <3>4 DEF Standing, SelectedAt, StartedAt, StandsAt, SelectorOf,
           FallingBack, GreenStands
      <4>2. Abstract!FallBack
        BY <2>1, <2>3, <3>1, <3>4, <4>1 DEF Abstract!FallBack, Abstract!Open
      <4> QED BY <4>2 DEF Abstract!ANext
    <3>5. CASE pc = "ROLLBACK_SELECTOR"
      <4>1. /\ svc.selector = "green" /\ ~started
            /\ svc'.selector = "original"
        BY <1>q, <2>1, <3>1, <3>5 DEF Standing, SelectedAt, StartedAt, SelectorOf
      <4>2. Abstract!RollBack
        BY <2>1, <2>3, <3>1, <3>5, <4>1 DEF Abstract!RollBack, Abstract!Open
      <4> QED BY <4>2 DEF Abstract!ANext
    <3> QED BY <2>1, <3>2, <3>3, <3>4, <3>5 DEF RouteSteps
  <2> QED BY <1>4, <2>2, <2>3 DEF RoutePatch
<1>5. CASE DrainScale
  <2>1. pc = "DRAIN_GREEN" /\ UNCHANGED <<svc, started>>
    BY <1>5 DEF DrainScale, DrainUnchanged
  <2>2. CASE greenDep' = greenDep
    BY <1>1, <2>1, <2>2
  <2>3. CASE OwnedGreen(green) /\ greenDep.running /\ ScaleToZero /\ pc' = pc
    <3>1. started /\ svc.selector = "original"
      BY <1>q, <2>1 DEF StartedAt, SelectedAt, OnRenewed, RouteSteps
    <3>2. GreenUp /\ ~GreenUp'
      BY <1>t, <2>3 DEF GreenUp, OwnedGreen, ScaleToZero, GreenType
    <3>3. Abstract!Retire
      BY <2>1, <2>3, <3>1, <3>2 DEF Abstract!Retire, Abstract!Open
    <3> QED BY <3>3 DEF Abstract!ANext
  <2> QED BY <1>5, <2>2, <2>3 DEF DrainScale
<1>6. CASE DrainDelete
  <2>1. /\ UNCHANGED <<svc, started>>
        /\ greenDep' = greenDep \/ (DeleteGreen /\ ~greenDep.running)
    BY <1>6 DEF DrainDelete, DrainUnchanged, DeleteAdmitted
  <2>2. DeleteGreen => greenDep'.uid # "green"
    BY <1>t DEF DeleteGreen, GreenType
  <2> QED BY <1>u, <1>1, <2>1, <2>2 DEF GreenUp
<1>7. CASE Others
  <2>1. UNCHANGED <<started, pc>> /\ (Flap \/ RolloutSettles)
    BY <1>7, QuietOthers DEF Others, policyVars
  <2>2. /\ svc' = svc /\ greenDep'.uid = greenDep.uid
    BY <1>t, <2>1 DEF Flap, RolloutSettles, GreenType
  <2>3. greenDep'.running = greenDep.running
    BY <1>t, <2>1 DEF Flap, RolloutSettles, GreenType
  <2> QED BY <1>u, <2>1, <2>2, <2>3 DEF GreenUp
<1>8. ASSUME Snapshot \/ BoundCreateConfirm \/ BoundMutatePatch
      PROVE  UNCHANGED <<svc, greenDep, started>>
  BY <1>8 DEF Snapshot, BoundCreateConfirm, BoundMutatePatch, clusterVars
<1>9. CASE UNCHANGED standingVars
  BY <1>9, <1>1 DEF standingVars
<1> QED
  BY <1>1, <1>2, <1>3, <1>4, <1>5, <1>6, <1>7, <1>8, <1>9, StandingSteps DEF Touches

\* Nobody else has changed the application.
Alone == foreign = 0

\* A run that nobody else disturbs keeps the promise of TrafficHandoff: traffic
\* goes only from the former release to the ready green, from there back or, the
\* mutation begun, on to the renewed canonical; green is retired only then, and
\* once the mutation has begun the former release is never served again.
THEOREM HandoffRefines == Spec /\ [](foreign = 0) => KeepsPromise
<1>1. Init => Abstract!AInit
  <2> SUFFICES ASSUME Init PROVE Abstract!AInit
    OBVIOUS
  <2>1. svc.selector = "original" /\ greenDep.uid = "none" /\ started = FALSE /\ pc = "SNAPSHOT"
    BY DEF Init, ClusterInit
  <2> QED BY <2>1 DEF Abstract!AInit, GreenUp
<1>2. TypeOK /\ Quiet /\ [Next]_vars /\ Alone /\ Alone'
        => [Abstract!ANext]_(Abstract!avars)
  BY PromiseStep DEF Alone
<1>3. [](foreign = 0) => []Alone
  <2>1. (foreign = 0) => Alone
    BY DEF Alone
  <2> QED BY <2>1, PTL
<1>4. TypeOK /\ Undisturbed /\ Alone => Quiet
  BY DEF Undisturbed, Alone
<1> QED
  BY <1>1, <1>2, <1>3, <1>4, QuietHolds, PTL DEF Spec, KeepsPromise, Abstract!ASpec
=============================================================================
