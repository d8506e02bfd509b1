---------------------------- MODULE TrafficHandoff ----------------------------
(***************************************************************************)
(* What a controlled handoff promises the public, with no word on tool     *)
(* calls, receipts or Services: traffic is served by the former release,   *)
(* by the standby copy of the new one, or by the renewed canonical, and    *)
(* moves between them only along the edges below.  Before the commit the   *)
(* former release can be restored; after it, never.                        *)
(***************************************************************************)
VARIABLES serving,    \* who answers the public
          standby,    \* the green copy: absent, ready or retired
          committed,  \* canonical mutation has begun
          verdict

avars == <<serving, standby, committed, verdict>>

ATypeOK ==
  /\ serving \in {"former", "standby", "renewed"}
  /\ standby \in {"absent", "ready", "retired"}
  /\ committed \in BOOLEAN
  /\ verdict \in {"running", "completed", "failed"}

AInit == /\ serving = "former" /\ standby = "absent"
         /\ committed = FALSE /\ verdict = "running"

Open == verdict = "running"

Prepare == /\ Open /\ standby = "absent" /\ ~committed
           /\ standby' = "ready" /\ UNCHANGED <<serving, committed, verdict>>

ShiftToStandby == /\ Open /\ serving = "former" /\ standby = "ready" /\ ~committed
                  /\ serving' = "standby" /\ UNCHANGED <<standby, committed, verdict>>

RollBack == /\ Open /\ serving = "standby" /\ ~committed
            /\ serving' = "former" /\ UNCHANGED <<standby, committed, verdict>>

Commit == /\ Open /\ serving = "standby" /\ ~committed
          /\ committed' = TRUE /\ UNCHANGED <<serving, standby, verdict>>

ShiftToRenewed == /\ Open /\ serving = "standby" /\ committed
                  /\ serving' = "renewed" /\ UNCHANGED <<standby, committed, verdict>>

FallBack == /\ Open /\ serving = "renewed" /\ standby = "ready"
            /\ serving' = "standby" /\ UNCHANGED <<standby, committed, verdict>>

Retire == /\ Open /\ serving = "renewed" /\ standby = "ready"
          /\ standby' = "retired" /\ UNCHANGED <<serving, committed, verdict>>

Complete == /\ Open /\ serving = "renewed" /\ standby = "retired"
            /\ verdict' = "completed" /\ UNCHANGED <<serving, standby, committed>>

GiveUp == /\ Open /\ verdict' = "failed" /\ UNCHANGED <<serving, standby, committed>>

ANext == \/ Prepare \/ ShiftToStandby \/ RollBack \/ Commit \/ ShiftToRenewed
         \/ FallBack \/ Retire \/ Complete \/ GiveUp

ASpec == AInit /\ [][ANext]_avars
=============================================================================
