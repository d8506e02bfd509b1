------------------------------ MODULE JobClock ------------------------------
(***************************************************************************)
(* The deadlines of a job: budget() and Budget of                          *)
(* normal_validation_custody.py and the narrower Fence of                  *)
(* qualify_normal_validation_custody.py.  A record pairs the wall clock    *)
(* with the monotonic one early in the job; every later process derives    *)
(* from it what is left, with clocks that may have failed meanwhile: the   *)
(* machine is suspended or rebooted, or its wall clock is set.  One clock  *)
(* fails in a behaviour, not both, and the wall clock is right when the    *)
(* record is made.  The job starts at time 0.                              *)
(*                                                                         *)
(* Definitions named <Definition>_<slip> are the definition they precede   *)
(* with a plausible slip in it; nothing uses them.                         *)
(***************************************************************************)
EXTENDS Integers

CONSTANTS JobTime,    \* JOB_SECONDS
          Reserve,    \* RESERVE
          Tolerance,  \* of the drift checks, 2 seconds
          PermitTime, \* longest life of a permit
          ActiveTime, \* longest native work under a permit
          MaxTime     \* bound: time

VARIABLES
  time,    \* what time it is; nobody can read it
  machine, \* mono, wall and boot, and the clock that may fail
  record,  \* n62-deadline.json
  owner,   \* the process that holds a Budget or a Fence
  lease    \* the last time it was granted: until when, for what, under what

clockVars == <<time, machine, record, owner, lease>>

NoOwner == [kind |-> "none"]
NoLease == [until |-> 0, native |-> FALSE, end |-> JobTime, late |-> FALSE]

ClockInit ==
  /\ time \in 0..(JobTime - 1)
  /\ \E mono \in 0..1, fails \in {"mono", "wall"} :
       machine = [mono |-> mono, wall |-> time, boot |-> 1, fails |-> fails]
  /\ record = [wall |-> time, mono |-> machine.mono, boot |-> 1,
               deadline |-> machine.mono + JobTime - time]
  /\ owner = NoOwner /\ lease = NoLease
-----------------------------------------------------------------------------
Later(mono, wall) ==
  /\ time < MaxTime /\ time' = time + 1
  /\ machine' = [machine EXCEPT !.mono = mono, !.wall = wall]
Tick == Later(machine.mono + 1, machine.wall + 1) /\ UNCHANGED <<record, owner, lease>>

Suspended ==
  /\ machine.fails = "mono" /\ Later(machine.mono, machine.wall + 1)
  /\ UNCHANGED <<record, owner, lease>>

WallIsSet ==
  /\ machine.fails = "wall"
  /\ \E wall \in 0..MaxTime \ {machine.wall} : machine' = [machine EXCEPT !.wall = wall]
  /\ UNCHANGED <<time, record, owner, lease>>

\* The runner's files survive, its processes do not.
Reboot ==
  /\ machine.boot = 1
  /\ \E mono \in 0..1 : machine' = [machine EXCEPT !.mono = mono, !.boot = 2]
  /\ owner' = NoOwner
  /\ UNCHANGED <<time, record, lease>>
-----------------------------------------------------------------------------
Drift == machine.wall - record.wall - (machine.mono - record.mono)

ClocksAgree_forward == machine.mono >= record.mono /\ Drift <= Tolerance
ClocksAgree ==
  /\ machine.mono >= record.mono
  /\ Drift <= Tolerance /\ -Drift <= Tolerance

SameBoot == machine.boot = record.boot

\* budget(), for a process that starts.
BudgetOpens ==
  /\ owner = NoOwner
  /\ SameBoot /\ ClocksAgree
  /\ record.deadline - machine.mono > Reserve
  /\ owner' = [kind |-> "budget", deadline |-> record.deadline,
               active |-> record.deadline - Reserve, last |-> machine.mono,
               cancelled |-> FALSE, end |-> JobTime]
  /\ UNCHANGED <<time, machine, record, lease>>

Lower(a, b) == IF a < b THEN a ELSE b

\* Fence(): the permit is dated by the clock of its issuer.
FenceOpens ==
  /\ owner = NoOwner
  /\ SameBoot /\ ClocksAgree
  /\ \E expiry \in 1..(MaxTime + PermitTime) :
       LET deadline == Lower(record.deadline, machine.mono + expiry - machine.wall) IN
         /\ machine.wall < expiry /\ expiry <= machine.wall + PermitTime
         /\ deadline - machine.mono > Reserve
         /\ owner' = [kind |-> "fence", deadline |-> deadline,
                      active |-> Lower(deadline - Reserve, machine.mono + ActiveTime),
                      last |-> machine.mono, cancelled |-> FALSE,
                      end |-> Lower(JobTime, expiry)]
  /\ UNCHANGED <<time, machine, record, lease>>

Cancel ==
  /\ owner.kind = "fence" /\ owner' = [owner EXCEPT !.cancelled = TRUE]
  /\ UNCHANGED <<time, machine, record, lease>>

\* remaining(): native work is given the time up to the reserve, the cleanup
\* all of it, and after a cancellation there is only the cleanup.
Released(native) == ~(native /\ owner.cancelled)
Remaining(native) ==
  /\ owner # NoOwner
  /\ ClocksAgree /\ Released(native)
  /\ owner.kind = "budget" => SameBoot
  /\ owner.kind = "fence" => machine.mono >= owner.last
  /\ LET left == (IF native THEN owner.active ELSE owner.deadline) - machine.mono IN
       /\ left > 0
       /\ lease' = [until |-> time + left, native |-> native, end |-> owner.end,
                    late |-> owner.cancelled]
  /\ owner' = [owner EXCEPT !.last = machine.mono]
  /\ UNCHANGED <<time, machine, record>>

OwnerEnds == owner # NoOwner /\ owner' = NoOwner /\ UNCHANGED <<time, machine, record, lease>>

ClockNext ==
  \/ Tick \/ Suspended \/ WallIsSet \/ Reboot
  \/ BudgetOpens \/ FenceOpens \/ Cancel \/ OwnerEnds
  \/ \E native \in BOOLEAN : Remaining(native)

ClockSpec == ClockInit /\ [][ClockNext]_clockVars
-----------------------------------------------------------------------------
\* Whatever one clock of the machine does after the record is made, and across
\* reboots, native work is granted no more time than the job and the permit
\* have left before the cleanup reserve, the cleanup none beyond their end, up
\* to the tolerance of the drift check; and none after a cancellation.
GrantsInsideJob ==
  /\ lease.until <= lease.end + Tolerance - (IF lease.native THEN Reserve ELSE 0)
  /\ ~(lease.native /\ lease.late)
=============================================================================
