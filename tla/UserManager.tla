------------------------------ MODULE UserManager ------------------------------
(***************************************************************************)
(* The systemd user manager and the kernel as normal_validation_controller *)
(* uses them: one transient unit with the properties of PROPERTIES         *)
(* (ExitType=cgroup, RemainAfterExit, control-group kill, a finite         *)
(* RuntimeMaxSec), the processes in its cgroup, the `systemd-run --wait'   *)
(* wrapper, and the monotonic clock of the job.  All of it is external.    *)
(***************************************************************************)
EXTENDS Integers

CONSTANTS NativeEnd,        \* deadline - RESERVE: the end of native work
          Reserve,          \* RESERVE: time kept for cleanup
          StageCap,         \* longest stage (900 s in the code)
          ActivationDelay,  \* bound: latest activation after the request
          MaxTime           \* bound: the clock stops here

ASSUME ClockAssumption ==
  /\ NativeEnd \in Nat \ {0} /\ Reserve \in Nat \ {0} /\ StageCap \in Nat \ {0}
  /\ ActivationDelay \in 0..Reserve
  /\ MaxTime \in Nat /\ MaxTime > NativeEnd + Reserve

VARIABLES unit,     \* state, and the time by which the manager must change it
          procs,    \* processes in the unit's cgroup
          program,  \* what the main process executes: the gate, then the SDK
          exit0,    \* the main process has exited with status 0
          wrapper,  \* systemd-run: none, running, or its exit status
          now

managerVars == <<unit, procs, program, exit0, wrapper, now>>

JobEnd == NativeEnd + Reserve
Loaded == unit.state # "not-found"

ManagerTypeOK ==
  /\ unit \in [state : {"not-found", "activating", "running", "exited", "dead", "failed"},
               due : Nat, runtime : Nat]
  /\ procs \subseteq {"main", "child"}
  /\ program \in {"none", "gate", "sdk"}
  /\ exit0 \in BOOLEAN
  /\ wrapper \in {"none", "running", "ok", "bad"}
  /\ now \in 0..MaxTime

ManagerInit ==
  /\ unit = [state |-> "not-found", due |-> 0, runtime |-> 0]
  /\ procs = {}
  /\ program = "none"
  /\ exit0 = FALSE
  /\ wrapper = "none"
  /\ now = 0

\* The manager acts on what is due before time goes on.
Tick ==
  /\ now < MaxTime
  /\ unit.state \in {"activating", "running"} => now < unit.due
  /\ now' = now + 1
  /\ UNCHANGED <<unit, procs, program, exit0, wrapper>>

\* The request of systemd-run is served, or lost with systemd-run.
Activate ==
  /\ unit.state = "activating"
  /\ \/ /\ unit' = [unit EXCEPT !.state = "running", !.due = now + unit.runtime]
        /\ procs' = {"main"} /\ program' = "gate"
     \/ /\ \E state \in {"failed", "not-found"} : unit' = [unit EXCEPT !.state = state]
        /\ UNCHANGED <<procs, program>>
  /\ UNCHANGED <<exit0, wrapper, now>>

Fork ==
  /\ unit.state = "running" /\ program = "sdk" /\ "main" \in procs
  /\ procs' = procs \cup {"child"}
  /\ UNCHANGED <<unit, program, exit0, wrapper, now>>

SdkExit ==
  /\ unit.state = "running" /\ program = "sdk" /\ "main" \in procs
  /\ procs' = procs \ {"main"}
  /\ exit0' \in BOOLEAN
  /\ UNCHANGED <<unit, program, wrapper, now>>

\* A descendant ends, also one that outlived the kill of its unit.
ProcessEnds ==
  /\ \E p \in procs : (p = "main" => unit.state # "running") /\ procs' = procs \ {p}
  /\ UNCHANGED <<unit, program, exit0, wrapper, now>>

\* ExitType=cgroup: the unit has exited when its cgroup is empty.
Settle ==
  /\ unit.state = "running" /\ procs = {}
  /\ unit' = [unit EXCEPT !.state = IF exit0 THEN "exited" ELSE "failed"]
  /\ UNCHANGED <<procs, program, exit0, wrapper, now>>

\* control-group kill with SIGKILL: the main process may have ended badly, and
\* the kernel may keep an unkillable process, which leaves the unit failed and
\* the process in the cgroup.
Kill(state) ==
  /\ \E left \in SUBSET procs, final \in {state, "failed"} :
       /\ left # {} => final = "failed"
       /\ procs = {} => final = state
       /\ procs' = left
       /\ unit' = [unit EXCEPT !.state = final]
  /\ exit0' = (exit0 /\ "main" \notin procs)
  /\ UNCHANGED <<program, wrapper, now>>

\* RuntimeMaxSec.
Expire == unit.state = "running" /\ now = unit.due /\ Kill("failed")

\* An inactive transient unit is unloaded, a failed one is not.
Collect ==
  /\ unit.state = "dead"
  /\ unit' = [unit EXCEPT !.state = "not-found"]
  /\ UNCHANGED <<procs, program, exit0, wrapper, now>>

\* systemd-run returns when its unit is no longer active, or dies on its own.
WrapperExits ==
  /\ wrapper = "running"
  /\ \/ wrapper' = "bad"
     \/ unit.state \in {"dead", "not-found"} /\ exit0 /\ wrapper' = "ok"
  /\ UNCHANGED <<unit, procs, program, exit0, now>>

\* What the manager and the kernel are certain to do.
Manager == Activate \/ Settle \/ Expire
=============================================================================
