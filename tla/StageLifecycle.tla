--------------------------- MODULE StageLifecycle ---------------------------
(***************************************************************************)
(* The evidence of a stage: stage_wire() of normal_validation_custody.py   *)
(* assembles what the controller has observed one after the other, verify  *)
(* of normal_validation_lifecycle.py accepts it or raises.  The question   *)
(* is whether what verify compares is enough to tell two stages apart, the *)
(* kernel being free to reuse PIDs, inodes and namespace numbers.          *)
(*                                                                         *)
(* Definitions named <Definition>_<slip> are the definition they precede   *)
(* with a plausible slip in it; nothing uses them.                         *)
(***************************************************************************)
EXTENDS Naturals, Sequences

CONSTANT LastTime \* bound: the clock

VARIABLES
  raw,     \* what Controller.run returned for the stage
  evidence \* "none", or the outcome of stage_wire

lifecycleVars == <<raw, evidence>>

\* A stage as the kernel and the manager know it.  The unit carries a nonce, so
\* that invocations and paths of two stages differ; in one boot two processes
\* differ in PID or birth.
This == [invocation |-> 1, path |-> 1, inode |-> 1, ns |-> 1, pid |-> 1, birth |-> 1]
Others == {s \in [invocation : {2}, path : {2}, inode : 1..2, ns : 1..2,
                  pid : 1..2, birth : 1..2] : <<s.pid, s.birth>> # <<1, 1>>}

\* The observations that are made on their own.
Pieces == {"manager", "helper", "sdk", "terminal", "observation"}

ScopeOf(s) == [path |-> s.path, inode |-> s.inode]
MemberOf(s) == [pid |-> s.pid, birth |-> s.birth, cgroup |-> s.path]

\* `of' says which stage each was made of; the code does not see it.
Observed(of, other, state, times) ==
  LET at == [p \in Pieces |-> IF p \in of THEN other ELSE This]
  IN [of |-> of,
      invocation |-> This.invocation, scope |-> ScopeOf(This),
      namespace |-> [ns |-> This.ns, confined |-> state.confined],
      capped |-> state.capped,
      manager |-> at["manager"].invocation,
      helper |-> MemberOf(at["helper"]), sdk |-> MemberOf(at["sdk"]),
      terminal |-> [invocation |-> at["terminal"].invocation, result |-> state.result],
      observation |-> [scope |-> ScopeOf(at["observation"]), kind |-> state.kind,
                       left |-> state.left],
      settled |-> state.settled, times |-> times]

Clean == [confined |-> TRUE, capped |-> TRUE, result |-> "success",
          kind |-> "zero", left |-> 0, settled |-> TRUE]
States == [confined : BOOLEAN, capped : BOOLEAN, result : {"success", "failed"},
           kind : {"zero", "manager", "absent"}, left : 0..1, settled : BOOLEAN]

InOrder == [started |-> 0, preExec |-> 0, terminal |-> 0, removal |-> 0,
            wrapper |-> 0, now |-> 0, expiry |-> 0]
Times == [started : {0}, preExec : 0..LastTime, terminal : 0..LastTime,
          removal : 0..LastTime, wrapper : 0..LastTime, now : 0..LastTime, expiry : 0..LastTime]

LifecycleInit ==
  /\ evidence = "none"
  /\ \/ \E of \in SUBSET Pieces, other \in Others :
          raw = Observed(of, other, Clean, InOrder)
     \/ \E state \in States : raw = Observed({}, This, state, InOrder)
     \/ \E t \in Times : raw = Observed({}, This, Clean, t)
-----------------------------------------------------------------------------
\* What stage_wire makes of it: the scope, the namespace and the invocation go
\* into the command and into the lifecycle alike.
Removal == IF raw.times.removal > raw.times.wrapper THEN raw.times.removal ELSE raw.times.wrapper
Controller == [invocation |-> raw.invocation, scope |-> raw.scope, namespace |-> raw.namespace]
Wire == [preExec |-> [scope |-> raw.scope, namespace |-> raw.namespace,
                      manager |-> raw.manager, helper |-> raw.helper, sdk |-> raw.sdk],
         terminal |-> raw.terminal, observation |-> raw.observation,
         removal |-> raw.invocation,
         times |-> <<raw.times.started, raw.times.preExec, raw.times.terminal, Removal,
                     raw.times.now>>]

\* scope() and namespace(): within the limits and confined.
Confined(before) == raw.capped /\ before.namespace.confined

\* One process that became the SDK, in the scope of the stage.
Transition_pid(before) == before.helper.pid = before.sdk.pid
Transition(before) ==
  /\ before.helper = before.sdk
  /\ before.sdk.cgroup = Controller.scope.path

\* The unit ended with success and its own scope is empty: a path that is absent
\* is no authority over descendants.
Terminal(wire) ==
  /\ wire.terminal = [invocation |-> Controller.invocation, result |-> "success"]
  /\ wire.observation.scope = Controller.scope
  /\ wire.observation.kind \in {"zero", "manager"}
  /\ wire.observation.left = 0

Chronology(times, terminal, deadline) ==
  /\ \A i \in 1..(Len(times) - 1) : times[i] <= times[i + 1]
  /\ terminal <= deadline

Verify(wire) ==
  /\ Confined(wire.preExec)
  /\ wire.preExec.scope = Controller.scope /\ wire.preExec.namespace = Controller.namespace
  /\ wire.preExec.manager = Controller.invocation
  /\ Transition(wire.preExec)
  /\ Terminal(wire)
  /\ wire.removal = Controller.invocation
  /\ Chronology(wire.times, raw.times.terminal, raw.times.expiry)

StageWire ==
  /\ evidence = "none"
  /\ evidence' = IF raw.settled /\ Verify(Wire) THEN "verified" ELSE "raised"
  /\ UNCHANGED raw

LifecycleNext == StageWire

LifecycleSpec == LifecycleInit /\ [][LifecycleNext]_lifecycleVars
-----------------------------------------------------------------------------
\* Evidence that verifies is of one stage, whatever another stage that it could
\* be mixed with has in common with it, and that stage was confined, ended with
\* success within its lease, in that order, and left nothing behind.  Evidence
\* of one such stage does verify.
InTime(t) ==
  /\ t.started <= t.preExec /\ t.preExec <= t.terminal
  /\ (t.terminal <= t.removal \/ t.terminal <= t.wrapper)
  /\ t.removal <= t.now /\ t.wrapper <= t.now /\ t.terminal <= t.expiry
Sound ==
  /\ raw.of = {}
  /\ raw.capped /\ raw.namespace.confined /\ raw.settled
  /\ raw.terminal.result = "success"
  /\ raw.observation.left = 0 /\ raw.observation.kind # "absent"
NoMixVerifies ==
  /\ evidence = "verified" => Sound /\ InTime(raw.times)
  /\ evidence = "raised" => ~Sound \/ ~InTime(raw.times)
=============================================================================
