---------------------------- MODULE GreenMetadata ----------------------------
(***************************************************************************)
(* The metadata of the green Deployment: green_metadata.py plans it from   *)
(* the canonical one, startup_protection.py supplies its startup probe,    *)
(* and NativeDeploymentBinding of intranet_deployment_binding.py reads,    *)
(* creates, reads back and finally patches, one command after the other,   *)
(* while others may change both Deployments.  ApplicationHandoff has the   *)
(* rest of the handoff; there this is accepted or refused as a whole.      *)
(*                                                                         *)
(* One field stands for its kind: the required probes, the further         *)
(* container fields, the pod fields.  Any command may fail.  The two reads *)
(* of a value that is there (as text, and as JSON, which fails if it has   *)
(* gone in between) are one.                                               *)
(*                                                                         *)
(* Definitions named <Definition>_<slip> are the definition they precede   *)
(* with a plausible slip in it; nothing uses them.                         *)
(***************************************************************************)
EXTENDS Naturals, SequencesExt

CONSTANTS MaxEdits,  \* bound: changes by others
          EditedFrom \* bound: the environments beside which others change anything

VARIABLES
  canon,    \* the template of the canonical Deployment and its resourceVersion
  green,    \* that of the green one
  contract, \* read_only, the artifact's demand for it, the startup contract
  seen,     \* what has been read, and what is read next
  plan,     \* greenMetadataPlan
  stage,    \* of the handoff
  edits

metadataVars == <<canon, green, contract, seen, plan, stage, edits>>

\* A probe, or another field: absent, null, as it was, as the startup plan
\* wants it, in its owner's form (initialDelaySeconds = 0), or misshapen.
Values == {"absent", "null", "given", "owned", "desired", "bad"}
Container == {"readinessProbe", "startupProbe", "ports"}

Reference(n) == [name |-> n, from |-> "reference", value |-> "key"]
Literal(n, v) == [name |-> n, from |-> "literal", value |-> v]
Flags == {"ENVIRONMENT", "STANDBY", "READ_ONLY"}
Entries == {Reference(n) : n \in {"ENVIRONMENT", "STANDBY", "SECRET"}}
           \cup [name : {"ENVIRONMENT", "STANDBY"}, from : {"literal"},
                 value : {"Production", "true", "odd"}]
           \cup {Literal("SECRET", "odd")}

\* `plain': one container, of the expected name, without volumes, commands,
\* init containers, exec probes or probe headers.
Template == [plain |-> TRUE, env |-> <<Reference("SECRET"), Literal("STANDBY", "true")>>,
             container |-> [f \in Container |-> IF f = "startupProbe" THEN "null" ELSE "given"],
             pod |-> "given", lifecycle |-> "absent", image |-> "old"]
Nothing == [Template EXCEPT !.plain = FALSE, !.image = "none"]
NoParts == [env |-> <<>>, fields |-> [Nothing EXCEPT !.env = <<>>]]

Contracts == [readOnly : BOOLEAN, material : BOOLEAN, startup : {"none", "given"}]
Usual == [readOnly |-> TRUE, material |-> FALSE, startup |-> "given"]

Canonical(t) == canon = [version |-> 1, t |-> t]
MetadataInit ==
  /\ \/ /\ \E e \in BoundedSeq(Entries, 2) : Canonical([Template EXCEPT !.env = e])
        /\ contract \in {Usual, [Usual EXCEPT !.readOnly = FALSE]}
     \/ /\ \E c \in [Container -> Values \ {"desired"}] :
             Canonical([Template EXCEPT !.container = c])
        /\ contract \in Contracts
     \/ /\ \E p \in {"absent", "null", "bad"}, b \in BOOLEAN, l \in {"absent", "preStop", "odd"} :
             Canonical([Template EXCEPT !.pod = p, !.plain = b, !.lifecycle = l])
        /\ contract = Usual
  /\ green = Nothing /\ plan = Nothing
  /\ edits = IF canon.t.env \in EditedFrom THEN 0 ELSE MaxEdits
  /\ seen = [at |-> "version", version |-> 0, shape |-> <<>>, env |-> <<>>,
             fields |-> NoParts.fields, present |-> FALSE, baseline |-> NoParts]
  /\ stage = "snapshot"
-----------------------------------------------------------------------------
\* selected_metadata(): names are unique, and the value of a literal that is no
\* known flag is never read.
EnvironmentReadable(env) ==
  /\ IsInjective([i \in DOMAIN env |-> env[i].name])
  /\ \A i \in DOMAIN env : env[i].from = "literal" => env[i].name \in Flags

\* environment_shape(): references and the environment's name are carried over,
\* standby is set whatever it was.
EnvironmentAccepted(env) ==
  \A i \in DOMAIN env :
    IF env[i].from = "reference" THEN env[i].name \notin {"STANDBY", "READ_ONLY"}
    ELSE env[i].value \in {"Production", "true", "false"}
Standby(readOnly) ==
  <<Literal("STANDBY", "true")>> \o (IF readOnly THEN <<Literal("READ_ONLY", "true")>> ELSE <<>>)
Environment_keepsFlags(env, readOnly) == env \o Standby(readOnly)
IsCarried(e) == e.from = "reference" \/ e.name = "ENVIRONMENT"
Carried(env) ==
  LET result[i \in 0..Len(env)] ==
        IF i = 0 THEN <<>>
        ELSE IF IsCarried(env[i]) THEN Append(result[i - 1], env[i]) ELSE result[i - 1]
  IN result[Len(env)]
Environment(env, readOnly) == Carried(env) \o Standby(readOnly)

NotNull(value) == IF value = "null" THEN "absent" ELSE value

\* plan_startup_update(): the previous probe is absent or the source's own.
StartupAccepted(container) ==
  contract.startup = "given" =>
    NotNull(container["startupProbe"]) \in {"absent", "desired", "owned"}
StartupProbe(container) ==
  IF contract.startup = "given" THEN "desired" ELSE NotNull(container["startupProbe"])

\* plan_green_metadata().
PlannedContainer(container) ==
  [f \in Container |-> IF f = "startupProbe" THEN StartupProbe(container) ELSE NotNull(container[f])]
PlanAccepted(m) ==
  /\ EnvironmentAccepted(m.env)
  /\ \A f \in Container : PlannedContainer(m.fields.container)[f] # "bad"
  /\ PlannedContainer(m.fields.container)["readinessProbe"] # "absent"
  /\ m.fields.pod # "bad"
  /\ contract.material => contract.readOnly /\ contract.startup = "given"
PlanGreenMetadata(m) ==
  [plain |-> TRUE, env |-> Environment(m.env, contract.readOnly),
   container |-> PlannedContainer(m.fields.container), pod |-> NotNull(m.fields.pod),
   lifecycle |-> "preStop", image |-> "new"]

\* What actual_plan() makes of the two parts it has read.
ActualPlan(env, t) ==
  [t EXCEPT !.env = env, !.pod = NotNull(@),
            !.container = [f \in Container |-> NotNull(@[f])]]

\* verify_green_metadata() of the baseline: name by name, null and absent apart;
\* not of the lifecycle, the image and other settings.
SameMetadata(m, env, t) ==
  m.env = env /\ m.fields.container = t.container /\ m.fields.pod = t.pod
-----------------------------------------------------------------------------
(* A Deployment is read, one command after the other, by the stages that      *)
(* read.                                                                    *)

OfGreen == stage \in {"created", "green"}
Source == IF OfGreen THEN green ELSE canon.t
Reads(p) == seen.at = p /\ stage \in {"snapshot", "created", "canonical", "green", "patched"}
OnlyReads == UNCHANGED <<canon, green, contract, plan, stage, edits>>

\* read_deployment() reads the image before selected_metadata(), actual_plan()
\* after it, and both the lifecycle last.
Following == [version |-> "image", names |-> "unsafe", unsafe |-> "shape", values |-> "ports",
              ports |-> "readinessProbe", readinessProbe |-> "startupProbe",
              startupProbe |-> "pod"]
Then(p) ==
  CASE p = "image" -> (IF OfGreen THEN "lifecycle" ELSE "names")
    [] p = "pod" -> (IF OfGreen THEN "image" ELSE "lifecycle")
    [] OTHER -> Following[p]

ReadVersion ==
  /\ Reads("version") /\ OnlyReads
  /\ seen' = [seen EXCEPT !.at = "image", !.version = canon.version]

ReadImage ==
  /\ Reads("image") /\ OnlyReads
  /\ seen' = [seen EXCEPT !.at = Then("image"), !.fields.image = Source.image]

\* The names of the containers, and the fields nobody may have.
CheckPlain ==
  /\ Reads("names") \/ Reads("unsafe")
  /\ Source.plain /\ OnlyReads
  /\ seen' = [seen EXCEPT !.at = Then(seen.at), !.fields.plain = TRUE]

ShapeOf(env) == [i \in DOMAIN env |-> [name |-> env[i].name, from |-> env[i].from]]
ReadShape ==
  /\ Reads("shape") /\ EnvironmentReadable(Source.env) /\ OnlyReads
  /\ seen' = [seen EXCEPT !.at = "values", !.shape = ShapeOf(Source.env), !.env = <<>>]

\* The next entry, by its name: what has gone, or is there more than once by now,
\* makes no reference, and a value that is none.
ReadValue ==
  /\ Reads("values") /\ Len(seen.env) < Len(seen.shape) /\ OnlyReads
  /\ LET entry == seen.shape[Len(seen.env) + 1]
         Found == {i \in DOMAIN Source.env : Source.env[i].name = entry.name
                                             /\ Source.env[i].from = entry.from}
         Value(e) == seen' = [seen EXCEPT !.env = Append(seen.env, e)]
     IN \/ \E i \in Found : Found = {i} /\ Value(Source.env[i])
        \/ /\ entry.from = "literal" /\ \A i \in Found : Found # {i}
           /\ Value(Literal(entry.name, "garbled"))

ValuesRead ==
  /\ Reads("values") /\ Len(seen.env) = Len(seen.shape) /\ OnlyReads
  /\ seen' = [seen EXCEPT !.at = "ports"]

\* optional(): presence is a read of its own, and what has gone since is null.
Field(t) == IF seen.at = "pod" THEN t.pod ELSE t.container[seen.at]
Kept(value) == IF seen.at = "pod" THEN [seen.fields EXCEPT !.pod = value]
               ELSE [seen.fields EXCEPT !.container[seen.at] = value]
ReadsField == seen.at \in Container \cup {"pod"} /\ Reads(seen.at) /\ OnlyReads
FindField ==
  /\ ReadsField /\ ~seen.present
  /\ seen' = IF Field(Source) = "absent"
             THEN [seen EXCEPT !.at = Then(seen.at), !.fields = Kept("absent")]
             ELSE [seen EXCEPT !.present = TRUE]
ReadField ==
  /\ ReadsField /\ seen.present
  /\ seen' = [seen EXCEPT !.at = Then(seen.at), !.present = FALSE,
                          !.fields = Kept(IF Field(Source) = "absent" THEN "null"
                                          ELSE Field(Source))]

ReadLifecycle ==
  /\ Reads("lifecycle") /\ OnlyReads
  /\ OfGreen \/ Source.lifecycle \in {"absent", "preStop"}
  /\ seen' = [seen EXCEPT !.at = "done", !.fields.lifecycle = Source.lifecycle]

Read == \/ ReadVersion \/ ReadImage \/ CheckPlain \/ ReadShape \/ ReadValue \/ ValuesRead
        \/ FindField \/ ReadField \/ ReadLifecycle
-----------------------------------------------------------------------------
(* What is made of it.                                                      *)

\* The next stage, and where its reads begin.
Turns(from, to, first) ==
  stage = from /\ seen.at = "done" /\ stage' = to /\ seen' = [seen EXCEPT !.at = first]

\* SNAPSHOT: the baseline and the plan.
Snapshot ==
  /\ stage = "snapshot" /\ seen.at = "done" /\ stage' = "create"
  /\ LET m == [env |-> seen.env, fields |-> seen.fields] IN
       /\ StartupAccepted(m.fields.container) /\ PlanAccepted(m)
       /\ seen' = [seen EXCEPT !.baseline = m]
       /\ plan' = PlanGreenMetadata(m)
  /\ UNCHANGED <<canon, green, contract, edits>>

CreateGreen ==
  /\ Turns("create", "created", "names") /\ green' = plan
  /\ UNCHANGED <<canon, contract, plan, edits>>

\* The read-back of green against the plan, at its creation and again before
\* the mutation.
VerifyGreen ==
  /\ Turns("created", "canonical", "version") \/ Turns("green", "patch", "done")
  /\ ActualPlan(seen.env, seen.fields) = plan
  /\ UNCHANGED <<canon, green, contract, plan, edits>>

\* mutate() reads the canonical Deployment anew.
VerifyCanonical ==
  /\ Turns("canonical", "green", "names")
  /\ seen.fields.image = "old" /\ seen.fields.lifecycle = seen.baseline.fields.lifecycle
  /\ SameMetadata(seen.baseline, seen.env, seen.fields)
  /\ UNCHANGED <<canon, green, contract, plan, edits>>

Patch ==
  /\ Turns("patch", "patched", "version") /\ canon.version = seen.version
  /\ canon' = [version |-> canon.version + 1,
               t |-> [canon.t EXCEPT !.image = "new", !.lifecycle = "preStop"]]
  /\ UNCHANGED <<green, contract, plan, edits>>

\* The read-back; the metadata of the canonical Deployment is the former one.
Patched ==
  /\ Turns("patched", "done", "done") /\ seen.fields.image = "new"
  /\ seen.fields.lifecycle = "preStop" /\ SameMetadata(seen.baseline, seen.env, seen.fields)
  /\ UNCHANGED <<canon, green, contract, plan, edits>>

Refused == stage \notin {"done", "refused"} /\ stage' = "refused"
           /\ UNCHANGED <<canon, green, contract, seen, plan, edits>>

\* Others change one thing of either Deployment.
Edited(t) ==
  {[t EXCEPT !.env = Append(t.env, Reference("ENVIRONMENT"))],
   [t EXCEPT !.env = SubSeq(t.env, 1, Len(t.env) - 1)],
   [t EXCEPT !.container["ports"] = "null"], [t EXCEPT !.pod = "absent"],
   [t EXCEPT !.plain = FALSE]} \ {t}
Edit ==
  /\ edits < MaxEdits /\ edits' = edits + 1 /\ stage \notin {"done", "refused"}
  /\ \/ /\ \E t \in Edited(canon.t) : canon' = [version |-> canon.version + 1, t |-> t]
        /\ UNCHANGED green
     \/ green # Nothing /\ green' \in Edited(green) /\ UNCHANGED canon
  /\ UNCHANGED <<contract, seen, plan, stage>>

MetadataNext ==
  \/ Read
  \/ Snapshot \/ CreateGreen \/ VerifyGreen \/ VerifyCanonical \/ Patch \/ Patched
  \/ Refused \/ Edit

MetadataSpec == MetadataInit /\ [][MetadataNext]_metadataVars
-----------------------------------------------------------------------------
\* What a plan owes the Deployment it replaces: its references, its environment
\* name and every field that was set, nothing that was null, one value for each
\* name, no literal that is not a flag; and a green one is in standby.
EntriesOf(env, from) == {e \in ToSet(env) : e.from = from}
Stands(p, t) ==
  /\ \A i, j \in DOMAIN p.env : i # j => p.env[i].name # p.env[j].name
  /\ EntriesOf(p.env, "reference") = EntriesOf(t.env, "reference")
  /\ Literal("STANDBY", "true") \in ToSet(p.env)
  /\ contract.readOnly <=> \E e \in ToSet(p.env) : e.name = "READ_ONLY"
  /\ \A e \in EntriesOf(p.env, "literal") \cup EntriesOf(t.env, "literal") :
       e.name = "ENVIRONMENT" => e \in ToSet(p.env) \cap ToSet(t.env)
  /\ \A f \in Container \ {"startupProbe"} :
       p.container[f] = (IF t.container[f] = "null" THEN "absent" ELSE t.container[f])
  /\ p.container["startupProbe"] =
       (IF contract.startup = "given" THEN "desired"
        ELSE IF t.container["startupProbe"] = "null" THEN "absent" ELSE t.container["startupProbe"])
  /\ p.pod = (IF t.pod = "null" THEN "absent" ELSE t.pod)
  /\ "bad" \notin {p.container[f] : f \in Container}

\* However others interleave with the reads, the canonical Deployment is patched
\* only when green was planned from what it is at that very moment; the patch
\* leaves its metadata alone.  So is green when it is created, from what was read.
ReplacesWhatWasPlanned ==
  [][/\ stage = "patch" /\ stage' = "patched" =>
          /\ Stands(plan, canon.t) /\ plan.image = "new"
          /\ SameMetadata(seen.baseline, canon'.t.env, canon'.t)
     /\ stage = "create" /\ stage' = "created" =>
          Stands(green', [seen.baseline.fields EXCEPT !.env = seen.baseline.env])]_metadataVars
=============================================================================
