------------------------------- MODULE MCTools -------------------------------
(***************************************************************************)
(* The tools of the repository that share no state, each with the world it *)
(* runs in, checked in one run: `part' chooses one of them, the others     *)
(* stay where they are.  The owned native command and the evidence keep    *)
(* the names of their modules.                                             *)
(***************************************************************************)
EXTENDS OwnedNativeCommand, SourceEvidence

CONSTANTS LastTime,                                                 \* of a stage
          JobTime, Reserve, Tolerance, PermitTime, ActiveTime, MaxTime,
          Chunks, Limit, MaxWrites,                                 \* of the reads
          Names, MaxLines,                                          \* of a report
          MaxEdits, EditedFrom                                      \* of Deployments

\* Times are counted in whole units; of their sizes nothing is assumed.  No
\* control has the name of another line of a diagnostic.
ASSUME ToolsAssumption ==
  /\ JobTime \in Nat /\ Reserve \in Nat /\ Tolerance \in Nat
  /\ PermitTime \in Nat /\ ActiveTime \in Nat /\ MaxTime \in Nat
  /\ LastTime \in Nat
  /\ Names \cap {"ran", "OK", "rule", "blank"} = {}

VARIABLES
  part,
  raw, evidence,
  time, machine, record, owner, grant,
  lease, kit, sdk, cache, step, first, quarantined, git, boot, receipt,
  file, held, chunks, read, pipes, output, done, invalid, thread, gitChild, got,
  trx, keptOf,
  canon, green, contract, readback, plan, stage, edits

Lifecycle == INSTANCE StageLifecycle
Clock == INSTANCE JobClock WITH lease <- grant
Hosted == INSTANCE HostedStatic WITH failure <- first, report <- receipt
Bounded == INSTANCE BoundedReads WITH pipe <- pipes, child <- gitChild
Report == INSTANCE TestReport WITH report <- trx, kept <- keptOf
Metadata == INSTANCE GreenMetadata WITH seen <- readback

lifecycle == <<raw, evidence>>
clock == <<time, machine, record, owner, grant>>
hosted == <<lease, kit, sdk, cache, step, first, quarantined, git, boot, receipt>>
reads == <<file, held, chunks, read, pipes, output, done, invalid, thread, gitChild, got>>
report == <<trx, keptOf>>
metadata == <<canon, green, contract, readback, plan, stage, edits>>

\* The environments of the run beside which others change a Deployment.
MCEditedFrom ==
  {<<[name |-> "SECRET", from |-> "reference", value |-> "key"],
     [name |-> "ENVIRONMENT", from |-> "literal", value |-> "Production"]>>}

\* A part that is not chosen stays in an initial state, or in no state at all.
NotChosen(p) == part # p
ToolsInit ==
  /\ part \in {"command", "lifecycle", "clock", "hosted", "evidenceVars", "reads", "report", "metadata"}
  /\ Fresh
  /\ IF NotChosen("lifecycle") THEN raw = "none" /\ evidence = "none"
     ELSE Lifecycle!LifecycleInit
  /\ IF NotChosen("clock")
     THEN time = 0 /\ machine = "none" /\ record = "none"
          /\ owner = Clock!NoOwner /\ grant = Clock!NoLease
     ELSE Clock!ClockInit
  /\ Hosted!HostedInit
  /\ NotChosen("hosted") => kit = "sealed" /\ sdk = Hosted!Absent /\ cache = FALSE
  /\ EvidenceInit
  /\ NotChosen("evidenceVars") => left = {} /\ program = "release"
  /\ Bounded!ReadInit
  /\ NotChosen("reads") => read = "open"
  /\ IF NotChosen("report") THEN trx = "none" /\ keptOf = "unread" ELSE Report!ReportInit
  /\ IF NotChosen("metadata")
     THEN /\ canon = "none" /\ green = "none" /\ contract = "none" /\ readback = "none"
          /\ plan = "none" /\ stage = "none" /\ edits = 0
     ELSE Metadata!MetadataInit

ToolsNext ==
  \/ /\ part = "command" /\ Next
     /\ UNCHANGED <<lifecycle, clock, hosted, evidenceVars, reads, report, metadata, part>>
  \/ /\ part = "lifecycle" /\ Lifecycle!LifecycleNext
     /\ UNCHANGED <<commandVars, clock, hosted, evidenceVars, reads, report, metadata, part>>
  \/ /\ part = "clock" /\ Clock!ClockNext
     /\ UNCHANGED <<commandVars, lifecycle, hosted, evidenceVars, reads, report, metadata, part>>
  \/ /\ part = "hosted" /\ Hosted!HostedNext
     /\ UNCHANGED <<commandVars, lifecycle, clock, evidenceVars, reads, report, metadata, part>>
  \/ /\ part = "evidenceVars" /\ EvidenceNext
     /\ UNCHANGED <<commandVars, lifecycle, clock, hosted, reads, report, metadata, part>>
  \/ /\ part = "reads" /\ Bounded!ReadNext
     /\ UNCHANGED <<commandVars, lifecycle, clock, hosted, evidenceVars, report, metadata, part>>
  \/ /\ part = "report" /\ Report!ReportNext
     /\ UNCHANGED <<commandVars, lifecycle, clock, hosted, evidenceVars, reads, metadata, part>>
  \/ /\ part = "metadata" /\ Metadata!MetadataNext
     /\ UNCHANGED <<commandVars, lifecycle, clock, hosted, evidenceVars, reads, report, part>>

toolsVars == <<commandVars, lifecycle, clock, hosted, evidenceVars, reads, report, metadata, part>>

\* Of the parts only the command has fairness, that of its FairSpec.
ToolsSpec ==
  /\ ToolsInit /\ [][ToolsNext]_toolsVars
  /\ WF_commandVars(part = "command" /\ Invocation)
  /\ WF_commandVars(part = "command" /\ TimePasses)
-----------------------------------------------------------------------------
\* Evidence that verifies is of one stage.
NoMixVerifies == Lifecycle!NoMixVerifies

\* What is granted ends inside the job, whatever one clock does.
GrantsInsideJob == Clock!GrantsInsideJob

\* The hosted suite ends with nothing of its own running, reports what was, and
\* never touches the SDK of another.
CleansOnlyOwn == Hosted!CleansOnlyOwn

\* What is returned of a file or a child, and what is kept of a report, is all of
\* it and as it was.
ReadsExactly == Bounded!ReadsAreWhole /\ Report!KeepsExactly

\* The canonical Deployment is patched only when green was planned from it.
ReplacesWhatWasPlanned == Metadata!ReplacesWhatWasPlanned
=============================================================================
