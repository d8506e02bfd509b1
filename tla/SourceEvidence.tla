--------------------------- MODULE SourceEvidence ---------------------------
(***************************************************************************)
(* Four programs that put a revision's name on what they have read:        *)
(* verify_release_source of offline_release_source.py, prepare of          *)
(* preserve_validation_evidence.py, retain of                              *)
(* retain_workflows_test_evidence.py and main of                           *)
(* retain_fdm_journal_focused.py.  Others may change the checkout and the  *)
(* remote between any two reads; what has left the expected state does not *)
(* return while the program runs.                                          *)
(*                                                                         *)
(* Every check, quota and call may refuse.  Definitions named              *)
(* <Definition>_<slip> are the definition they precede with a plausible    *)
(* slip in it; nothing uses them.                                          *)
(***************************************************************************)
EXTENDS Naturals, Sequences

VARIABLES
  left,    \* what is no longer as expected
  program, \* which one runs
  turn,    \* its next step
  tainted, \* what was no longer as expected when something was read
  binding, \* what it has written about what it read; of prepare, once it is an output
  exit

evidenceVars == <<left, program, turn, tainted, binding, exit>>

Programs == {"release", "prepare", "workflows", "focused"}
Facts == {"head", "controls", "clean", "origin", "remote"}
Readings == {"remote", "reports", "settings", "binaries", "sources", "inputs", "pins"}

\* The steps of each, in their order.
Plan_once(p) ==
  CASE p = "release" -> <<"head", "clean", "origin", "remote", "bind">>
    [] p = "prepare" -> <<"head", "reports", "settings", "binaries", "sources", "bind">>
    [] p = "workflows" -> <<"head", "controls", "mkdir", "reports", "inputs", "bind">>
    [] p = "focused" -> <<"head", "clean", "mkdir", "reports", "pins", "bind">>
VerifyReleaseSource ==
  <<"head", "clean", "origin", "remote", "head", "clean", "origin", "bind">>
PrepareEvidence ==
  <<"head", "reports", "settings", "binaries", "sources", "head", "mkdir", "bind">>
RetainWorkflows ==
  <<"head", "controls", "mkdir", "reports", "inputs", "head", "controls", "bind">>
RetainFocused == <<"head", "clean", "mkdir", "reports", "pins", "head", "bind">>
Plan(p) == CASE p = "release" -> VerifyReleaseSource
             [] p = "prepare" -> PrepareEvidence
             [] p = "workflows" -> RetainWorkflows
             [] p = "focused" -> RetainFocused

\* What the document of each says of the source.
Claims(p) == CASE p = "release" -> {"head", "clean", "origin", "remote"}
               [] p = "prepare" -> {"head"}
               [] p = "workflows" -> {"head", "controls"}
               [] p = "focused" -> {"head"}

EvidenceTypeOK ==
  /\ left \subseteq Facts /\ tainted \subseteq Facts /\ program \in Programs
  /\ turn \in 1..8
  /\ binding \in {"none", "torn", "unavailable", "partial", "bound"}
  /\ exit \in {"running", "ok", "failed"}

EvidenceInit ==
  /\ left \in SUBSET Facts /\ program \in Programs
  /\ turn = 1 /\ tainted = {} /\ binding = "none" /\ exit = "running"
-----------------------------------------------------------------------------
Now(step) == exit = "running" /\ Plan(program)[turn] = step
Proceeds == turn' = turn + 1 /\ UNCHANGED <<program, binding, exit>>

\* rev-parse HEAD, status, remote get-url: the fact at this moment.
ObserveFact(fact) ==
  /\ Now(fact) /\ fact \notin left
  /\ tainted' = (IF fact \in Readings THEN tainted \cup left ELSE tainted)
  /\ Proceeds /\ UNCHANGED left

ReadInput(what) ==
  /\ Now(what)
  /\ tainted' = tainted \cup left
  /\ Proceeds /\ UNCHANGED left

MakeTarget == Now("mkdir") /\ Proceeds /\ UNCHANGED <<left, tainted>>

\* The document is the last thing to be written; where a report is missing it
\* says so and the program fails.
Bind ==
  /\ Now("bind")
  /\ \/ binding' = "bound" /\ exit' = "ok"
     \/ program \in {"prepare", "workflows"} /\ binding' = "partial" /\ exit' = "failed"
  /\ UNCHANGED <<left, program, turn, tainted>>

\* Only the focused retention, once it has its target and its metadata, says so
\* in a document that replaces the one it was writing.
Targeted == \E i \in 1..(turn - 1) : Plan(program)[i] = "mkdir"
Refuse ==
  /\ exit = "running" /\ exit' = "failed"
  /\ IF program = "focused" /\ Targeted THEN binding' \in {"none", "unavailable", "torn"}
     ELSE IF Now("bind") THEN binding' \in {"none", "torn"} ELSE UNCHANGED binding
  /\ UNCHANGED <<left, program, turn, tainted>>

Leave == \E fact \in Facts \ left : left' = left \cup {fact}
         /\ UNCHANGED <<program, turn, tainted, binding, exit>>

EvidenceNext ==
  \/ \E fact \in Facts : ObserveFact(fact)
  \/ \E what \in Readings \ {"remote"} : ReadInput(what)
  \/ MakeTarget \/ Bind \/ Refuse \/ Leave
EvidenceSpec == EvidenceInit /\ [][EvidenceNext]_evidenceVars
-----------------------------------------------------------------------------
\* What a document says of the source was so, all of it at once, whenever
\* something was read for it: the checkout was not moved under the reading of a
\* report, and the release's checkout was clean, at the commit and with the
\* origin at the moment the remote's main was that commit.  A program that
\* fails leaves no document that claims to be complete.
BindsWhatWas ==
  /\ binding \in {"bound", "partial"} => tainted \cap Claims(program) = {}
  /\ exit = "failed" => binding # "bound"
=============================================================================
