----------------------------- MODULE TestReport -----------------------------
(***************************************************************************)
(* What is kept of a test report: trx_roster and outcome_trx of            *)
(* preserve_validation_evidence.py, transform of                           *)
(* retain_fdm_journal_focused.py and python_diagnostics of                 *)
(* retain_workflows_test_evidence.py, each one pass over a report anybody  *)
(* may have written, against what an exact report is.  Of a report without *)
(* a roster, outcome_trx keeps outcomes only; that is left out.            *)
(*                                                                         *)
(* Definitions named <Definition>_<slip> are the definition they precede   *)
(* with a plausible slip in it; nothing uses them.                         *)
(***************************************************************************)
EXTENDS Naturals, FiniteSets, SequencesExt

CONSTANTS Names,   \* the controls python_diagnostics expects
          MaxLines \* bound: lines of a diagnostic

VARIABLES
  report, \* the report, or the lines of the diagnostic
  kept    \* what was kept of it: what it is known as, "nothing", or "unread"

reportVars == <<report, kept>>

\* A case is known by its id, its execution and its display name; ids and
\* methods alone do not tell the rows of a theory apart.
Ids == {1, 2}
Displays == {"a", "b"}
Definition == [id : Ids, exec : Ids, name : Displays]
Entry == [id : Ids, exec : Ids]

\* Of the twelve outcomes a result may have, "Error" stands for the nine that
\* no counter is compared with; of the sixteen counters a report may give, or
\* leave out, "executed" and "error" stand for the twelve that are not compared.
Outcomes == {"Passed", "Failed", "NotExecuted", "Error"}
CounterNames == {"total", "passed", "failed", "notExecuted", "executed", "error"}
Result == [id : Ids, exec : Ids, name : Displays, outcome : Outcomes \cup {"unknown"}]
Counted(results, outcome) == Cardinality({i \in DOMAIN results : results[i].outcome = outcome})
OwnCounters(results) ==
  [total |-> Len(results), passed |-> Counted(results, "Passed"),
   failed |-> Counted(results, "Failed"), notExecuted |-> Counted(results, "NotExecuted")]
Trx(d, e, r, c) == [kind |-> "trx", definitions |-> d, entries |-> e, results |-> r,
                    counters |-> c]

First == [id |-> 1, exec |-> 1, name |-> "a"]
Row(d) == [id |-> d.id, exec |-> d.exec]
Outcome(d, o) == [id |-> d.id, exec |-> d.exec, name |-> d.name, outcome |-> o]

\* Any two cases that passed or failed, with their own counters; one case of any
\* outcome and any counters, given or left out; any number of rows and a total;
\* any lines.
ReportInit ==
  /\ kept = "unread"
  /\ \/ \E d \in Definition, e1, e2 \in Entry :
          \E r1, r2 \in {r \in Result : r.outcome \in {"Passed", "Failed"}} :
            report = Trx(<<First, d>>, <<e1, e2>>, <<r1, r2>>, OwnCounters(<<r1, r2>>))
     \/ \E o \in Outcomes \cup {"unknown"}, given \in SUBSET (CounterNames \cup {"unknown"}) :
          \E c \in [given -> {0, 1}] :
            report = Trx(<<First>>, <<Row(First)>>, <<Outcome(First, o)>>, c)
     \/ \E d, e, r, t \in 0..2 :
          report = Trx([i \in 1..d |-> First], [i \in 1..e |-> Row(First)],
                       [i \in 1..r |-> Outcome(First, "Passed")], [total |-> t])
     \/ \E n \in 0..MaxLines :
          \E lines \in [1..n -> Names \cup {"unknown", "ran", "OK", "rule", "blank"}] :
            report = [kind |-> "python", lines |-> lines]
-----------------------------------------------------------------------------
\* A loop that requires something of each row in turn, and of those before it.
Before(rows, i) == {rows[j] : j \in 1..(i - 1)}

Definitions(rows) ==
  \A i \in DOMAIN rows : \A d \in Before(rows, i) : d.id # rows[i].id /\ d.exec # rows[i].exec

Joins(row, definitions) == \E d \in ToSet(definitions) : d.id = row.id /\ d.exec = row.exec
Fresh(rows, i) == \A row \in Before(rows, i) : row.id # rows[i].id

Displayed(row, definitions) ==
  \A d \in ToSet(definitions) : d.id = row.id => d.name = row.name

TrxRoster(trx) ==
  /\ Len(trx.definitions) > 0
  /\ Len(trx.entries) = Len(trx.definitions) /\ Len(trx.results) = Len(trx.definitions)
  /\ Definitions(trx.definitions)
  /\ \A i \in DOMAIN trx.entries :
       Joins(trx.entries[i], trx.definitions) /\ Fresh(trx.entries, i)
  /\ \A i \in DOMAIN trx.results :
       /\ Joins(trx.results[i], trx.definitions) /\ Fresh(trx.results, i)
       /\ Displayed(trx.results[i], trx.definitions)

Compared == [passed |-> "Passed", failed |-> "Failed", notExecuted |-> "NotExecuted"]

\* The total must be there; three others are compared where they are.
CountersAdmitted(counters, results) ==
  /\ DOMAIN counters \subseteq CounterNames
  /\ "total" \in DOMAIN counters /\ counters["total"] = Len(results)
  /\ \A c \in DOMAIN Compared :
       c \in DOMAIN counters => counters[c] = Counted(results, Compared[c])

OutcomeTrx(trx) ==
  /\ TrxRoster(trx)
  /\ \A i \in DOMAIN trx.results : trx.results[i].outcome \in Outcomes
  /\ CountersAdmitted(trx.counters, trx.results)

\* transform(): the one case, passed, with every counter.
Focused(trx) ==
  /\ Len(trx.definitions) = 1 /\ Len(trx.results) = 1 /\ Len(trx.entries) = 1
  /\ trx.results[1].outcome = "Passed"
  /\ trx.counters = [c \in CounterNames |-> IF c \in {"total", "executed", "passed"} THEN 1 ELSE 0]
  /\ OutcomeTrx(trx)

\* Each line is one of those that may be there, a control for the first time.
Rest == {"ran", "OK", "rule", "blank"}
Controls(lines) ==
  \A i \in DOMAIN lines :
    \/ lines[i] \in Names /\ lines[i] \notin Before(lines, i)
    \/ lines[i] \in Rest
Lines(lines, line) == {i \in DOMAIN lines : lines[i] = line}

\* rstrip() leaves a rule where it is.
EndsWithOK(lines) ==
  \E i \in DOMAIN lines :
    lines[i] = "OK" /\ \A j \in (i + 1)..Len(lines) : lines[j] = "blank"
PythonDiagnostics(lines) ==
  /\ Controls(lines) /\ Names \subseteq ToSet(lines)
  /\ Cardinality(Lines(lines, "ran")) = 1 /\ Cardinality(Lines(lines, "OK")) = 1
  /\ EndsWithOK(lines)

Keep ==
  /\ kept = "unread"
  /\ kept' = IF report.kind = "python"
             THEN IF PythonDiagnostics(report.lines) THEN "diagnostic" ELSE "nothing"
             ELSE IF Focused(report) THEN "focused"
             ELSE IF OutcomeTrx(report) THEN "roster" ELSE "nothing"
  /\ UNCHANGED report
ReportNext == Keep

ReportSpec == ReportInit /\ [][ReportNext]_reportVars
-----------------------------------------------------------------------------
\* An exact report: some numbering of its rows makes the i-th entry and the
\* i-th result those of the i-th definition, all of them different cases; it
\* gives the number of its results, and what it says of how many passed, failed
\* or were not executed is so.  Of its other counters nothing is asked.
Numberings(n) == {f \in [1..n -> 1..n] : \A i, j \in 1..n : i # j => f[i] # f[j]}
Exact(trx) ==
  LET n == Len(trx.definitions)
      case(i) == trx.definitions[i]
  IN /\ n > 0 /\ n = Len(trx.entries) /\ n = Len(trx.results)
     /\ Cardinality({case(i).id : i \in 1..n}) = n
     /\ Cardinality({case(i).exec : i \in 1..n}) = n
     /\ \E f, g \in Numberings(n) : \A i \in 1..n :
          /\ trx.entries[f[i]] = Row(case(i))
          /\ \E o \in Outcomes : trx.results[g[i]] = Outcome(case(i), o)
     /\ "total" \in DOMAIN trx.counters /\ DOMAIN trx.counters \subseteq CounterNames
     /\ LET own == OwnCounters(trx.results) IN
          \A c \in DOMAIN trx.counters \cap DOMAIN own : trx.counters[c] = own[c]

\* What is kept of a report is kept of an exact one, every result being that of
\* its own case even where cases share ids, executions or names, and the counters
\* that are compared being right (the others are kept as they are); the focused
\* retention keeps one passed case; and a diagnostic names every control once,
\* and ends well.  Nothing exact is refused.
Spoken(lines) == {i \in DOMAIN lines : lines[i] \notin {"rule", "blank"}}
KeepsExactly ==
  CASE kept = "roster" -> Exact(report)
    [] kept = "focused" -> Exact(report) /\ Counted(report.results, "Passed") = 1
    [] kept = "diagnostic" ->
         LET spoken == Spoken(report.lines) IN
           /\ {report.lines[i] : i \in spoken} = Names \cup {"ran", "OK"}
           /\ Cardinality(spoken) = Cardinality(Names) + 2
           /\ \E i \in spoken : report.lines[i] = "OK" /\ \A j \in spoken : j <= i
    [] kept = "nothing" /\ report.kind = "trx" -> ~Exact(report)
    [] OTHER -> TRUE
=============================================================================
