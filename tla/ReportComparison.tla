-------------------------- MODULE ReportComparison --------------------------
(***************************************************************************)
(* From measured runs to a comparison of two reports.  The runs of a side    *)
(* (the old report, then the new one) are aggregated into rows, written with *)
(* a verdict on their validity, merged when every client ran in a process of *)
(* its own, read back by a later invocation that judges them again, and      *)
(* compared row by row.  A report may have been written by an earlier        *)
(* release of the harness, and what happened to a run (an error, a bypassed  *)
(* proxy, a recovery that failed, a case without evidence) must keep every   *)
(* comparison from drawing a strong conclusion.                              *)
(*                                                                         *)
(* A rate is a whole number: requests that succeeded times the speed of the  *)
(* run.  How the merge is published is the subject of IsolationRun.          *)
(***************************************************************************)
EXTENDS Integers, FiniteSets, Sequences, FiniteSetsExt, SequencesExt

CONSTANTS
  Suites,      \* suites, and the two research profiles of response-streaming
  Clients,     \* clients, in the order of their names
  Selected,    \* [suite -> the clients selected for it]
  Focus,       \* --focus-client
  Repeats,     \* [suite -> --repeats, of a research profile its fresh cases]
  Requests,    \* --requests
  Fast, Slow,  \* speeds of a run
  Absent,      \* a value that is not recorded
  Refused,     \* a report or a comparison that is refused
  MaxDepartures  \* bound: departures from a nominal measurement

ASSUME ComparisonAssumption ==
  /\ Suites \subseteq {"requests", "resource", "proxy", "streaming", "lifecycle", "attribution"}
  /\ Clients \in Seq(ToSet(Clients))
  /\ \A su \in Suites : Focus \in Selected[su] /\ Selected[su] \subseteq ToSet(Clients)
  /\ Repeats \in [Suites -> Nat \ {0}] /\ Requests \in Nat \ {0}
  /\ Fast \in Nat \ {0} /\ Slow \in Nat \ {0} /\ MaxDepartures \in Nat

VARIABLES
  suite,
  side,        \* "old", "new", then "compare" and "done"
  isolated,    \* --isolation: does every client of this side run in a child?
  legacy,      \* [side -> clients measured by an earlier release]
  ran,         \* [side -> [task -> outcome]]
  lost,        \* [side -> clients whose child failed, or whose cases were not all run]
  written,     \* reports of this side's processes
  report,      \* [side -> the report the comparison reads]
  harness, source,  \* [side -> identity], of attribution
  restricted,  \* [side -> has a recorded verdict restricted the report?]
  axis,        \* --comparison-axis, which only an async-bytes report looks at
  result,
  departures

vars == <<suite, side, isolated, legacy, ran, lost, written, report, harness, source,
          restricted, axis, result, departures>>

Sides == {"old", "new"}
Types == {"PoolTimeout", "LineTooLong", "RuntimeError", "check_failed", "bypass", "activity"}
None == [t \in Types |-> 0]

(* A case through a tunnel only differs in how its use of the proxy is seen. *)
CasesOf == [requests |-> {"json-small", "delay-20ms"}, resource |-> {"pool-timeout-recovery", "recovery"},
            proxy |-> {"direct", "http"}, streaming |-> {"long-line-1m", "chunks"},
            lifecycle |-> {"stream-1m"}, attribution |-> {"stream-1m"}]

(* uses_streaming_profile: the suites that are a research profile. *)
Research == {"lifecycle", "attribution"}
Measured(su) == IF su = "resource" THEN {Focus} ELSE Selected[su]
Tasks(su) == [client : Measured(su), case : CasesOf[su], repeat : 1..Repeats[su]]

Total(errors) == SumFunctionOnSet(errors, Types)

(***************************************************************************)
(* Runs.                                                                     *)
(***************************************************************************)
(* EXPECTED_RESOURCE_ERRORS: the errors a pressure scenario is there for. *)
ExpectedTypes(su, case) ==
    IF su = "resource" /\ case = "pool-timeout-recovery" THEN {"PoolTimeout"} ELSE {}

(* ProxyConnectCase.uses_proxy. *)
UsesProxy(su, case) == su = "proxy" /\ case # "direct"

Nominal(su, t, pid) ==
    LET pressed == Cardinality(ExpectedTypes(su, t.case)) IN
    [ok |-> Requests - pressed, errors |-> [None EXCEPT !["PoolTimeout"] = pressed], warm |-> None,
     proxied |-> IF UsesProxy(su, t.case) THEN Requests ELSE 0,
     recovered |-> TRUE, sampled |-> TRUE, speed |-> Fast, flaws |-> {}, pid |-> pid,
     child |-> [succeeded |-> TRUE, provenance |-> "wheel"]]

(* A request of the run, or of its warm-up, fails. *)
OneFails(o, e) == [o EXCEPT !.ok = @ - 1, !.errors[e] = @ + 1]
AllFail(o, e) == [o EXCEPT !.ok = 0, !.errors[e] = @ + o.ok]
ErrorsOf(su) ==
    CASE su = "resource" -> {"PoolTimeout", "check_failed"}
      [] su = "streaming" -> {"LineTooLong", "check_failed"}
      [] su = "requests" -> {"RuntimeError", "check_failed"}
      [] OTHER -> {"check_failed"}

(* run_proxy_connect_case: when the proxy saw other requests than the case *)
(* declares, all of them are errors, besides those that failed by          *)
(* themselves.                                                             *)
Misused(su, t, o) ==
    {[o EXCEPT !.proxied = n, !.ok = 0,
               !.errors[IF UsesProxy(su, t.case) THEN "bypass" ELSE "activity"] = Requests] :
        n \in IF UsesProxy(su, t.case) THEN {0, Requests - 1} ELSE {Requests}}

(* What can be wrong with the evidence of a fresh case, and the verdict *)
(* on it: of both research profiles, and of async-bytes alone.          *)
CaseFlaws == [failed |-> "invalid", identity |-> "invalid", samples |-> "invalid",
              control |-> "invalid", abort |-> "invalid"]
WindowFlaws == [short |-> "needs-rerun", integrity |-> "invalid", health |-> "invalid",
                diagnostic |-> "needs-rerun", conditions |-> "invalid"]
ResourceFlaws == [cpu |-> "needs-rerun", overhead |-> "needs-rerun"]
FlawsOf(su) ==
    (IF su \in Research THEN DOMAIN CaseFlaws \cup {"configuration"} ELSE {})
    \cup (IF su = "attribution" THEN DOMAIN WindowFlaws \cup DOMAIN ResourceFlaws ELSE {})

(* What happens to a fresh case: the client of a failed one may have exited  *)
(* with 0 and a report all the same.                                       *)
CaseDeparted(su, o) ==
    {[o EXCEPT !.flaws = {f}] : f \in FlawsOf(su)}
    \cup {[o EXCEPT !.flaws = {"failed"}, !.child.succeeded = FALSE]}
    \cup {[o EXCEPT !.child.provenance = p] : p \in {"other", Absent}}
    \cup {[o EXCEPT !.pid = 1]}

Departed(su, t, pid) ==
    LET o == Nominal(su, t, pid)
        failing == {OneFails(o, e) : e \in ErrorsOf(su)} \cup {AllFail(o, "check_failed")}
    IN  {[o EXCEPT !.speed = Slow]}
        \cup (IF su \in Research THEN CaseDeparted(su, o)
              ELSE failing \cup {[o EXCEPT !.warm[e] = 1] : e \in ErrorsOf(su)}
                           \cup {[o EXCEPT !.sampled = FALSE]})
        \cup (IF su = "resource" THEN {[o EXCEPT !.recovered = FALSE]} ELSE {})
        \cup (IF su = "proxy" THEN UNION {Misused(su, t, f) : f \in {o} \cup failing} ELSE {})

(***************************************************************************)
(* Rows.                                                                     *)
(***************************************************************************)
Scope(old) == IF old THEN "sampler-inclusive-v1" ELSE "load-only-v2"

(* Twice the median of a sequence. *)
Median2(s) == LET o == SortSeq(s, <) n == Len(s) IN o[(n + 1) \div 2] + o[n \div 2 + 1]

(* coefficient_of_variation: is the deviation above p percent of the mean? *)
VariesBy(s, least, p) ==
    LET n == Len(s)
        sum == FoldSeq(LAMBDA x, y : x + y, 0, s)
        squares == FoldSeq(LAMBDA x, y : (n * x - sum) * (n * x - sum) + y, 0, s)
    IN  n >= least /\ 10000 * squares > p * p * (n - 1) * sum * sum

(* resource_coverage: the runs that observed the metric. *)
ResourceCoverage(its) == [available |-> Cardinality({i \in its : i.out.sampled}), expected |-> Cardinality(its)]

Sum(its, F(_)) == SumFunction([i \in its |-> F(i.out)])
ByType(its, F(_)) == [e \in Types |-> Sum(its, LAMBDA o : F(o)[e])]

(* A row without the fields of its suite. *)
PlainRow(c, k, old, its) ==
    LET errors == ByType(its, LAMBDA o : o.errors)
        warm == ByType(its, LAMBDA o : o.warm)
        order == SetToSortSeq(its, LAMBDA i, j : i.repeat < j.repeat)
        speeds == [n \in DOMAIN order |-> order[n].out.speed]
    IN  [client |-> c, case |-> k, scope |-> Scope(old), repeats |-> Cardinality(its),
         ok |-> Sum(its, LAMBDA o : o.ok), errors |-> Total(errors), types |-> errors,
         warmErrors |-> Total(warm), warmTypes |-> warm, speeds |-> speeds,
         rate |-> Median2([n \in DOMAIN order |-> order[n].out.ok * order[n].out.speed]),
         coverage |-> ResourceCoverage(its), failures |-> {}, proxied |-> 0,
         flaws |-> {}]

ResourceRow(row, its) == [row EXCEPT !.failures = {i \in its : ~i.out.recovered}, !.rate = row.ok]
ProxyRow(row, its) == [row EXCEPT !.proxied = Max({i.out.proxied : i \in its})]

(* aggregate_case: a row of fresh cases tells what is missing in any of     *)
(* them, and has no rate when none of them has measured one.               *)
ResearchRow(row, its) ==
    [row EXCEPT !.flaws = UNION {i.out.flaws : i \in its},
                !.rate = IF \A i \in its : "failed" \in i.out.flaws THEN Absent ELSE @]

(* The rows of the tasks T of one side. *)
Rows(T, runs, old) ==
    {LET its == {[repeat |-> t.repeat, out |-> runs[t]] : t \in {u \in T : u.client = key[1] /\ u.case = key[2]}}
         row == PlainRow(key[1], key[2], old, its)
     IN  CASE suite = "resource" -> ResourceRow(row, its)
           [] suite = "proxy" -> ProxyRow(row, its)
           [] suite \in Research -> ResearchRow(row, its)
           [] OTHER -> row
       : key \in {<<t.client, t.case>> : t \in T}}

(* aggregate_identity, with streaming_dimensions. *)
Identity(row) == IF suite = "streaming" THEN <<row.client, row.case, row.scope>> ELSE <<row.client, row.case>>

(***************************************************************************)
(* Validity.                                                                 *)
(***************************************************************************)
Statuses == <<"valid", "warning", "needs-rerun", "invalid">>
Severity(s) == CHOOSE i \in DOMAIN Statuses : Statuses[i] = s
CombinedStatus(S) == Statuses[Max({1} \cup {Severity(s) : s \in S})]

Reason(status, code, row) == [status |-> status, code |-> code, row |-> row]
RowReason(status, code, row) == {Reason(status, code, <<row.client, row.case>>)}
Whole(status, code) == {Reason(status, code, <<>>)}

AllowComparison(reasons) ==
    \A r \in reasons : r.status \in {"valid", "warning"} /\ r.code # "expected_compatibility_failure"

(* A faulty UnexpectedErrors: an expected error counts as well. *)
EveryError(row, errors, types) == errors

(* unexpected_error_count. *)
UnexpectedErrors(row, errors, types) ==
    IF Total(types) # errors THEN errors
    ELSE errors - SumFunctionOnSet(types, ExpectedTypes(suite, row.case))

(* EXPECTED_COMPATIBILITY_FAILURES of the suites here; the second one is of *)
(* the warm-up alone.                                                      *)
CompatibilityFailures == {
    [suite |-> "streaming", client |-> "aiohttp", cases |-> {"long-line-1m"},
     types |-> {"LineTooLong"}, fields |-> {"run", "warm-up"}],
    [suite |-> "requests", client |-> "zapros-pyreqwest", cases |-> {"json-small", "delay-20ms"},
     types |-> {"RuntimeError"}, fields |-> {"warm-up"}]}

(* compatibility_error_types. *)
CompatibilityTypes(row, field) ==
    UNION {f.types : f \in {g \in CompatibilityFailures :
              g.suite = suite /\ g.client = row.client /\ row.case \in g.cases /\ field \in g.fields}}

(* compatibility_expected_error_count. *)
CompatibilityErrors(row, field, errors, types) ==
    IF Total(types) # errors THEN 0 ELSE SumFunctionOnSet(types, CompatibilityTypes(row, field))

(* compatibility_failure_reasons: known, and no base for a comparison. *)
CompatibilityReasons(row) ==
    IF \/ \E t \in CompatibilityTypes(row, "run") : row.types[t] > 0
       \/ \E t \in CompatibilityTypes(row, "warm-up") : row.warmTypes[t] > 0
    THEN RowReason("warning", "expected_compatibility_failure", row) ELSE {}

(* has_proxy_bypass_errors. *)
Bypassed(row) == row.types["bypass"] > 0

(* A faulty ErrorReasons: errors of the warm-up are not looked at. *)
MeasuredErrorReasons(row) ==
    (IF /\ UnexpectedErrors(row, row.errors, row.types) > CompatibilityErrors(row, "run", row.errors, row.types)
        /\ ~(suite = "proxy" /\ Bypassed(row))
     THEN RowReason("needs-rerun", "unexpected_measured_errors", row) ELSE {})
    \cup CompatibilityReasons(row)

(* error_reasons: errors nobody expects, of the runs and of the warm-up. *)
ErrorReasons(row) ==
    (IF /\ UnexpectedErrors(row, row.errors, row.types) > CompatibilityErrors(row, "run", row.errors, row.types)
        /\ ~(suite = "proxy" /\ Bypassed(row))
     THEN RowReason("needs-rerun", "unexpected_measured_errors", row) ELSE {})
    \cup (IF UnexpectedErrors(row, row.warmErrors, row.warmTypes)
             > CompatibilityErrors(row, "warm-up", row.warmErrors, row.warmTypes)
          THEN RowReason("needs-rerun", "unexpected_warmup_errors", row) ELSE {})
    \cup CompatibilityReasons(row)

(* zero_primary_metric_reasons. *)
ZeroReasons(row) ==
    IF ExpectedTypes(suite, row.case) = {} /\ row.rate = 0
    THEN RowReason("needs-rerun", "zero_success_throughput", row) ELSE {}

VariationReasons(row) ==
    IF VariesBy(row.speeds, IF suite \in Research THEN 3 ELSE 2, 50)
    THEN RowReason("warning", "high_variation", row) ELSE {}

RecoveryReasons(row) ==
    IF suite = "resource" /\ row.failures # {} THEN RowReason("needs-rerun", "resource_recovery_failed", row) ELSE {}

(* missing_proxy_counter_reasons: requests that succeeded without the proxy. *)
MissingCounters(row) ==
    IF UsesProxy(suite, row.case) /\ row.ok > 0 /\ row.proxied = 0
    THEN RowReason("invalid", "missing_proxy_counter", row) ELSE {}

(* proxy_specific_reasons. *)
ProxyReasons(row) ==
    IF suite # "proxy" THEN {}
    ELSE (IF Bypassed(row) THEN RowReason("invalid", "proxy_usage_guard_failed", row) ELSE {})
         \cup (IF row.case = "direct" /\ row.proxied > 0
               THEN RowReason("invalid", "direct_proxy_counter_leak", row) ELSE {})
         \cup MissingCounters(row)

RowReasons(row) ==
    ProxyReasons(row) \cup ErrorReasons(row) \cup ZeroReasons(row)
    \cup VariationReasons(row) \cup RecoveryReasons(row)

(* child_provenance_reasons: the children ran what the parent declares. *)
ProvenanceReasons(rep, child) ==
    IF child.provenance = Absent THEN Whole("invalid", "isolated_child_provenance_missing")
    ELSE IF child.provenance # rep.provenance THEN Whole("invalid", "isolated_child_provenance_mismatch")
    ELSE {}

(* child_process_reasons. *)
ChildReasons(rep) ==
    UNION {IF child.succeeded THEN ProvenanceReasons(rep, child) ELSE Whole("invalid", "isolated_child_failed")
             : child \in rep.children}

(* pid_reuse_reasons: fresh cases have processes of their own. *)
PidReuse(rep) ==
    IF \E t, u \in DOMAIN rep.runs : t # u /\ rep.runs[t].pid = rep.runs[u].pid
    THEN Whole("invalid", "lifecycle_pid_reused") ELSE {}

(* case_reasons. *)
CaseReasons(o) == UNION {Whole(CaseFlaws[f], f) : f \in o.flaws \cap DOMAIN CaseFlaws}

(* plan_case_reasons. *)
PlanReasons(rep) ==
    (IF DOMAIN rep.runs # Tasks(suite) THEN Whole("invalid", "lifecycle_plan_incomplete") ELSE {})
    \cup PidReuse(rep) \cup UNION {CaseReasons(rep.runs[t]) : t \in DOMAIN rep.runs}

(* aggregate_reasons of the lifecycle profile: the predeclared 10 percent. *)
AggregateReasons(rep) ==
    UNION {(IF "configuration" \in row.flaws
            THEN RowReason("invalid", "lifecycle_configuration_mismatch", row) ELSE {})
           \cup (IF VariesBy(row.speeds, 3, 10) THEN RowReason("warning", "lifecycle_high_variation", row) ELSE {})
             : row \in rep.rows}

(* resource_evidence_reasons. *)
ResourceEvidenceReasons(row) ==
    UNION {RowReason(ResourceFlaws[f], f, row) : f \in row.flaws \cap DOMAIN ResourceFlaws}

(* attribution_row_reasons. *)
AttributionRowReasons(row) ==
    (UNION {RowReason(WindowFlaws[f], f, row) : f \in row.flaws \cap DOMAIN WindowFlaws})
    \cup (IF row.repeats < 3 THEN RowReason("needs-rerun", "attribution_repetitions_insufficient", row) ELSE {})
    \cup (IF row.repeats < 3 \/ VariesBy(row.speeds, 3, 10)
          THEN RowReason("needs-rerun", "attribution_variation_unqualified", row) ELSE {})
    \cup ResourceEvidenceReasons(row)

(* attribution_report_reasons: intact, the sidecars still hold what the rows *)
(* were made of.                                                             *)
AttributionReasons(rep) ==
    (IF rep.intact THEN {} ELSE Whole("invalid", "attribution_raw_evidence_invalid"))
    \cup (IF rep.rows = {} THEN Whole("invalid", "attribution_rows_missing") ELSE {})
    \cup (IF rep.provenance = Absent THEN Whole("needs-rerun", "attribution_provenance_missing") ELSE {})
    \cup (IF rep.harness = Absent THEN Whole("needs-rerun", "attribution_harness_provenance_missing") ELSE {})
    \cup PlanReasons(rep) \cup AggregateReasons(rep) \cup UNION {AttributionRowReasons(row) : row \in rep.rows}

LifecycleReasons(rep) == PlanReasons(rep) \cup AggregateReasons(rep)

Summary(reasons) == [status |-> CombinedStatus({r.status : r \in reasons}),
                     comparable |-> AllowComparison(reasons), reasons |-> reasons]

(* classify_report_validity. *)
Classify(rep) ==
    Summary(ChildReasons(rep)
            \cup (IF suite = "attribution" THEN AttributionReasons(rep) ELSE {})
            \cup (IF suite = "lifecycle" THEN LifecycleReasons(rep) ELSE {})
            \cup UNION {RowReasons(row) : row \in rep.rows})

(* validity_summary_from_payload: a flag may restrict what the status and the *)
(* reasons allow, never extend it.                                            *)
FromPayload(p) ==
    LET status == CombinedStatus({p.status} \cup {r.status : r \in p.reasons}) IN
    [status |-> status, reasons |-> p.reasons,
     comparable |-> p.comparable /\ status \in {"valid", "warning"} /\ AllowComparison(p.reasons)]

(* A faulty Combine: the verdict follows from the reasons that were kept. *)
CombineReasons(S) == Summary(UNION {s.reasons : s \in S})

(* combine_validity_summaries. *)
Combine(S) ==
    LET reasons == UNION {s.reasons : s \in S}
        status == CombinedStatus({s.status : s \in S} \cup {r.status : r \in reasons})
    IN  [status |-> status, reasons |-> reasons,
         comparable |-> /\ status \in {"valid", "warning"}
                        /\ \A s \in S : s.comparable
                        /\ AllowComparison(reasons)]

(* validity_summary_from_metadata: what the rows say now, with every verdict *)
(* recorded for the report and for the children it was merged from.          *)
Recorded(rep) == rep.validity \cup UNION {c.validity : c \in rep.children}
Judged(rep) == Combine({Classify(rep)} \cup {FromPayload(p) : p \in Recorded(rep)})

(***************************************************************************)
(* Reading a report.                                                         *)
(***************************************************************************)
(* validate_run: every request of a run succeeded or failed. *)
RunIsConsistent(o) == o.ok + Total(o.errors) = Requests

(* validate_aggregate. *)
RowIsConsistent(row) ==
    /\ row.errors <= Requests * row.repeats
    /\ suite # "requests" => row.ok + row.errors = Requests * row.repeats

(* validate_ordinary_resource_coverage, for the current metric schema. *)
CoverageIsConsistent(rep, row) ==
    LET its == {t \in DOMAIN rep.runs : t.client = row.client /\ t.case = row.case} IN
    /\ row.coverage.expected = row.repeats
    /\ row.repeats = Cardinality(its)
    /\ row.coverage.available = Cardinality({t \in its : rep.runs[t].sampled})

(* validate_row_scopes: only rows of response-streaming declare a scope. *)
RowScopesAgree(rep) == suite = "streaming" => \A row \in rep.rows : row.scope = rep.scope

(* report_timing_scope: of a report with no scope there is none to be had. *)
ReportScope(rep) == IF rep.scope # Absent /\ RowScopesAgree(rep) THEN rep.scope ELSE Refused

(* decode_report_payload, for ordinary and for research rows. *)
Decodes(rep) ==
    suite \notin Research =>
        /\ \A t \in DOMAIN rep.runs : RunIsConsistent(rep.runs[t])
        /\ rep.scope # Absent => RowScopesAgree(rep)
        /\ \A row \in rep.rows : /\ RowIsConsistent(row)
                                 /\ rep.current => CoverageIsConsistent(rep, row)

(***************************************************************************)
(* Steps.                                                                    *)
(***************************************************************************)
Init ==
    /\ suite \in Suites
    /\ side = "old"
    /\ isolated \in IF suite \in Research THEN {FALSE} ELSE BOOLEAN
    /\ ran = [s \in Sides |-> <<>>]
    /\ legacy = [s \in Sides |-> {}] /\ lost = [s \in Sides |-> {}]
    /\ written = {} /\ report = [s \in Sides |-> Absent]
    /\ harness = [s \in Sides |-> "h1"] /\ source = [s \in Sides |-> "s1"]
    /\ restricted = [s \in Sides |-> FALSE]
    /\ axis = Absent /\ result = Absent /\ departures = 0

May == departures < MaxDepartures
Depart == May /\ departures' = departures + 1

(* The tasks of this side that are neither run nor lost. *)
Left == {t \in Tasks(suite) \ DOMAIN ran[side] : t.client \notin lost[side]}

Place(c) == CHOOSE i \in DOMAIN Clients : Clients[i] = c

(* The order of a plan, and the position of a task in it. *)
Before(t, u) ==
    LET cases == SetToSeq(CasesOf[suite])
        place(k) == CHOOSE i \in DOMAIN cases : cases[i] = k
    IN  \/ Place(t.client) < Place(u.client)
        \/ (t.client = u.client /\ place(t.case) < place(u.case))
        \/ (t.client = u.client /\ t.case = u.case /\ t.repeat < u.repeat)
Position(t) == Cardinality({u \in Tasks(suite) : Before(u, t)}) + 1

(* The clients a process of this side measures. *)
Processes == IF isolated THEN {{c} : c \in Measured(suite)} ELSE {Measured(suite)}
Pending(P) == ~\E w \in written : w.clients = P
Of(P, T) == {t \in T : t.client \in P}

(* The processes that have not ended, and the one that runs: they run in *)
(* sequence.                                                             *)
Waiting == {P \in Processes : Pending(P) /\ ~(isolated /\ P \subseteq lost[side])}
Current == CHOOSE P \in Waiting : \A Q \in Waiting : \E c \in P : \A d \in Q : Place(c) <= Place(d)

(* The release of the harness, of its source or of the client differs from  *)
(* the one the old report was made with.                                    *)
ChangeRelease ==
    /\ side = "new" /\ DOMAIN ran["new"] = {} /\ lost["new"] = {}
    /\ suite = "attribution"
    /\ Depart
    /\ \/ harness["new"] = "h1" /\ harness' = [harness EXCEPT !["new"] = "h2"] /\ UNCHANGED source
       \/ source["new"] = "s1" /\ source' = [source EXCEPT !["new"] = "s2"] /\ UNCHANGED harness
    /\ UNCHANGED <<suite, side, isolated, legacy, ran, lost, written, report, restricted, axis, result>>

(* A process runs an earlier release, whose timed interval included the *)
(* sampler and which recorded no verdict.                               *)
EarlierRelease ==
    /\ side \in Sides /\ suite \notin Research /\ Waiting # {}
    /\ Of(Current, DOMAIN ran[side]) = {} /\ ~(Current \subseteq legacy[side])
    /\ legacy' = [legacy EXCEPT ![side] = @ \cup Current]
    /\ Depart
    /\ UNCHANGED <<suite, side, isolated, ran, lost, written, report, harness, source, restricted, axis, result>>

(* A research plan ends with the first case that fails. *)
StopsPlan(o) == suite \in Research /\ "failed" \in o.flaws
Unrun(T) == [lost EXCEPT ![side] = {t.client : t \in T}]

(* The runs of a process end one after the other: all that are left, or up *)
(* to the next one that departs from the nominal.                          *)
Measure ==
    /\ side \in Sides
    /\ Waiting # {}
    /\ LET left == Of(Current, Left)
           nominal(T) == [u \in T |-> Nominal(suite, u, Position(u))]
           put(T, o) == ran' = [ran EXCEPT ![side] = [u \in DOMAIN @ \cup T |->
                            IF u \in DOMAIN @ THEN @[u] ELSE o[u]]]
       IN  /\ left # {}
           /\ \/ put(left, nominal(left)) /\ UNCHANGED <<lost, departures>>
              \/ Depart /\ \E t \in left : \E o \in Departed(suite, t, Position(t)) :
                   LET T == {u \in left : Before(u, t)} \cup {t} IN
                   /\ put(T, [nominal(T) EXCEPT ![t] = o])
                   /\ lost' = IF StopsPlan(o) THEN Unrun(left \ T) ELSE lost
    /\ UNCHANGED <<suite, side, isolated, legacy, written, report, harness, source, restricted, axis, result>>

(* The process that runs a research plan is killed between two cases.  It has *)
(* written a report after each of them.                                       *)
Killed ==
    /\ side \in Sides /\ suite \in Research
    /\ DOMAIN ran[side] # {} /\ Left # {}
    /\ lost' = Unrun(Left)
    /\ Depart
    /\ UNCHANGED <<suite, side, isolated, legacy, ran, written, report, harness, source, restricted, axis, result>>

(* A child fails before it has written a report. *)
ChildFails ==
    /\ side \in Sides /\ isolated /\ Waiting # {}
    /\ \E c \in Current :
         /\ lost' = [lost EXCEPT ![side] = @ \cup {c}]
         /\ ran' = [ran EXCEPT ![side] = [t \in {u \in DOMAIN @ : u.client # c} |-> @[t]]]
    /\ Depart
    /\ UNCHANGED <<suite, side, isolated, legacy, written, report, harness, source, restricted, axis, result>>

(* child_diagnostic: of each fresh case, a process of its own. *)
CaseDiagnostics(T) ==
    {[client |-> t.client, succeeded |-> ran[side][t].child.succeeded, validity |-> {},
      provenance |-> ran[side][t].child.provenance] : t \in T}

(* The report of one process, its verdict, if it records one, not yet in. *)
Written(P) ==
    LET old == P \subseteq legacy[side]
        T == Of(P, DOMAIN ran[side])
    IN  [clients |-> P, rows |-> Rows(T, ran[side], old), runs |-> [t \in T |-> ran[side][t]],
         scope |-> Scope(old), current |-> ~old,
         children |-> IF suite \in Research THEN CaseDiagnostics(T) ELSE {}, provenance |-> "wheel",
         harness |-> harness[side], intact |-> TRUE, validity |-> {}]

(* A verdict a release recorded for a reason this one does not know, with *)
(* or without naming it.                                                  *)
Withheld(p) ==
    {[p EXCEPT !.comparable = FALSE],
     [p EXCEPT !.reasons = @ \cup Whole("needs-rerun", "recorded_by_another_release")]}

(* metadata_with_validity, as a process ends: its report has its verdict. *)
WriteReport ==
    /\ side \in Sides
    /\ Waiting # {} /\ Of(Current, Left) = {}
    /\ LET rep == Written(Current)
           verdict == Classify(rep)
       IN  \/ /\ written' = written \cup {[rep EXCEPT !.validity = IF rep.current THEN {verdict} ELSE {}]}
              /\ UNCHANGED <<departures, restricted>>
           \/ /\ Depart
              /\ restricted' = [restricted EXCEPT ![side] = TRUE]
              /\ \E p \in Withheld(verdict) : written' = written \cup {[rep EXCEPT !.validity = {p}]}
           \/ /\ isolated /\ Depart
              /\ \E other \in {"other", Absent} :
                   written' = written \cup {[rep EXCEPT !.validity = {verdict}, !.provenance = other]}
              /\ UNCHANGED restricted
    /\ UNCHANGED <<suite, side, isolated, legacy, ran, lost, report, harness, source, axis, result>>

Ready == side \in Sides /\ Waiting = {}

(* The next side is measured by a later invocation, isolated or not. *)
NextSide ==
    /\ written' = {}
    /\ IF side = "old"
       THEN side' = "new" /\ isolated' \in IF suite \in Research THEN {FALSE} ELSE BOOLEAN
       ELSE side' = "compare" /\ UNCHANGED isolated
    /\ UNCHANGED <<suite, legacy, ran, lost, harness, source, restricted, axis, result, departures>>

(* publish_report of a process that is nobody's child. *)
Publish ==
    /\ Ready /\ ~isolated
    /\ \E w \in written : report' = [report EXCEPT ![side] = w]
    /\ NextSide

(* A faulty ScopesAgree: children that ran other releases are merged. *)
ScopesOfFirst(reps) == TRUE

(* merged_timing_scope. *)
ScopesAgree(reps) == \A v, w \in reps : ReportScope(v) # Refused /\ ReportScope(v) = ReportScope(w)

(* child_diagnostics. *)
ChildDiagnostics(reps) ==
    {[client |-> c, succeeded |-> FALSE, validity |-> {}, provenance |-> Absent] : c \in lost[side]}
    \cup {[client |-> CHOOSE c \in w.clients : TRUE, succeeded |-> TRUE, validity |-> w.validity,
           provenance |-> w.provenance] : w \in reps}

(* build_metadata and metadata_with_validity: the parent runs the release *)
(* under test, and what its environment says replaces the children's.     *)
MergedReport(reps) ==
    [clients |-> UNION {w.clients : w \in reps}, rows |-> UNION {w.rows : w \in reps},
     runs |-> [t \in UNION {DOMAIN w.runs : w \in reps} |-> ran[side][t]],
     scope |-> IF reps = {} THEN Absent ELSE (CHOOSE w \in reps : TRUE).scope,
     current |-> \A w \in reps : w.current,
     children |-> ChildDiagnostics(reps), provenance |-> "wheel",
     harness |-> harness[side], intact |-> TRUE, validity |-> {}]

(* write_isolation_report. *)
Merge ==
    /\ Ready /\ isolated
    /\ LET merged == MergedReport(written) IN
       report' = [report EXCEPT ![side] =
           IF (\A w \in written : Decodes(w)) /\ ScopesAgree(written) /\ Decodes(merged)
           THEN [merged EXCEPT !.validity = {Combine({FromPayload(Classify(merged))}
                                                     \cup {Judged(w) : w \in written})}]
           ELSE Refused]
    /\ NextSide

(* A sidecar is changed after the report was written. *)
ChangeSidecar ==
    /\ suite = "attribution" /\ side = "compare"
    /\ \E s \in Sides : /\ report[s] # Refused /\ report[s].intact
                        /\ report' = [report EXCEPT ![s].intact = FALSE]
    /\ Depart
    /\ UNCHANGED <<suite, side, isolated, legacy, ran, lost, written, harness, source, restricted, axis, result>>

(* load_benchmark_report: the sidecars are read again, the rows judged again. *)
Loads(s) == report[s] # Refused /\ Decodes(report[s])

(* validate_comparable_reports, with validate_timing_compatibility. *)
Comparable(old, new, ax) ==
    /\ ReportScope(old) # Refused /\ ReportScope(old) = ReportScope(new)
    /\ suite = "attribution" => /\ old.harness = new.harness
                                /\ source["old"] = source["new"] \/ ax = "foghttp-source"

(* benchmark_row: of a row of any suite, what a comparison reads.  The group *)
(* is the identity without the client.                                      *)
BenchmarkRow(row) ==
    [identity |-> Identity(row), group |-> Tail(Identity(row)), client |-> row.client, primary |-> row.rate]

CanonicalRows(rep) == {BenchmarkRow(row) : row \in rep.rows}

(* focus_rows_by_identity: a row without a primary value is not compared. *)
FocusRows(rep) == {row \in CanonicalRows(rep) : row.client = Focus /\ row.primary # Absent}
Shared(old, new) == {row.identity : row \in FocusRows(old)} \cap {row.identity : row \in FocusRows(new)}

Blocked(old, new) == ~Judged(old).comparable \/ ~Judged(new).comparable

(* wins_for_report: among equals the first in canonical order wins. *)
Wins(rep) ==
    LET beats(a, b) == a.primary > b.primary \/ (a.primary = b.primary /\ Place(a.client) < Place(b.client)) IN
        Cardinality({row \in FocusRows(rep) : \A other \in CanonicalRows(rep) :
                        other.group = row.group /\ other # row => beats(row, other)})

(* compare_wins: research and resource reports are not ranked. *)
CompareWins(old, new) ==
    IF Blocked(old, new) \/ suite \in Research \cup {"resource"} THEN Absent
    ELSE [old |-> Wins(old), new |-> Wins(new)]

(* compare_reports. *)
Compare ==
    /\ side = "compare"
    /\ axis' \in IF suite = "attribution" THEN {Absent, "foghttp-source"} ELSE {Absent}
    /\ LET old == report["old"] new == report["new"] IN
       IF /\ Loads("old") /\ Loads("new")
          /\ Comparable(old, new, axis') /\ Shared(old, new) # {}
       THEN result' = [blocked |-> Blocked(old, new), wins |-> CompareWins(old, new),
                       rows |-> Shared(old, new)]
       ELSE result' = Refused
    /\ side' = "done"
    /\ UNCHANGED <<suite, isolated, legacy, ran, lost, written, report, harness, source, restricted, departures>>

Next == \/ ChangeRelease \/ EarlierRelease \/ Measure \/ Killed \/ ChildFails \/ WriteReport
        \/ Publish \/ Merge \/ ChangeSidecar \/ Compare

Spec == Init /\ [][Next]_vars

(***************************************************************************)
(* Properties.                                                               *)
(***************************************************************************)
Compared == side = "done" /\ result # Refused

(* A comparison that is not blocked rests on two whole reports: every run of *)
(* the plan took place and recovered, with all the evidence that was asked   *)
(* of it, every child process and fresh case has the provenance of the       *)
(* report, every fresh case had a process of its own, the sidecars are those *)
(* that were written, and no release had restricted the report.  No path     *)
(* from a run to the comparison (aggregation, the merge, the verdicts        *)
(* recorded by the child and by the parent, a second classification) loses   *)
(* a restriction.                                                            *)
ConclusionsAreWhole ==
    Compared /\ ~result.blocked =>
        \A s \in Sides :
            /\ lost[s] = {} /\ ~restricted[s] /\ report[s].intact
            /\ DOMAIN ran[s] = Tasks(suite)
            /\ \A t \in DOMAIN ran[s] : ran[s][t].recovered /\ ran[s][t].flaws = {}
            /\ \A c \in report[s].children : c.provenance = report[s].provenance
            /\ suite \in Research =>
                 \A t, u \in DOMAIN ran[s] : t # u => ran[s][t].pid # ran[s][u].pid

(* No request of a run, or of its warm-up, failed in a way its case is not   *)
(* there for, and the proxy was used as the case declares: the errors of     *)
(* runs are added up by type into a row, and one that is expected hides none *)
(* that is not.                                                              *)
Sound(t, o) ==
    /\ \A e \in Types : o.errors[e] > 0 => e \in ExpectedTypes(suite, t.case)
    /\ \A e \in Types : o.warm[e] > 0 => e \in ExpectedTypes(suite, t.case)
    /\ suite = "proxy" => (o.proxied > 0) = UsesProxy(suite, t.case)

ConclusionsAreEarned ==
    Compared /\ ~result.blocked => \A s \in Sides : \A t \in DOMAIN ran[s] : Sound(t, ran[s][t])

(* Two sides measured by one release, on which nothing but the speed of a    *)
(* run or the availability of a resource departs from the nominal, are       *)
(* compared, and the conclusion is not blocked: judging a report over and    *)
(* over, and each time with all verdicts recorded before, invents no         *)
(* restriction.                                                              *)
FaithfulIsCompared ==
    side = "done"
    /\ (\A s \in Sides :
          /\ lost[s] = {} /\ ~restricted[s] /\ DOMAIN ran[s] = Tasks(suite)
          /\ report[s] # Refused => /\ report[s].intact
                                    /\ \A c \in report[s].children : c.provenance = "wheel"
          /\ \A t \in DOMAIN ran[s] :
               \E pid \in 1..Cardinality(Tasks(suite)) : LET o == ran[s][t] nominal == Nominal(suite, t, pid) IN
                 /\ [o EXCEPT !.speed = Fast, !.sampled = TRUE] = nominal
                 /\ suite = "attribution" => o = nominal
          /\ suite \in Research => \A t, u \in DOMAIN ran[s] : t # u => ran[s][t].pid # ran[s][u].pid)
    /\ legacy["old"] = legacy["new"] /\ legacy["old"] \in {{}, Measured(suite)}
    /\ harness["old"] = harness["new"] /\ (source["old"] = source["new"] \/ axis = "foghttp-source")
    => /\ result # Refused
       /\ ~result.blocked
       /\ suite \notin Research \cup {"resource"} => result.wins # Absent

(* Whatever is compared was measured alike: both reports, and every child    *)
(* merged into them, by releases with one timing scope; attribution by one   *)
(* harness, and of different sources of the client only on request.          *)
ComparedAlike ==
    Compared =>
        /\ \E old \in BOOLEAN : \A s \in Sides : \A row \in report[s].rows : row.scope = Scope(old)
        /\ \A s \in Sides : legacy[s] \cap report[s].clients \in {{}, report[s].clients}
        /\ suite = "attribution" => /\ harness["old"] = harness["new"]
                                    /\ source["old"] # source["new"] => axis = "foghttp-source"
=============================================================================
