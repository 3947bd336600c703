----------------------- MODULE ReportComparisonProofs -----------------------
(***************************************************************************)
(* Proofs about ReportComparison: what a comparison that is not blocked may   *)
(* rely on, for every set of clients, number of runs and of departures.       *)
(*                                                                         *)
(* The invariant follows a report from the runs of a side to the file: what   *)
(* the rows of a report tell of its runs (Tells), what the reports of a       *)
(* side's processes hold (Outputs), and what is left of it all in the report  *)
(* that is compared (Published).                                              *)
(***************************************************************************)
EXTENDS ReportComparison, Sums

SuiteNames == {"requests", "resource", "proxy", "streaming", "lifecycle", "attribution"}

TypeOK ==
  /\ suite \in Suites /\ side \in Sides \cup {"compare", "done"} /\ isolated \in BOOLEAN
  /\ DOMAIN ran = Sides /\ DOMAIN report = Sides
  /\ \A s \in Sides : DOMAIN ran[s] \subseteq Tasks(suite)
  /\ legacy \in [Sides -> SUBSET Measured(suite)] /\ lost \in [Sides -> SUBSET Measured(suite)]
  /\ restricted \in [Sides -> BOOLEAN]
  /\ harness \in [Sides -> {"h1", "h2"}] /\ source \in [Sides -> {"s1", "s2"}]
  /\ axis \in {Absent, "foghttp-source"} /\ departures \in Nat

\* A run that used the proxy otherwise than its case declares has errors for it.
Used(su, t, o) ==
  su = "proxy" => IF UsesProxy(su, t.case) THEN o.proxied = 0 => o.errors["bypass"] > 0
                                           ELSE o.proxied > 0 => o.errors["activity"] > 0

\* The evidence of a run has the flaws of its suite, and only the resource
\* suite looks for a recovery.
Fits(su, t, o) ==
  /\ o.flaws \subseteq FlawsOf(su) /\ (su # "resource" => o.recovered)
  /\ o.errors \in [Types -> Nat] /\ o.warm \in [Types -> Nat] /\ o.proxied \in Nat
  /\ Used(su, t, o)
Outcomes == \A s \in Sides : \A t \in DOMAIN ran[s] : Fits(suite, t, ran[s][t])

\* Nothing of the new side has happened while the old one is measured.
Fresh ==
  side = "old" => DOMAIN ran["new"] = {} /\ lost["new"] = {} /\ legacy["new"] = {} /\ ~restricted["new"]

\* A research profile runs in one process, and is the only one that loses
\* tasks without a child: all that are left, at once.
Alone ==
  /\ isolated => suite \notin Research
  /\ side \in Sides /\ ~isolated /\ lost[side] # {} =>
       suite \in Research /\ Left = {} /\ DOMAIN ran[side] # Tasks(suite)

\* All clients of a process are measured by one release.
Releases == side \in Sides => \A P \in Processes : legacy[side] \cap P \in {{}, P}

Scopes == {Scope(old) : old \in BOOLEAN}

IsReport(rep) ==
  rep = [clients |-> rep.clients, rows |-> rep.rows, runs |-> rep.runs, scope |-> rep.scope,
         current |-> rep.current, children |-> rep.children, provenance |-> rep.provenance,
         harness |-> rep.harness, intact |-> rep.intact, validity |-> rep.validity]

\* A row counts the errors of the outcome o of its task t, by type and in all.
Counts(row, t, o) ==
  /\ row.case = t.case
  /\ row.types \in [Types -> Nat] /\ row.warmTypes \in [Types -> Nat]
  /\ row.errors = Total(row.types) /\ row.warmErrors = Total(row.warmTypes)
  /\ \A e \in Types : o.errors[e] <= row.types[e] /\ o.warm[e] <= row.warmTypes[e]

\* The rows of a report tell its scope, and of each of its runs.
Tells(rep) ==
  /\ \A row \in rep.rows : row.scope = rep.scope
  /\ \A t \in DOMAIN rep.runs : \E row \in rep.rows :
       /\ Counts(row, t, rep.runs[t])
       /\ suite = "resource" /\ ~rep.runs[t].recovered => row.failures # {}
       /\ suite \in Research => rep.runs[t].flaws \subseteq row.flaws

\* A verdict that has been recorded restricts a report.
Restricts(verdicts) == \E p \in verdicts : ~FromPayload(p).comparable

\* The report w of a process that has ended.
Output(w) ==
  /\ IsReport(w)
  /\ w.clients \in Processes /\ Of(w.clients, Left) = {}
  /\ w.runs = [t \in Of(w.clients, DOMAIN ran[side]) |-> ran[side][t]]
  /\ w.scope = Scope(w.clients \subseteq legacy[side])
  /\ w.intact /\ w.harness = harness[side]
  /\ Tells(w)

Outputs ==
  /\ side \notin Sides => written = {}
  /\ \A w \in written : Output(w)
  /\ \A v, w \in written : v.clients = w.clients => v = w
  /\ side \in Sides /\ restricted[side] => \E w \in written : Restricts(w.validity)

\* The sides whose report has been published.
Ended == IF side = "old" THEN {} ELSE IF side = "new" THEN {"old"} ELSE Sides

\* The report rep of side s, as it was published.
Publication(s, rep) ==
  /\ IsReport(rep)
  /\ restricted[s] => Restricts(Recorded(rep))
  /\ lost[s] # {} => \/ \E c \in rep.children : ~c.succeeded
                     \/ suite \in Research /\ DOMAIN rep.runs # Tasks(suite)
  /\ lost[s] = {} => /\ DOMAIN ran[s] = Tasks(suite) /\ DOMAIN rep.runs = Tasks(suite)
                     /\ \A t \in Tasks(suite) : rep.runs[t] = ran[s][t]
  /\ Tells(rep)
  /\ rep.scope \in Scopes \cup {Absent}
  /\ suite # "attribution" => rep.intact
  /\ rep.harness = harness[s]
  /\ legacy[s] \cap rep.clients \in {{}, rep.clients}

Published == \A s \in Ended : report[s] # Refused => Publication(s, report[s])

Inv ==
  /\ TypeOK /\ Outcomes /\ Fresh /\ Alone /\ Releases /\ Outputs /\ Published
  /\ ConclusionsAreWhole /\ ConclusionsAreEarned /\ ComparedAlike

(***************************************************************************)
(* Suites, tasks and processes.                                             *)
(***************************************************************************)
LEMMA SuiteFact ==
  ASSUME NEW su \in Suites
  PROVE  /\ su \in SuiteNames /\ Focus \in Selected[su]
         /\ Measured(su) \subseteq ToSet(Clients) /\ Measured(su) # {}
         /\ Repeats[su] \in Nat \ {0}
         /\ CasesOf[su] # {}
<1>1. su \in SuiteNames /\ Focus \in Selected[su] /\ Selected[su] \subseteq ToSet(Clients) /\ Repeats[su] \in Nat \ {0}
  BY ComparisonAssumption DEF ComparisonAssumption, SuiteNames
<1>2. Measured(su) \subseteq ToSet(Clients) /\ Measured(su) # {}
  BY <1>1 DEF Measured
<1>3. CasesOf[su] # {}
  BY <1>1 DEF CasesOf, SuiteNames
<1> QED
  BY <1>1, <1>2, <1>3

\* Every client that is measured has a task, and no other has.
LEMMA TaskFact ==
  ASSUME suite \in Suites
  PROVE  /\ \A t \in Tasks(suite) : t.client \in Measured(suite)
         /\ \A c \in Measured(suite) : \E t \in Tasks(suite) : t.client = c
<1>1. \A t \in Tasks(suite) : t.client \in Measured(suite)
  BY DEF Tasks
<1>2. ASSUME NEW c \in Measured(suite)
      PROVE  \E t \in Tasks(suite) : t.client = c
  <2>1. PICK k \in CasesOf[suite] : TRUE
    BY SuiteFact
  <2>2. 1 \in 1 .. Repeats[suite]
    BY SuiteFact
  <2> DEFINE t == [client |-> c, case |-> k, repeat |-> 1]
  <2>3. t \in Tasks(suite)
    BY <1>2, <2>1, <2>2 DEF Tasks
  <2> QED
    BY <2>3
<1> QED
  BY <1>1, <1>2

\* The processes of a side have the clients of the suite, each one of them.
LEMMA ProcessFact ==
  ASSUME TypeOK
  PROVE  /\ \A P \in Processes : P \subseteq Measured(suite) /\ P # {}
         /\ \A P, Q \in Processes : P = Q \/ P \cap Q = {}
         /\ \A c \in Measured(suite) : \E P \in Processes : c \in P
         /\ ~isolated => Processes = {Measured(suite)}
         /\ isolated => \A P \in Processes : \A c \in P : P = {c}
<1>1. suite \in Suites /\ isolated \in BOOLEAN
  BY DEF TypeOK
<1>2. Measured(suite) # {}
  BY <1>1, SuiteFact
<1>3. CASE isolated
  <2>1. Processes = {{c} : c \in Measured(suite)}
    BY <1>3 DEF Processes
  <2> QED
    BY <2>1, <1>3
<1>4. CASE ~isolated
  <2>1. Processes = {Measured(suite)}
    BY <1>4 DEF Processes
  <2> QED
    BY <2>1, <1>2, <1>4
<1> QED
  BY <1>3, <1>4

\* Every client has a place in the order of the names.
LEMMA PlaceFact ==
  ASSUME NEW c \in ToSet(Clients)
  PROVE  Place(c) \in Nat
<1>1. DOMAIN Clients \subseteq Nat
  BY ComparisonAssumption DEF ComparisonAssumption
<1>2. \E i \in DOMAIN Clients : Clients[i] = c
  BY DEF ToSet
<1> QED
  BY <1>1, <1>2 DEF Place

\* The process whose turn it is is one that waits.
LEMMA CurrentFact ==
  ASSUME TypeOK, Waiting # {}
  PROVE  Current \in Waiting
<1>1. suite \in Suites /\ isolated \in BOOLEAN
  BY DEF TypeOK
<1>2. Waiting \subseteq Processes
  BY DEF Waiting
<1>3. Measured(suite) \subseteq ToSet(Clients)
  BY <1>1, SuiteFact
<1>4. \E P \in Waiting : \A Q \in Waiting : \E c \in P : \A d \in Q : Place(c) <= Place(d)
  <2>1. CASE isolated
    <3> DEFINE C == {c \in Measured(suite) : {c} \in Waiting}
    <3>1. C # {}
      BY <2>1, <1>2, ProcessFact
    <3> DEFINE N == {Place(c) : c \in C}
    <3>2. N \subseteq Nat /\ N # {}
      BY <1>3, <3>1, PlaceFact
    <3>3. PICK n \in N : \A m \in N : n <= m
      <4> HIDE DEF N
      <4> QED
        BY <3>2, LeastFact
    <3>4. PICK c \in C : n = Place(c)
      BY <3>3
    <3>5. ASSUME NEW Q \in Waiting, NEW d \in Q
          PROVE  Place(c) <= Place(d)
      <4>1. Q = {d} /\ d \in Measured(suite)
        BY <2>1, <1>2, <3>5, ProcessFact
      <4>2. d \in C
        BY <4>1, <3>5
      <4> QED
        BY <3>3, <3>4, <4>2
    <3> QED
      BY <3>4, <3>5
  <2>2. CASE ~isolated
    <3>1. Waiting = {Measured(suite)}
      BY <2>2, <1>2, ProcessFact
    <3> DEFINE N == {Place(c) : c \in Measured(suite)}
    <3>2. N \subseteq Nat /\ N # {}
      BY <1>1, <1>3, PlaceFact, SuiteFact
    <3>3. PICK n \in N : \A m \in N : n <= m
      <4> HIDE DEF N
      <4> QED
        BY <3>2, LeastFact
    <3>4. PICK c \in Measured(suite) : n = Place(c)
      BY <3>3
    <3> QED
      BY <3>1, <3>3, <3>4
  <2> QED
    BY <2>1, <2>2
<1> QED
  BY <1>4 DEF Current

(***************************************************************************)
(* Runs and rows.                                                           *)
(***************************************************************************)
\* The errors a run is there for are one at most.
LEMMA PressedFact ==
  ASSUME NEW su, NEW case
  PROVE  Cardinality(ExpectedTypes(su, case)) \in {0, 1}
  BY FS_EmptySet, FS_Singleton DEF ExpectedTypes

Fields == {"ok", "errors", "warm", "proxied", "recovered", "flaws"}

\* What requests that fail, or that misuse the proxy, leave of a run alone.
Same(f, o) == Fields \subseteq DOMAIN f /\ f.warm = o.warm /\ f.flaws = o.flaws /\ f.recovered = o.recovered

\* What one request that fails changes of a run.
LEMMA OneFailsFact ==
  ASSUME NEW o, NEW e, Fields \subseteq DOMAIN o
  PROVE  LET f == OneFails(o, e)
         IN  f.proxied = o.proxied /\ f.errors = [o.errors EXCEPT ![e] = @ + 1] /\ Same(f, o)
  BY DEF OneFails, Fields, Same

\* What a run changes of which all requests fail.
LEMMA AllFailFact ==
  ASSUME NEW o, NEW e, Fields \subseteq DOMAIN o
  PROVE  LET f == AllFail(o, e)
         IN  f.proxied = o.proxied /\ f.errors = [o.errors EXCEPT ![e] = @ + o.ok] /\ Same(f, o)
  BY DEF AllFail, Fields, Same

Misuse(o, n, e) == [o EXCEPT !.proxied = n, !.ok = 0, !.errors[e] = Requests]

\* What a proxy that is not used as declared changes of a run.
LEMMA MisuseFact ==
  ASSUME NEW o, NEW n, NEW e, Fields \subseteq DOMAIN o
  PROVE  LET f == Misuse(o, n, e)
         IN  f.proxied = n /\ f.errors = [o.errors EXCEPT ![e] = Requests] /\ Same(f, o)
  BY DEF Fields, Same, Misuse

\* What a warm-up that fails changes of a run.
LEMMA WarmFact ==
  ASSUME NEW o, NEW e, Fields \subseteq DOMAIN o
  PROVE  LET f == [o EXCEPT !.warm[e] = 1]
         IN  /\ f.proxied = o.proxied /\ f.errors = o.errors /\ f.warm = [o.warm EXCEPT ![e] = 1]
             /\ f.flaws = o.flaws /\ f.recovered = o.recovered
  BY DEF Fields

\* What a run may look like: nominal, or departed from it.
LEMMA OutcomeFact ==
  ASSUME NEW su, NEW t, NEW pid
  PROVE  \A o \in {Nominal(su, t, pid)} \cup Departed(su, t, pid) : Fits(su, t, o)
<1> SUFFICES ASSUME NEW o \in {Nominal(su, t, pid)} \cup Departed(su, t, pid)
             PROVE  Fits(su, t, o)
  OBVIOUS
<1> DEFINE n == Nominal(su, t, pid)
<1> DEFINE Fine(x) == /\ Fields \subseteq DOMAIN x /\ x.flaws = {} /\ x.recovered
                      /\ x.errors \in [Types -> Nat] /\ x.warm \in [Types -> Nat] /\ x.proxied \in Nat
                      /\ Used(su, t, x)
<1>1. Fine(n) /\ n.ok \in Nat
  <2> DEFINE pressed == Cardinality(ExpectedTypes(su, t.case))
  <2>1. pressed \in {0, 1} /\ Requests \in Nat \ {0}
    BY PressedFact, ComparisonAssumption DEF ComparisonAssumption
  <2>2. n = [ok |-> Requests - pressed, errors |-> [None EXCEPT !["PoolTimeout"] = pressed], warm |-> None,
             proxied |-> IF UsesProxy(su, t.case) THEN Requests ELSE 0,
             recovered |-> TRUE, sampled |-> TRUE, speed |-> Fast, flaws |-> {}, pid |-> pid,
             child |-> [succeeded |-> TRUE, provenance |-> "wheel"]]
    BY Zenon DEF Nominal
  <2> HIDE DEF pressed, n
  <2>3. None \in [Types -> Nat] /\ [None EXCEPT !["PoolTimeout"] = pressed] \in [Types -> Nat]
    <3>1. pressed \in Nat /\ None \in [Types -> Nat]
      BY <2>1 DEF None
    <3> QED
      BY <3>1
  <2>4. n.proxied \in Nat /\ (UsesProxy(su, t.case) <=> n.proxied > 0)
    BY <2>1, <2>2
  <2>5. Used(su, t, n)
    BY <2>4 DEF Used
  <2>6. Fields \subseteq DOMAIN n /\ n.ok \in Nat
    BY <2>1, <2>2 DEF Fields
  <2> QED
    BY <2>2, <2>3, <2>4, <2>5, <2>6
<1> DEFINE failing == {OneFails(n, e) : e \in ErrorsOf(su)} \cup {AllFail(n, "check_failed")}
<1> HIDE DEF n
<1>2. ASSUME NEW f \in failing
      PROVE  Fine(f)
  <2>1. Fields \subseteq DOMAIN n /\ n.errors \in [Types -> Nat] /\ n.ok \in Nat
    BY <1>1
  <2>2. PICK errors \in [Types -> Nat] :
          /\ f.errors = errors /\ \A x \in Types : errors[x] >= n.errors[x]
          /\ f.proxied = n.proxied /\ Same(f, n)
    <3>1. ErrorsOf(su) \subseteq Types /\ "check_failed" \in Types
      BY DEF ErrorsOf, Types
    <3>2. ASSUME NEW e \in Types, NEW k \in Nat
          PROVE  LET errors == [n.errors EXCEPT ![e] = @ + k]
                 IN  errors \in [Types -> Nat] /\ \A x \in Types : errors[x] >= n.errors[x]
      BY <2>1
    <3>3. CASE \E e \in ErrorsOf(su) : f = OneFails(n, e)
      <4>1. PICK e \in ErrorsOf(su) : f = OneFails(n, e)
        BY <3>3
      <4>2. f.errors = [n.errors EXCEPT ![e] = @ + 1] /\ f.proxied = n.proxied /\ Same(f, n)
        BY <2>1, <4>1, OneFailsFact
      <4> DEFINE errors == [n.errors EXCEPT ![e] = @ + 1]
      <4>3. errors \in [Types -> Nat] /\ \A x \in Types : errors[x] >= n.errors[x]
        BY <3>1, <3>2
      <4> HIDE DEF errors
      <4> QED
        BY <4>2, <4>3 DEF errors
    <3>4. CASE f = AllFail(n, "check_failed")
      <4>1. /\ f.errors = [n.errors EXCEPT !["check_failed"] = @ + n.ok]
            /\ f.proxied = n.proxied /\ Same(f, n)
        BY <2>1, <3>4, AllFailFact
      <4> QED
        BY <2>1, <3>1, <3>2, <4>1
    <3> QED
      BY <1>2, <3>3, <3>4
  <2>3. Used(su, t, f)
    <3>1. n.errors \in [Types -> Nat] /\ {"bypass", "activity"} \subseteq Types
      BY <1>1 DEF Types
    <3> QED
      BY <1>1, <2>2, <3>1 DEF Used
  <2> QED
    BY <1>1, <2>2, <2>3 DEF Same
<1>3. ASSUME NEW f \in {n} \cup failing, NEW m \in Misused(su, t, f)
      PROVE  Fine(m)
  <2>1. Fine(f)
    BY <1>1, <1>2
  <2> DEFINE e == IF UsesProxy(su, t.case) THEN "bypass" ELSE "activity"
             errors == [f.errors EXCEPT ![e] = Requests]
  <2>2. Requests \in Nat \ {0}
    BY ComparisonAssumption DEF ComparisonAssumption
  <2>3. Fields \subseteq DOMAIN f /\ f.errors \in [Types -> Nat]
    BY <2>1
  <2>4. e \in Types /\ errors \in [Types -> Nat] /\ errors[e] > 0
    BY <2>2, <2>3 DEF Types
  <2>5. m.proxied \in Nat /\ m.errors = errors /\ Same(m, f)
    <3>1. PICK k \in {0, Requests - 1, Requests} : m = Misuse(f, k, e)
      BY Zenon DEF Misused, Misuse
    <3> HIDE DEF e
    <3>2. k \in Nat
      BY <2>2
    <3>3. m.proxied = k /\ m.errors = [f.errors EXCEPT ![e] = Requests] /\ Same(m, f)
      BY <2>3, <3>1, MisuseFact
    <3> QED
      BY <3>2, <3>3 DEF e
  <2> HIDE DEF errors
  <2>6. Used(su, t, m)
    BY <2>4, <2>5 DEF Used
  <2> QED
    BY <2>1, <2>4, <2>5, <2>6 DEF Same
<1>4. \/ o = n
      \/ o = [n EXCEPT !.speed = Slow]
      \/ su \in Research /\ o \in CaseDeparted(su, n)
      \/ o \in failing
      \/ \E e \in ErrorsOf(su) : o = [n EXCEPT !.warm[e] = 1]
      \/ o = [n EXCEPT !.sampled = FALSE]
      \/ su = "resource" /\ o = [n EXCEPT !.recovered = FALSE]
      \/ \E f \in {n} \cup failing : o \in Misused(su, t, f)
  BY DEF Departed, n
<1> HIDE DEF failing
<1>5. CASE o = n
  BY <1>1, <1>5 DEF Fits
<1>6. CASE o = [n EXCEPT !.speed = Slow]
  BY <1>1, <1>6 DEF Fits, Used
<1>7. CASE su \in Research /\ o \in CaseDeparted(su, n)
  <2>1. /\ o.errors = n.errors /\ o.warm = n.warm /\ o.proxied = n.proxied /\ o.recovered = n.recovered
        /\ o.flaws \subseteq FlawsOf(su)
    <3>1. CASE \E f \in FlawsOf(su) : o = [n EXCEPT !.flaws = {f}]
      BY <1>1, <3>1 DEF Fields
    <3>2. CASE \E k : o = [n EXCEPT !.flaws = {"failed"}, !.child = k]
      <4>1. "failed" \in FlawsOf(su)
        BY <1>7 DEF FlawsOf, CaseFlaws
      <4> QED
        BY <1>1, <3>2, <4>1 DEF Fields
    <3>3. CASE \E k : o = [n EXCEPT !.child = k]
      BY <1>1, <3>3 DEF Fields
    <3>4. CASE o = [n EXCEPT !.pid = 1]
      BY <1>1, <3>4 DEF Fields
    <3>5. ASSUME o = [n EXCEPT !.flaws = {"failed"}, !.child.succeeded = FALSE]
          PROVE  \E k : o = [n EXCEPT !.flaws = {"failed"}, !.child = k]
      BY Zenon, <3>5
    <3>6. ASSUME NEW p, o = [n EXCEPT !.child.provenance = p]
          PROVE  \E k : o = [n EXCEPT !.child = k]
      BY Zenon, <3>6
    <3> QED
      BY Zenon, <1>7, <3>1, <3>2, <3>3, <3>4, <3>5, <3>6 DEF CaseDeparted
  <2>2. Used(su, t, o)
    BY <1>1, <2>1 DEF Used
  <2> QED
    BY <1>1, <2>1, <2>2 DEF Fits
<1>9. CASE o \in failing
  BY <1>2, <1>9 DEF Fits
<1>10. CASE \E e \in ErrorsOf(su) : o = [n EXCEPT !.warm[e] = 1]
  <2>1. PICK e \in ErrorsOf(su) : o = [n EXCEPT !.warm[e] = 1]
    BY <1>10
  <2>2. [n.warm EXCEPT ![e] = 1] \in [Types -> Nat]
    BY <1>1
  <2>3. /\ o.errors = n.errors /\ o.warm = [n.warm EXCEPT ![e] = 1] /\ o.proxied = n.proxied
        /\ o.flaws = {} /\ o.recovered
    BY <1>1, <2>1, WarmFact
  <2>4. Used(su, t, o)
    BY <1>1, <2>3 DEF Used
  <2> QED
    BY <1>1, <2>2, <2>3, <2>4 DEF Fits
<1>11. CASE o = [n EXCEPT !.sampled = FALSE]
  BY <1>1, <1>11 DEF Fits, Used
<1>12. CASE su = "resource" /\ o = [n EXCEPT !.recovered = FALSE]
  BY <1>1, <1>12 DEF Fits, Used
<1>13. CASE \E f \in {n} \cup failing : o \in Misused(su, t, f)
  <2>1. Fine(o)
    BY <1>3, <1>13
  <2> QED
    BY <2>1 DEF Fits
<1> QED
  BY <1>4, <1>5, <1>6, <1>7, <1>9, <1>10, <1>11, <1>12, <1>13

\* The types of errors are finitely many, and so are those expected of a case.
LEMMA TypesFact ==
  /\ IsFiniteSet(Types)
  /\ \A su, case : ExpectedTypes(su, case) \subseteq Types
<1>1. Cardinality({"PoolTimeout"}) = 1 /\ IsFiniteSet({"PoolTimeout"})
  BY FS_Singleton
<1>2. IsFiniteSet(Types)
  <2>1. Types = ((((({"PoolTimeout"} \cup {"LineTooLong"}) \cup {"RuntimeError"}) \cup {"check_failed"})
                  \cup {"bypass"}) \cup {"activity"})
    BY DEF Types
  <2> QED
    BY <2>1, FS_Singleton, FS_Union
<1> QED
  BY <1>2 DEF ExpectedTypes, Types

\* What the errors f of some runs add up to, by type.
SumsByType(f, its) == [e \in Types |-> SumFunction([i \in its |-> f[i][e]])]

\* Errors added up by their types hide none.
LEMMA ByTypeFact ==
  ASSUME NEW its, IsFiniteSet(its), NEW f, \A i \in its : f[i] \in [Types -> Nat]
  PROVE  /\ SumsByType(f, its) \in [Types -> Nat]
         /\ \A i \in its : \A e \in Types : f[i][e] <= SumsByType(f, its)[e]
<1> DEFINE sums == SumsByType(f, its)
<1>1. ASSUME NEW e \in Types
      PROVE  sums[e] \in Nat /\ \A i \in its : f[i][e] <= sums[e]
  <2> DEFINE g == [i \in its |-> f[i][e]]
  <2>1. \A i \in its : g[i] \in Nat /\ g[i] = f[i][e]
    OBVIOUS
  <2>2. sums[e] = SumFunctionOnSet(g, its)
    BY DEF SumFunction, SumsByType
  <2> HIDE DEF g, sums
  <2> QED
    BY <2>1, <2>2, SumType, SumAtLeast
<1> QED
  BY <1>1 DEF SumsByType

RunErrors(its) == [i \in its |-> i.out.errors]
WarmErrors(its) == [i \in its |-> i.out.warm]

\* The part of a row that counts errors.
RowFields == {"case", "types", "errors", "warmTypes", "warmErrors", "scope", "failures", "flaws", "rate", "proxied"}
Alike(r, row) ==
  /\ r.case = row.case /\ r.types = row.types /\ r.errors = row.errors
  /\ r.warmTypes = row.warmTypes /\ r.warmErrors = row.warmErrors /\ r.scope = row.scope

\* The fields of a row that do not depend on its suite.
LEMMA PlainFact ==
  ASSUME NEW c, NEW k, NEW old, NEW its
  PROVE  LET row == PlainRow(c, k, old, its)
         IN  /\ row.scope = Scope(old) /\ row.case = k
             /\ row.types = SumsByType(RunErrors(its), its)
             /\ row.warmTypes = SumsByType(WarmErrors(its), its)
             /\ row.errors = Total(row.types) /\ row.warmErrors = Total(row.warmTypes)
             /\ RowFields \subseteq DOMAIN row
<1> DEFINE row == PlainRow(c, k, old, its)
<1>1. row.scope = Scope(old) /\ row.case = k
  BY Zenon DEF PlainRow
<1>2. row.types = SumsByType(RunErrors(its), its)
  <2> DEFINE f == RunErrors(its)
  <2>1. row.types = [e \in Types |-> SumFunction([i \in its |-> i.out.errors[e]])]
    BY Zenon DEF PlainRow, ByType, Sum
  <2>2. \A e \in Types : [i \in its |-> i.out.errors[e]] = [i \in its |-> f[i][e]]
    BY DEF RunErrors, WarmErrors
  <2> HIDE DEF row, f
  <2>3. row.types = SumsByType(f, its)
    BY <2>1, <2>2, Zenon DEF SumsByType
  <2> QED
    BY <2>3 DEF f
<1>3. row.warmTypes = SumsByType(WarmErrors(its), its)
  <2> DEFINE f == WarmErrors(its)
  <2>1. row.warmTypes = [e \in Types |-> SumFunction([i \in its |-> i.out.warm[e]])]
    BY Zenon DEF PlainRow, ByType, Sum
  <2>2. \A e \in Types : [i \in its |-> i.out.warm[e]] = [i \in its |-> f[i][e]]
    BY DEF RunErrors, WarmErrors
  <2> HIDE DEF row, f
  <2>3. row.warmTypes = SumsByType(f, its)
    BY <2>1, <2>2, Zenon DEF SumsByType
  <2> QED
    BY <2>3 DEF f
<1>4. row.errors = Total(row.types)
  BY Zenon DEF PlainRow
<1>5. row.warmErrors = Total(row.warmTypes)
  BY Zenon DEF PlainRow
<1>6. RowFields \subseteq DOMAIN row
  BY Zenon DEF PlainRow, RowFields
<1> QED
  BY <1>1, <1>2, <1>3, <1>4, <1>5, <1>6

\* A row of the resource suite has the runs that have not recovered, one of a
\* research profile the flaws of its cases; all of them count errors alike.
LEMMA RowFact ==
  ASSUME NEW row, NEW its, RowFields \subseteq DOMAIN row
  PROVE  /\ Alike(ResourceRow(row, its), row)
         /\ ResourceRow(row, its).failures = {i \in its : ~i.out.recovered}
         /\ Alike(ProxyRow(row, its), row)
         /\ Alike(ResearchRow(row, its), row)
         /\ ResearchRow(row, its).flaws = UNION {i.out.flaws : i \in its}
<1>1. /\ Alike(ResourceRow(row, its), row)
      /\ ResourceRow(row, its).failures = {i \in its : ~i.out.recovered}
  BY DEF ResourceRow, RowFields, Alike
<1>2. Alike(ProxyRow(row, its), row)
  BY DEF ProxyRow, RowFields, Alike
<1>3. /\ Alike(ResearchRow(row, its), row)
      /\ ResearchRow(row, its).flaws = UNION {i.out.flaws : i \in its}
  BY DEF ResearchRow, RowFields, Alike
<1> QED
  BY <1>1, <1>2, <1>3

\* A plain row counts the errors of each of its runs.
LEMMA PlainCounts ==
  ASSUME NEW c, NEW old, NEW its, IsFiniteSet(its), NEW t,
         \A i \in its : i.out.errors \in [Types -> Nat] /\ i.out.warm \in [Types -> Nat],
         NEW i \in its
  PROVE  Counts(PlainRow(c, t.case, old, its), t, i.out)
<1> DEFINE row == PlainRow(c, t.case, old, its)
           f == RunErrors(its)
           g == WarmErrors(its)
<1>1. /\ row.types = SumsByType(f, its) /\ row.warmTypes = SumsByType(g, its) /\ row.case = t.case
      /\ row.errors = Total(row.types) /\ row.warmErrors = Total(row.warmTypes)
  BY PlainFact
<1>2. \A j \in its : f[j] = j.out.errors /\ g[j] = j.out.warm
  BY DEF RunErrors, WarmErrors
<1> HIDE DEF row, f, g
<1>3. SumsByType(f, its) \in [Types -> Nat] /\ \A j \in its : \A e \in Types : f[j][e] <= SumsByType(f, its)[e]
  BY <1>2, ByTypeFact
<1>4. SumsByType(g, its) \in [Types -> Nat] /\ \A j \in its : \A e \in Types : g[j][e] <= SumsByType(g, its)[e]
  BY <1>2, ByTypeFact
<1>5. Counts(row, t, i.out)
  BY <1>1, <1>2, <1>3, <1>4 DEF Counts
<1> QED
  BY <1>5 DEF row

\* The runs of the tasks T that are aggregated into one row.
Its(T, runs, key) ==
  {[repeat |-> t.repeat, out |-> runs[t]] : t \in {u \in T : u.client = key[1] /\ u.case = key[2]}}

\* They are one for each repeat at most.
LEMMA ItsFact ==
  ASSUME suite \in Suites, NEW T \in SUBSET Tasks(suite), NEW runs, NEW key
  PROVE  IsFiniteSet(Its(T, runs, key))
<1> DEFINE task(n) == [client |-> key[1], case |-> key[2], repeat |-> n]
           N == {n \in 1 .. Repeats[suite] : task(n) \in T}
           g == [n \in N |-> [repeat |-> n, out |-> runs[task(n)]]]
           its == Its(T, runs, key)
<1>1. IsFiniteSet(N)
  <2>1. 1 \in Int /\ Repeats[suite] \in Int
    BY SuiteFact
  <2>2. IsFiniteSet(1 .. Repeats[suite])
    BY <2>1, FS_Interval
  <2> QED
    BY <2>2, FS_Subset
<1>2. ASSUME NEW n \in N
      PROVE  g[n] \in its
  <2>1. task(n) \in {u \in T : u.client = key[1] /\ u.case = key[2]} /\ task(n).repeat = n
    OBVIOUS
  <2> HIDE DEF task
  <2> QED
    BY <1>2, <2>1 DEF Its
<1>3. ASSUME NEW i \in its
      PROVE  \E n \in N : g[n] = i
  <2>1. PICK t \in T : t.client = key[1] /\ t.case = key[2] /\ i = [repeat |-> t.repeat, out |-> runs[t]]
    BY DEF Its
  <2>2. t.repeat \in 1 .. Repeats[suite] /\ t = task(t.repeat)
    BY <2>1 DEF Tasks
  <2>3. t.repeat \in N
    BY <2>2
  <2> HIDE DEF task
  <2> QED
    BY <2>1, <2>2, <2>3
<1> HIDE DEF N, its
<1>4. g \in [N -> its]
  BY <1>2
<1> HIDE DEF g
<1>5. g \in Surjection(N, its)
  BY <1>3, <1>4 DEF Surjection
<1>6. IsFiniteSet(its)
  BY <1>1, <1>5, FS_Surjection
<1> QED
  BY <1>6 DEF its

\* The rows of some runs have their scope and tell of each one of them.
LEMMA RowsFact ==
  ASSUME suite \in Suites, NEW T \in SUBSET Tasks(suite), NEW runs, NEW old,
         \A t \in T : Fits(suite, t, runs[t])
  PROVE  /\ \A row \in Rows(T, runs, old) : row.scope = Scope(old)
         /\ \A t \in T : \E row \in Rows(T, runs, old) :
              /\ Counts(row, t, runs[t])
              /\ suite = "resource" /\ ~runs[t].recovered => row.failures # {}
              /\ suite \in Research => runs[t].flaws \subseteq row.flaws
<1> DEFINE its(key) == Its(T, runs, key)
<1> DEFINE plain(key) == PlainRow(key[1], key[2], old, its(key))
<1> DEFINE row(key) == CASE suite = "resource" -> ResourceRow(plain(key), its(key))
                         [] suite = "proxy" -> ProxyRow(plain(key), its(key))
                         [] suite \in Research -> ResearchRow(plain(key), its(key))
                         [] OTHER -> plain(key)
<1> DEFINE keys == {<<t.client, t.case>> : t \in T}
<1>1. Rows(T, runs, old) = {row(key) : key \in keys}
  BY Zenon DEF Rows, Its
<1>2. ASSUME NEW key
      PROVE  /\ row(key).scope = Scope(old) /\ Alike(row(key), plain(key))
             /\ suite = "resource" => row(key).failures = {i \in its(key) : ~i.out.recovered}
             /\ suite \in Research => row(key).flaws = UNION {i.out.flaws : i \in its(key)}
  <2> DEFINE p == plain(key)
  <2> DEFINE s == its(key)
  <2>1. p.scope = Scope(old) /\ RowFields \subseteq DOMAIN p
    BY PlainFact
  <2>2. row(key) = CASE suite = "resource" -> ResourceRow(p, s)
                     [] suite = "proxy" -> ProxyRow(p, s)
                     [] suite \in Research -> ResearchRow(p, s)
                     [] OTHER -> p
    OBVIOUS
  <2> HIDE DEF p, s, row
  <2>3. /\ Alike(ResourceRow(p, s), p) /\ ResourceRow(p, s).failures = {i \in s : ~i.out.recovered}
        /\ Alike(ProxyRow(p, s), p)
        /\ Alike(ResearchRow(p, s), p) /\ ResearchRow(p, s).flaws = UNION {i.out.flaws : i \in s}
    BY <2>1, RowFact
  <2>4. Alike(row(key), p)
    <3>1. Alike(p, p)
      BY DEF Alike
    <3> QED
      BY <2>2, <2>3, <3>1
  <2>5. row(key).scope = Scope(old)
    BY <2>1, <2>4 DEF Alike
  <2>6. suite = "resource" => row(key).failures = {i \in s : ~i.out.recovered}
    BY <2>2, <2>3 DEF Research
  <2>7. suite \in Research => row(key).flaws = UNION {i.out.flaws : i \in s}
    BY <2>2, <2>3 DEF Research
  <2> QED
    BY <2>4, <2>5, <2>6, <2>7 DEF p, s
<1>3. ASSUME NEW t \in T
      PROVE  \E key \in keys : [repeat |-> t.repeat, out |-> runs[t]] \in its(key) /\ key[2] = t.case
  <2>1. <<t.client, t.case>> \in keys
    OBVIOUS
  <2>2. [repeat |-> t.repeat, out |-> runs[t]] \in its(<<t.client, t.case>>)
    BY DEF Its
  <2> QED
    BY <2>1, <2>2
<1>4. ASSUME NEW key
      PROVE  /\ IsFiniteSet(its(key))
             /\ \A i \in its(key) : i.out.errors \in [Types -> Nat] /\ i.out.warm \in [Types -> Nat]
  <2>1. IsFiniteSet(its(key))
    BY ItsFact
  <2>2. \A i \in its(key) : i.out.errors \in [Types -> Nat] /\ i.out.warm \in [Types -> Nat]
    BY DEF Its, Fits
  <2> QED
    BY <2>1, <2>2
<1> HIDE DEF row, its, keys
<1>5. \A r \in Rows(T, runs, old) : r.scope = Scope(old)
  BY <1>1, <1>2
<1>6. ASSUME NEW t \in T
      PROVE  \E r \in Rows(T, runs, old) :
               /\ Counts(r, t, runs[t])
               /\ suite = "resource" /\ ~runs[t].recovered => r.failures # {}
               /\ suite \in Research => runs[t].flaws \subseteq r.flaws
  <2> DEFINE i == [repeat |-> t.repeat, out |-> runs[t]]
  <2>1. PICK key \in keys : i \in its(key) /\ key[2] = t.case
    BY <1>3, <1>6
  <2>2. row(key) \in Rows(T, runs, old)
    BY <1>1, <2>1
  <2>3. i.out = runs[t]
    OBVIOUS
  <2> HIDE DEF i
  <2>4. suite = "resource" /\ ~runs[t].recovered => row(key).failures # {}
    BY <1>2, <2>1, <2>3
  <2>5. suite \in Research => runs[t].flaws \subseteq row(key).flaws
    BY <1>2, <2>1, <2>3
  <2>6. Counts(plain(key), t, runs[t])
    <3>1. IsFiniteSet(its(key)) /\ \A j \in its(key) : j.out.errors \in [Types -> Nat] /\ j.out.warm \in [Types -> Nat]
      BY <1>4
    <3>2. Counts(PlainRow(key[1], t.case, old, its(key)), t, i.out)
      BY <2>1, <3>1, PlainCounts
    <3> QED
      BY <2>1, <2>3, <3>2
  <2>7. Counts(row(key), t, runs[t])
    <3>1. Alike(row(key), plain(key))
      BY <1>2
    <3> HIDE DEF plain
    <3> QED
      BY <2>6, <3>1 DEF Counts, Alike
  <2> QED
    BY <2>2, <2>4, <2>5, <2>7
<1> QED
  BY <1>5, <1>6

\* A report as it is written is an output of its process.
LEMMA WrittenFact ==
  ASSUME TypeOK, Outcomes, side \in Sides, NEW P
  PROVE  LET w == Written(P)
         IN  /\ IsReport(w) /\ w.clients = P
             /\ w.runs = [t \in Of(P, DOMAIN ran[side]) |-> ran[side][t]]
             /\ w.scope = Scope(P \subseteq legacy[side])
             /\ w.intact /\ w.harness = harness[side]
             /\ Tells(w)
<1> DEFINE w == Written(P)
<1> DEFINE T == Of(P, DOMAIN ran[side])
<1>1. /\ IsReport(w) /\ w.clients = P
      /\ w.rows = Rows(T, ran[side], P \subseteq legacy[side])
      /\ w.runs = [t \in T |-> ran[side][t]]
      /\ w.scope = Scope(P \subseteq legacy[side])
      /\ w.intact /\ w.harness = harness[side]
  BY DEF Written, IsReport
<1>6. suite \in Suites /\ T \in SUBSET Tasks(suite) /\ \A t \in T : Fits(suite, t, ran[side][t])
  BY DEF Of, TypeOK, Outcomes
<1> HIDE DEF w, T
<1>2. \A row \in w.rows : row.scope = w.scope
  <2>1. \A row \in Rows(T, ran[side], P \subseteq legacy[side]) : row.scope = Scope(P \subseteq legacy[side])
    <3>1. PICK old : old = (P \subseteq legacy[side])
      OBVIOUS
    <3>2. \A row \in Rows(T, ran[side], old) : row.scope = Scope(old)
      BY <1>6, RowsFact
    <3> QED
      BY <3>1, <3>2
  <2> QED
    BY <1>1, <2>1
<1>3. \A t \in DOMAIN w.runs : t \in T /\ w.runs[t] = ran[side][t]
  BY <1>1
<1>4. ASSUME NEW t \in DOMAIN w.runs
      PROVE  \E row \in w.rows :
               /\ Counts(row, t, w.runs[t])
               /\ suite = "resource" /\ ~w.runs[t].recovered => row.failures # {}
               /\ suite \in Research => w.runs[t].flaws \subseteq row.flaws
  <2>1. t \in T /\ w.runs[t] = ran[side][t]
    BY <1>3, <1>4
  <2>2. \E row \in Rows(T, ran[side], P \subseteq legacy[side]) :
               /\ Counts(row, t, ran[side][t])
               /\ suite = "resource" /\ ~ran[side][t].recovered => row.failures # {}
               /\ suite \in Research => ran[side][t].flaws \subseteq row.flaws
    BY <1>6, <2>1, RowsFact
  <2> QED
    BY <1>1, <2>1, <2>2
<1>5. Tells(w)
  BY <1>2, <1>4 DEF Tells
<1> QED
  BY <1>1, <1>5 DEF w, T

(***************************************************************************)
(* Verdicts.                                                                *)
(***************************************************************************)
Lenient == {"valid", "warning"}

\* A report that is judged comparable has no reason against it, and no verdict
\* that has been recorded for it, or for a child, is against it.
LEMMA JudgedFact ==
  ASSUME NEW rep, Judged(rep).comparable
  PROVE  /\ \A r \in Classify(rep).reasons : r.status \in Lenient
         /\ \A r \in Classify(rep).reasons : r.code # "expected_compatibility_failure"
         /\ ~Restricts(Recorded(rep))
<1> DEFINE S == {Classify(rep)} \cup {FromPayload(p) : p \in Recorded(rep)}
<1>1. Combine(S).comparable
  BY DEF Judged
<1> HIDE DEF S
<1>2. /\ \A s \in S : s.comparable
      /\ AllowComparison(UNION {s.reasons : s \in S})
  BY <1>1 DEF Combine
<1>3. \A r \in Classify(rep).reasons : r \in UNION {s.reasons : s \in S}
  BY DEF S
<1>4. \A r \in Classify(rep).reasons : r.status \in Lenient /\ r.code # "expected_compatibility_failure"
  BY <1>2, <1>3 DEF AllowComparison, Lenient
<1>5. \A p \in Recorded(rep) : FromPayload(p).comparable
  BY <1>2 DEF S
<1> QED
  BY <1>4, <1>5 DEF Restricts

\* What the children, the rows and a research profile contribute to a verdict.
LEMMA ClassifyFact ==
  ASSUME NEW rep
  PROVE  /\ ChildReasons(rep) \subseteq Classify(rep).reasons
         /\ \A row \in rep.rows : RowReasons(row) \subseteq Classify(rep).reasons
         /\ suite = "attribution" => AttributionReasons(rep) \subseteq Classify(rep).reasons
         /\ suite = "lifecycle" => LifecycleReasons(rep) \subseteq Classify(rep).reasons
<1> DEFINE A == IF suite = "attribution" THEN AttributionReasons(rep) ELSE {}
<1> DEFINE L == IF suite = "lifecycle" THEN LifecycleReasons(rep) ELSE {}
<1> DEFINE R == UNION {RowReasons(row) : row \in rep.rows}
<1>1. Classify(rep) = Summary(ChildReasons(rep) \cup A \cup L \cup R)
  BY DEF Classify
<1>2. Classify(rep).reasons = ChildReasons(rep) \cup A \cup L \cup R
  BY <1>1 DEF Summary
<1> QED
  BY <1>2

\* A reason about a whole report has its status.
LEMMA WholeFact ==
  ASSUME NEW status, NEW code
  PROVE  \E r \in Whole(status, code) : r.status = status
  BY DEF Whole, Reason

\* A reason about a row has its status.
LEMMA RowReasonFact ==
  ASSUME NEW status, NEW code, NEW row
  PROVE  \E r \in RowReason(status, code, row) : r.status = status
  BY DEF RowReason, Reason

\* In a report without a reason against it, every child has succeeded and ran
\* what the parent declares.
LEMMA ChildrenFact ==
  ASSUME NEW rep, \A r \in Classify(rep).reasons : r.status \in Lenient
  PROVE  \A c \in rep.children : c.succeeded /\ c.provenance = rep.provenance
<1> SUFFICES ASSUME NEW c \in rep.children
             PROVE  c.succeeded /\ c.provenance = rep.provenance
  OBVIOUS
<1> DEFINE R == IF c.succeeded THEN ProvenanceReasons(rep, c) ELSE Whole("invalid", "isolated_child_failed")
<1>1. R \subseteq ChildReasons(rep)
  BY DEF ChildReasons
<1>2. \A r \in R : r.status \in Lenient
  BY <1>1, ClassifyFact
<1>3. "invalid" \notin Lenient
  BY DEF Lenient
<1>4. c.succeeded
  BY <1>2, <1>3, WholeFact
<1>5. ASSUME c.provenance = Absent
      PROVE  FALSE
  <2>1. R = Whole("invalid", "isolated_child_provenance_missing")
    BY <1>4, <1>5 DEF ProvenanceReasons
  <2> QED
    BY <2>1, <1>2, <1>3, WholeFact
<1>6. ASSUME c.provenance # Absent, c.provenance # rep.provenance
      PROVE  FALSE
  <2>1. R = Whole("invalid", "isolated_child_provenance_mismatch")
    BY <1>4, <1>6 DEF ProvenanceReasons
  <2> QED
    BY <2>1, <1>2, <1>3, WholeFact
<1> QED
  BY <1>4, <1>5, <1>6

\* Its rows have no run of the resource suite that has not recovered.
LEMMA RecoveredFact ==
  ASSUME NEW rep, \A r \in Classify(rep).reasons : r.status \in Lenient,
         suite = "resource", NEW row \in rep.rows
  PROVE  row.failures = {}
<1>1. RecoveryReasons(row) \subseteq Classify(rep).reasons
  <2>1. RecoveryReasons(row) \subseteq RowReasons(row)
    BY Zenon DEF RowReasons
  <2> QED
    BY <2>1, ClassifyFact
<1>2. row.failures # {} => RecoveryReasons(row) = RowReason("needs-rerun", "resource_recovery_failed", row)
  BY DEF RecoveryReasons
<1>3. "needs-rerun" \notin Lenient
  BY DEF Lenient
<1> QED
  BY <1>1, <1>2, <1>3, RowReasonFact

\* When the errors of a row that nobody expects are not more than those a
\* client is known for, and there is none of the latter, no type has any.
LEMMA ErrorsFact ==
  ASSUME NEW types \in [Types -> Nat], NEW E \in SUBSET Types, E = {} \/ \E e \in Types : E = {e},
         NEW C \in SUBSET Types, \A e \in C : types[e] = 0,
         ~(Total(types) - SumFunctionOnSet(types, E) > SumFunctionOnSet(types, C))
  PROVE  \A e \in Types \ E : types[e] = 0
<1>1. IsFiniteSet(Types) /\ IsFiniteSet(C) /\ \A e \in Types : types[e] \in Nat
  BY TypesFact, FS_Subset
<1>2. SumFunctionOnSet(types, C) = 0
  BY <1>1, SumZero
<1>3. Total(types) \in Nat /\ Total(types) = SumFunctionOnSet(types, Types)
  BY <1>1, SumType DEF Total
<1>4. CASE E = {}
  <2>1. SumFunctionOnSet(types, E) = 0
    BY <1>4, SumEmpty
  <2>2. SumFunctionOnSet(types, Types) = 0
    BY <1>2, <1>3, <2>1
  <2> QED
    BY <1>1, <2>2, SumZero
<1>5. CASE E # {}
  <2>1. PICK x \in Types : E = {x}
    BY <1>5
  <2>2. IsFiniteSet(E) /\ E \ {x} = {} /\ x \in E
    BY <2>1, FS_Singleton
  <2>3. SumFunctionOnSet(types, E) = types[x]
    <3>1. SumFunctionOnSet(types, E) = types[x] + SumFunctionOnSet(types, E \ {x})
      BY <1>1, <2>1, <2>2, SumStep
    <3>2. SumFunctionOnSet(types, E \ {x}) = 0
      BY <2>2, SumEmpty
    <3> QED
      BY <1>1, <3>1, <3>2
  <2>4. IsFiniteSet(Types \ {x}) /\ \A e \in Types \ {x} : types[e] \in Nat
    BY <1>1, FS_Subset
  <2>5. SumFunctionOnSet(types, Types) = types[x] + SumFunctionOnSet(types, Types \ {x})
    BY <1>1, SumStep
  <2>6. SumFunctionOnSet(types, Types \ {x}) \in Nat
    BY <2>4, SumType
  <2>7. SumFunctionOnSet(types, Types \ {x}) = 0
    BY <1>1, <1>2, <1>3, <2>3, <2>5, <2>6
  <2>8. \A e \in Types \ {x} : types[e] = 0
    BY <2>4, <2>7, SumZero
  <2> QED
    BY <2>1, <2>8
<1> QED
  BY <1>4, <1>5

\* The types of errors that are expected of a case, or that a client is known for.
LEMMA ExpectedFact ==
  ASSUME NEW row
  PROVE  /\ ExpectedTypes(suite, row.case) = {} \/ \E e \in Types : ExpectedTypes(suite, row.case) = {e}
         /\ \A field : CompatibilityTypes(row, field) \subseteq Types
<1>1. ExpectedTypes(suite, row.case) = {} \/ \E e \in Types : ExpectedTypes(suite, row.case) = {e}
  BY DEF ExpectedTypes, Types
<1>2. \A f \in CompatibilityFailures : f.types \subseteq Types
  BY DEF CompatibilityFailures, Types
<1>3. \A field : CompatibilityTypes(row, field) \subseteq Types
  BY <1>2 DEF CompatibilityTypes
<1> QED
  BY <1>1, <1>3

\* In a report without a reason against a comparison, a run whose errors a row
\* counts has none but those its case is there for.
LEMMA SoundFact ==
  ASSUME NEW rep, \A r \in Classify(rep).reasons : r.status \in Lenient,
         \A r \in Classify(rep).reasons : r.code # "expected_compatibility_failure",
         NEW row \in rep.rows, NEW t, NEW o, Counts(row, t, o), Fits(suite, t, o)
  PROVE  Sound(t, o)
<1>1. /\ "needs-rerun" \notin Lenient /\ "invalid" \notin Lenient
      /\ \A r \in RowReasons(row) : r.status \in Lenient /\ r.code # "expected_compatibility_failure"
  BY ClassifyFact DEF Lenient
<1>2. ErrorReasons(row) \subseteq RowReasons(row) /\ ProxyReasons(row) \subseteq RowReasons(row)
  BY Zenon DEF RowReasons
<1> DEFINE E == ExpectedTypes(suite, row.case)
           run == CompatibilityTypes(row, "run")
           warm == CompatibilityTypes(row, "warm-up")
           types == row.types
           warmTypes == row.warmTypes
<1>3. /\ types \in [Types -> Nat] /\ warmTypes \in [Types -> Nat] /\ row.case = t.case
      /\ row.errors = Total(types) /\ row.warmErrors = Total(warmTypes)
      /\ \A e \in Types : o.errors[e] <= types[e] /\ o.warm[e] <= warmTypes[e]
  BY DEF Counts
<1>4. /\ E \in SUBSET Types /\ run \in SUBSET Types /\ warm \in SUBSET Types
      /\ E = {} \/ \E e \in Types : E = {e}
  BY ExpectedFact
<1>5. (\A e \in run : types[e] = 0) /\ (\A e \in warm : warmTypes[e] = 0)
  <2>1. CompatibilityReasons(row) \subseteq ErrorReasons(row)
    BY Zenon DEF ErrorReasons
  <2>2. \E r \in RowReason("warning", "expected_compatibility_failure", row) :
           r.code = "expected_compatibility_failure"
    BY DEF RowReason, Reason
  <2>3. ~((\E e \in run : types[e] > 0) \/ (\E e \in warm : warmTypes[e] > 0))
    BY <1>1, <1>2, <2>1, <2>2, Zenon DEF CompatibilityReasons
  <2> QED
    BY <1>3, <1>4, <2>3
<1>6. ~(suite = "proxy" /\ Bypassed(row))
  <2>1. suite = "proxy" /\ Bypassed(row) => RowReason("invalid", "proxy_usage_guard_failed", row) \subseteq ProxyReasons(row)
    BY Zenon DEF ProxyReasons
  <2> QED
    BY <1>1, <1>2, <2>1, RowReasonFact
<1>7. ~(Total(types) - SumFunctionOnSet(types, E) > SumFunctionOnSet(types, run))
  <2>1. UnexpectedErrors(row, row.errors, types) > CompatibilityErrors(row, "run", row.errors, types)
          => RowReason("needs-rerun", "unexpected_measured_errors", row) \subseteq ErrorReasons(row)
    BY <1>6, Zenon DEF ErrorReasons
  <2>2. ~(UnexpectedErrors(row, row.errors, types) > CompatibilityErrors(row, "run", row.errors, types))
    BY <1>1, <1>2, <2>1, RowReasonFact
  <2>3. /\ UnexpectedErrors(row, row.errors, types) = Total(types) - SumFunctionOnSet(types, E)
        /\ CompatibilityErrors(row, "run", row.errors, types) = SumFunctionOnSet(types, run)
    BY <1>3, Zenon DEF UnexpectedErrors, CompatibilityErrors
  <2> QED
    BY <2>2, <2>3
<1>8. ~(Total(warmTypes) - SumFunctionOnSet(warmTypes, E) > SumFunctionOnSet(warmTypes, warm))
  <2>1. UnexpectedErrors(row, row.warmErrors, warmTypes) > CompatibilityErrors(row, "warm-up", row.warmErrors, warmTypes)
          => RowReason("needs-rerun", "unexpected_warmup_errors", row) \subseteq ErrorReasons(row)
    BY Zenon DEF ErrorReasons
  <2>2. ~(UnexpectedErrors(row, row.warmErrors, warmTypes) > CompatibilityErrors(row, "warm-up", row.warmErrors, warmTypes))
    BY <1>1, <1>2, <2>1, RowReasonFact
  <2>3. /\ UnexpectedErrors(row, row.warmErrors, warmTypes) = Total(warmTypes) - SumFunctionOnSet(warmTypes, E)
        /\ CompatibilityErrors(row, "warm-up", row.warmErrors, warmTypes) = SumFunctionOnSet(warmTypes, warm)
    BY <1>3, Zenon DEF UnexpectedErrors, CompatibilityErrors
  <2> QED
    BY <2>2, <2>3
<1> HIDE DEF E, run, warm, types, warmTypes
<1>9. (\A e \in Types \ E : types[e] = 0) /\ (\A e \in Types \ E : warmTypes[e] = 0)
  BY <1>3, <1>4, <1>5, <1>7, <1>8, ErrorsFact
<1>10. o.errors \in [Types -> Nat] /\ o.warm \in [Types -> Nat] /\ o.proxied \in Nat /\ Used(suite, t, o)
  BY DEF Fits
<1>11. E = ExpectedTypes(suite, t.case)
  BY <1>3 DEF E
<1>12. \A e \in Types : (o.errors[e] > 0 => e \in E) /\ (o.warm[e] > 0 => e \in E)
  BY <1>3, <1>9, <1>10
<1>13. ASSUME suite = "proxy"
       PROVE  (o.proxied > 0) = UsesProxy(suite, t.case)
  <2>1. E = {}
    BY <1>11, <1>13 DEF ExpectedTypes
  <2>2. o.errors["bypass"] = 0 /\ o.errors["activity"] = 0
    BY <1>10, <1>12, <2>1 DEF Types
  <2>3. UsesProxy(suite, t.case) \in BOOLEAN
    BY DEF UsesProxy
  <2> QED
    BY <1>10, <1>13, <2>2, <2>3 DEF Used
<1> QED
  BY <1>11, <1>12, <1>13 DEF Sound

\* The reasons of both research profiles on a plan and its cases, and on the
\* configuration of a row.
LEMMA ProfileFact ==
  ASSUME NEW rep, suite \in Research
  PROVE  /\ PlanReasons(rep) \subseteq Classify(rep).reasons
         /\ AggregateReasons(rep) \subseteq Classify(rep).reasons
<1>1. suite = "lifecycle" \/ suite = "attribution"
  BY DEF Research
<1>2. PlanReasons(rep) \subseteq LifecycleReasons(rep) /\ AggregateReasons(rep) \subseteq LifecycleReasons(rep)
  BY Zenon DEF LifecycleReasons
<1>3. PlanReasons(rep) \subseteq AttributionReasons(rep) /\ AggregateReasons(rep) \subseteq AttributionReasons(rep)
  BY Zenon DEF AttributionReasons
<1> QED
  BY <1>1, <1>2, <1>3, ClassifyFact

\* A research report without a reason against it has every case of the plan,
\* each of a process of its own, and no row with a flaw.
LEMMA PlanFact ==
  ASSUME NEW rep, \A r \in Classify(rep).reasons : r.status \in Lenient, suite \in Research
  PROVE  /\ DOMAIN rep.runs = Tasks(suite)
         /\ \A t, u \in DOMAIN rep.runs : t # u => rep.runs[t].pid # rep.runs[u].pid
         /\ \A t \in DOMAIN rep.runs : rep.runs[t].flaws \cap DOMAIN CaseFlaws = {}
<1>1. \A r \in PlanReasons(rep) : r.status \in Lenient
  BY ProfileFact
<1>2. "invalid" \notin Lenient
  BY DEF Lenient
<1>3. DOMAIN rep.runs = Tasks(suite)
  <2>1. DOMAIN rep.runs # Tasks(suite) => Whole("invalid", "lifecycle_plan_incomplete") \subseteq PlanReasons(rep)
    BY Zenon DEF PlanReasons
  <2> QED
    BY <2>1, <1>1, <1>2, WholeFact
<1>4. ASSUME NEW t \in DOMAIN rep.runs, NEW u \in DOMAIN rep.runs, t # u, rep.runs[t].pid = rep.runs[u].pid
      PROVE  FALSE
  <2>1. PidReuse(rep) = Whole("invalid", "lifecycle_pid_reused")
    BY <1>4 DEF PidReuse
  <2>2. PidReuse(rep) \subseteq PlanReasons(rep)
    BY Zenon DEF PlanReasons
  <2> QED
    BY <2>1, <2>2, <1>1, <1>2, WholeFact
<1>5. ASSUME NEW t \in DOMAIN rep.runs, NEW f \in rep.runs[t].flaws \cap DOMAIN CaseFlaws
      PROVE  FALSE
  <2>1. Whole(CaseFlaws[f], f) \subseteq CaseReasons(rep.runs[t])
    BY <1>5 DEF CaseReasons
  <2>2. CaseReasons(rep.runs[t]) \subseteq PlanReasons(rep)
    BY <1>5, Zenon DEF PlanReasons
  <2>3. CaseFlaws[f] = "invalid"
    BY <1>5 DEF CaseFlaws
  <2> QED
    BY <2>1, <2>2, <2>3, <1>1, <1>2, WholeFact
<1> QED
  BY <1>3, <1>4, <1>5

\* In a report without a reason against it, the evidence of a row has no flaw
\* that classification looks for (classify_report_validity).
LEMMA RowFlawFact ==
  ASSUME NEW rep, \A r \in Classify(rep).reasons : r.status \in Lenient, suite \in Research,
         NEW row \in rep.rows
  PROVE  /\ "configuration" \notin row.flaws
         /\ suite = "attribution" => row.flaws \cap (DOMAIN WindowFlaws \cup DOMAIN ResourceFlaws) = {}
<1>1. "invalid" \notin Lenient /\ "needs-rerun" \notin Lenient
  BY DEF Lenient
<1>2. ASSUME "configuration" \in row.flaws
      PROVE  FALSE
  <2>1. RowReason("invalid", "lifecycle_configuration_mismatch", row) \subseteq AggregateReasons(rep)
    BY <1>2, Zenon DEF AggregateReasons
  <2> QED
    BY <2>1, <1>1, ProfileFact, RowReasonFact
<1>3. ASSUME suite = "attribution", NEW f \in row.flaws \cap DOMAIN WindowFlaws
      PROVE  FALSE
  <2>1. RowReason(WindowFlaws[f], f, row) \subseteq AttributionRowReasons(row)
    BY <1>3, Zenon DEF AttributionRowReasons
  <2>2. AttributionRowReasons(row) \subseteq AttributionReasons(rep)
    BY Zenon DEF AttributionReasons
  <2>3. WindowFlaws[f] \notin Lenient
    BY <1>1, <1>3 DEF WindowFlaws
  <2> QED
    BY <2>1, <2>2, <2>3, <1>3, ClassifyFact, RowReasonFact
<1>4. ASSUME suite = "attribution", NEW f \in row.flaws \cap DOMAIN ResourceFlaws
      PROVE  FALSE
  <2>1. RowReason(ResourceFlaws[f], f, row) \subseteq ResourceEvidenceReasons(row)
    BY <1>4, Zenon DEF ResourceEvidenceReasons
  <2>2. ResourceEvidenceReasons(row) \subseteq AttributionReasons(rep)
    <3>1. ResourceEvidenceReasons(row) \subseteq AttributionRowReasons(row)
      BY Zenon DEF AttributionRowReasons
    <3>2. AttributionRowReasons(row) \subseteq AttributionReasons(rep)
      BY Zenon DEF AttributionReasons
    <3> QED
      BY <3>1, <3>2
  <2>3. ResourceFlaws[f] \notin Lenient
    BY <1>1, <1>4 DEF ResourceFlaws
  <2> QED
    BY <2>1, <2>2, <2>3, <1>4, ClassifyFact, RowReasonFact
<1> QED
  BY <1>2, <1>3, <1>4

\* The sidecars of an attribution report without a reason against it are those
\* that were written.
LEMMA IntactFact ==
  ASSUME NEW rep, \A r \in Classify(rep).reasons : r.status \in Lenient, suite = "attribution"
  PROVE  rep.intact
<1>1. ~rep.intact => Whole("invalid", "attribution_raw_evidence_invalid") \subseteq AttributionReasons(rep)
  BY Zenon DEF AttributionReasons
<1>2. "invalid" \notin Lenient
  BY DEF Lenient
<1> QED
  BY <1>1, <1>2, ClassifyFact, WholeFact

\* A verdict another release has withheld restricts the report.
LEMMA WithheldFact ==
  ASSUME NEW reasons, NEW p \in Withheld(Summary(reasons))
  PROVE  ~FromPayload(p).comparable
<1>1. CASE p = [Summary(reasons) EXCEPT !.comparable = FALSE]
  BY <1>1 DEF Summary, FromPayload
<1>2. CASE p = [Summary(reasons) EXCEPT !.reasons = @ \cup Whole("needs-rerun", "recorded_by_another_release")]
  <2>1. p.reasons = reasons \cup Whole("needs-rerun", "recorded_by_another_release")
    BY <1>2 DEF Summary
  <2>2. ~AllowComparison(p.reasons)
    BY <2>1, WholeFact DEF AllowComparison
  <2> QED
    BY <2>2 DEF FromPayload
<1> QED
  BY <1>1, <1>2 DEF Withheld

(***************************************************************************)
(* The report of a side.                                                    *)
(***************************************************************************)
LEMMA ScopeFact == \A a, b \in BOOLEAN : Scope(a) = Scope(b) => a = b
  BY DEF Scope

\* The report of the one process of a side is a publication.
LEMMA PublishFact ==
  ASSUME Inv, side \in Sides, ~isolated, NEW w \in written
  PROVE  Publication(side, w)
<1>1. TypeOK /\ Alone /\ Releases /\ Outputs /\ suite \in Suites
  BY DEF Inv, TypeOK
<1>2. Output(w)
  BY <1>1 DEF Outputs
<1>3. Processes = {Measured(suite)}
  BY <1>1, ProcessFact
<1>4. w.clients = Measured(suite)
  BY <1>2, <1>3 DEF Output
<1>5. DOMAIN ran[side] \subseteq Tasks(suite)
  BY <1>1 DEF TypeOK
<1>6. \A t \in Tasks(suite) : t.client \in w.clients
  BY <1>1, <1>4, TaskFact
<1>7. DOMAIN w.runs = DOMAIN ran[side] /\ \A t \in DOMAIN ran[side] : w.runs[t] = ran[side][t]
  BY <1>2, <1>5, <1>6 DEF Output, Of
<1>8. restricted[side] => Restricts(Recorded(w))
  <2>1. w.validity \subseteq Recorded(w)
    BY DEF Recorded
  <2>2. \A v \in written : v.clients = Measured(suite)
    BY <1>1, <1>3 DEF Outputs, Output
  <2>3. \A v \in written : v = w
    BY <1>1, <1>4, <2>2 DEF Outputs
  <2> QED
    BY <1>1, <2>1, <2>3 DEF Outputs, Restricts
<1>9. lost[side] # {} => suite \in Research /\ DOMAIN w.runs # Tasks(suite)
  BY <1>1, <1>7 DEF Alone
<1>10. lost[side] = {} => /\ DOMAIN ran[side] = Tasks(suite) /\ DOMAIN w.runs = Tasks(suite)
                          /\ \A t \in Tasks(suite) : w.runs[t] = ran[side][t]
  <2>1. Of(w.clients, Left) = {}
    BY <1>2 DEF Output
  <2>2. lost[side] = {} => Tasks(suite) \subseteq DOMAIN ran[side]
    BY <2>1, <1>6 DEF Of, Left
  <2> QED
    BY <2>2, <1>5, <1>7
<1>11. IsReport(w) /\ Tells(w) /\ w.scope \in Scopes /\ w.intact /\ w.harness = harness[side]
  BY <1>2 DEF Output, Scopes
<1>12. legacy[side] \cap w.clients \in {{}, w.clients}
  BY <1>1, <1>3, <1>4 DEF Releases
<1> QED
  BY <1>8, <1>9, <1>10, <1>11, <1>12 DEF Publication

\* What is merged from the reports of a side's processes is one, too.
LEMMA MergeFact ==
  ASSUME Inv, side \in Sides, isolated, Waiting = {}, ScopesAgree(written), NEW v
  PROVE  Publication(side, [MergedReport(written) EXCEPT !.validity = v])
<1> DEFINE r == [MergedReport(written) EXCEPT !.validity = v]
<1>1. TypeOK /\ Releases /\ Outputs /\ suite \in Suites
  BY DEF Inv, TypeOK
<1>2. /\ IsReport(r)
      /\ r.clients = UNION {w.clients : w \in written}
      /\ r.rows = UNION {w.rows : w \in written}
      /\ r.runs = [t \in UNION {DOMAIN w.runs : w \in written} |-> ran[side][t]]
      /\ r.scope = IF written = {} THEN Absent ELSE (CHOOSE w \in written : TRUE).scope
      /\ r.children = ChildDiagnostics(written)
      /\ r.harness = harness[side] /\ r.intact
  <2> DEFINE m == MergedReport(written)
  <2>1. /\ m.clients = UNION {w.clients : w \in written}
        /\ m.rows = UNION {w.rows : w \in written}
        /\ m.runs = [t \in UNION {DOMAIN w.runs : w \in written} |-> ran[side][t]]
        /\ m.scope = IF written = {} THEN Absent ELSE (CHOOSE w \in written : TRUE).scope
        /\ m.children = ChildDiagnostics(written)
        /\ m.harness = harness[side] /\ m.intact
    BY Zenon DEF MergedReport
  <2>2. IsReport(m)
    BY Zenon DEF MergedReport, IsReport
  <2>3. r = [m EXCEPT !.validity = v]
    OBVIOUS
  <2> HIDE DEF m, r
  <2>4. /\ IsReport(r) /\ r.clients = m.clients /\ r.rows = m.rows /\ r.runs = m.runs /\ r.scope = m.scope
        /\ r.children = m.children /\ r.harness = m.harness /\ r.intact = m.intact
    BY <2>2, <2>3 DEF IsReport
  <2> QED
    BY <2>1, <2>4
<1> HIDE DEF r
<1>3. \A w \in written : Output(w)
  BY <1>1 DEF Outputs
<1>4. \A w \in written : ReportScope(w) = w.scope
  BY DEF ScopesAgree, ReportScope
<1>5. \A u, w \in written : u.scope = w.scope
  BY <1>4 DEF ScopesAgree
<1>6. \A w \in written : r.scope = w.scope
  <2>1. ASSUME NEW w \in written
        PROVE  r.scope = w.scope
    <3>1. (CHOOSE u \in written : TRUE) \in written
      BY <2>1
    <3> QED
      BY <3>1, <2>1, <1>2, <1>5
  <2> QED
    BY <2>1
<1>7. restricted[side] => Restricts(Recorded(r))
  <2>1. SUFFICES ASSUME restricted[side]
                 PROVE  Restricts(Recorded(r))
    OBVIOUS
  <2>2. PICK w \in written : Restricts(w.validity)
    BY <1>1, <2>1 DEF Outputs
  <2> DEFINE d == [client |-> CHOOSE c \in w.clients : TRUE, succeeded |-> TRUE, validity |-> w.validity,
                   provenance |-> w.provenance]
  <2>3. d \in r.children
    BY <1>2 DEF ChildDiagnostics
  <2>4. d.validity = w.validity
    OBVIOUS
  <2> HIDE DEF d
  <2>5. w.validity \subseteq Recorded(r)
    BY <2>3, <2>4 DEF Recorded
  <2> QED
    BY <2>2, <2>5 DEF Restricts
<1>8. lost[side] # {} => \E c \in r.children : ~c.succeeded
  <2>1. SUFFICES ASSUME NEW c \in lost[side]
                 PROVE  \E d \in r.children : ~d.succeeded
    OBVIOUS
  <2> DEFINE d == [client |-> c, succeeded |-> FALSE, validity |-> {}, provenance |-> Absent]
  <2>2. d \in r.children
    BY <1>2, <2>1 DEF ChildDiagnostics
  <2>3. ~d.succeeded
    OBVIOUS
  <2> HIDE DEF d
  <2> QED
    BY <2>2, <2>3
<1>9. \A w \in written : DOMAIN w.runs = Of(w.clients, DOMAIN ran[side])
  BY <1>3 DEF Output
<1>10. \A t \in DOMAIN r.runs : /\ r.runs[t] = ran[side][t]
                                /\ \E w \in written : t \in DOMAIN w.runs /\ w.runs[t] = ran[side][t]
  <2>1. SUFFICES ASSUME NEW t \in DOMAIN r.runs
                 PROVE  /\ r.runs[t] = ran[side][t]
                        /\ \E w \in written : t \in DOMAIN w.runs /\ w.runs[t] = ran[side][t]
    OBVIOUS
  <2>2. r.runs[t] = ran[side][t] /\ \E w \in written : t \in DOMAIN w.runs
    BY <1>2, <2>1
  <2> QED
    BY <2>2, <1>3 DEF Output
<1>11. lost[side] = {} => /\ DOMAIN ran[side] = Tasks(suite) /\ DOMAIN r.runs = Tasks(suite)
                          /\ \A t \in Tasks(suite) : r.runs[t] = ran[side][t]
  <2>1. SUFFICES ASSUME lost[side] = {}
                 PROVE  /\ DOMAIN ran[side] = Tasks(suite) /\ DOMAIN r.runs = Tasks(suite)
                        /\ \A t \in Tasks(suite) : r.runs[t] = ran[side][t]
    OBVIOUS
  <2>2. DOMAIN ran[side] \subseteq Tasks(suite)
    BY <1>1 DEF TypeOK
  <2>3. DOMAIN r.runs \subseteq DOMAIN ran[side]
    <3>1. \A t \in DOMAIN r.runs : \E w \in written : t \in Of(w.clients, DOMAIN ran[side])
      BY <1>9, <1>10
    <3> QED
      BY <3>1 DEF Of
  <2>4. ASSUME NEW t \in Tasks(suite)
        PROVE  t \in DOMAIN r.runs
    <3>1. PICK P \in Processes : t.client \in P
      BY <1>1, TaskFact, ProcessFact
    <3>2. ~Pending(P)
      <4>1. ~(P \subseteq lost[side])
        BY <2>1, <3>1
      <4> QED
        BY <4>1 DEF Waiting
    <3>3. PICK w \in written : w.clients = P
      BY <3>2 DEF Pending
    <3>4. Of(P, Left) = {}
      BY <1>3, <3>3 DEF Output
    <3>5. t \in DOMAIN ran[side]
      BY <3>1, <3>4, <2>1, <2>4 DEF Of, Left
    <3>6. t \in DOMAIN w.runs
      BY <1>9, <3>1, <3>3, <3>5 DEF Of
    <3> QED
      BY <1>2, <3>6
  <2> QED
    BY <2>2, <2>3, <2>4, <1>10
<1>12. Tells(r)
  <2>1. ASSUME NEW row \in r.rows
        PROVE  row.scope = r.scope
    <3>1. PICK w \in written : row \in w.rows
      BY <1>2, <2>1
    <3> QED
      BY <3>1, <1>3, <1>6 DEF Output, Tells
  <2>2. ASSUME NEW t \in DOMAIN r.runs
        PROVE  \E row \in r.rows :
                 /\ Counts(row, t, r.runs[t])
                 /\ suite = "resource" /\ ~r.runs[t].recovered => row.failures # {}
                 /\ suite \in Research => r.runs[t].flaws \subseteq row.flaws
    <3>1. PICK w \in written : t \in DOMAIN w.runs /\ w.runs[t] = r.runs[t]
      BY <1>10, <2>2
    <3>2. Tells(w)
      BY <1>3 DEF Output
    <3>3. PICK row \in w.rows :
                 /\ Counts(row, t, w.runs[t])
                 /\ suite = "resource" /\ ~w.runs[t].recovered => row.failures # {}
                 /\ suite \in Research => w.runs[t].flaws \subseteq row.flaws
      BY <3>1, <3>2 DEF Tells
    <3>4. row \in r.rows
      BY <1>2
    <3> QED
      BY <3>1, <3>3, <3>4
  <2> QED
    BY <2>1, <2>2 DEF Tells
<1>13. r.scope \in Scopes \cup {Absent}
  <2>1. CASE written = {}
    BY <1>2, <2>1
  <2>2. CASE written # {}
    <3>1. PICK w \in written : TRUE
      BY <2>2
    <3>2. w.scope \in Scopes
      BY <1>3 DEF Output, Scopes
    <3> QED
      BY <3>2, <1>6
  <2> QED
    BY <2>1, <2>2
<1>14. legacy[side] \cap r.clients \in {{}, r.clients}
  <2>1. \A w \in written : /\ legacy[side] \cap w.clients \in {{}, w.clients}
                           /\ w.scope = Scope(w.clients \subseteq legacy[side])
    BY <1>1, <1>3 DEF Releases, Output
  <2>2. CASE \A w \in written : w.clients \subseteq legacy[side]
    BY <2>2, <1>2
  <2>3. CASE \E w \in written : ~(w.clients \subseteq legacy[side])
    <3>1. PICK w \in written : ~(w.clients \subseteq legacy[side])
      BY <2>3
    <3>2. ASSUME NEW u \in written
          PROVE  legacy[side] \cap u.clients = {}
      <4>1. Scope(u.clients \subseteq legacy[side]) = Scope(w.clients \subseteq legacy[side])
        BY <1>5, <2>1
      <4>2. ~(u.clients \subseteq legacy[side])
        BY <3>1, <4>1, ScopeFact
      <4> QED
        BY <2>1, <4>2
    <3> QED
      BY <3>2, <1>2
  <2> QED
    BY <2>2, <2>3
<1> QED
  BY <1>2, <1>7, <1>8, <1>11, <1>12, <1>13, <1>14 DEF Publication, r

(***************************************************************************)
(* Steps.                                                                   *)
(***************************************************************************)
\* A report that has been published is not affected by the other side.
LEMMA PublicationKept ==
  ASSUME NEW s, NEW rep, Publication(s, rep), suite' = suite, ran'[s] = ran[s], lost'[s] = lost[s],
         restricted'[s] = restricted[s], legacy'[s] = legacy[s], harness'[s] = harness[s]
  PROVE  Publication(s, rep)'
<1>1. Tells(rep)'
  BY DEF Publication, Tells
<1> QED
  BY <1>1 DEF Publication

\* The published report of a side stays what it was while another side is measured.
LEMMA PublishedKept ==
  ASSUME Inv, side' = side, suite' = suite, report' = report, side \in Sides,
         \A s \in Sides \ {side} : /\ ran'[s] = ran[s] /\ lost'[s] = lost[s] /\ restricted'[s] = restricted[s]
                                   /\ legacy'[s] = legacy[s] /\ harness'[s] = harness[s]
  PROVE  Published'
<1>1. Ended' = Ended /\ Ended \subseteq Sides \ {side}
  BY DEF Ended, Sides
<1>2. ASSUME NEW s \in Ended, report[s] # Refused
      PROVE  Publication(s, report[s])'
  <2>1. PICK r : r = report[s]
    OBVIOUS
  <2>2. Publication(s, r)
    BY <1>2, <2>1 DEF Inv, Published
  <2>3. Publication(s, r)'
    BY <1>1, <2>2, PublicationKept
  <2>4. r = report'[s]
    BY <2>1
  <2> QED
    BY <2>3, <2>4
<1> QED
  BY <1>1, <1>2 DEF Published

\* A step of the process that runs leaves the reports of the others as they are.
LEMMA OutputsKept ==
  ASSUME Inv, side \in Sides, Waiting # {},
         suite' = suite, side' = side, isolated' = isolated, written' = written,
         restricted' = restricted, harness' = harness, DOMAIN ran'[side] \subseteq Tasks(suite),
         \A t \in Tasks(suite) : t.client \notin Current =>
            /\ t \in DOMAIN ran'[side] <=> t \in DOMAIN ran[side]
            /\ t \in DOMAIN ran[side] => ran'[side][t] = ran[side][t],
         \A c \in Measured(suite) : c \notin Current =>
            /\ c \in lost'[side] <=> c \in lost[side]
            /\ c \in legacy'[side] <=> c \in legacy[side]
  PROVE  Outputs'
<1>1. TypeOK /\ Outputs /\ suite \in Suites /\ DOMAIN ran[side] \subseteq Tasks(suite)
  BY DEF Inv, TypeOK
<1>2. Current \in Processes /\ Pending(Current)
  BY <1>1, CurrentFact DEF Waiting
<1>3. Processes' = Processes
  BY DEF Processes
<1>4. ASSUME NEW w \in written
      PROVE  Output(w)'
  <2>1. Output(w)
    BY <1>1, <1>4 DEF Outputs
  <2>2. w.clients \in Processes /\ w.clients \cap Current = {} /\ w.clients \subseteq Measured(suite)
    BY <1>1, <1>2, <1>4, <2>1, ProcessFact DEF Output, Pending
  <2>3. \A t \in Tasks(suite) : t.client \in w.clients =>
          /\ t \in DOMAIN ran'[side] <=> t \in DOMAIN ran[side]
          /\ t \in DOMAIN ran[side] => ran'[side][t] = ran[side][t]
    BY <2>2
  <2>4. Of(w.clients, DOMAIN ran'[side]) = Of(w.clients, DOMAIN ran[side])
    BY <1>1, <2>3 DEF Of
  <2>5. \A t \in Of(w.clients, DOMAIN ran[side]) : ran'[side][t] = ran[side][t]
    BY <1>1, <2>3 DEF Of
  <2>6. w.runs = [t \in Of(w.clients, DOMAIN ran'[side]) |-> ran'[side][t]]
    BY <2>1, <2>4, <2>5 DEF Output
  <2>7. Of(w.clients, Left') = {}
    <3>1. ASSUME NEW t \in Left', t.client \in w.clients
          PROVE  FALSE
      <4>1. t \in Tasks(suite) /\ t \notin DOMAIN ran'[side] /\ t.client \notin lost'[side]
        BY <3>1 DEF Left
      <4>2. t \notin DOMAIN ran[side]
        BY <2>3, <3>1, <4>1
      <4>3. t.client \notin lost[side]
        BY <2>2, <3>1, <4>1
      <4>4. t \in Of(w.clients, Left)
        BY <3>1, <4>1, <4>2, <4>3 DEF Of, Left
      <4> QED
        BY <2>1, <4>4 DEF Output
    <3> QED
      BY <3>1 DEF Of
  <2>8. (w.clients \subseteq legacy'[side]) = (w.clients \subseteq legacy[side])
    BY <2>2
  <2>9. Tells(w)'
    BY <2>1 DEF Output, Tells
  <2>10. /\ IsReport(w) /\ w.scope = Scope(w.clients \subseteq legacy'[side])
         /\ w.intact /\ w.harness = harness'[side]
    BY <2>1, <2>8 DEF Output
  <2>11. Of(w.clients, Left)' = {}
    BY <2>7 DEF Of
  <2> QED
    BY <1>3, <2>2, <2>6, <2>9, <2>10, <2>11 DEF Output, Of
<1> QED
  BY <1>1, <1>4 DEF Outputs

\* Until every task is run or lost, not every report has been written.
LEMMA NothingRun ==
  ASSUME Inv, side \in Sides, DOMAIN ran[side] = {}, lost[side] = {}
  PROVE  written = {}
<1>1. TypeOK /\ Outputs /\ suite \in Suites
  BY DEF Inv, TypeOK
<1>2. ASSUME NEW w \in written
      PROVE  FALSE
  <2>1. w.clients \in Processes /\ Of(w.clients, Left) = {}
    BY <1>1, <1>2 DEF Outputs, Output
  <2>2. PICK c \in w.clients : c \in Measured(suite)
    BY <1>1, <2>1, ProcessFact
  <2>3. PICK t \in Tasks(suite) : t.client = c
    BY <1>1, <2>2, TaskFact
  <2>4. t \in Of(w.clients, Left)
    BY <2>2, <2>3 DEF Of, Left
  <2> QED
    BY <2>1, <2>4
<1> QED
  BY <1>2

\* Every step preserves the invariant; first those that only depart.
LEMMA ChangeReleaseStep == Inv /\ ChangeRelease => Inv'
<1> SUFFICES ASSUME Inv, ChangeRelease
             PROVE  Inv'
  OBVIOUS
<1>1. /\ TypeOK /\ side = "new" /\ side \in Sides /\ DOMAIN ran[side] = {} /\ lost[side] = {}
  BY DEF Inv, ChangeRelease, Sides
<1>2. /\ suite' = suite /\ side' = side /\ isolated' = isolated /\ legacy' = legacy /\ ran' = ran /\ lost' = lost
      /\ written' = written /\ report' = report /\ restricted' = restricted /\ axis' = axis /\ result' = result
      /\ departures' = departures + 1
      /\ \/ harness' = [harness EXCEPT !["new"] = "h2"] /\ source' = source
         \/ source' = [source EXCEPT !["new"] = "s2"] /\ harness' = harness
  BY DEF ChangeRelease, Depart
<1>3. TypeOK'
  <2>1. harness' \in [Sides -> {"h1", "h2"}] /\ source' \in [Sides -> {"s1", "s2"}]
    BY <1>1, <1>2 DEF TypeOK, Sides
  <2>2. departures' \in Nat
    BY <1>1, <1>2 DEF TypeOK
  <2> QED
    BY <1>1, <1>2, <2>1, <2>2 DEF TypeOK
<1>4. Outcomes' /\ Fresh' /\ Alone' /\ Releases'
  BY <1>2 DEF Inv, Outcomes, Fresh, Alone, Releases, Left, Processes
<1>5. Outputs'
  <2>1. written = {}
    BY <1>1, NothingRun
  <2> QED
    BY <1>1, <1>2, <2>1 DEF Inv, Outputs
<1>6. Published'
  <2>1. \A s \in Sides \ {side} : harness'[s] = harness[s]
    BY <1>1, <1>2 DEF TypeOK, Sides
  <2> QED
    BY <1>1, <1>2, <2>1, PublishedKept
<1>7. ConclusionsAreWhole' /\ ConclusionsAreEarned' /\ ComparedAlike'
  BY <1>1, <1>2 DEF ConclusionsAreWhole, ConclusionsAreEarned, ComparedAlike, Compared
<1> QED
  BY <1>3, <1>4, <1>5, <1>6, <1>7 DEF Inv

\* The step to an earlier release.
LEMMA EarlierReleaseStep == Inv /\ EarlierRelease => Inv'
<1> SUFFICES ASSUME Inv, EarlierRelease
             PROVE  Inv'
  OBVIOUS
<1>1. TypeOK /\ side \in Sides /\ suite \in Suites /\ Waiting # {}
  BY DEF Inv, TypeOK, EarlierRelease
<1>2. /\ suite' = suite /\ side' = side /\ isolated' = isolated /\ ran' = ran /\ lost' = lost
      /\ written' = written /\ report' = report /\ restricted' = restricted /\ axis' = axis /\ result' = result
      /\ harness' = harness /\ source' = source /\ departures' = departures + 1
      /\ legacy' = [legacy EXCEPT ![side] = @ \cup Current]
  BY DEF EarlierRelease, Depart
<1>3. Current \in Processes
  BY <1>1, CurrentFact DEF Waiting
<1>4. /\ legacy'[side] = legacy[side] \cup Current
      /\ \A s \in Sides \ {side} : legacy'[s] = legacy[s]
  BY <1>1, <1>2 DEF TypeOK
<1>5. TypeOK'
  <2>1. Current \subseteq Measured(suite)
    BY <1>1, <1>3, ProcessFact
  <2>2. legacy' \in [Sides -> SUBSET Measured(suite)]
    BY <1>1, <1>2, <2>1 DEF TypeOK
  <2>3. departures' \in Nat
    BY <1>1, <1>2 DEF TypeOK
  <2> QED
    BY <1>1, <1>2, <2>2, <2>3 DEF TypeOK
<1>6. Outcomes' /\ Fresh' /\ Alone'
  <2>1. side = "old" => legacy'["new"] = {}
    BY <1>1, <1>4 DEF Inv, Fresh, Sides
  <2> QED
    BY <1>2, <2>1 DEF Inv, Outcomes, Fresh, Alone, Left
<1>7. Releases'
  <2>1. ASSUME NEW P \in Processes
        PROVE  legacy'[side] \cap P \in {{}, P}
    <3>1. legacy[side] \cap P \in {{}, P}
      BY <1>1, <2>1 DEF Inv, Releases
    <3>2. P = Current \/ P \cap Current = {}
      BY <1>1, <1>3, <2>1, ProcessFact
    <3> QED
      BY <1>4, <3>1, <3>2
  <2>2. Processes' = Processes
    BY <1>2 DEF Processes
  <2> QED
    BY <1>2, <2>1, <2>2 DEF Releases
<1>8. Outputs'
  <2>1. DOMAIN ran'[side] \subseteq Tasks(suite)
    BY <1>1, <1>2 DEF TypeOK
  <2> QED
    BY <1>1, <1>2, <1>4, <2>1, OutputsKept
<1>9. Published'
  BY <1>1, <1>2, <1>4, PublishedKept
<1>10. ConclusionsAreWhole' /\ ConclusionsAreEarned' /\ ComparedAlike'
  BY <1>1, <1>2 DEF ConclusionsAreWhole, ConclusionsAreEarned, ComparedAlike, Compared, Sides
<1> QED
  BY <1>5, <1>6, <1>7, <1>8, <1>9, <1>10 DEF Inv

\* What a measurement adds to the runs.
LEMMA MeasureFact ==
  ASSUME Inv, Measure
  PROVE  \E T \in SUBSET Of(Current, Left) :
           /\ Of(Current, Left) # {}
           /\ DOMAIN ran' = Sides /\ \A s \in Sides \ {side} : ran'[s] = ran[s]
           /\ DOMAIN ran'[side] = DOMAIN ran[side] \cup T
           /\ \A t \in DOMAIN ran[side] : ran'[side][t] = ran[side][t]
           /\ \A t \in T : ran'[side][t] \in {Nominal(suite, t, Position(t))} \cup Departed(suite, t, Position(t))
           /\ \/ lost' = lost
              \/ suite \in Research /\ lost' = Unrun(Of(Current, Left) \ T)
           /\ departures' \in {departures, departures + 1}
<1> DEFINE left == Of(Current, Left)
<1> DEFINE nominal(T) == [u \in T |-> Nominal(suite, u, Position(u))]
<1> DEFINE put(T, o) == ran' = [ran EXCEPT ![side] = [u \in DOMAIN @ \cup T |->
                           IF u \in DOMAIN @ THEN @[u] ELSE o[u]]]
<1> DEFINE upto(t) == {u \in left : Before(u, t)} \cup {t}
<1> DEFINE stopped(t, o) == /\ put(upto(t), [nominal(upto(t)) EXCEPT ![t] = o])
                            /\ lost' = IF StopsPlan(o) THEN Unrun(left \ upto(t)) ELSE lost
<1>1. DOMAIN ran = Sides /\ side \in Sides /\ left # {}
  BY Zenon DEF Inv, TypeOK, Measure
<1>2. \/ put(left, nominal(left)) /\ lost' = lost /\ departures' = departures
      \/ /\ departures' = departures + 1
         /\ \E t \in left : \E o \in Departed(suite, t, Position(t)) : stopped(t, o)
  BY Zenon DEF Measure, Depart
<1> HIDE DEF left, put, nominal, upto, stopped
<1>3. ASSUME NEW T \in SUBSET left, NEW o, put(T, o),
             \A t \in T : o[t] \in {Nominal(suite, t, Position(t))} \cup Departed(suite, t, Position(t)),
             T \cap DOMAIN ran[side] = {}
      PROVE  /\ DOMAIN ran' = Sides /\ \A s \in Sides \ {side} : ran'[s] = ran[s]
             /\ DOMAIN ran'[side] = DOMAIN ran[side] \cup T
             /\ \A t \in DOMAIN ran[side] : ran'[side][t] = ran[side][t]
             /\ \A t \in T : ran'[side][t] \in {Nominal(suite, t, Position(t))} \cup Departed(suite, t, Position(t))
  <2>1. DOMAIN ran' = Sides /\ \A s \in Sides \ {side} : ran'[s] = ran[s]
    BY <1>1, <1>3 DEF put
  <2>2. ran'[side] = [u \in DOMAIN ran[side] \cup T |-> IF u \in DOMAIN ran[side] THEN ran[side][u] ELSE o[u]]
    BY <1>1, <1>3 DEF put
  <2>3. /\ DOMAIN ran'[side] = DOMAIN ran[side] \cup T
        /\ \A t \in DOMAIN ran[side] : ran'[side][t] = ran[side][t]
    BY <2>2
  <2>4. \A t \in T : ran'[side][t] = o[t]
    BY <1>3, <2>2
  <2> QED
    BY <1>3, <2>1, <2>3, <2>4
<1>4. left \cap DOMAIN ran[side] = {}
  BY DEF left, Of, Left
<1>5. CASE put(left, nominal(left)) /\ lost' = lost /\ departures' = departures
  <2>1. \A t \in left : nominal(left)[t] \in {Nominal(suite, t, Position(t))} \cup Departed(suite, t, Position(t))
    BY DEF nominal
  <2> DEFINE o == nominal(left)
  <2>2. put(left, o) /\ \A t \in left : o[t] \in {Nominal(suite, t, Position(t))} \cup Departed(suite, t, Position(t))
    BY <1>5, <2>1
  <2> HIDE DEF o
  <2>3. /\ DOMAIN ran' = Sides /\ \A s \in Sides \ {side} : ran'[s] = ran[s]
        /\ DOMAIN ran'[side] = DOMAIN ran[side] \cup left
        /\ \A t \in DOMAIN ran[side] : ran'[side][t] = ran[side][t]
        /\ \A t \in left : ran'[side][t] \in {Nominal(suite, t, Position(t))} \cup Departed(suite, t, Position(t))
    BY <1>3, <1>4, <2>2
  <2> QED
    BY <1>1, <1>5, <2>3 DEF left
<1>6. CASE /\ departures' = departures + 1
           /\ \E t \in left : \E o \in Departed(suite, t, Position(t)) : stopped(t, o)
  <2>1. PICK t \in left : \E d \in Departed(suite, t, Position(t)) : stopped(t, d)
    BY <1>6
  <2>2. PICK d \in Departed(suite, t, Position(t)) : stopped(t, d)
    BY <2>1
  <2> DEFINE T == upto(t)
  <2> DEFINE o == [nominal(T) EXCEPT ![t] = d]
  <2>3. put(T, o) /\ (lost' = lost \/ (suite \in Research /\ lost' = Unrun(left \ T)))
    <3>1. put(T, o)
      BY <2>2 DEF stopped
    <3>2. lost' = IF StopsPlan(d) THEN Unrun(left \ T) ELSE lost
      BY <2>2 DEF stopped
    <3> HIDE DEF T
    <3>3. lost' = lost \/ (suite \in Research /\ lost' = Unrun(left \ T))
      <4>1. StopsPlan(d) => suite \in Research
        BY DEF StopsPlan
      <4> QED
        BY <3>2, <4>1
    <3> QED
      BY <3>1, <3>3
  <2>4. T \in SUBSET left /\ t \in T /\ T \cap DOMAIN ran[side] = {}
    BY <1>4 DEF upto
  <2> HIDE DEF T
  <2>5. \A u \in T : o[u] \in {Nominal(suite, u, Position(u))} \cup Departed(suite, u, Position(u))
    BY <2>2, <2>4 DEF nominal
  <2> HIDE DEF o
  <2>6. /\ DOMAIN ran' = Sides /\ \A s \in Sides \ {side} : ran'[s] = ran[s]
        /\ DOMAIN ran'[side] = DOMAIN ran[side] \cup T
        /\ \A u \in DOMAIN ran[side] : ran'[side][u] = ran[side][u]
        /\ \A u \in T : ran'[side][u] \in {Nominal(suite, u, Position(u))} \cup Departed(suite, u, Position(u))
    BY <1>3, <1>4, <2>3, <2>4, <2>5
  <2> QED
    BY <1>1, <1>6, <2>3, <2>4, <2>6 DEF left
<1> QED
  BY <1>2, <1>5, <1>6

\* The step that measures a task.
LEMMA MeasureStep == Inv /\ Measure => Inv'
<1> SUFFICES ASSUME Inv, Measure
             PROVE  Inv'
  OBVIOUS
<1> DEFINE left == Of(Current, Left)
<1>1. TypeOK /\ side \in Sides /\ suite \in Suites /\ Waiting # {}
  BY Zenon DEF Inv, TypeOK, Measure
<1>2. /\ suite' = suite /\ side' = side /\ isolated' = isolated /\ legacy' = legacy
      /\ written' = written /\ report' = report /\ restricted' = restricted /\ axis' = axis /\ result' = result
      /\ harness' = harness /\ source' = source
  BY Zenon DEF Measure
<1>3. PICK T \in SUBSET left :
        /\ left # {}
        /\ DOMAIN ran' = Sides /\ \A s \in Sides \ {side} : ran'[s] = ran[s]
        /\ DOMAIN ran'[side] = DOMAIN ran[side] \cup T
        /\ \A t \in DOMAIN ran[side] : ran'[side][t] = ran[side][t]
        /\ \A t \in T : ran'[side][t] \in {Nominal(suite, t, Position(t))} \cup Departed(suite, t, Position(t))
        /\ lost' = lost \/ (suite \in Research /\ lost' = Unrun(left \ T))
        /\ departures' \in {departures, departures + 1}
  BY MeasureFact
<1>4. Current \in Processes /\ Current \subseteq Measured(suite)
  BY <1>1, CurrentFact, ProcessFact DEF Waiting
<1>5. left \subseteq Tasks(suite) \ DOMAIN ran[side] /\ \A t \in left : t.client \in Current /\ t.client \notin lost[side]
  BY DEF Of, Left
<1> HIDE DEF left
<1>6. /\ lost' \in [Sides -> SUBSET Measured(suite)]
      /\ \A s \in Sides \ {side} : lost'[s] = lost[s]
      /\ lost' # lost => suite \in Research /\ lost'[side] = {t.client : t \in left \ T}
  <2>1. CASE lost' = lost
    BY <1>1, <2>1 DEF TypeOK
  <2>2. CASE suite \in Research /\ lost' = Unrun(left \ T)
    <3> DEFINE C == {t.client : t \in left \ T}
    <3>1. lost' = [lost EXCEPT ![side] = C]
      BY <2>2 DEF Unrun
    <3>2. C \subseteq Measured(suite)
      BY <1>1, <1>5, TaskFact
    <3> HIDE DEF C
    <3>3. lost \in [Sides -> SUBSET Measured(suite)]
      BY <1>1 DEF TypeOK
    <3>4. /\ lost' \in [Sides -> SUBSET Measured(suite)] /\ lost'[side] = C
          /\ \A s \in Sides \ {side} : lost'[s] = lost[s]
      BY <1>1, <3>1, <3>2, <3>3
    <3> QED
      BY <2>2, <3>4 DEF C
  <2> QED
    BY <1>3, <2>1, <2>2
<1>7. \A s \in Sides : DOMAIN ran'[s] \subseteq Tasks(suite)
  BY <1>1, <1>3, <1>5 DEF TypeOK
<1>8. TypeOK'
  <2>1. departures' \in Nat
    BY <1>1, <1>3 DEF TypeOK
  <2> QED
    BY <1>1, <1>2, <1>3, <1>6, <1>7, <2>1 DEF TypeOK
<1>9. Outcomes'
  <2>1. ASSUME NEW s \in Sides, NEW t \in DOMAIN ran'[s]
        PROVE  Fits(suite, t, ran'[s][t])
    <3>1. CASE s = side /\ t \in T
      <4>1. PICK pid, su : pid = Position(t) /\ su = suite
        OBVIOUS
      <4>2. PICK o \in {Nominal(su, t, pid)} \cup Departed(su, t, pid) : o = ran'[s][t]
        BY <1>3, <3>1, <4>1
      <4>3. Fits(su, t, o)
        BY OutcomeFact
      <4> QED
        BY <4>1, <4>2, <4>3
    <3>2. CASE ~(s = side /\ t \in T)
      <4>1. t \in DOMAIN ran[s] /\ ran'[s][t] = ran[s][t]
        BY <1>3, <2>1, <3>2
      <4> QED
        BY <4>1 DEF Inv, Outcomes
    <3> QED
      BY <3>1, <3>2
  <2> QED
    BY <1>2, <2>1 DEF Outcomes
<1>10. Fresh'
  <2>1. side = "old" => "new" \in Sides \ {side}
    BY DEF Sides
  <2> QED
    BY <1>2, <1>3, <1>6, <2>1 DEF Inv, Fresh
<1>11. Alone'
  <2>1. isolated' => suite' \notin Research
    BY <1>2 DEF Inv, Alone
  <2>2. ASSUME ~isolated, lost'[side] # {}
        PROVE  suite \in Research /\ Left' = {} /\ DOMAIN ran'[side] # Tasks(suite)
    <3>1. Current = Measured(suite)
      BY <1>1, <1>4, <2>2, ProcessFact
    <3>2. left = Left
      BY <1>1, <3>1, TaskFact DEF left, Of, Left
    <3>3. lost[side] = {}
      BY <1>1, <1>3, <2>2, <3>2 DEF Inv, Alone
    <3>4. suite \in Research /\ lost'[side] = {t.client : t \in left \ T}
      BY <1>6, <2>2, <3>3
    <3>5. DOMAIN ran'[side] # Tasks(suite)
      BY <1>3, <1>5, <2>2, <3>4
    <3>6. ASSUME NEW t \in Left'
          PROVE  FALSE
      <4>1. t \in Tasks(suite) /\ t \notin DOMAIN ran'[side] /\ t.client \notin lost'[side]
        BY <1>2, <3>6 DEF Left
      <4>2. t \in left \ T
        BY <1>3, <3>2, <3>3, <4>1 DEF Left
      <4> QED
        BY <3>4, <4>1, <4>2
    <3> QED
      BY <3>4, <3>5, <3>6
  <2> QED
    BY <1>2, <2>1, <2>2 DEF Alone
<1>12. Releases'
  BY <1>2 DEF Inv, Releases, Processes
<1>13. Outputs'
  <2>1. ASSUME NEW t \in Tasks(suite), t.client \notin Current
        PROVE  /\ t \in DOMAIN ran'[side] <=> t \in DOMAIN ran[side]
               /\ t \in DOMAIN ran[side] => ran'[side][t] = ran[side][t]
    <3>1. t \notin T
      BY <1>3, <1>5, <2>1
    <3> QED
      BY <1>3, <3>1
  <2>2. ASSUME NEW c \in Measured(suite), c \notin Current
        PROVE  c \in lost'[side] <=> c \in lost[side]
    <3>1. suite \notin Research
      BY <1>1, <1>4, <2>2, ProcessFact DEF Inv, Alone
    <3> QED
      BY <1>6, <3>1
  <2> QED
    BY <1>1, <1>2, <1>7, <2>1, <2>2, OutputsKept
<1>14. Published'
  BY <1>1, <1>2, <1>3, <1>6, PublishedKept
<1>15. ConclusionsAreWhole' /\ ConclusionsAreEarned' /\ ComparedAlike'
  BY <1>1, <1>2 DEF ConclusionsAreWhole, ConclusionsAreEarned, ComparedAlike, Compared, Sides
<1> QED
  BY <1>8, <1>9, <1>10, <1>11, <1>12, <1>13, <1>14, <1>15 DEF Inv

\* The step that kills a plan.
LEMMA KilledStep == Inv /\ Killed => Inv'
<1> SUFFICES ASSUME Inv, Killed
             PROVE  Inv'
  OBVIOUS
<1>1. TypeOK /\ Outputs /\ side \in Sides /\ suite \in Suites /\ suite \in Research /\ Left # {}
  BY DEF Inv, TypeOK, Killed
<1>2. /\ suite' = suite /\ side' = side /\ isolated' = isolated /\ legacy' = legacy /\ ran' = ran
      /\ written' = written /\ report' = report /\ restricted' = restricted /\ axis' = axis /\ result' = result
      /\ harness' = harness /\ source' = source /\ departures' = departures + 1
      /\ lost' = [lost EXCEPT ![side] = {t.client : t \in Left}]
  BY DEF Killed, Depart, Unrun
<1>3. ~isolated
  BY <1>1 DEF Inv, Alone
<1>4. Left \subseteq Tasks(suite) \ DOMAIN ran[side]
  BY DEF Left
<1>5. {t.client : t \in Left} \subseteq Measured(suite)
  BY <1>1, <1>4, TaskFact
<1>6. /\ lost' \in [Sides -> SUBSET Measured(suite)] /\ lost'[side] = {t.client : t \in Left}
      /\ \A s \in Sides \ {side} : lost'[s] = lost[s]
  BY <1>1, <1>2, <1>5 DEF TypeOK
<1>7. TypeOK'
  <2>1. departures' \in Nat
    BY <1>1, <1>2 DEF TypeOK
  <2> QED
    BY <1>1, <1>2, <1>6, <2>1 DEF TypeOK
<1>8. Outcomes' /\ Releases'
  BY <1>2 DEF Inv, Outcomes, Releases, Processes
<1>9. Fresh'
  <2>1. side = "old" => "new" \in Sides \ {side}
    BY DEF Sides
  <2> QED
    BY <1>2, <1>6, <2>1 DEF Inv, Fresh
<1>10. Alone'
  <2>1. DOMAIN ran[side] # Tasks(suite)
    BY <1>1, <1>4
  <2>2. lost[side] = {}
    BY <1>1, <1>3 DEF Inv, Alone
  <2>3. ASSUME NEW t \in Left'
        PROVE  FALSE
    <3>1. t \in Tasks(suite) /\ t \notin DOMAIN ran[side] /\ t.client \notin lost'[side]
      BY <1>2, <2>3 DEF Left
    <3>2. t \in Left
      BY <2>2, <3>1 DEF Left
    <3> QED
      BY <1>6, <3>1, <3>2
  <2>4. Left' = {}
    BY <2>3
  <2> QED
    BY <1>1, <1>2, <1>3, <2>1, <2>4 DEF Alone
<1>11. Outputs'
  <2>1. ASSUME NEW w \in written
        PROVE  FALSE
    <3>1. w.clients = Measured(suite) /\ Of(w.clients, Left) = {}
      BY <1>1, <1>3, <2>1, ProcessFact DEF Outputs, Output
    <3> QED
      BY <1>1, <1>4, <3>1, TaskFact DEF Of
  <2>2. written = {}
    BY <2>1
  <2> QED
    BY <1>1, <1>2, <2>2 DEF Outputs
<1>12. Published'
  BY <1>1, <1>2, <1>6, PublishedKept
<1>13. ConclusionsAreWhole' /\ ConclusionsAreEarned' /\ ComparedAlike'
  BY <1>1, <1>2 DEF ConclusionsAreWhole, ConclusionsAreEarned, ComparedAlike, Compared, Sides
<1> QED
  BY <1>7, <1>8, <1>9, <1>10, <1>11, <1>12, <1>13 DEF Inv

\* The step in which a child fails.
LEMMA ChildFailsStep == Inv /\ ChildFails => Inv'
<1> SUFFICES ASSUME Inv, ChildFails
             PROVE  Inv'
  OBVIOUS
<1>1. TypeOK /\ side \in Sides /\ suite \in Suites /\ Waiting # {} /\ isolated
  BY DEF Inv, TypeOK, ChildFails
<1>2. PICK c \in Current :
        /\ lost' = [lost EXCEPT ![side] = @ \cup {c}]
        /\ ran' = [ran EXCEPT ![side] = [t \in {u \in DOMAIN @ : u.client # c} |-> @[t]]]
  BY DEF ChildFails
<1>3. /\ suite' = suite /\ side' = side /\ isolated' = isolated /\ legacy' = legacy
      /\ written' = written /\ report' = report /\ restricted' = restricted /\ axis' = axis /\ result' = result
      /\ harness' = harness /\ source' = source /\ departures' = departures + 1
  BY DEF ChildFails, Depart
<1>4. Current \in Processes /\ c \in Measured(suite)
  BY <1>1, CurrentFact, ProcessFact DEF Waiting
<1>5. /\ lost' \in [Sides -> SUBSET Measured(suite)] /\ lost'[side] = lost[side] \cup {c}
      /\ \A s \in Sides \ {side} : lost'[s] = lost[s]
  BY <1>1, <1>2, <1>4 DEF TypeOK
<1>6. /\ DOMAIN ran' = Sides /\ \A s \in Sides \ {side} : ran'[s] = ran[s]
      /\ ran'[side] = [t \in {u \in DOMAIN ran[side] : u.client # c} |-> ran[side][t]]
  BY <1>1, <1>2 DEF TypeOK
<1>7. /\ \A t \in DOMAIN ran'[side] : t \in DOMAIN ran[side] /\ ran'[side][t] = ran[side][t]
      /\ \A t \in DOMAIN ran[side] : t.client # c => t \in DOMAIN ran'[side]
  BY <1>6
<1>8. \A s \in Sides : DOMAIN ran'[s] \subseteq Tasks(suite)
  BY <1>1, <1>6, <1>7 DEF TypeOK
<1>9. TypeOK'
  <2>1. departures' \in Nat
    BY <1>1, <1>3 DEF TypeOK
  <2> QED
    BY <1>1, <1>3, <1>5, <1>6, <1>8, <2>1 DEF TypeOK
<1>10. Outcomes'
  <2>1. ASSUME NEW s \in Sides, NEW t \in DOMAIN ran'[s]
        PROVE  t \in DOMAIN ran[s] /\ ran'[s][t] = ran[s][t]
    BY <1>6, <1>7, <2>1
  <2> QED
    BY <1>3, <2>1 DEF Inv, Outcomes
<1>11. Fresh'
  <2>1. side = "old" => "new" \in Sides \ {side}
    BY DEF Sides
  <2> QED
    BY <1>3, <1>5, <1>6, <2>1 DEF Inv, Fresh
<1>12. Alone' /\ Releases'
  BY <1>1, <1>3 DEF Inv, Alone, Releases, Processes
<1>13. Outputs'
  <2>1. ASSUME NEW t \in Tasks(suite), t.client \notin Current
        PROVE  /\ t \in DOMAIN ran'[side] <=> t \in DOMAIN ran[side]
               /\ t \in DOMAIN ran[side] => ran'[side][t] = ran[side][t]
    <3>1. t.client # c
      BY <1>2, <2>1
    <3> QED
      BY <1>7, <3>1
  <2>2. \A d \in Measured(suite) : d \notin Current => (d \in lost'[side] <=> d \in lost[side])
    BY <1>2, <1>5
  <2> QED
    BY <1>1, <1>3, <1>8, <2>1, <2>2, OutputsKept
<1>14. Published'
  BY <1>1, <1>3, <1>5, <1>6, PublishedKept
<1>15. ConclusionsAreWhole' /\ ConclusionsAreEarned' /\ ComparedAlike'
  BY <1>1, <1>3 DEF ConclusionsAreWhole, ConclusionsAreEarned, ComparedAlike, Compared, Sides
<1> QED
  BY <1>9, <1>10, <1>11, <1>12, <1>13, <1>14, <1>15 DEF Inv

\* The step that writes the report of a process.
LEMMA WriteReportStep == Inv /\ WriteReport => Inv'
<1> SUFFICES ASSUME Inv, WriteReport
             PROVE  Inv'
  OBVIOUS
<1>1. TypeOK /\ Outputs /\ side \in Sides /\ suite \in Suites /\ Waiting # {} /\ Of(Current, Left) = {}
  BY Zenon DEF Inv, TypeOK, WriteReport
<1>2. /\ suite' = suite /\ side' = side /\ isolated' = isolated /\ legacy' = legacy /\ ran' = ran /\ lost' = lost
      /\ report' = report /\ axis' = axis /\ result' = result /\ harness' = harness /\ source' = source
      /\ departures' \in {departures, departures + 1}
  BY Zenon DEF WriteReport, Depart
<1>3. Current \in Processes /\ Pending(Current)
  BY <1>1, CurrentFact DEF Waiting
<1> DEFINE rep == Written(Current)
<1>4. /\ IsReport(rep) /\ rep.clients = Current
      /\ rep.runs = [t \in Of(Current, DOMAIN ran[side]) |-> ran[side][t]]
      /\ rep.scope = Scope(Current \subseteq legacy[side])
      /\ rep.intact /\ rep.harness = harness[side]
      /\ Tells(rep)
  <2>1. PICK P : P = Current
    OBVIOUS
  <2>2. TypeOK /\ Outcomes /\ side \in Sides
    BY DEF Inv, WriteReport
  <2> QED
    BY <2>1, <2>2, WrittenFact
<1>5. \E V : \/ /\ written' = written \cup {[rep EXCEPT !.validity = V]}
                /\ restricted' = restricted
             \/ /\ written' = written \cup {[rep EXCEPT !.validity = V]}
                /\ restricted' = [restricted EXCEPT ![side] = TRUE]
                /\ Restricts(V)
             \/ \E other : written' = written \cup {[rep EXCEPT !.validity = V, !.provenance = other]}
                           /\ restricted' = restricted
  <2>1. CASE /\ written' = written \cup {[rep EXCEPT !.validity = IF rep.current THEN {Classify(rep)} ELSE {}]}
             /\ restricted' = restricted
    BY Zenon, <2>1
  <2>2. CASE /\ restricted' = [restricted EXCEPT ![side] = TRUE]
             /\ \E p \in Withheld(Classify(rep)) : written' = written \cup {[rep EXCEPT !.validity = {p}]}
    <3>1. PICK p \in Withheld(Classify(rep)) : written' = written \cup {[rep EXCEPT !.validity = {p}]}
      BY <2>2
    <3>2. \E reasons : Classify(rep) = Summary(reasons)
      BY Zenon DEF Classify
    <3>3. PICK reasons : Classify(rep) = Summary(reasons)
      BY <3>2
    <3>4. ~FromPayload(p).comparable
      BY <3>3, WithheldFact
    <3>5. Restricts({p})
      BY <3>4 DEF Restricts
    <3> QED
      BY Zenon, <2>2, <3>1, <3>5
  <2>3. CASE /\ \E other \in {"other", Absent} :
                  written' = written \cup {[rep EXCEPT !.validity = {Classify(rep)}, !.provenance = other]}
             /\ restricted' = restricted
    BY Zenon, <2>3
  <2> QED
    BY Zenon, <2>1, <2>2, <2>3 DEF WriteReport
<1> HIDE DEF rep
<1>6. PICK w : /\ written' = written \cup {w}
               /\ IsReport(w) /\ w.clients = Current
               /\ w.runs = [t \in Of(Current, DOMAIN ran[side]) |-> ran[side][t]]
               /\ w.scope = Scope(Current \subseteq legacy[side])
               /\ w.intact /\ w.harness = harness[side] /\ Tells(w)
               /\ \/ restricted' = restricted
                  \/ restricted' = [restricted EXCEPT ![side] = TRUE] /\ Restricts(w.validity)
  <2>1. PICK V : \/ /\ written' = written \cup {[rep EXCEPT !.validity = V]}
                    /\ restricted' = restricted
                 \/ /\ written' = written \cup {[rep EXCEPT !.validity = V]}
                    /\ restricted' = [restricted EXCEPT ![side] = TRUE]
                    /\ Restricts(V)
                 \/ \E other : written' = written \cup {[rep EXCEPT !.validity = V, !.provenance = other]}
                               /\ restricted' = restricted
    BY <1>5
  <2>2. [rep EXCEPT !.validity = V] = [rep EXCEPT !.validity = V, !.provenance = rep.provenance]
    BY <1>4 DEF IsReport
  <2>3. PICK w, pr : /\ w = [rep EXCEPT !.validity = V, !.provenance = pr] /\ written' = written \cup {w}
                     /\ \/ restricted' = restricted
                        \/ restricted' = [restricted EXCEPT ![side] = TRUE] /\ Restricts(V)
    BY <2>1, <2>2
  <2>4. /\ IsReport(w) /\ w.clients = rep.clients /\ w.runs = rep.runs /\ w.rows = rep.rows
        /\ w.scope = rep.scope /\ w.intact = rep.intact
        /\ w.harness = rep.harness /\ w.validity = V
    BY <1>4, <2>3 DEF IsReport
  <2>5. Tells(w)
    BY <1>4, <2>4 DEF Tells
  <2>6. /\ w.clients = Current /\ w.runs = [t \in Of(Current, DOMAIN ran[side]) |-> ran[side][t]]
        /\ w.scope = Scope(Current \subseteq legacy[side])
        /\ w.intact /\ w.harness = harness[side]
    BY Zenon, <1>4, <2>4
  <2>7. \/ restricted' = restricted
        \/ restricted' = [restricted EXCEPT ![side] = TRUE] /\ Restricts(w.validity)
    BY Zenon, <2>3, <2>4
  <2> QED
    BY Zenon, <2>3, <2>4, <2>5, <2>6, <2>7
<1>7. /\ restricted' \in [Sides -> BOOLEAN] /\ \A s \in Sides \ {side} : restricted'[s] = restricted[s]
      /\ restricted'[side] => restricted[side] \/ Restricts(w.validity)
  BY <1>1, <1>6 DEF TypeOK
<1>8. TypeOK'
  <2>1. departures' \in Nat
    BY <1>1, <1>2 DEF TypeOK
  <2> QED
    BY <1>1, <1>2, <1>7, <2>1 DEF TypeOK
<1>9. Outcomes' /\ Alone' /\ Releases'
  BY <1>2 DEF Inv, Outcomes, Alone, Releases, Left, Processes
<1>10. Fresh'
  <2>1. side = "old" => "new" \in Sides \ {side}
    BY DEF Sides
  <2> QED
    BY <1>2, <1>7, <2>1 DEF Inv, Fresh
<1>11. Outputs'
  <2>1. Output(w)
    BY <1>1, <1>3, <1>6 DEF Output
  <2>2. \A v \in written : v.clients # Current
    BY <1>3 DEF Pending
  <2>3. ASSUME NEW v \in written'
        PROVE  Output(v)'
    <3>1. Output(v)
      BY <1>1, <1>6, <2>1, <2>3 DEF Outputs
    <3>2. Processes' = Processes /\ Left' = Left
      BY <1>2 DEF Processes, Left
    <3>3. Tells(v)'
      BY <1>2, <3>1 DEF Output, Tells
    <3> QED
      BY <1>2, <3>1, <3>2, <3>3 DEF Output, Of
  <2>4. ASSUME NEW u \in written', NEW v \in written', u.clients = v.clients
        PROVE  u = v
    BY <1>1, <1>6, <2>2, <2>4 DEF Outputs
  <2>5. restricted'[side] => \E v \in written' : Restricts(v.validity)
    BY <1>1, <1>6, <1>7 DEF Outputs
  <2> QED
    BY <1>1, <1>2, <2>3, <2>4, <2>5 DEF Outputs
<1>12. Published'
  BY <1>1, <1>2, <1>7, PublishedKept
<1>13. ConclusionsAreWhole' /\ ConclusionsAreEarned' /\ ComparedAlike'
  BY <1>1, <1>2 DEF ConclusionsAreWhole, ConclusionsAreEarned, ComparedAlike, Compared, Sides
<1> QED
  BY <1>8, <1>9, <1>10, <1>11, <1>12, <1>13 DEF Inv

\* The next side begins with nothing, and the one that ends is published.
LEMMA NextSideFact ==
  ASSUME Inv, side \in Sides, NextSide, DOMAIN report' = Sides,
         \A s \in Sides \ {side} : report'[s] = report[s],
         NEW r, report'[side] = r, r # Refused => Publication(side, r)
  PROVE  Inv'
<1>1. TypeOK /\ Fresh
  BY DEF Inv
<1>2. /\ suite' = suite /\ legacy' = legacy /\ ran' = ran /\ lost' = lost /\ harness' = harness /\ source' = source
      /\ restricted' = restricted /\ axis' = axis /\ result' = result /\ departures' = departures /\ written' = {}
      /\ \/ side = "old" /\ side' = "new" /\ isolated' \in IF suite \in Research THEN {FALSE} ELSE BOOLEAN
         \/ side = "new" /\ side' = "compare" /\ isolated' = isolated
  BY DEF NextSide, Sides
<1>3. TypeOK'
  BY <1>1, <1>2 DEF TypeOK, Sides
<1>4. Outcomes' /\ Fresh'
  BY <1>2 DEF Inv, Outcomes, Fresh
<1>5. side' = "new" => /\ DOMAIN ran["new"] = {} /\ lost["new"] = {} /\ legacy["new"] = {} /\ ~restricted["new"]
  BY <1>1, <1>2 DEF Fresh
<1>6. side' # "new" => side' \notin Sides
  BY <1>2 DEF Sides
<1>7. Alone'
  <2>1. isolated' => suite' \notin Research
    BY <1>2 DEF Inv, Alone
  <2>2. side' \in Sides => lost'[side'] = {}
    BY <1>2, <1>5, <1>6
  <2> QED
    BY <2>1, <2>2 DEF Alone
<1>8. Releases'
  <2>1. side' \in Sides => legacy'[side'] = {}
    BY <1>2, <1>5, <1>6
  <2> QED
    BY <2>1 DEF Releases
<1>9. Outputs'
  <2>1. side' \in Sides => ~restricted'[side']
    BY <1>2, <1>5, <1>6
  <2> QED
    BY <1>2, <2>1 DEF Outputs
<1>10. Published'
  <2>1. ASSUME NEW s \in Ended', report'[s] # Refused
        PROVE  Publication(s, report'[s])
    <3>1. s = side \/ (s \in Sides \ {side} /\ s \in Ended)
      BY <1>2, <2>1 DEF Ended, Sides
    <3>2. CASE s = side
      BY <2>1, <3>2
    <3>3. CASE s \in Sides \ {side} /\ s \in Ended
      BY <2>1, <3>3 DEF Inv, Published
    <3> QED
      BY <3>1, <3>2, <3>3
  <2>2. ASSUME NEW s \in Ended', report'[s] # Refused
        PROVE  Publication(s, report[s])'
    <3>1. PICK x : x = report'[s]
      OBVIOUS
    <3>2. Publication(s, x)
      BY <2>1, <2>2, <3>1
    <3>3. Publication(s, x)'
      BY <1>2, <3>2, PublicationKept
    <3> QED
      BY <3>1, <3>3
  <2> QED
    BY <2>2 DEF Published
<1>11. ConclusionsAreWhole' /\ ConclusionsAreEarned' /\ ComparedAlike'
  BY <1>2 DEF ConclusionsAreWhole, ConclusionsAreEarned, ComparedAlike, Compared
<1> QED
  BY <1>3, <1>4, <1>7, <1>8, <1>9, <1>10, <1>11 DEF Inv

\* The step that publishes the report of a process that ran alone.
LEMMA PublishStep == Inv /\ Publish => Inv'
<1> SUFFICES ASSUME Inv, Publish
             PROVE  Inv'
  OBVIOUS
<1>1. side \in Sides /\ ~isolated /\ NextSide /\ DOMAIN report = Sides
  BY DEF Inv, TypeOK, Publish, Ready
<1>2. PICK w \in written : report' = [report EXCEPT ![side] = w]
  BY DEF Publish
<1>3. Publication(side, w)
  BY <1>1, PublishFact
<1>4. DOMAIN report' = Sides /\ report'[side] = w /\ \A s \in Sides \ {side} : report'[s] = report[s]
  BY <1>1, <1>2
<1> QED
  BY <1>1, <1>3, <1>4, NextSideFact

\* The step that merges the reports of the children.
LEMMA MergeStep == Inv /\ Merge => Inv'
<1> SUFFICES ASSUME Inv, Merge
             PROVE  Inv'
  OBVIOUS
<1>1. side \in Sides /\ isolated /\ Waiting = {} /\ NextSide /\ DOMAIN report = Sides
  BY Zenon DEF Inv, TypeOK, Merge, Ready
<1>2. \E v : \/ report' = [report EXCEPT ![side] = Refused]
             \/ /\ ScopesAgree(written)
                /\ report' = [report EXCEPT ![side] = [MergedReport(written) EXCEPT !.validity = v]]
  BY DEF Merge
<1>3. PICK v : \/ report' = [report EXCEPT ![side] = Refused]
               \/ /\ ScopesAgree(written)
                  /\ report' = [report EXCEPT ![side] = [MergedReport(written) EXCEPT !.validity = v]]
  BY <1>2
<1>4. PICK m : m = [MergedReport(written) EXCEPT !.validity = v]
  OBVIOUS
<1>5. PICK r : report' = [report EXCEPT ![side] = r] /\ (r # Refused => Publication(side, r))
  <2>1. CASE report' = [report EXCEPT ![side] = Refused]
    BY <2>1
  <2>2. CASE /\ ScopesAgree(written)
             /\ report' = [report EXCEPT ![side] = [MergedReport(written) EXCEPT !.validity = v]]
    <3>1. Publication(side, m)
      BY <1>1, <1>4, <2>2, MergeFact
    <3> QED
      BY <1>4, <2>2, <3>1
  <2> QED
    BY <1>3, <2>1, <2>2
<1>6. DOMAIN report' = Sides /\ report'[side] = r /\ \A s \in Sides \ {side} : report'[s] = report[s]
  BY <1>1, <1>5
<1> QED
  BY <1>1, <1>5, <1>6, NextSideFact

\* A sidecar that is changed leaves the report itself as it was.
LEMMA TouchedFact ==
  ASSUME NEW r, IsReport(r), NEW b
  PROVE  LET m == [r EXCEPT !.intact = b] IN
         /\ IsReport(m) /\ m.clients = r.clients /\ m.runs = r.runs /\ m.rows = r.rows /\ m.scope = r.scope
         /\ m.children = r.children /\ m.harness = r.harness /\ m.validity = r.validity
  BY DEF IsReport

\* The step that changes a sidecar.
LEMMA ChangeSidecarStep == Inv /\ ChangeSidecar => Inv'
<1> SUFFICES ASSUME Inv, ChangeSidecar
             PROVE  Inv'
  OBVIOUS
<1>1. TypeOK /\ Published /\ side = "compare" /\ suite = "attribution" /\ Ended = Sides
  BY DEF Inv, ChangeSidecar, Ended
<1>2. /\ suite' = suite /\ side' = side /\ isolated' = isolated /\ legacy' = legacy /\ ran' = ran /\ lost' = lost
      /\ written' = written /\ restricted' = restricted /\ axis' = axis /\ result' = result
      /\ harness' = harness /\ source' = source /\ departures' = departures + 1
  BY DEF ChangeSidecar, Depart
<1>3. PICK s \in Sides : report[s] # Refused /\ report' = [report EXCEPT ![s] = [@ EXCEPT !.intact = FALSE]]
  BY DEF ChangeSidecar
<1>4. PICK r : r = report[s]
  OBVIOUS
<1> DEFINE m == [r EXCEPT !.intact = FALSE]
<1>5. DOMAIN report' = Sides /\ report'[s] = m /\ \A u \in Sides \ {s} : report'[u] = report[u]
  BY <1>1, <1>3, <1>4 DEF TypeOK
<1>6. Publication(s, r)
  BY <1>1, <1>3, <1>4 DEF Published
<1> HIDE DEF m
<1>7. /\ IsReport(m) /\ m.clients = r.clients /\ m.runs = r.runs /\ m.rows = r.rows /\ m.scope = r.scope
      /\ m.children = r.children /\ m.harness = r.harness /\ m.validity = r.validity
  <2>1. IsReport(r)
    BY <1>6 DEF Publication
  <2> QED
    BY <2>1, TouchedFact, Zenon DEF m
<1>8. Publication(s, m)
  <2>1. Tells(m)
    BY <1>6, <1>7 DEF Publication, Tells
  <2>2. Recorded(m) = Recorded(r)
    BY <1>7 DEF Recorded
  <2> QED
    BY <1>1, <1>6, <1>7, <2>1, <2>2 DEF Publication
<1>9. TypeOK'
  BY <1>1, <1>2, <1>5 DEF TypeOK
<1>10. Outcomes' /\ Fresh' /\ Alone' /\ Releases'
  BY <1>1, <1>2 DEF Inv, Outcomes, Fresh, Alone, Releases, Sides
<1>11. Outputs'
  BY <1>1, <1>2 DEF Inv, Outputs, Sides
<1>12. Published'
  <2>1. ASSUME NEW u \in Sides, report'[u] # Refused
        PROVE  Publication(u, report[u])'
    <3>1. PICK x : x = report'[u]
      OBVIOUS
    <3>2. Publication(u, x)
      BY <1>1, <1>5, <1>8, <2>1, <3>1 DEF Published
    <3>3. Publication(u, x)'
      BY <1>2, <3>2, PublicationKept
    <3> QED
      BY <3>1, <3>3
  <2> QED
    BY <1>1, <1>2, <2>1 DEF Published, Ended
<1>13. ConclusionsAreWhole' /\ ConclusionsAreEarned' /\ ComparedAlike'
  BY <1>1, <1>2 DEF ConclusionsAreWhole, ConclusionsAreEarned, ComparedAlike, Compared
<1> QED
  BY <1>9, <1>10, <1>11, <1>12, <1>13 DEF Inv

\* No path from a run to the comparison loses a restriction: a side whose
\* report rep may be compared was measured as a whole.
WholeSide(s) ==
  /\ lost[s] = {} /\ ~restricted[s] /\ report[s].intact
  /\ DOMAIN ran[s] = Tasks(suite)
  /\ \A t \in DOMAIN ran[s] : ran[s][t].recovered /\ ran[s][t].flaws = {}
  /\ \A c \in report[s].children : c.provenance = report[s].provenance
  /\ suite \in Research =>
       \A t, u \in DOMAIN ran[s] : t # u => ran[s][t].pid # ran[s][u].pid

\* A side whose report may be compared was measured as a whole.
LEMMA WholeSideFact ==
  ASSUME Inv, NEW s \in Sides, NEW rep, rep = report[s], Publication(s, rep), Judged(rep).comparable
  PROVE  WholeSide(s)
<1>1. rep = report[s]
  OBVIOUS
<1>2. Publication(s, rep) /\ ~Restricts(Recorded(rep))
  BY JudgedFact
<1>3. \A r \in Classify(rep).reasons : r.status \in Lenient
  BY JudgedFact
<1>4. ~restricted[s]
  BY <1>2 DEF Publication
<1>5. \A c \in rep.children : c.succeeded /\ c.provenance = rep.provenance
  BY <1>3, ChildrenFact
<1>6. suite \in Research => DOMAIN rep.runs = Tasks(suite)
  BY <1>3, PlanFact
<1>7. lost[s] = {}
  BY <1>2, <1>5, <1>6 DEF Publication
<1>8. /\ DOMAIN ran[s] = Tasks(suite) /\ DOMAIN rep.runs = Tasks(suite)
      /\ \A t \in Tasks(suite) : rep.runs[t] = ran[s][t]
  BY <1>2, <1>7 DEF Publication
<1>9. rep.intact
  <2>1. suite # "attribution" => rep.intact
    BY <1>2 DEF Publication
  <2>2. suite = "attribution" => rep.intact
    BY <1>3, IntactFact
  <2> QED
    BY <2>1, <2>2
<1>10. ASSUME NEW t \in DOMAIN ran[s]
       PROVE  ran[s][t].recovered /\ ran[s][t].flaws = {}
  <2>1. t \in DOMAIN rep.runs /\ rep.runs[t] = ran[s][t]
    BY <1>8, <1>10
  <2>2. PICK row \in rep.rows : /\ suite = "resource" /\ ~rep.runs[t].recovered => row.failures # {}
                                /\ suite \in Research => rep.runs[t].flaws \subseteq row.flaws
    BY <1>2, <2>1 DEF Publication, Tells
  <2>3. ran[s][t].flaws \subseteq FlawsOf(suite) /\ (suite # "resource" => ran[s][t].recovered)
    BY <1>10 DEF Inv, Outcomes, Fits
  <2>4. ran[s][t].recovered
    <3>1. suite = "resource" => row.failures = {}
      BY <1>3, RecoveredFact
    <3> QED
      BY <2>1, <2>2, <2>3, <3>1
  <2>5. ran[s][t].flaws = {}
    <3>1. CASE suite \notin Research
      <4>1. FlawsOf(suite) = {}
        BY <3>1 DEF FlawsOf, Research
      <4> QED
        BY <2>3, <4>1
    <3>2. CASE suite \in Research
      <4>1. ran[s][t].flaws \cap DOMAIN CaseFlaws = {}
        BY <1>3, <2>1, <3>2, PlanFact
      <4>2. /\ "configuration" \notin row.flaws
            /\ suite = "attribution" => row.flaws \cap (DOMAIN WindowFlaws \cup DOMAIN ResourceFlaws) = {}
        BY <1>3, <3>2, RowFlawFact
      <4>3. ran[s][t].flaws \subseteq row.flaws
        BY <2>1, <2>2, <3>2
      <4>4. FlawsOf(suite) \subseteq DOMAIN CaseFlaws \cup {"configuration"} \cup
              IF suite = "attribution" THEN DOMAIN WindowFlaws \cup DOMAIN ResourceFlaws ELSE {}
        BY DEF FlawsOf
      <4> QED
        BY <2>3, <4>1, <4>2, <4>3, <4>4
    <3> QED
      BY <3>1, <3>2
  <2> QED
    BY <2>4, <2>5
<1>11. ASSUME suite \in Research, NEW t \in DOMAIN ran[s], NEW u \in DOMAIN ran[s], t # u
       PROVE  ran[s][t].pid # ran[s][u].pid
  <2>1. rep.runs[t].pid # rep.runs[u].pid
    BY <1>3, <1>8, <1>11, PlanFact
  <2> QED
    BY <1>8, <1>11, <2>1
<1> QED
  BY <1>1, <1>4, <1>5, <1>7, <1>8, <1>9, <1>10, <1>11 DEF WholeSide

\* A side whose report rep may be compared has no run with an error its case
\* is not there for, and none that misused the proxy.
LEMMA SoundSideFact ==
  ASSUME Inv, NEW s \in Sides, NEW rep, Publication(s, rep), Judged(rep).comparable,
         NEW t \in DOMAIN ran[s]
  PROVE  Sound(t, ran[s][t])
<1>1. /\ \A r \in Classify(rep).reasons : r.status \in Lenient
      /\ \A r \in Classify(rep).reasons : r.code # "expected_compatibility_failure"
      /\ ~Restricts(Recorded(rep))
  BY JudgedFact
<1>2. lost[s] = {}
  <2>1. \A c \in rep.children : c.succeeded
    BY <1>1, ChildrenFact
  <2>2. suite \in Research => DOMAIN rep.runs = Tasks(suite)
    BY <1>1, PlanFact
  <2> QED
    BY <2>1, <2>2 DEF Publication
<1>3. t \in DOMAIN rep.runs /\ rep.runs[t] = ran[s][t]
  BY <1>2 DEF Publication
<1>4. PICK row \in rep.rows : Counts(row, t, rep.runs[t])
  BY <1>3 DEF Publication, Tells
<1>5. Fits(suite, t, ran[s][t])
  BY DEF Inv, Outcomes
<1> QED
  BY <1>1, <1>3, <1>4, <1>5, SoundFact

\* Reports that are compared were measured alike.
LEMMA AlikeFact ==
  ASSUME NEW old, NEW new, NEW ax, Comparable(old, new, ax), Publication("old", old), Publication("new", new)
  PROVE  /\ \E b \in BOOLEAN : \A row \in old.rows \cup new.rows : row.scope = Scope(b)
         /\ suite = "attribution" => /\ harness["old"] = harness["new"]
                                     /\ source["old"] # source["new"] => ax = "foghttp-source"
<1>1. ReportScope(old) # Refused /\ ReportScope(old) = ReportScope(new)
  BY DEF Comparable
<1>2. old.scope = new.scope /\ old.scope # Absent
  BY <1>1 DEF ReportScope
<1>3. PICK b \in BOOLEAN : old.scope = Scope(b)
  BY <1>2 DEF Publication, Scopes
<1>4. \A row \in old.rows \cup new.rows : row.scope = Scope(b)
  BY <1>2, <1>3 DEF Publication, Tells
<1>5. suite = "attribution" => /\ harness["old"] = harness["new"]
                               /\ source["old"] # source["new"] => ax = "foghttp-source"
  BY DEF Comparable, Publication
<1> QED
  BY <1>3, <1>4, <1>5

\* The step that compares the two reports.
LEMMA CompareStep == Inv /\ Compare => Inv'
<1> SUFFICES ASSUME Inv, Compare
             PROVE  Inv'
  OBVIOUS
<1>1. TypeOK /\ Published /\ side = "compare" /\ Ended = Sides
  BY DEF Inv, Compare, Ended
<1>2. /\ suite' = suite /\ side' = "done" /\ isolated' = isolated /\ legacy' = legacy /\ ran' = ran /\ lost' = lost
      /\ written' = written /\ report' = report /\ restricted' = restricted
      /\ harness' = harness /\ source' = source /\ departures' = departures
      /\ axis' \in {Absent, "foghttp-source"}
  BY DEF Compare
<1>3. TypeOK'
  BY <1>1, <1>2 DEF TypeOK
<1>4. Outcomes' /\ Fresh' /\ Alone' /\ Releases'
  BY <1>2 DEF Inv, Outcomes, Fresh, Alone, Releases, Sides
<1>5. Outputs'
  BY <1>1, <1>2 DEF Inv, Outputs, Sides
<1>6. Published'
  <2>1. ASSUME NEW u \in Sides, report[u] # Refused
        PROVE  Publication(u, report[u])'
    <3>1. PICK x : x = report[u]
      OBVIOUS
    <3>2. Publication(u, x)
      BY <1>1, <2>1, <3>1 DEF Published
    <3>3. Publication(u, x)'
      BY <1>2, <3>2, PublicationKept
    <3> QED
      BY <1>2, <3>1, <3>3
  <2> QED
    BY <1>2, <2>1 DEF Published, Ended
<1>7. CASE result' = Refused
  BY <1>3, <1>4, <1>5, <1>6, <1>7 DEF Inv, ConclusionsAreWhole, ConclusionsAreEarned, ComparedAlike, Compared
<1>8. CASE result' # Refused
  <2>1. PICK old, new : old = report["old"] /\ new = report["new"]
    OBVIOUS
  <2>2. /\ old # Refused /\ new # Refused /\ Comparable(old, new, axis')
        /\ result'.blocked = Blocked(old, new)
    BY <1>8, <2>1 DEF Compare, Loads
  <2>3. \A s \in Sides : report[s] # Refused
    BY <2>1, <2>2 DEF Sides
  <2>4. ConclusionsAreWhole'
    <3>1. ASSUME ~Blocked(old, new), NEW s \in Sides
          PROVE  WholeSide(s)
      <4>1. PICK rep : rep = report[s]
        OBVIOUS
      <4>2. Judged(rep).comparable
        BY <2>1, <3>1, <4>1 DEF Blocked, Sides
      <4>3. Publication(s, rep)
        BY <1>1, <2>3, <4>1 DEF Published
      <4> QED
        BY <4>1, <4>2, <4>3, WholeSideFact
    <3> QED
      BY <1>2, <2>2, <3>1 DEF ConclusionsAreWhole, WholeSide
  <2>6. ConclusionsAreEarned'
    <3>1. ASSUME ~Blocked(old, new), NEW s \in Sides, NEW t \in DOMAIN ran[s]
          PROVE  Sound(t, ran[s][t])
      <4>1. PICK rep : rep = report[s]
        OBVIOUS
      <4>2. Judged(rep).comparable
        BY <2>1, <3>1, <4>1 DEF Blocked, Sides
      <4>3. Publication(s, rep)
        BY <1>1, <2>3, <4>1 DEF Published
      <4> QED
        BY <4>2, <4>3, SoundSideFact
    <3> QED
      BY <1>2, <2>2, <3>1 DEF ConclusionsAreEarned, Sound
  <2>5. ComparedAlike'
    <3>1. Publication("old", old) /\ Publication("new", new)
      BY <1>1, <2>1, <2>3 DEF Published, Sides
    <3>2. /\ \E b \in BOOLEAN : \A row \in old.rows \cup new.rows : row.scope = Scope(b)
          /\ suite = "attribution" => /\ harness["old"] = harness["new"]
                                      /\ source["old"] # source["new"] => axis' = "foghttp-source"
      BY <2>2, <3>1, AlikeFact
    <3>3. /\ legacy["old"] \cap old.clients \in {{}, old.clients}
          /\ legacy["new"] \cap new.clients \in {{}, new.clients}
      BY <3>1 DEF Publication
    <3> QED
      BY <1>2, <2>1, <3>2, <3>3 DEF ComparedAlike, Sides
  <2> QED
    BY <1>3, <1>4, <1>5, <1>6, <2>4, <2>5, <2>6 DEF Inv
<1> QED
  BY <1>7, <1>8

(***************************************************************************)
(* Theorems.                                                                *)
(***************************************************************************)
LEMMA InitFact == Init => Inv
<1> SUFFICES ASSUME Init
             PROVE  Inv
  OBVIOUS
<1>1. suite \in Suites /\ side = "old" /\ isolated \in IF suite \in Research THEN {FALSE} ELSE BOOLEAN
  BY DEF Init
<1>2. /\ ran = [s \in Sides |-> <<>>] /\ report = [s \in Sides |-> Absent]
      /\ legacy = [s \in Sides |-> {}] /\ lost = [s \in Sides |-> {}] /\ restricted = [s \in Sides |-> FALSE]
      /\ harness = [s \in Sides |-> "h1"] /\ source = [s \in Sides |-> "s1"]
      /\ written = {} /\ axis = Absent /\ departures = 0
  BY DEF Init
<1>3. DOMAIN << >> = {}
  OBVIOUS
<1>4. \A s \in Sides : DOMAIN ran[s] = {} /\ legacy[s] = {} /\ lost[s] = {} /\ ~restricted[s]
  BY <1>2, <1>3
<1>5. TypeOK
  <2>1. isolated \in BOOLEAN /\ DOMAIN ran = Sides /\ DOMAIN report = Sides
    BY <1>1, <1>2
  <2>2. \A s \in Sides : DOMAIN ran[s] \subseteq Tasks(suite)
    BY <1>4
  <2>3. legacy \in [Sides -> SUBSET Measured(suite)] /\ lost \in [Sides -> SUBSET Measured(suite)]
    BY <1>2
  <2>4. /\ restricted \in [Sides -> BOOLEAN]
        /\ harness \in [Sides -> {"h1", "h2"}] /\ source \in [Sides -> {"s1", "s2"}]
    BY <1>2
  <2>5. axis \in {Absent, "foghttp-source"} /\ departures \in Nat
    BY <1>2
  <2> QED
    BY <1>1, <2>1, <2>2, <2>3, <2>4, <2>5 DEF TypeOK, Sides
<1>6. Outcomes /\ Fresh /\ Alone
  BY <1>1, <1>4 DEF Outcomes, Fresh, Alone, Sides
<1>7. Releases
  BY <1>4 DEF Releases
<1>8. Outputs
  BY <1>1, <1>2, <1>4 DEF Outputs, Sides
<1>9. Published /\ ConclusionsAreWhole /\ ConclusionsAreEarned /\ ComparedAlike
  BY <1>1 DEF Published, Ended, ConclusionsAreWhole, ConclusionsAreEarned, ComparedAlike, Compared
<1> QED
  BY <1>5, <1>6, <1>7, <1>8, <1>9 DEF Inv

\* A stutter.
LEMMA StutterFact == Inv /\ UNCHANGED vars => Inv'
<1> SUFFICES ASSUME Inv, UNCHANGED vars
             PROVE  Inv'
  OBVIOUS
<1>1. /\ suite' = suite /\ side' = side /\ isolated' = isolated /\ legacy' = legacy /\ ran' = ran /\ lost' = lost
      /\ written' = written /\ report' = report /\ restricted' = restricted /\ axis' = axis /\ result' = result
      /\ harness' = harness /\ source' = source /\ departures' = departures
  BY DEF vars
<1>2. TypeOK' /\ Outcomes' /\ Fresh' /\ Alone' /\ Releases'
  BY <1>1 DEF Inv, TypeOK, Outcomes, Fresh, Alone, Releases, Left, Processes
<1>3. Outputs'
  <2>1. ASSUME NEW w \in written
        PROVE  Output(w)'
    <3>1. Output(w) /\ Processes' = Processes /\ Left' = Left
      BY <1>1, <2>1 DEF Inv, Outputs, Processes, Left
    <3>2. Tells(w)'
      BY <1>1, <3>1 DEF Output, Tells
    <3> QED
      BY <1>1, <3>1, <3>2 DEF Output, Of
  <2> QED
    BY <1>1, <2>1 DEF Inv, Outputs
<1>4. Published'
  <2>1. Ended' = Ended
    BY <1>1 DEF Ended
  <2>2. ASSUME NEW s \in Ended, report[s] # Refused
        PROVE  Publication(s, report[s])'
    <3>1. PICK x : x = report[s]
      OBVIOUS
    <3>2. Publication(s, x)
      BY <2>2, <3>1 DEF Inv, Published
    <3>3. Publication(s, x)'
      BY <1>1, <3>2, PublicationKept
    <3> QED
      BY <1>1, <3>1, <3>3
  <2> QED
    BY <1>1, <2>1, <2>2 DEF Published
<1>5. ConclusionsAreWhole' /\ ConclusionsAreEarned' /\ ComparedAlike'
  BY <1>1 DEF Inv, ConclusionsAreWhole, ConclusionsAreEarned, ComparedAlike, Compared, Sound
<1> QED
  BY <1>2, <1>3, <1>4, <1>5 DEF Inv

\* The invariant holds in every state.
THEOREM Invariance == Spec => []Inv
<1>1. Inv /\ [Next]_vars => Inv'
  BY StutterFact, ChangeReleaseStep, EarlierReleaseStep, MeasureStep, KilledStep,
     ChildFailsStep, WriteReportStep, PublishStep, MergeStep, ChangeSidecarStep,
     CompareStep DEF Next
<1> QED
  BY InitFact, <1>1, PTL DEF Spec

\* Every variable has its type.
THEOREM TypeCorrect == Spec => []TypeOK
<1>1. Inv => TypeOK
  BY DEF Inv
<1> QED
  BY Invariance, <1>1, PTL

\* A comparison that is not blocked rests on two whole reports: no path from a
\* run to the comparison (rows, verdicts recorded by the processes and by the
\* parent, the merge, a second classification) loses a restriction.
THEOREM WholeConclusions == Spec => []ConclusionsAreWhole
<1>1. Inv => ConclusionsAreWhole
  BY DEF Inv
<1> QED
  BY Invariance, <1>1, PTL

\* In a comparison that is not blocked no request of a run, or of its warm-up,
\* failed in a way its case is not there for, and the proxy was used as declared:
\* the errors that rows add up by type hide none, and those a client is known for
\* block the comparison.
THEOREM EarnedConclusions == Spec => []ConclusionsAreEarned
<1>1. Inv => ConclusionsAreEarned
  BY DEF Inv
<1> QED
  BY Invariance, <1>1, PTL

\* Both reports, and all children merged into them, were measured with one
\* timing scope, and attribution by one harness.
THEOREM ComparisonsAreAlike == Spec => []ComparedAlike
<1>1. Inv => ComparedAlike
  BY DEF Inv
<1> QED
  BY Invariance, <1>1, PTL
=============================================================================
