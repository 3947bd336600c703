----------------------------- MODULE SuiteCases -----------------------------
(***************************************************************************)
(* The cases of the suites that have a runner of their own: response         *)
(* streaming, one upstream, proxy CONNECT, resource and backpressure,        *)
(* request builder, client creation.  A runner works through its plan, one   *)
(* case after the other, and most cases are the same few steps in a          *)
(* different order; here the order is data (Program), and an exception       *)
(* leaves out every step that is not in a finally.                           *)
(*                                                                         *)
(* What a load counts depends on what its requests meet: a body that is cut  *)
(* short, a proxy that is bypassed, or one that reads a request only after   *)
(* its client has given it up.  The workers of a load, its samplers and its  *)
(* cancellation are the subject of LoadEngine, the proxy of ProxyTunnel.     *)
(***************************************************************************)
EXTENDS Naturals, Sequences, FiniteSets

CONSTANTS
  Suites,       \* suites to run
  Length,       \* length of the plan
  Requests,     \* --requests, or --iterations
  Warmup,       \* --warmup
  Concurrency,  \* workers of a load, clients of many-clients
  Size,         \* bytes of a streamed body
  LineStarts,   \* of each body that is read by lines, the offsets its lines begin at
  MaxLate,      \* bound: requests given up before the proxy has read them
  MaxRaises     \* bound: steps that raise

ASSUME SuiteAssumption ==
  /\ Suites \subseteq {"streaming", "one-upstream", "proxy", "resource", "builder", "creation"}
  /\ Requests \in Nat \ {0} /\ Concurrency \in Nat \ {0} /\ Size \in Nat \ {0}
  /\ \A lines \in LineStarts : lines \subseteq 0 .. Size - 1 /\ 0 \in lines
  /\ Length \in Nat /\ Warmup \in Nat /\ MaxLate \in Nat /\ MaxRaises \in Nat

VARIABLES
  suite, item,  \* the suite and the case of the plan
  pc,           \* the step of the case's program, 0 when the suite has ended
  raised,       \* is an exception being unwound?
  raises,
  left, busy,   \* requests of the load nobody has taken, and those in flight
  running,      \* has the load of this step started?
  stage,        \* of a creation operation: it makes, uses or closes clients
  tally,        \* what the load has counted
  route,        \* how the client of this case really sends its requests
  tunnel,       \* has it a tunnel it can use again?
  seen,         \* the proxy's counters
  late,         \* requests given up by their clients and not read by the proxy yet
  charged,      \* those read between the first and the last snapshot of this case
  snapshots,    \* the snapshots of the proxy's counters this case has taken
  env,          \* the proxy variables of the process
  open,         \* clients that are open
  recovered,    \* did the client of this case answer after its load?
  reported,     \* cases that have been reported
  result        \* the result of this case

loadVars == <<left, busy, running, stage, tally>>
proxyVars == <<tunnel, seen, late, charged>>
resultVars == <<recovered, reported, result>>
vars == <<suite, item, pc, raised, raises, loadVars, route, proxyVars, snapshots, env, open, resultVars>>

Unreported == [usage |-> "unreported"]
Zero == [http |-> 0, connect |-> 0]
\* What no code counts: the streams whose last line had begun when they ended,
\* those whose body came whole, and those whose body also came unchanged.
NoTally == [errors |-> 0, verified |-> 0, begun |-> 0, whole |-> 0, intact |-> 0]

-----------------------------------------------------------------------------
(* The cases and the steps they consist of.                                 *)

Streaming ==
  {[read |-> r, consume |-> c, lines |-> {}] : r \in {"bytes", "text"}, c \in {"all", "first"}}
  \cup {[read |-> "lines", consume |-> c, lines |-> l] : c \in {"all", "first"}, l \in LineStarts}

Proxied ==
  {[scheme |-> s, config |-> c, cold |-> FALSE]
     : s \in {"http", "https"}, c \in {"direct", "explicit", "trust-env"}}
  \cup {[scheme |-> "https", config |-> "explicit", cold |-> TRUE]}

Cases ==
  CASE suite = "streaming" -> Streaming
    [] suite = "proxy"     -> Proxied
    [] suite = "resource"  -> [recovery : BOOLEAN]
    [] suite = "builder"   -> [kind : {"build", "send-prepared"}]
    [] suite = "creation"  -> [kind : {"create-close", "create-first-request", "reused-request", "many-clients"}]
    [] OTHER               -> [kind : {"request"}]

StreamingCase == <<"create", "warmup", "measure", "stats", "close", "report">>
OneUpstreamCase == StreamingCase \o <<"settle">>
ResourceCase == <<"create", "warmup", "measure", "stats", "recover", "close", "report">>
BuilderCase == <<"create", "warmup", "measure", "close", "report">>
CreationCase == <<"operation", "report">>

\* Faulty: the connections of the warm-up are not in the total.
ProxyCaseLateStart ==
  <<"environment", "create", "warmup", "start", "measured-start", "measure", "measured-end",
    "stats", "close", "total-end", "restore", "report">>

ProxyCase ==
  <<"environment", "create", "start", "warmup", "measured-start", "measure", "measured-end",
    "stats", "close", "total-end", "restore", "report">>

Program ==
  CASE suite = "streaming"    -> StreamingCase
    [] suite = "one-upstream" -> OneUpstreamCase
    [] suite = "proxy"        -> ProxyCase
    [] suite = "resource"     -> ResourceCase
    [] suite = "builder"      -> BuilderCase
    [] suite = "creation"     -> CreationCase

\* The steps of a finally.  Faulty: the environment is set back in no finally.
CloseOnly == {"close"}
Finally == {"close", "restore"}

UsesProxy(c) == c.config # "direct"

Init ==
  /\ suite \in Suites /\ item \in Cases
  /\ pc = 1 /\ raised = FALSE /\ raises = 0
  /\ left = 0 /\ busy = 0 /\ running = FALSE /\ stage = "make" /\ tally = NoTally
  /\ route \in {"direct", "proxy"} /\ (suite # "proxy" => route = "direct")
  /\ tunnel = FALSE /\ seen = Zero /\ late = Zero /\ charged = Zero
  /\ snapshots = << >> /\ env = "initial" /\ open = 0
  /\ recovered = TRUE /\ reported = 0 /\ result = Unreported

At(step) == pc \in 1 .. Len(Program) /\ Program[pc] = step
Doing(step) == At(step) /\ (raised => step \in Finally)
Onward == pc' = pc + 1

Raise ==
  /\ raises < MaxRaises /\ raises' = raises + 1
  /\ raised' = TRUE /\ Onward
Goes == UNCHANGED <<raised, raises>> /\ Onward
Stays == UNCHANGED <<pc, raised, raises>>

\* While an exception is unwound, the steps outside the finally blocks are left out.
LeaveOut ==
  /\ raised /\ pc \in 1 .. Len(Program)
  /\ \/ Program[pc] \notin Finally
     \/ Program[pc] = "close" /\ open = 0
  /\ Onward
  /\ UNCHANGED <<suite, item, raised, raises, loadVars, route, proxyVars, snapshots, env, open, resultVars>>

-----------------------------------------------------------------------------
(* Steps that are the same in every suite.                                  *)

planVars == <<suite, item, route>>

\* The factory makes the client before the try; one cold client adapter makes none.
CreateClient ==
  /\ Doing("create")
  /\ \/ open' = 1 /\ Goes
     \/ Raise /\ UNCHANGED open
  /\ UNCHANGED <<planVars, loadVars, proxyVars, snapshots, env, resultVars>>

CloseClient ==
  /\ Doing("close") /\ open = 1 /\ open' = 0
  /\ tunnel' = FALSE
  /\ Goes \/ Raise
  /\ UNCHANGED <<planVars, loadVars, seen, late, charged, snapshots, env, resultVars>>

\* client.stats(), the cooldown.
OtherStep ==
  /\ Doing("stats") \/ Doing("settle")
  /\ Goes \/ Raise
  /\ UNCHANGED <<planVars, loadVars, proxyVars, snapshots, env, open, resultVars>>

\* Is the client still of use after the load?  What it raises is only noted.
RecoveryCheck ==
  /\ Doing("recover")
  /\ IF item.recovery THEN recovered' \in BOOLEAN ELSE UNCHANGED recovered
  /\ Goes /\ UNCHANGED <<planVars, loadVars, proxyVars, snapshots, env, open, reported, result>>

InLoad == (At("warmup") \/ At("measure") \/ At("operation")) /\ ~raised

BeginLoad ==
  /\ InLoad /\ ~running /\ running' = TRUE
  /\ left' = IF At("warmup") THEN Warmup
             ELSE IF suite = "creation" /\ item.kind = "many-clients" THEN Concurrency ELSE Requests
  /\ tally' = NoTally /\ Stays
  /\ UNCHANGED <<planVars, busy, stage, proxyVars, snapshots, env, open, resultVars>>

Workers == IF suite = "builder" THEN 1 ELSE Concurrency

TakeRequest ==
  /\ running /\ suite # "creation" /\ left > 0 /\ busy < Workers
  /\ left' = left - 1 /\ busy' = busy + 1 /\ Stays
  /\ UNCHANGED <<planVars, running, stage, tally, proxyVars, snapshots, env, open, resultVars>>

\* Every request has been reported: the workers' counts are merged.  The load
\* raises if a worker has died; of a creation operation nothing is raised.
EndLoad ==
  /\ running /\ left = 0 /\ busy = 0 /\ stage = "make" /\ running' = FALSE
  /\ Goes \/ (suite # "creation" /\ Raise)
  /\ UNCHANGED <<planVars, left, busy, stage, tally, proxyVars, snapshots, env, open, resultVars>>

\* One request of the load has been answered or has failed.
Counted(errors) ==
  /\ running /\ busy > 0 /\ busy' = busy - 1
  /\ tally' = [tally EXCEPT !.errors = @ + errors]
  /\ UNCHANGED <<left, running, stage>>

\* The upstream says what it has been sent, and that is what it should be or not.
OneUpstreamRequest ==
  /\ suite = "one-upstream"
  /\ Counted(0) \/ Counted(1)
  /\ Stays /\ UNCHANGED <<planVars, proxyVars, snapshots, env, open, resultVars>>

\* Every other request of a load on two origins goes to the second one; either
\* may refuse it because the client is at one of its limits.
ResourceRequest ==
  /\ suite = "resource"
  /\ Counted(0) \/ Counted(1)
  /\ Stays /\ UNCHANGED <<planVars, proxyVars, snapshots, env, open, resultVars>>

\* A prepared request may be counted twice: for what it is, and for its answer.
BuilderIteration ==
  /\ suite = "builder"
  /\ \/ Counted(0) \/ Counted(1)
     \/ item.kind = "send-prepared" /\ Counted(2)
  /\ Stays /\ UNCHANGED <<planVars, proxyVars, snapshots, env, open, resultVars>>

-----------------------------------------------------------------------------
(* Streaming: what is consumed of a body of which got bytes come before the  *)
(* end of the stream, an orderly one or not.                                *)

\* A line that has begun is one, also when the body is cut inside it.
LinesBegun(got) == {start \in item.lines : start < got}

\* The items of a body: lines, or chunks of one byte each.
Consumed(got) ==
  IF item.consume = "first" THEN IF got > 0 THEN 1 ELSE 0
  ELSE IF item.read = "lines" THEN Cardinality(LinesBegun(got)) ELSE got

\* The bytes of a line are not those of its terminator: a case that consumes
\* all lines reports the size of the body it expects as soon as there is one.
BytesRead(items) ==
  IF item.read = "lines" /\ item.consume = "all" /\ items > 0 THEN Size ELSE items

\* Faulty: the number of lines is not compared.
BytesMatch(items) ==
  /\ items >= 1
  /\ IF item.consume = "first" THEN BytesRead(items) <= Size ELSE BytesRead(items) = Size

LineOutcomeMatches(items) ==
  /\ items >= 1
  /\ IF item.consume = "first" THEN items = 1 /\ BytesRead(items) <= Size
     ELSE items = Cardinality(item.lines) /\ BytesRead(items) = Size

\* Only a body of bytes has a digest, which tells a changed one from the expected;
\* a change that keeps the length and the ends of lines is seen by nothing else.
OutcomeMatches(items, intact) ==
  IF item.read = "lines" THEN LineOutcomeMatches(items)
  ELSE IF item.consume = "first" THEN items >= 1 /\ BytesRead(items) <= Size
  ELSE items >= 1 /\ BytesRead(items) = Size /\ (item.read = "bytes" => intact)

CountOutcome(got, intact) ==
  LET items == Consumed(got)
      matches == OutcomeMatches(items, intact)
  IN tally' = [tally EXCEPT
       !.errors = @ + (IF matches THEN 0 ELSE 1),
       !.verified = @ + (IF matches /\ item.consume = "all" THEN BytesRead(items) ELSE 0),
       !.begun = @ + (IF LinesBegun(got) = item.lines THEN 1 ELSE 0),
       !.whole = @ + (IF got = Size THEN 1 ELSE 0),
       !.intact = @ + (IF got = Size /\ intact THEN 1 ELSE 0)]

StreamRequest ==
  /\ suite = "streaming"
  /\ \/ Counted(1)       \* no answer, another status, or an error in the body
     \/ /\ running /\ busy > 0 /\ busy' = busy - 1
        /\ \E got \in 0 .. Size, intact \in BOOLEAN : CountOutcome(got, intact)
        /\ UNCHANGED <<left, running, stage>>
  /\ Stays /\ UNCHANGED <<planVars, proxyVars, snapshots, env, open, resultVars>>

-----------------------------------------------------------------------------
(* Proxy CONNECT.                                                           *)

\* proxy_environment sets the variables, and sets them back on every path.
SetEnvironment ==
  /\ Doing("environment")
  /\ env' = IF item.config = "trust-env" THEN "proxy" ELSE "initial"
  /\ Goes /\ UNCHANGED <<planVars, loadVars, proxyVars, snapshots, open, resultVars>>

RestoreEnvironment ==
  /\ Doing("restore") /\ env' = "initial"
  /\ Goes /\ UNCHANGED <<planVars, loadVars, proxyVars, snapshots, open, resultVars>>

SnapshotSteps == {"start", "measured-start", "measured-end", "total-end"}

Snapshot ==
  /\ \E step \in SnapshotSteps :
       Doing(step) /\ snapshots' = Append(snapshots, [at |-> step, seen |-> seen])
  /\ Goes /\ UNCHANGED <<planVars, loadVars, proxyVars, env, open, resultVars>>

Kind == IF item.scheme = "http" THEN "http" ELSE "connect"

\* Does this request reach the proxy by itself, or in a tunnel there is already?
Reaches == route = "proxy" /\ ~(item.scheme = "https" /\ tunnel)

ReusableTunnel(ok) == tunnel \/ (ok /\ item.scheme = "https" /\ route = "proxy" /\ ~item.cold)

\* The proxy reads the request; what comes of it is the client's matter.
ReadByProxy ==
  /\ Reaches /\ seen' = [seen EXCEPT ![Kind] = @ + 1]
  /\ \E e \in {0, 1} : Counted(e) /\ tunnel' = ReusableTunnel(e = 0)
  /\ UNCHANGED <<late, charged>>

\* The client gives it up first.
GivenUp ==
  /\ Reaches /\ late.http + late.connect < MaxLate
  /\ late' = [late EXCEPT ![Kind] = @ + 1]
  /\ Counted(1) /\ UNCHANGED <<tunnel, seen, charged>>

NotRead ==
  /\ \/ Counted(1)
     \/ ~Reaches /\ Counted(0)
  /\ UNCHANGED proxyVars

ProxyRequest ==
  /\ suite = "proxy" /\ (ReadByProxy \/ GivenUp \/ NotRead)
  /\ Stays /\ UNCHANGED <<planVars, snapshots, env, open, resultVars>>

\* Between the first and the last snapshot of a case?
InWindow == snapshots # << >> /\ snapshots[Len(snapshots)].at # "total-end"

\* A request whose client has given it up is read all the same, in this case
\* or in a later one.
ReadLate ==
  /\ pc > 0
  /\ \E k \in {"http", "connect"} :
       /\ late[k] > 0 /\ late' = [late EXCEPT ![k] = @ - 1]
       /\ seen' = [seen EXCEPT ![k] = @ + 1]
       /\ charged' = IF InWindow THEN [charged EXCEPT ![k] = @ + 1] ELSE charged
  /\ Stays /\ UNCHANGED <<planVars, loadVars, tunnel, snapshots, env, open, resultVars>>

SeenAt(step) == LET i == CHOOSE i \in 1 .. Len(snapshots) : snapshots[i].at = step
                IN snapshots[i].seen

\* proxy_delta: the counters only grow.
ProxyDelta(start, end, k) == SeenAt(end)[k] - SeenAt(start)[k]

ProxyUsageError ==
  IF ~UsesProxy(item)
  THEN IF ProxyDelta("start", "total-end", "http") = 0 /\ ProxyDelta("start", "total-end", "connect") = 0
       THEN "none" ELSE "unexpected_proxy_activity"
  ELSE IF item.scheme = "http"
  THEN IF ProxyDelta("measured-start", "measured-end", "http") >= Requests
       THEN "none" ELSE "proxy_http_bypass"
  ELSE IF ProxyDelta("start", "total-end", "connect") > 0
       THEN "none" ELSE "proxy_connect_bypass"

-----------------------------------------------------------------------------
(* Client creation: one operation after the other, each counting what it     *)
(* raises.                                                                  *)

Error(n) == tally' = [tally EXCEPT !.errors = @ + n]
Repeated == item.kind \in {"create-close", "create-first-request"}
Operating(s) == At("operation") /\ running /\ stage = s

\* The end of an iteration, or of an operation that is no loop over clients.
Iterated == stage' = "make" /\ left' = IF Repeated THEN left - 1 ELSE 0

MakeClient ==
  /\ Operating("make") /\ left > 0
  /\ \/ /\ busy' = busy + 1 /\ open' = open + 1 /\ UNCHANGED tally
        /\ IF item.kind = "many-clients" /\ busy + 1 < left
           THEN UNCHANGED <<left, stage>> ELSE stage' = "use" /\ UNCHANGED left
     \/ /\ Error(1) /\ UNCHANGED <<busy, open>>
        /\ IF item.kind = "many-clients" THEN stage' = "close" /\ UNCHANGED left ELSE Iterated
  /\ Stays /\ UNCHANGED <<planVars, running, proxyVars, snapshots, env, resultVars>>

ClosesNext == stage' = "close" /\ UNCHANGED <<busy, left>>

\* The resources are read; a client is not closed if that raises.
CreateClose ==
  /\ item.kind = "create-close"
  /\ \/ ClosesNext /\ UNCHANGED tally
     \/ Error(1) /\ busy' = 0 /\ Iterated

\* The answer may be wrong, and the reading of the resources may raise.
CreateFirstRequest ==
  /\ item.kind = "create-first-request"
  /\ (\E n \in 0 .. 2 : Error(n)) /\ ClosesNext

\* One client sends all the requests, up to the first one that raises.
ReusedRequest ==
  /\ item.kind = "reused-request"
  /\ \/ left > 0 /\ left' = left - 1 /\ (\E n \in 0 .. 1 : Error(n)) /\ UNCHANGED <<busy, stage>>
     \/ left = 0 /\ (\E n \in 0 .. 1 : Error(n)) /\ ClosesNext
     \/ Error(1) /\ ClosesNext

ManyClients ==
  /\ item.kind = "many-clients"
  /\ (\E n \in 0 .. 1 : Error(n)) /\ ClosesNext

UseClient ==
  /\ Operating("use")
  /\ CreateClose \/ CreateFirstRequest \/ ReusedRequest \/ ManyClients
  /\ Stays /\ UNCHANGED <<planVars, running, open, proxyVars, snapshots, env, resultVars>>

\* Faulty: what close() raises is not counted.
CloseQuietly ==
  /\ busy' = busy - 1 /\ UNCHANGED tally
  /\ open' = open - 1 \/ UNCHANGED open

\* Faulty: an exception of close() is counted where it is raised and once more.
CloseCountedTwice ==
  /\ busy' = busy - 1
  /\ \/ open' = open - 1 /\ UNCHANGED tally
     \/ Error(2) /\ UNCHANGED open

\* Every client is closed by itself; what its close() raises is counted.
CloseCounted ==
  /\ busy' = busy - 1
  /\ \/ open' = open - 1 /\ UNCHANGED tally
     \/ Error(1) /\ UNCHANGED open

CloseClients ==
  /\ Operating("close")
  /\ IF busy > 0 THEN CloseCounted /\ UNCHANGED <<left, stage>>
     ELSE Iterated /\ UNCHANGED <<busy, tally, open>>
  /\ Stays /\ UNCHANGED <<planVars, running, proxyVars, snapshots, env, resultVars>>

-----------------------------------------------------------------------------
\* good: the requests that are counted as no error, before the usage of the
\* proxy is held against all of them; ok: what is reported of them.
Result ==
  LET usage == IF suite = "proxy" THEN ProxyUsageError ELSE "none"
      good == Requests - tally.errors
  IN [usage |-> usage, good |-> good, verified |-> tally.verified,
      errors |-> tally.errors + (IF usage = "none" THEN 0 ELSE Requests),
      ok |-> IF usage = "none" THEN good ELSE 0]

\* What a reader of reports takes: of a load, requests that are ok or errors;
\* of operations, a number of errors that can be.
OperationErrorLimit ==
  IF suite = "builder" THEN Requests
  ELSE CASE item.kind = "create-first-request" -> 3 * Requests
         [] item.kind = "reused-request"       -> Requests + 2
         [] item.kind = "many-clients"         -> Concurrency + 1
         [] OTHER                              -> Requests

Accepted(r) ==
  IF suite \in {"builder", "creation"} THEN r.errors <= OperationErrorLimit
  ELSE r.ok + r.errors = Requests

Report ==
  /\ Doing("report") /\ reported' = reported + 1 /\ result' = Result
  /\ Goes /\ UNCHANGED <<planVars, loadVars, proxyVars, snapshots, env, open, recovered>>

\* The next case of the plan.  The clients an operation has not closed are not
\* looked at again.
NextCase ==
  /\ pc = Len(Program) + 1
  /\ IF raised \/ reported = Length
     THEN pc' = 0 /\ UNCHANGED <<item, route, charged, snapshots, open>>
     ELSE /\ pc' = 1 /\ item' \in Cases
          /\ route' \in IF suite = "proxy" THEN {"direct", "proxy"} ELSE {"direct"}
          /\ charged' = Zero /\ snapshots' = << >> /\ open' = 0
  /\ tally' = NoTally /\ recovered' = TRUE /\ result' = Unreported
  /\ UNCHANGED <<suite, raised, raises, left, busy, running, stage, tunnel, seen, late, env, reported>>

Next ==
  \/ LeaveOut \/ CreateClient \/ CloseClient \/ OtherStep
  \/ BeginLoad \/ TakeRequest \/ EndLoad
  \/ RecoveryCheck \/ OneUpstreamRequest \/ ResourceRequest \/ BuilderIteration \/ StreamRequest \/ ProxyRequest
  \/ MakeClient \/ UseClient \/ CloseClients
  \/ SetEnvironment \/ RestoreEnvironment \/ Snapshot \/ ReadLate
  \/ Report \/ NextCase

Spec == Init /\ [][Next]_vars

-----------------------------------------------------------------------------
\* The verdict on a case's use of the proxy is right, whatever its connections
\* were made for and whenever the proxy read its requests: a bypass is missed
\* only when enough requests that were given up are read meanwhile, and a case
\* whose requests all matched is never accused without cause.
UsageIsFair ==
  suite = "proxy" /\ result # Unreported =>
    LET right == (route = "proxy") = UsesProxy(item)
    IN /\ result.usage = "none" /\ ~right /\ result.good > 0 =>
            IF item.scheme = "http" THEN charged.http >= Requests ELSE charged.connect > 0
       /\ result.usage # "none" /\ right => result.good < Requests \/ charged # Zero

\* What a streaming case calls verified is the size of every body it calls good,
\* and those bodies did arrive as far as the way they were read can tell: bytes
\* whole and unchanged, text whole, and lines up to the beginning of the last one.
VerifiedAsRead ==
  suite = "streaming" /\ result # Unreported /\ item.consume = "all" =>
    /\ result.verified = Size * result.good
    /\ item.read = "bytes" => result.good <= tally.intact
    /\ item.read = "text" => result.good <= tally.whole
    /\ item.read = "lines" => result.good <= tally.begun

\* Every body called verified came whole.  (The code does not keep to this.)
VerifiedIsWhole ==
  suite = "streaming" /\ result # Unreported /\ item.consume = "all" => result.good <= tally.whole

\* Clients are made, and send, in the environment of their own case, also when
\* an earlier case was left by an exception; the process ends in its first one.
EnvironmentIsTheCases ==
  /\ open > 0 => (env = "proxy") = (suite = "proxy" /\ item.config = "trust-env")
  /\ pc = 0 => env = "initial"

\* A creation result leaves no client open without an error to show for it.
NoUncountedLeak ==
  suite = "creation" /\ result # Unreported => open <= result.errors

\* The decoder of reports takes the results of the suites that do not send
\* through a proxy or prepare requests, however many of a client's operations
\* fail.
ResultIsAccepted ==
  suite \notin {"proxy", "builder"} /\ result # Unreported => Accepted(result)

\* It takes the results of every suite.  (The code does not keep to this.)
EveryResultIsAccepted == result # Unreported => Accepted(result)
=============================================================================
