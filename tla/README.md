# FogHttpBenchmark: a TLA+ model

FogHttpBenchmark compares Python HTTP clients. It starts local servers, drives
clients against them, samples the processes, and publishes reports whose
validity says whether they may be compared. What it measures is only worth
something if the machinery around the measurement is right: that a phase was
really sampled when the worker was in it, that no process of an earlier case
is still running, that a merged report holds this run's figures, that a
failure cannot end as a valid report. This directory models that machinery.

Paths are relative to `src/foghttp_benchmark/` unless they begin with `docs/`
or `README.md`. `PROJECT.json` maps every definition to its lines.

## Inventory

| Component | State it keeps | Operations | How it interacts | What is hard, what makes it correct |
|---|---|---|---|---|
| Lifecycle supervisor, `isolation/lifecycle.py` | owned process groups, sequence of markers, failures, receipt | launch, await, monitor, acknowledge, reap, finalize | reads `marker.json` and `client.json`, writes `ack.json`, signals groups | crashes, timeouts, cancellation during cleanup; an ok receipt stands for a whole case, nothing survives |
| Lifecycle worker, `streaming/lifecycle_worker.py` | phases, errors, report | mark, batches, settle, close, exit | writes marker and report, waits for the acknowledgement | settle timeouts, exceptions between phases; phases stay numbered as the parent numbers them |
| Lifecycle server, `streaming/lifecycle_server.py` | stream states, release events | stream handler, control endpoint | HTTP with client and controls | disconnect racing release; what it reports is still true when used |
| Controls and consumers, `streaming/lifecycle_controls.py`, `lifecycle_consume.py` | tokens, contexts, evidence | rounds, cancel, settle, release, wait for quiet | control endpoint, streams | early exit, cancelled consumers; release after close, no late request |
| Profilers, `isolation/native_profile.py`, `perf_profile.py` | session, capture window | tick, before_cleanup, finalize | own process group in the case | late attach; no ok receipt without a profile |
| Supervisor's sampler, `isolation/lifecycle_resources.py` | series, peaks, phases | sample, mark | psutil and `Popen.poll` | exit between poll and probe, cap of the series |
| Lifecycle orchestration, `streaming/lifecycle.py`, `lifecycle_models.py`, `lifecycle_reports.py`, `lifecycle_aggregation.py` | plan, receipts | run cases in sequence, publish | calls the supervisor | a failed case must reach the report |
| Isolation parent, `isolation/execution.py`, `process.py`, `planning.py`, `reports.py` | results, files in directories | clear, spawn, poll, cooldown, load, merge, publish, raise | child processes, files | stale files, orphans, partial publication; a merged report is fresh and loud about failures |
| Publication, `report_publication.py`, `report_finalization.py` | four files | sequential writes | every suite | no rollback |
| Validity, `validity/` | reasons, status | classify, combine | children, saved reports | a restriction is never lost in a merge |
| Load engine, `load.py`, `runner.py`, `resources.py`, `request_suite.py`, `run_settling.py` | queue, workers, sampler, client, results | load, warm-up, measure, close, settle | client adapters, server, progress | dying workers, cancellation; counts are exact, loads do not overlap, clients are closed |
| Local servers, `server.py`, `proxy_connect/proxy_server.py` | connections, proxy counters | keep-alive loop, responses, tunnel | clients | half-closed tunnels, origin connections nobody owns |
| Schema and comparison, `report_schema/`, `compare/`, `measurement_timing.py` | none (pure) | decode, identity, group | reports | duplicate identities, incompatible scopes |
| Attribution study, `streaming/attribution_*.py` | windows, budgets, evidence | warm up, measure, validate | lifecycle worker | requests that cross the window |
| Other suites: `resource/`, `streaming/runner.py`, `one_upstream/`, `proxy_connect/`, `creation/`, `request_builder/`, `compressed_response/` | plans, results | loops like the load engine's | client adapters | recovery checks, mixed origins |
| Progress, `progress.py` | stage counters under a lock | advance, finish | worker threads | milestones counted once |
| Research tooling, CLI, rendering, statistics | files, none | build, parse, format | | pipelines without concurrency |

`PROJECT.json` lists the same components with what is modelled of each, and
the hazards at their lines.

## Modules

| Module | What it is |
|---|---|
| `LifecycleCase` | one case of the lifecycle profile: supervisor, worker, process groups, profiler |
| `PhaseBarrier` | what the marker and acknowledgement files promise, without files |
| `StreamControls` | the early-exit controls, their consumers and the streams at the server |
| `LoadEngine` | the requests suite in one process: loads, runs, sampler, teardown |
| `IsolationRun` | the parent of isolated children, over several invocations |
| `CaseObservation` | the supervisor's sampler and profiler session, next to processes that exit under them |
| `AttributionBatch` | one batch of the attribution study, its record, and what readers of the record require |
| `SuiteCases` | the cases of the suites with a runner of their own |
| `ProxyTunnel` | one connection to the proxy of the proxy suite |
| `ReportComparison` | runs, rows, verdicts, merges and the comparison of two reports |
| `Sums` | facts about the sum of a function over a finite set, for the proofs |
| `LifecycleCaseProofs`, `LoadEngineProofs`, `IsolationRunProofs`, `CaseObservationProofs`, `ReportComparisonProofs` | the theorems about the module of that name |
| `StreamingProofs` | those about `StreamControls` and `AttributionBatch` |
| `SuiteProofs` | those about `SuiteCases` and `ProxyTunnel` |
| `MC...` | the constants of the runs that are not numbers |

Operators introduced by a comment that says *faulty* are not part of any
specification. Each is a plausible bug in the operator that follows, and shows
that a property notices it.

### LifecycleCase and PhaseBarrier

`ppc` is the program counter of `run_lifecycle_case` and the coroutines it
awaits, `wpc` that of the worker. `marker`, `ack` and `report` are the three
files, which the code replaces atomically. `leader` and `descendant` are the
process groups. `LaunchServer` to `OpenProfile` are the body of
`run_lifecycle_case`; `PollClient`, `ReadMarker`, `WriteAck`,
`TickNativeProfile`, `Sample`, `Wake`, `LastChecks` one turn of
`monitor_client`, split where files or processes can change;
`TerminateGroups` to `FinishCleanup` are `reap_processes` under
`finish_cleanup`; `FinalizeReceipt` is `finalize_receipt`. The worker marks a
phase (`WriteMarker`), waits (`Acknowledged` or `AckTimeout`), and its load
may raise (`RaiseInLoad`, `RaiseUnsettled`). Phases are numbers in the order
the worker marks them.

Time limits may pass at any moment the code looks at them. A process may crash
at any moment. A leader may leave a descendant in its group where `Forking`
says so, and `killpg` may be refused where `MayRefuse` says so.

`PhaseBarrier` has three pieces of state: the phases the parent sampled, those
the worker holds acknowledged, and whether the worker's load has raised.
`LifecycleCase` implements it: until then, every acknowledged phase is the one
that was sampled under its number. Afterwards it need not be, and this is not
an artefact: an acknowledgement that comes after a settle timeout is taken for
that of `after_client_close`, which bears the same number. The report then
carries the error that makes the case fail.

### StreamControls

A control (`held-tail`, `body-wait`, `slow-consumer`) opens streams, waits
until the server holds them, reads their state through the control endpoint,
leaves or cancels its consumers, settles, releases the tails, and waits until
the server is quiet. Every stream has a server side (`_write_stream`,
`_wait_release`) and a client side (the consumer). Disconnects reach the server
late, a consumer may fail at any read, and a cancelled one may never leave its
context.

### LoadEngine

`pc` is the main task of `run_request_suite` and `run_once`, `load` what it
awaits of a load, `task`, `queue` and `item` the workers. The code counts
requests; the model keeps their numbers (`failed`, `timed`, `good`), so that a
property can say that each was counted once and by one worker. `exc` is the
exception being unwound: the blocks `async with ResourceSampler`, `finally:
client.close()`, `async with benchmark_server` are passed in their order,
and each may replace it. `Cancel` strikes at each `await`: a cancelled
`queue.join()` or `asyncio.to_thread` leaves the workers running, a cancelled
`gather` takes them along, a cancelled sampler or `close()` is cut short. The
event loop's teardown then cancels tasks or joins threads.

### IsolationRun

One invocation is a plan of children run one after the other (`Clear...`,
`Spawn`, `CollectChild`, `Cooldown`), then `LoadPayload`, `Merge`, the four
files of `publish_report`, each truncated and then written, and
`CheckFailures`. Invocations follow one another in the same directories.
`Kill` ends a parent and not its child, which goes on next to the children of
the following invocation. A first Ctrl-C is seen only where the parent awaits,
in the cooldown, or when the task returns: the polling loop sleeps in the
event loop.

### CaseObservation

Two pieces that `LifecycleCase` takes as a yes or no. `SampleInterval`,
`ReadRss`, `SeemsExited`, `ConfirmTermination` and `RecordSamples` are the
sampler, one action per look at a process, so that a process can exit between
any two of them. `Tick`, `Cleanup` and `FinalizeReceipt` are the profiler
session: it records when it saw the phase begin, when its tool began and ended
and whether the cleanup cut it short. All processes read one clock, `now`.
`VerifiedProfile` is what `profile_evidence.py` requires of the saved receipt.
The constant `Profiler` is the back end; the run uses perf, whose claims are
those of sample and one more.

### AttributionBatch

Streams of a round are read at the same time (`Headers`, `Chunk`,
`EndOfStream`, `StreamFails`); `EndRound` starts another round or ends the
load. `active` holds what has been recorded of each stream and `sending` what
the server has sent of it; `pending` and `delivered` are the same for the
rounds that are over. All streams share `bins`, and in a window one `histogram`.
Digests are finalized after the load, from an array that has not changed since
(`Digest`). `Measured` writes the record, `Replay` the replay of the sizes it
holds. `SampleEvidenceComplete` to `Conclusive` are the readers, which only
look at the record. A chunk is a length; a body is intact if the order of its
chunks is.

### SuiteCases

A case is a sequence of steps (`StreamingCase`, `ProxyCase`, ...), because the
runners do the same few things in different orders; `Finally` says which of
them an exception does not leave out. A request ends in one of the ways its
suite tells apart: read up to any byte, changed or not, refused, through the
proxy or past it. A body is a size and the offsets at which its lines begin
(`LineStarts`), and a cut between two of them leaves a line that is begun and not
whole. `ReadByProxy` and `ReadLate` are the proxy's counters, which follow its
reading, not the client's sending: a request given up by its client may be
read after the next snapshot. `Accepted` is the decoder's check of a result.

### ProxyTunnel

`handler` is the place of the connection's handler in its program, `conn` the
proxy's side of each connection and `peer` the other one; `wire`,
`buffer` and `out` hold what is under way. The asyncio streams are external
and modelled by what the code relies on: `close()` flushes what was written
and reads no more, a lost connection raises in the next read or drain.
`PipeRead`, `PipeDrain`, `PipeClose` are `pipe`, `Joined` the `gather` of both.

### ReportComparison

The operators are the pure functions of the schema, the validity package and
the comparison; the actions are the path of a report: `Measure`, `WriteReport`,
`Publish` or `Merge`, `Compare`. A *departure* is anything that is not a sound
measurement by the release under test: a failed request, a bypassed proxy, a
recovery that failed, a flaw in the evidence of a fresh case, a slow run, an
earlier release, a child that fails, a plan that is killed, a verdict that was
restricted by a release that knows other reasons, a child or a fresh case of
another provenance, a sidecar changed later.
Each is one step or part of one, and at most `MaxDepartures` of them happen in
a behaviour. Rates are whole numbers. Of the proxy cases, the one through a tunnel is
left out here: to a comparison it is a case with fewer ways to go wrong.

## Runs

| Run | Instance | What it shows |
|---|---|---|
| `LifecycleCase` | one async batch, garbage-collection phase, forking client, a profiler whose group may refuse signals, one cancellation; 3.1 million states | handshake, receipt and its profile, reaping, cancellation, `PhaseBarrier`, the end of the case |
| `LifecycleCancel` | one cancellation, refused signals | **violated**, see below |
| `StreamControls` | three controls in turn, two streams; 30 000 states | evidence, order of release, quiet, both sides end |
| `LoadEngine` | two runs, async or sync, two workers, one warm-up and three measured requests, two dying workers, one cancellation, everything may raise; 272 000 states | exact counts, no overlap, nothing left behind |
| `IsolationRun` | two invocations, two children, one kill, one Ctrl-C, any step may raise; 304 000 states | fresh merges, loud failures, end |
| `CaseObservation` | three phases, perf, series of seven samples, four instants; 6.4 million states | memory and profile of an ok receipt |
| `AttributionBatch` | two streams of three units, a fixed round or a window of up to four streams, two bins per stream and three shared, one fault; 2.5 million states | complete records are whole, faithful ones complete, sizes counted |
| `SuiteCases` | plans of two cases of each suite, two requests of two workers, one warm-up request, two late reads, two exceptions, bodies of four bytes that are one line or two; 681 000 states | proxy use, verified bodies, environment, leaks, accepted results |
| `SuiteAccepted` | the same with the proxy suite only | **violated**, see below |
| `SuiteVerified` | the same with the streaming suite only | **violated**, see below |
| `ProxyTunnel` | two chunks in each direction, buffers of one; 252 000 states | tunnels are whole, origins released, handlers end |
| `ReportComparison` | six suites, two clients (attribution one), one repeat (two of resource, three fresh cases of a profile), two requests, two departures; 297 000 states | what an unblocked conclusion rests on, that a faithful one is not blocked, one timing scope |

Why the bounds are enough. One batch gives eight phases, so that a settle
timeout can come at each kind of phase (start, end, controls, close,
collection) and be followed by phases it skips; more batches repeat the same
pair, and the proofs hold for any number. One cancellation is what
`finish_cleanup` is written for. Refused signals are those of the profiler's
group, a role like any other to `reap_processes`; the proofs let any role
refuse. Two streams are needed for a control that has read one and not the
other, and one stream more adds no new kind of step. Two workers and three
requests let one worker die, take two requests or find the queue empty while
the other is in a request; two runs let one follow a run with a failure or
other mode. Two children give a first one, a last one and a cooldown between;
two invocations give stale files and one orphan.

Seven samples hold one round of two for each of three phases and cap a series
with a round more, so that both happen; four instants are the fewest with a
load, a profiler that begins and ends in it, and one that ends after it. Two
streams compete for three bins. Two cases let a late read or an environment
variable of one reach the other. Two chunks in a buffer of one block a drain.
Two departures are needed to hide one restriction behind another (an expected
error and an unexpected one, a child's verdict and the parent's) and to give
both reports, or two children, one each.

All runs but those of `LifecycleCase` and `StreamControls` switch deadlock
checking off. The others stop when their case, batch, plan, connection or
comparison is over. `IsolationRun`
stops when the command has been run `Invocations` times. `LoadEngine` stops at
its end and in the one state in which the code really hangs: every worker of
an async load has died and requests are left, so that `queue.join()` waits for
`task_done()` calls nobody will make. `SuiteEnds` names that state.

### Fairness

`LifecycleCase` assumes that the event loop keeps running the parent and that
time passes; nothing of client, server or signals. That is all the code needs:
every wait has a deadline. `StreamControls` assumes that worker and server run
and that a consumer progresses or meets one of its limits; a cancelled consumer
may stay in its context. `LoadEngine` assumes that tasks and threads run and
that a request ends, which the timeouts of every adapter provide
(`clients/*.py`); sampling is only assumed to end once it is told to.
`IsolationRun` assumes that children end: the parent waits for them without a
deadline (`isolation/process.py:73`), so nothing weaker would do, and a child
that hangs does hang the command; `InvocationEnds` says nothing of one. `ProxyTunnel` assumes that the tasks of the
proxy run, that what was sent arrives and what was written is flushed while the
receiver reads, and that a peer reads until it closes; it assumes nothing of
when a peer sends or closes. The other modules have safety properties only.

## Three disagreements

### A cancellation lost in a failing cleanup

`docs/application-execution.md:55` says that application errors and
cancellation propagate to the caller. `finish_cleanup` keeps a cancellation
that arrives during the cleanup and raises it afterwards, but it calls
`cleanup.result()` first, and a cancellation before the cleanup is the
exception in flight that a failing cleanup replaces. When `reap_processes`
fails, the cancellation is lost and the case returns a failed receipt, for which
the caller raises a `ValueError` (`streaming/lifecycle.py:99-101`): what was
cancelled ends as a failed case. `LifecycleCancel` shows it;
`CancellationSurvivesCleanup` is what does hold.

### A result its own decoder refuses

`run_proxy_connect_case` adds one error per request when the proxy was not
used as the case declares (`proxy_connect/runner.py:193`), on top of the
errors the load has counted. If a request has also failed by itself, `errors`
exceeds `requests`, `ok_requests` is 0, and `report_schema/ordinary.py:241`,
"{success_field} + errors must equal requests", refuses the report: it cannot
be compared, and an isolated merge is refused as a whole. `SuiteAccepted` shows
it; `ResultIsAccepted` is what holds for the other suites. The request builder
is left out of it too: an iteration of its send-prepared cases can count two
errors, one for the wrong answer and one for what is raised after it.

### A verified body that is cut in its last line

`docs/architecture.md:91` says that partial reads cannot become verified
throughput. A body of bytes is compared with a digest, a text with its size. Of
lines, the terminators are gone, so `_line_bytes_read`
(`streaming/consume.py:191-194`) takes `case.size_bytes` for the bytes read as
soon as there is one line, and `_line_outcome_matches`
(`streaming/runner.py:417-424`) compares the number of lines, and that size with
itself. The characters that were read are counted and compared with nothing. A
body cut inside its last line has all its lines: `long-line-1m`, a single line of
1 MiB, passes after its first byte, and 1 MiB is added to `verified_eof_bytes`. It
takes an iterator that ends without an error, which is what a body with complete
framing and too little in it gives; the tests feed such bodies to the consumer of bytes only
(`tests/streaming/test_consume.py:15`). `SuiteVerified` shows it with a body that
has one line or two; `VerifiedAsRead` is what does hold.

## What the model says beyond that

- In `IsolationRun`, a report that another invocation measured can be merged
  only if that invocation's parent was killed (`MergedIsFresh`). The merge
  does not compare a payload with its plan item, so an orphan's report that is
  written last is taken.
- In `LoadEngine`, after a cancellation requests go on being sent through a
  closed client until the process ends; `ClosedAtRest` holds only without one.
- A failed sampler or `close()` replaces a cancellation being unwound.
- In `ProxyTunnel`, a client that half-closes its tunnel may lose the answer:
  the pipe that reads the end closes the origin's connection, which the other
  one reads from. `TunnelIsWhole` holds for those that do not. A client lost
  while its tunnel is confirmed leaves the connection to the origin open, with
  no owner (`proxy_connect/proxy_server.py:299`); `OriginNotLeaked` names that
  one exception. An error response announces `connection: close`, and the loop
  reads on.
- In `SuiteCases`, what a verified body is known to be depends on how it is read
  (`VerifiedAsRead`): bytes came whole and unchanged, a text came whole and may be
  a different one of that size, lines came up to the beginning of the last. A
  request that bypasses the proxy goes unnoticed if a late one is read in its
  place, which is why `UsageIsFair` excuses a miss when late requests were read.
- In `ReportComparison`, `compare_wins` reports the smaller number of groups
  of the two reports as comparable, and counts wins over all groups of each.
  Equal rates are won by the client whose name comes first.

## Proofs

Nine modules are proved about, each from the one assumption that types its
constants (`CaseAssumption`, `TunnelAssumption` and so on) and for all of their
values: any number of batches, streams, workers, runs, phases, chunks,
invocations, kills and cancellations. Every component's proof has the same
shape: an invariant (`Inv`, `BatchInv`, `TunnelInv`) in named parts, lemmas that
show every step to preserve each part, `Invariance == Spec => []Inv`, and the
theorems. The type invariants are proved (`TypeCorrect`, and so on), not checked
by a run.

| Theorem | States |
|---|---|
| `LifecycleCaseProofs` | |
| `TypeCorrect` | `[]TypeOK` |
| `MarkersStayInOrder` | `[]MarkersInOrder` |
| `OkReceiptsAreWhole` | `[]OkReceiptIsWhole` |
| `OkReceiptsAreProfiled` | `[]OkReceiptIsProfiled` |
| `NothingSurvives` | `[]NoSurvivors` |
| `CancellationIsKept` | `[]CancellationSurvivesCleanup` |
| `HandshakeRefinesBarrier` | `Spec => ImplementsPhaseBarrier` |
| `StreamingProofs` | |
| `ReleasesComeLast` | `Spec => ReleaseAfterClose` |
| `EvidenceIsStable` | `[]EvidenceHolds` |
| `QuietIsForGood` | `Spec => QuietForGood` |
| `CompleteRowsAreWhole` | `[]CompleteIsWhole` |
| `SizesCounted` | `[]SizesAreCounted` |
| `FaithfulRowsAreComplete` | `[]FaithfulIsComplete` |
| `SegmentsHoldSizes` | the segments of a replay are bounded, and hold the sizes they are made of |
| `LoadEngineProofs` | |
| `LoadsAreSeparate` | `Spec => LoadsDoNotOverlap` |
| `ResultsAreTrue` | `Spec => ResultsTellTheTruth` |
| `ClientsCloseAtRest` | `[]ClosedAtRest` |
| `NothingIsLeftBehind` | `[]NothingLeftBehind` |
| `IsolationRunProofs` | |
| `MergesAreFresh` | `[]MergedIsFresh` |
| `SuccessesAreWhole` | `[]SuccessIsWhole` |
| `VerdictsAreKept` | `[]ValidityIsKept` |
| `ChildrenEndBeforeTheirParent` | `[]ChildrenEndFirst` |
| `CaseObservationProofs` | |
| `ExitsAreNoFailures` | `[]ExitIsNotFailure` |
| `OkSeriesAreMeasured` | `[]OkSeriesIsMeasured` |
| `ProfilesHold` | `[]ProfileClaimsHold` |
| `SuiteProofs` | |
| `TunnelsAreWhole` | `[]TunnelIsWhole` |
| `OriginsAreReleased` | `[]OriginNotLeaked` |
| `EnvironmentOfCases` | `[]EnvironmentIsTheCases` |
| `LeaksAreCounted` | `[]NoUncountedLeak` |
| `VerifiedBodies` | `[]VerifiedAsRead` |
| `ResultsAreAccepted` | `[]ResultIsAccepted` |
| `FairUsage` | `[]UsageIsFair` |
| `ReportComparisonProofs` | |
| `WholeConclusions` | `[]ConclusionsAreWhole` |
| `ComparisonsAreAlike` | `[]ComparedAlike` |
| `EarnedConclusions` | `[]ConclusionsAreEarned` |
| `Sums` | |
| `SumStep` | an element of a sum may be taken out, whichever it is |
| `SumOfCardinalities` | disjoint sets have as many elements as they add up to |

None of the properties is inductive as it stands.

`LifecycleCase`. The invariant has two halves. `HandshakeInv` is about the
files: `Numbering` ties the length of the worker's list, the number of its last
marker, the parent's sequence and the acknowledgement together, at most one
apart, with the exact difference at each place of either side; `Naming` says
that phase `i` bears number `i` as long as the worker's load has not raised;
`Place` says how far in its plan the worker can be at each place of its
program. `Naming` needs `Numbering` to know that an acknowledgement for the
number waited for is for this marker, and `Numbering` needs `Place` to know
that no marker is left over after the last. `CaseInv` is about the rest:
`Measuring` says what a case without failures has seen, `Killing` which groups
a kill has reached, `Cancelling` where a cancellation is kept, `Receipt` what
the written receipt means, `Profiling` that a profiled case without an
exception has a session. The refinement uses `Inv` to show that sampling a
phase and listing it are steps of the barrier and that all others are stutters.

`StreamControls`. The server's answers are facts about an earlier moment.
`Told` says which of them stay true, `Held` that a stream at its barrier stays
there until the release, `Away` that nothing is released before the consumers
have left; `Seen` collects what a control has checked by the time it goes on.

`LoadEngine`. `Leftovers` says what an awaited load leaves behind: nothing
without an exception, and no request in flight without a cancellation, because
either the queue is empty or nobody is left to take from it. `Ordered` is what
makes a request taken from the queue a number; `Blocks` follows the nested
`finally` blocks. `Accounted`, `Worked` and `Kept` are about the results: a
request of the measured load is in the queue, in one worker's hands or in one
worker's count, and in one place only, so that in the end the counts are disjoint
sets that make up all requests, and the errors and latencies that
`merge_load_results` adds up are those of the load.

`IsolationRun`. `Fresh` is the heart of it: in a directory this invocation has
cleared lies nothing, a torn file, a report of its own child, or that of an
orphan. It is kept because only children that are alive write, and `Children`
says that one that is alive is the one waited for or was left by a parent that
was killed. `Collected` keeps the results true of the children until the
payloads are loaded; `Loaded` and `Judged` carry completeness and severity
through the merge, for which `CombinedFact` shows that `combined_status`
returns the most severe member of a set.

`CaseObservation`. `Probing` accounts for a missing reading while it is
under way: an excuse has been noted, or the process is known to have exited.
`Recorded` says that a phase without a reading belongs to a case that fails
later, `Whole` that a series without a failure has neither gap nor high sample,
`Profiled` that an end the supervisor saw is not before the real one.

`ProxyTunnel`. `Conserved` is a balance for each direction: what was sent is
on the wire, in the buffer or counted, and what was counted is under way or
delivered, unless a connection was lost. `Closers` says which pipe closes which
connection, and `Finishing` that a pipe whose receiver stays does not end
before the end of its input. `Owned` names the owner of the origin's connection.

`SuiteCases`. Every part is an implication from `TypeOK` and `Flow`, which says
what each step of a case leaves done: requests are in flight in a load only,
and there is a result only after the report, which is then that of `Result`
(`Kept`). `Environment` follows the proxy variables through the steps that set
and restore them. `Creation`, with `Operation` for the request builder, counts:
an error is one of a stage that has been passed, and clients left open are at
most the errors and the one being created. `Verified` compares what was counted as
verified with what was read: there are as many lines as begin before the cut, and
so all of them only if the last one has begun. `Window` is the account of the proxy's
counters: the two snapshots are taken at their steps and in order, what a case
that goes directly finds in between was charged by late reads of an earlier
one, and every request that ended well through the proxy has been read by it.

`ReportComparison`. The invariant follows a report to its file. `Outputs` says
what the reports of the processes that have ended hold: the runs of their
clients, rows that tell of each of them (`Tells`: a recovery that failed and a
flaw of the evidence are in a row), one scope, and among them a verdict that
restricts if the side was restricted (`Restricts`). `Published` says what is
left of that after the publication or the merge; `Alone` and `Releases` are
what makes it hold: only a research plan loses tasks without a child that has
failed, and a process belongs to one release. The second half is about the
operators. `JudgedFact`: a report may be compared only if its own
classification and every recorded verdict, its own or of a child, allow it,
whatever reasons another release gave; then `ChildrenFact`, `PlanFact`,
`RecoveredFact`, `RowFlawFact` and `IntactFact` read from a classification
without a severe reason what the report holds. `WholeSideFact` puts both halves
together at the step of the comparison. `EarnedConclusions` looks further into the rows:
errors are added up by type, none of the numbers is negative, and so a total that
is that of the expected errors leaves nothing for any other type, in any run.

`AttributionBatch`. `Read` says that what is recorded of a stream is what has
been sent of it: as many bytes, intact and ended or not. `FixedSizes` follows the
sizes of a stream: they are those that were sent, or the stream is marked and was
short of a bin, of its own or of the shared ones; bins are taken and never given
back, so that it still is at the end. `WindowSizes` does the same for a window's
histogram and all that was sent in it: the sizes of the rounds that are over and
those under way are added up, and a chunk or the end of a round changes both sides
alike. `Stopped` says that the load ends between rounds. A row called complete
then fixes its own numbers: it verified as many bytes as the whole bodies have, so
that each was read whole.

The other direction, that the readers refuse no faithful record, needs the rest of
the record (`BatchRecord`). `Gauged`: the chunks a stream counted are those that were
sent, and their least and greatest size, times their number, lie on either side of
its bytes. `Rounded`: a batch has whole rounds, fewer than it may have only if it is
a window whose time was over. `Enclosed`: the probes were taken before the load and
after it, and have their counters unless something failed. `SegmentsHoldSizes` is
about `Segments` alone: the ascending sequence has each size as often as the
histogram, packing keeps every segment within its bounds and adds one chunk to one
segment, and so the segments add up to the histogram whichever way they are cut.

`Sums`. A sum is a fold whose order nobody knows. The equation it solves has one
solution, because a set of least cardinality without one would be a counterexample
to a smaller one; the rest is shown in the same way, set by set. The fold over the
sizes of a replay is handled likewise, prefix by prefix.

## Only model-checked

Liveness (`CaseEnds`, `ControlsEnd`, `ReleasedEnds`, `SuiteEnds`,
`InvocationEnds`, `HandlerEnds`) is out of reach of the prover, as is `ENABLED`.
One safety property is checked and not proved: `FaithfulIsCompared` needs medians
of sorted rates, and sorting is a choice among all permutations.

## Plan

Done: `LifecycleCase` and `PhaseBarrier`, `StreamControls`, `LoadEngine`,
`IsolationRun`, `CaseObservation`, `SuiteCases`, `ProxyTunnel`,
`AttributionBatch`, `ReportComparison`, and the proofs above. What could follow is
in `ReportComparison`: what a median says of the rates, and with it
`FaithfulIsCompared`.

## Not modelled

Formatting, rendering, percentiles, command-line parsing, tables of scenarios
and payloads keep no state. Client libraries are external: a request succeeds,
fails, or dies. Research tooling builds wheels and seals inventories in
sequential pipelines. The counters of a progress stage change under one lock.
What HTTP carries is reduced to what the handshakes look at. Of the schema, the
type of each field; of validity, the reasons on the shape of streaming
metadata; of the comparison, ratios, segments and resource summaries are left
out. Uniqueness of rows is in `IsolationRun` only.

## Running

    tlc -workers 2 -config LifecycleCase.cfg MCLifecycleCase
    tlc -workers 2 -config LoadEngine.cfg MCLoadEngine
    tlc -workers 2 -config ProxyTunnel.cfg ProxyTunnel
    tlapm LifecycleCaseProofs.tla
    tlapm StreamingProofs.tla
    tlapm LoadEngineProofs.tla
    tlapm IsolationRunProofs.tla
    tlapm CaseObservationProofs.tla
    tlapm SuiteProofs.tla
    tlapm ReportComparisonProofs.tla
    tlapm Sums.tla
