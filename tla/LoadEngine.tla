----------------------------- MODULE LoadEngine -----------------------------
(***************************************************************************)
(* One process running the requests suite: run_request_suite starts the    *)
(* local server and calls run_once for every item of the plan; run_once    *)
(* makes a client, sends a warm-up load and a measured load through it     *)
(* (run_load) while ResourceSampler runs, reads its statistics, and closes *)
(* it on every path.                                                       *)
(*                                                                         *)
(* A load is a queue of request numbers and min(concurrency, requests)     *)
(* workers that empty it.  For an async client the workers are tasks, and  *)
(* run_async_load joins the queue before it gathers them; for a sync client*)
(* they are threads of an executor that run_sync_load, itself in a thread, *)
(* waits for.  The code counts requests; the model keeps their numbers, so *)
(* that a property can say which request a worker has counted.             *)
(*                                                                         *)
(* A task gives up control only when it awaits, a thread anywhere: both    *)
(* kinds take the same steps here, which is more than a task can do.       *)
(***************************************************************************)
EXTENDS Naturals, Sequences, FiniteSets, FiniteSetsExt, Functions

CONSTANTS
    Modes,          \* modes a client of the plan may have
    Concurrency,    \* concurrency of every run
    Warmup,         \* --warmup, requests of the warm-up load
    Requests,       \* --requests, requests of the measured load
    Runs,           \* length of the plan
    MayFail,        \* may the server, a client or the sampler raise?
    MaxAborts,      \* bound: workers that die of an exception they cannot count
    MaxCancels      \* bound: cancellations of the main task

ASSUME LoadAssumption ==
    /\ Modes \in SUBSET {"async", "sync"}
    /\ Modes # {}
    /\ Concurrency \in Nat \ {0}
    /\ Warmup \in Nat
    /\ Requests \in Nat \ {0}
    /\ Runs \in Nat
    /\ MayFail \in BOOLEAN
    /\ MaxAborts \in Nat
    /\ MaxCancels \in Nat

Workers == 1..Concurrency

(* The number of a request of a load; 0 stands for none. *)
Indices == 1..(IF Warmup > Requests THEN Warmup ELSE Requests)

VARIABLES
    pc,         \* where the main task is
    mode,       \* mode of the client of this run
    load,       \* what the main task awaits of the load it has started
    queue,      \* requests nobody has taken
    task,       \* state of every worker
    item,       \* the request a worker has taken and not reported done
    failed,     \* the requests a worker has counted as errors
    timed,      \* the requests whose latency a worker has appended
    good,       \* the requests of this load answered as the scenario expects
    warm,       \* errors of the warm-up load of this run
    measured,   \* result of the measured load of this run
    sampler,    \* state of the ResourceSampler task
    client,     \* state of the client of this run
    server,     \* state of the local benchmark server
    exc,        \* the exception the main task is unwinding
    results,    \* results of the runs of the plan, in order
    aborts, cancels

loadVars == <<queue, task, item, failed, timed, good>>
bounds   == <<aborts, cancels>>
vars == <<pc, mode, load, loadVars, warm, measured, sampler, client, server,
          exc, results, bounds>>

Init ==
    /\ pc = "server"
    /\ mode \in Modes
    /\ load = "none"
    /\ queue = {}
    /\ task = [w \in Workers |-> "none"]
    /\ item = [w \in Workers |-> 0]
    /\ failed = [w \in Workers |-> {}]
    /\ timed = [w \in Workers |-> {}]
    /\ good = {}
    /\ warm = 0
    /\ measured = [errors |-> 0, latencies |-> 0]
    /\ sampler = "off"
    /\ client = "none"
    /\ server = "down"
    /\ exc = "none"
    /\ results = <<>>
    /\ aborts = 0
    /\ cancels = 0

-----------------------------------------------------------------------------
(* The workers of a load.                                                  *)

Alive == {w \in Workers : task[w] \in {"idle", "requesting"}}

Died == {w \in Workers : task[w] = "dead"}

(* worker(): queue.get_nowait() gives the first request of the queue, which*)
(* the worker sends through the client.                                    *)
Take(w) ==
    /\ task[w] = "idle"
    /\ queue # {}
    /\ item' = [item EXCEPT ![w] = Min(queue)]
    /\ queue' = queue \ {Min(queue)}
    /\ task' = [task EXCEPT ![w] = "requesting"]
    /\ UNCHANGED <<failed, timed, good>>

(* worker(): the queue is empty, and the worker returns its result. *)
NoMore(w) ==
    /\ task[w] = "idle"
    /\ queue = {}
    /\ task' = [task EXCEPT ![w] = "done"]
    /\ UNCHANGED <<queue, item, failed, timed, good>>

(* A faulty Report: task_done() is skipped when the request raises an      *)
(* exception the worker does not catch.                                    *)
ReportUnlessDead(w) ==
    /\ timed' = IF pc = "warmup" THEN timed
                ELSE [timed EXCEPT ![w] = @ \cup {item[w]}]
    /\ item' = IF task'[w] = "dead" THEN item ELSE [item EXCEPT ![w] = 0]

(* The finally of worker(): a measured load appends the latency, and       *)
(* queue.task_done() reports the request.                                  *)
Report(w) ==
    /\ timed' = IF pc = "warmup" THEN timed
                ELSE [timed EXCEPT ![w] = @ \cup {item[w]}]
    /\ item' = [item EXCEPT ![w] = 0]

(* The request is answered as the scenario expects (outcome_matches). *)
Answered(w) ==
    /\ task[w] = "requesting"
    /\ good' = good \cup {item[w]}
    /\ task' = [task EXCEPT ![w] = "idle"]
    /\ Report(w)
    /\ UNCHANGED <<queue, failed>>

(* A faulty CountedError: an answer that does not match is not counted. *)
UncountedMismatch(w) ==
    /\ task[w] = "requesting"
    /\ \/ failed' = [failed EXCEPT ![w] = @ \cup {item[w]}]
       \/ failed' = failed
    /\ task' = [task EXCEPT ![w] = "idle"]
    /\ Report(w)
    /\ UNCHANGED <<queue, good>>

(* The request raises an Exception, or its answer does not match: the      *)
(* worker increments its error_types and goes on.                          *)
CountedError(w) ==
    /\ task[w] = "requesting"
    /\ failed' = [failed EXCEPT ![w] = @ \cup {item[w]}]
    /\ task' = [task EXCEPT ![w] = "idle"]
    /\ Report(w)
    /\ UNCHANGED <<queue, good>>

(* The worker dies: the request raises a BaseException that is no Exception*)
(* (the CancelledError of a client's own task) or progress.advance() fails.*)
Abort(w) ==
    /\ task[w] = "requesting"
    /\ aborts < MaxAborts
    /\ aborts' = aborts + 1
    /\ task' = [task EXCEPT ![w] = "dead"]
    /\ Report(w)
    /\ UNCHANGED <<queue, failed, good, cancels>>

Worker(w) ==
    /\ \/ /\ Take(w) \/ NoMore(w) \/ Answered(w) \/ CountedError(w)
          /\ UNCHANGED bounds
       \/ Abort(w)
    /\ UNCHANGED <<pc, mode, load, warm, measured, sampler, client, server,
                   exc, results>>

-----------------------------------------------------------------------------
(* run_load: how the main task starts a load and how it ends.              *)

(* Fill the queue and start min(concurrency, requests) workers with empty  *)
(* counts: tasks, or threads of an executor.                               *)
StartLoad(n) ==
    /\ queue' = 1..n
    /\ task' = [w \in Workers |-> IF w <= n THEN "idle" ELSE "none"]
    /\ item' = [w \in Workers |-> 0]
    /\ failed' = [w \in Workers |-> {}]
    /\ timed' = [w \in Workers |-> {}]
    /\ good' = {}
    /\ load' = IF mode = "async" THEN "join" ELSE "thread"

(* A faulty Joined: the queue is polled for emptiness. *)
Emptied == queue = {}

(* queue.join(): every request put in the queue was reported done. *)
Joined == queue = {} /\ \A w \in Workers : item[w] = 0

(* run_async_load: queue.join() returns, and the workers are gathered. *)
JoinQueue ==
    /\ load = "join"
    /\ Joined
    /\ load' = "gather"
    /\ UNCHANGED <<pc, mode, loadVars, warm, measured, sampler, client, server,
                   exc, results, bounds>>

(* A faulty Ended: the first worker to return is enough. *)
OneEnded == \E w \in Workers : task[w] = "done"

(* Every worker has returned its result, or died. *)
Ended == Alive = {}

(* gather() raises as soon as one task has; the executor leaves its with   *)
(* block when all threads have ended, and map() raises what one has raised.*)
LoadRaises ==
    /\ Died # {}
    /\ \/ load = "gather"
       \/ load = "thread" /\ Ended

LoadReturns ==
    /\ load \in {"gather", "thread"}
    /\ Died = {}
    /\ Ended

(* merge_load_results: the counts of all workers. *)
Merged ==
    [errors    |-> SumFunction([w \in Workers |-> Cardinality(failed[w])]),
     latencies |-> SumFunction([w \in Workers |-> Cardinality(timed[w])])]

-----------------------------------------------------------------------------
(* run_once, one item of the plan.                                         *)

(* spec.factory(config) makes the client before the try: if it raises,     *)
(* there is nothing to close.  The warm-up load starts, unless it is empty.*)
CreateClient ==
    /\ pc = "create"
    /\ \/ /\ client' = "open"
          /\ pc' = "warmup"
          /\ IF Warmup > 0 THEN StartLoad(Warmup)
                           ELSE UNCHANGED <<load, loadVars>>
          /\ UNCHANGED exc
       \/ /\ MayFail
          /\ exc' = "error"
          /\ pc' = "server_exit"
          /\ UNCHANGED <<client, load, loadVars>>
    /\ warm' = 0
    /\ UNCHANGED <<mode, measured, sampler, server, results, bounds>>

(* The warm-up is over: the sampler starts, then the measured load. *)
BeginMeasured ==
    /\ pc = "warmup"
    /\ \/ load = "none" /\ warm' = 0
       \/ LoadReturns /\ warm' = Merged.errors
    /\ pc' = "measured"
    /\ sampler' = "running"
    /\ StartLoad(Requests)
    /\ UNCHANGED <<mode, measured, client, server, exc, results, bounds>>

(* Leaving the sampler's block: __aexit__ clears _running first. *)
StopSampler ==
    /\ sampler' = IF sampler = "running" THEN "stopping" ELSE sampler
    /\ pc' = "sampler_exit"

EndMeasured ==
    /\ pc = "measured"
    /\ LoadReturns
    /\ measured' = Merged
    /\ load' = "none"
    /\ StopSampler
    /\ UNCHANGED <<mode, loadVars, warm, client, server, exc, results, bounds>>

(* The load raises: the run is unwound through the blocks it is in. *)
FailLoad ==
    /\ LoadRaises
    /\ exc' = "error"
    /\ load' = "none"
    /\ \/ pc = "measured" /\ StopSampler
       \/ pc = "warmup" /\ pc' = "close" /\ UNCHANGED sampler
    /\ UNCHANGED <<mode, loadVars, warm, measured, client, server, results,
                   bounds>>

(* _sample_loop: the last sample ends the task; any sample may raise and   *)
(* end it early, which nobody sees before the task is awaited.             *)
SampleLoop ==
    /\ \/ sampler = "stopping" /\ sampler' = "off"
       \/ MayFail /\ sampler \in {"running", "stopping"} /\ sampler' = "failed"
    /\ UNCHANGED <<pc, mode, load, loadVars, warm, measured, client, server,
                   exc, results, bounds>>

(* ResourceSampler.__aexit__ has awaited its task; what the task raised    *)
(* takes the place of the exception the block is left with.                *)
LeaveSampler ==
    /\ pc = "sampler_exit"
    /\ sampler \in {"off", "failed"}
    /\ exc' = IF sampler = "failed" THEN "error" ELSE exc
    /\ sampler' = "off"
    /\ pc' = IF exc' = "none" THEN "stats" ELSE "close"
    /\ UNCHANGED <<mode, load, loadVars, warm, measured, client, server,
                   results, bounds>>

(* client.stats(), the last step of the try. *)
ReadStats ==
    /\ pc = "stats"
    /\ \/ exc' = exc
       \/ MayFail /\ exc' = "error"
    /\ pc' = "close"
    /\ UNCHANGED <<mode, load, loadVars, warm, measured, sampler, client,
                   server, results, bounds>>

(* A faulty OkRequests: the warm-up errors are subtracted too. *)
OkRequestsOfBoth(r) == Requests - r.errors - warm

(* ok_requests of a RunResult. *)
OkRequests(r) == Requests - r.errors

(* A finally re-raises the exception it was entered with. *)
Unwound == exc

(* The finally closes the client.  If that works and nothing was raised,   *)
(* the RunResult is appended to the results of the suite.                  *)
CloseClient ==
    /\ pc = "close"
    /\ \/ client' = "closed" /\ exc' = Unwound
       \/ MayFail /\ client' = "broken" /\ exc' = "error"
    /\ IF exc' = "none"
         THEN /\ results' = Append(results,
                    [ok_requests |-> OkRequests(measured),
                     errors |-> measured.errors,
                     latencies |-> measured.latencies])
              /\ pc' = "settle"
         ELSE pc' = "server_exit" /\ UNCHANGED results
    /\ UNCHANGED <<mode, load, loadVars, warm, measured, sampler, server,
                   bounds>>

-----------------------------------------------------------------------------
(* run_request_suite and the event loop that runs it.                      *)

(* benchmark_server binds a socket. *)
StartServer ==
    /\ pc = "server"
    /\ \/ server' = "up" /\ pc' = "plan" /\ UNCHANGED exc
       \/ MayFail /\ exc' = "error" /\ pc' = "teardown" /\ UNCHANGED server
    /\ UNCHANGED <<mode, load, loadVars, warm, measured, sampler, client,
                   results, bounds>>

(* The next item of the plan, or the end of the server's block. *)
NextRun ==
    /\ pc = "plan"
    /\ \/ Len(results) < Runs /\ mode' \in Modes /\ pc' = "create"
       \/ Len(results) = Runs /\ pc' = "server_exit" /\ UNCHANGED mode
    /\ UNCHANGED <<load, loadVars, warm, measured, sampler, client, server,
                   exc, results, bounds>>

(* settle_after_run returns, at once or after the cooldown. *)
Settle ==
    /\ pc = "settle"
    /\ pc' = "plan"
    /\ UNCHANGED <<mode, load, loadVars, warm, measured, sampler, client,
                   server, exc, results, bounds>>

StopServer ==
    /\ pc = "server_exit"
    /\ server' = "down"
    /\ pc' = IF exc = "none" THEN "report" ELSE "teardown"
    /\ UNCHANGED <<mode, load, loadVars, warm, measured, sampler, client, exc,
                   results, bounds>>

(* write_reports. *)
WriteReports ==
    /\ pc = "report"
    /\ \/ UNCHANGED exc
       \/ MayFail /\ exc' = "error"
    /\ pc' = "teardown"
    /\ UNCHANGED <<mode, load, loadVars, warm, measured, sampler, client,
                   server, results, bounds>>

(* A faulty Settled: the threads are abandoned. *)
Abandoned == TRUE

(* asyncio.run shuts the default executor down and joins its threads. *)
Settled == mode = "sync" => Alive = {}

(* asyncio.run cancels the tasks that are left and waits for the threads. *)
Teardown ==
    /\ pc = "teardown"
    /\ Settled
    /\ task' = IF mode = "sync" THEN task
               ELSE [w \in Workers |-> IF w \in Alive THEN "dead" ELSE task[w]]
    /\ pc' = "ended"
    /\ UNCHANGED <<mode, load, queue, item, failed, timed, good, warm,
                   measured, sampler, client, server, exc, results, bounds>>

(* Cancelling a gather() cancels the tasks it waits for. *)
CancelGathered ==
    task' = [w \in Workers |-> IF load = "gather" /\ w \in Alive
                               THEN "dead" ELSE task[w]]

(* The first Ctrl-C cancels the main task, which sees it where it awaits:  *)
(* - the queue, the workers or the thread of a load.  Only a gather takes  *)
(*   its workers along: a join or a thread leaves them running;            *)
(* - the sampler's task, which is cancelled with it;                       *)
(* - the close() of an async client, which is cut short;                   *)
(* - the start or the end of the server, or the cooldown.                  *)
Cancel ==
    /\ cancels < MaxCancels
    /\ cancels' = cancels + 1
    /\ exc' = "cancelled"
    /\ \/ /\ load # "none"
          /\ load' = "none"
          /\ CancelGathered
          /\ \/ pc = "warmup" /\ pc' = "close" /\ UNCHANGED sampler
             \/ pc = "measured" /\ StopSampler
          /\ UNCHANGED <<client, server>>
       \/ /\ pc = "sampler_exit"
          /\ sampler = "stopping"
          /\ sampler' = "off"
          /\ pc' = "close"
          /\ UNCHANGED <<load, task, client, server>>
       \/ /\ pc = "close"
          /\ mode = "async"
          /\ client' = "broken"
          /\ pc' = "server_exit"
          /\ UNCHANGED <<load, task, sampler, server>>
       \/ /\ pc \in {"server", "settle", "server_exit"}
          /\ pc' = IF pc = "settle" THEN "server_exit" ELSE "teardown"
          /\ server' = IF pc = "server_exit" THEN "down" ELSE server
          /\ UNCHANGED <<load, task, sampler, client>>
    /\ UNCHANGED <<mode, queue, item, failed, timed, good, warm, measured,
                   results, aborts>>

Main ==
    \/ StartServer \/ NextRun \/ CreateClient \/ BeginMeasured \/ JoinQueue
    \/ EndMeasured \/ FailLoad \/ LeaveSampler \/ ReadStats \/ CloseClient
    \/ Settle \/ StopServer \/ WriteReports \/ Teardown

Next ==
    \/ Main
    \/ SampleLoop
    \/ Cancel
    \/ \E w \in Workers : Worker(w)

Spec == Init /\ [][Next]_vars

(* The event loop runs every task that can go on; the client's timeouts    *)
(* end every request.                                                      *)
FairSpec ==
    /\ Spec
    /\ WF_vars(Main)
    /\ WF_vars(sampler = "stopping" /\ SampleLoop)
    /\ \A w \in Workers : WF_vars(Worker(w))

-----------------------------------------------------------------------------
(* Properties.                                                             *)

(* What a run reports is what its measured load did: every request was     *)
(* counted by exactly one worker, as good or as an error, and timed once;  *)
(* nothing of the warm-up, of another run or of a worker that died is in   *)
(* it (run_once, merge_load_results).                                      *)
ResultsTellTheTruth ==
    [][results' # results =>
         LET r == results'[Len(results')]
         IN  /\ r.ok_requests = Cardinality(good)
             /\ r.errors + r.ok_requests = Requests
             /\ r.latencies = Requests]_vars

(* A load starts when no worker of an earlier load is left: the measured   *)
(* load of a run never shares the process with its warm-up or with another *)
(* run, whatever a worker or a client raises.                              *)
LoadsDoNotOverlap ==
    [][pc' # pc /\ pc' \in {"warmup", "measured"} => Alive = {}]_vars

(* The client is closed under no request of its workers, unless the main   *)
(* task was cancelled: a queue that is joined, or an executor that is left,*)
(* has no request in flight even when a worker has died.                   *)
ClosedAtRest ==
    client \in {"closed", "broken"} /\ cancels = 0
        => \A w \in Workers : task[w] # "requesting"

(* When the process ends, whatever was raised on the way: every client that*)
(* was made has been closed, the sampler and the server are stopped, and no*)
(* worker is left, not even those a cancelled load abandoned.              *)
NothingLeftBehind ==
    pc = "ended" => /\ client # "open"
                    /\ sampler = "off"
                    /\ server = "down"
                    /\ Alive = {}

(* queue.join() waits for requests that no worker is left to take. *)
Stranded == load = "join" /\ Alive = {} /\ queue # {}

(* The suite ends, unless every worker of an async load has died with      *)
(* requests still in the queue: then only a cancellation ends it.          *)
SuiteEnds == []<>(pc = "ended" \/ Stranded)
=============================================================================
