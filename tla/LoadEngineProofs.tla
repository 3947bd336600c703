-------------------------- MODULE LoadEngineProofs --------------------------
(***************************************************************************)
(* Proofs about LoadEngine, for any concurrency, any number of requests and *)
(* runs, and any number of failures and cancellations.                      *)
(***************************************************************************)
EXTENDS LoadEngine, Sums

(***************************************************************************)
(* The inductive invariant, in named parts.                                 *)
(***************************************************************************)
\* Places of the main task where no exception is on its way.
Calm == {"server", "plan", "create", "warmup", "measured", "stats", "settle", "report"}
\* Places between the making of a client and its close.
Using == {"warmup", "measured", "sampler_exit", "stats", "close"}

TypeOK ==
    /\ pc \in Calm \cup Using \cup {"server_exit", "teardown", "ended"}
    /\ mode \in {"async", "sync"}
    /\ load \in {"none", "join", "gather", "thread"}
    /\ task \in [Workers -> {"none", "idle", "requesting", "dead", "done"}]
    /\ item \in [Workers -> Nat]
    /\ failed \in [Workers -> SUBSET Nat]
    /\ timed \in [Workers -> SUBSET Nat]
    /\ measured \in [errors : Nat, latencies : Nat]
    /\ results \in Seq([ok_requests : Int, errors : Nat, latencies : Nat])
    /\ sampler \in {"off", "running", "stopping", "failed"}
    /\ client \in {"none", "open", "closed", "broken"}
    /\ server \in {"down", "up"}
    /\ exc \in {"none", "error", "cancelled"}
    /\ cancels \in Nat

\* The requests nobody has taken are the last ones of the load.
Ordered == \E a \in Nat \ {0}, n \in Nat : queue = a .. n

\* A request in flight has not been reported to the queue.
InFlight == \A w \in Workers : task[w] = "requesting" => item[w] # 0

Idle == \A w \in Workers : task[w] # "requesting"

\* Where a load is awaited, and what is known of it.
Loading ==
    /\ load # "none" => pc \in {"warmup", "measured"}
    /\ pc = "measured" => load # "none"
    /\ load = "gather" => queue = {} /\ Idle

\* What a load leaves behind: nothing, unless something was raised; idle workers
\* without a request, unless the main task was cancelled.
Leftovers ==
    /\ load = "none" /\ exc = "none" => Alive = {}
    /\ load = "none" /\ cancels = 0 => Idle /\ (queue = {} \/ Alive = {})

\* What is open where.
Blocks ==
    /\ pc \in Calm => exc = "none"
    /\ client = "open" => pc \in Using
    /\ pc \in {"warmup", "measured"} => client = "open"
    /\ client \in {"closed", "broken"} => load = "none"
    /\ sampler # "off" => pc \in {"measured", "sampler_exit"}
    /\ server = "up" => pc \notin {"server", "report", "teardown", "ended"}
    /\ pc = "ended" => Alive = {}

\* Where the counts are those of the measured load of this run, or are read as such.
Measuring == pc \in {"measured", "sampler_exit", "stats", "close"} /\ exc = "none"

Requested == 1 .. Requests

\* Every request of the measured load is in the queue, in the hands of one worker,
\* or was timed by one worker; and that worker has counted it, unless it died of it.
Accounted == Measuring =>
    /\ queue \subseteq Requested
    /\ \A w \in Workers : failed[w] \subseteq timed[w] /\ timed[w] \subseteq Requested \ queue
    /\ \A v, w \in Workers : v # w => timed[v] \cap timed[w] = {}
    /\ \A w \in Workers : task[w] = "requesting" =>
         /\ item[w] \in Requested \ queue
         /\ \A v \in Workers : item[w] \notin timed[v]
         /\ \A v \in Workers : task[v] = "requesting" /\ item[v] = item[w] => v = w
    /\ \A r \in Requested :
         \/ r \in queue
         \/ \E w \in Workers : task[w] = "requesting" /\ item[w] = r
         \/ \E w \in Workers : r \in timed[w]
    /\ \A r \in good : \E w \in Workers : r \in timed[w]
    /\ \A w \in Workers : good \cap failed[w] = {}
    /\ \A w \in Workers : task[w] # "dead" => timed[w] \subseteq good \cup failed[w]

\* The workers of the measured load leave when nothing is left to take.
Worked == Measuring =>
    /\ task[1] # "none"
    /\ \A w \in Workers : task[w] = "done" => queue = {}

\* What the run has measured is what its workers have counted.
Kept == Measuring /\ pc # "measured" =>
    /\ measured = Merged
    /\ Died = {}
    /\ queue = {}

Inv == /\ TypeOK /\ Ordered /\ InFlight /\ Loading /\ Leftovers /\ Blocks
       /\ Accounted /\ Worked /\ Kept

\* Names of places and tuples that every proof below may expand.
USE DEF Calm, Using, loadVars, bounds

(***************************************************************************)
(* Every part is preserved by every step.                                   *)
(***************************************************************************)
\* A step of the main task, of the sampler or of a worker, a cancellation, or a stutter.
LEMMA StepCases ==
    ASSUME [Next]_vars
    PROVE  \/ StartServer \/ NextRun \/ CreateClient \/ BeginMeasured \/ JoinQueue
           \/ EndMeasured \/ FailLoad \/ LeaveSampler \/ ReadStats \/ CloseClient
           \/ Settle \/ StopServer \/ WriteReports \/ Teardown \/ SampleLoop \/ Cancel
           \/ (\E w \in Workers : Worker(w)) \/ UNCHANGED vars
    BY DEF Next, Main

\* Taking the first request leaves the others in order.
LEMMA MinFacts ==
    ASSUME Ordered, queue # {}
    PROVE  /\ Min(queue) \in Nat \ {0}
           /\ \E a \in Nat \ {0}, n \in Nat : queue \ {Min(queue)} = a .. n
<1>1. PICK a \in Nat \ {0}, n \in Nat : queue = a .. n
    BY DEF Ordered
<1>2. a \in queue /\ \A y \in queue : a <= y
    BY <1>1
<1>3. \A x \in queue : (\A y \in queue : x <= y) => x = a
    BY <1>1, <1>2
<1>4. Min(queue) = a
    BY <1>2, <1>3 DEF Min
<1>5. queue \ {a} = (a + 1) .. n
    BY <1>1
<1> QED
    BY <1>1, <1>4, <1>5

\* The first request of the queue is one of it.
LEMMA MinMember == ASSUME Ordered, queue # {} PROVE Min(queue) \in queue
<1>1. PICK a \in Nat \ {0}, n \in Nat : queue = a .. n
    BY DEF Ordered
<1>2. a \in queue /\ \A y \in queue : a <= y
    BY <1>1
<1> QED
    BY <1>2 DEF Min

\* The counts of all workers are those of different requests (merge_load_results).
LEMMA MergedFacts ==
    ASSUME TypeOK, Accounted, Measuring
    PROVE  /\ IsFiniteSet(UNION {failed[w] : w \in Workers})
           /\ IsFiniteSet(UNION {timed[w] : w \in Workers})
           /\ Merged = [errors    |-> Cardinality(UNION {failed[w] : w \in Workers}),
                        latencies |-> Cardinality(UNION {timed[w] : w \in Workers})]
           /\ Merged \in [errors : Nat, latencies : Nat]
<1>1. IsFiniteSet(Workers)
    BY LoadAssumption, FS_Interval DEF LoadAssumption, Workers
<1>2. IsFiniteSet(Requested)
    BY LoadAssumption, FS_Interval DEF LoadAssumption, Requested
<1>3. \A w \in Workers : IsFiniteSet(failed[w]) /\ IsFiniteSet(timed[w])
    <2>1. \A w \in Workers : failed[w] \subseteq Requested /\ timed[w] \subseteq Requested
        BY DEF Accounted
    <2> QED
        BY <1>2, <2>1, FS_Subset
<1>4. \A v, w \in Workers :
        v # w => failed[v] \cap failed[w] = {} /\ timed[v] \cap timed[w] = {}
    BY DEF Accounted
<1> DEFINE errors == [w \in Workers |-> Cardinality(failed[w])]
           latencies == [w \in Workers |-> Cardinality(timed[w])]
<1>5. Merged = [errors    |-> SumFunctionOnSet(errors, Workers),
                latencies |-> SumFunctionOnSet(latencies, Workers)]
    BY DEF Merged, SumFunction
<1>6. /\ \A w \in Workers : errors[w] = Cardinality(failed[w])
      /\ \A w \in Workers : latencies[w] = Cardinality(timed[w])
    OBVIOUS
<1> PICK f, t : f = failed /\ t = timed
    OBVIOUS
<1> PICK e, l : e = errors /\ l = latencies
    OBVIOUS
<1> HIDE DEF errors, latencies
<1>10. /\ \A w \in Workers : IsFiniteSet(f[w]) /\ e[w] = Cardinality(f[w])
       /\ \A v, w \in Workers : v # w => f[v] \cap f[w] = {}
    BY <1>3, <1>4, <1>6
<1>11. /\ \A w \in Workers : IsFiniteSet(t[w]) /\ l[w] = Cardinality(t[w])
       /\ \A v, w \in Workers : v # w => t[v] \cap t[w] = {}
    BY <1>3, <1>4, <1>6
<1>7. /\ IsFiniteSet(UNION {f[w] : w \in Workers})
      /\ SumFunctionOnSet(e, Workers) = Cardinality(UNION {f[w] : w \in Workers})
    BY <1>1, <1>10, SumOfCardinalities
<1>8. /\ IsFiniteSet(UNION {t[w] : w \in Workers})
      /\ SumFunctionOnSet(l, Workers) = Cardinality(UNION {t[w] : w \in Workers})
    BY <1>1, <1>11, SumOfCardinalities
<1>9. /\ Cardinality(UNION {failed[w] : w \in Workers}) \in Nat
      /\ Cardinality(UNION {timed[w] : w \in Workers}) \in Nat
    BY <1>7, <1>8, FS_CardinalityType
<1> QED
    BY <1>5, <1>7, <1>8, <1>9

\* Main task, sampler and workers keep to the types of what they assign.
LEMMA TypeOKStep == ASSUME Inv, [Next]_vars PROVE TypeOK'
<1>1. CASE StartServer
    BY <1>1 DEF Inv, TypeOK, StartServer
<1>2. CASE NextRun
    BY <1>2, LoadAssumption DEF Inv, TypeOK, NextRun, LoadAssumption
<1>3. CASE CreateClient
    BY <1>3 DEF Inv, TypeOK, CreateClient, StartLoad
<1>4. CASE BeginMeasured
    BY <1>4 DEF Inv, TypeOK, BeginMeasured, StartLoad
<1>5. CASE JoinQueue
    BY <1>5 DEF Inv, TypeOK, JoinQueue
<1>6. CASE EndMeasured
    <2>1. Measuring
        BY <1>6 DEF Inv, Blocks, Measuring, EndMeasured
    <2>2. measured' \in [errors : Nat, latencies : Nat]
        BY <1>6, <2>1, MergedFacts DEF Inv, EndMeasured
    <2> QED
        BY <1>6, <2>2 DEF Inv, TypeOK, EndMeasured, StopSampler
<1>7. CASE FailLoad
    BY <1>7 DEF Inv, TypeOK, FailLoad, StopSampler
<1>8. CASE LeaveSampler
    BY <1>8 DEF Inv, TypeOK, LeaveSampler
<1>9. CASE ReadStats
    BY <1>9 DEF Inv, TypeOK, ReadStats
<1>10. CASE CloseClient
    <2> DEFINE r == [ok_requests |-> OkRequests(measured), errors |-> measured.errors,
                     latencies |-> measured.latencies]
               Results == [ok_requests : Int, errors : Nat, latencies : Nat]
    <2>1. r \in Results
        BY LoadAssumption DEF Inv, TypeOK, OkRequests, LoadAssumption
    <2>2. results' = Append(results, r) \/ results' = results
        BY <1>10 DEF CloseClient
    <2>3. results' \in Seq(Results)
        <3>1. results \in Seq(Results)
            BY DEF Inv, TypeOK
        <3> HIDE DEF r, Results
        <3> QED
            BY <2>1, <2>2, <3>1
    <2> HIDE DEF r
    <2> QED
        BY <1>10, <2>3 DEF Inv, TypeOK, CloseClient, Unwound
<1>11. CASE Settle
    BY <1>11 DEF Inv, TypeOK, Settle
<1>12. CASE StopServer
    BY <1>12 DEF Inv, TypeOK, StopServer
<1>13. CASE WriteReports
    BY <1>13 DEF Inv, TypeOK, WriteReports
<1>14. CASE Teardown
    BY <1>14 DEF Inv, TypeOK, Teardown
<1>15. CASE SampleLoop
    BY <1>15 DEF Inv, TypeOK, SampleLoop
<1>16. CASE Cancel
    BY <1>16 DEF Inv, TypeOK, Cancel, StopSampler, CancelGathered
<1>17. ASSUME NEW w \in Workers, Worker(w) PROVE TypeOK'
    <2>1. Min(queue) \in Nat \/ ~Take(w)
        BY MinFacts DEF Inv, Take
    <2>2. \E state \in {"idle", "requesting", "dead", "done"} : task' = [task EXCEPT ![w] = state]
        BY <1>17 DEF Worker, Take, NoMore, Answered, CountedError, Abort
    <2>3. item' = item \/ \E i \in Nat : item' = [item EXCEPT ![w] = i]
        BY <1>17, <2>1 DEF Worker, Take, NoMore, Answered, CountedError, Abort,
           Report
    <2>4. UNCHANGED <<pc, mode, load, sampler, client, server, exc, cancels, measured, results>>
        BY <1>17 DEF Worker, Abort
    <2>7. timed' = timed \/ timed' = [timed EXCEPT ![w] = @ \cup {item[w]}]
        BY <1>17 DEF Worker, Take, NoMore, Answered, CountedError, Abort, Report
    <2>8. failed' = failed \/ failed' = [failed EXCEPT ![w] = @ \cup {item[w]}]
        BY <1>17 DEF Worker, Take, NoMore, Answered, CountedError, Abort
    <2>9. timed' \in [Workers -> SUBSET Nat] /\ failed' \in [Workers -> SUBSET Nat]
        <3>1. timed \in [Workers -> SUBSET Nat] /\ failed \in [Workers -> SUBSET Nat] /\ item[w] \in Nat
            BY DEF Inv, TypeOK
        <3>2. timed[w] \cup {item[w]} \in SUBSET Nat /\ failed[w] \cup {item[w]} \in SUBSET Nat
            BY <3>1
        <3> QED
            BY <2>7, <2>8, <3>1, <3>2
    <2>5. item' \in [Workers -> Nat]
        BY <2>3 DEF Inv, TypeOK
    <2>6. task' \in [Workers -> {"none", "idle", "requesting", "dead", "done"}]
        BY <2>2 DEF Inv, TypeOK
    <2> QED
        BY <2>4, <2>5, <2>6, <2>9 DEF Inv, TypeOK
<1>18. CASE UNCHANGED vars
    BY <1>18 DEF Inv, TypeOK, vars
<1> QED
    BY <1>1, <1>2, <1>3, <1>4, <1>5, <1>6, <1>7, <1>8, <1>9, <1>10, <1>11, <1>12, <1>13,
       <1>14, <1>15, <1>16, <1>17, <1>18, StepCases

\* get_nowait() gives the requests in the order in which they were put.
LEMMA OrderedStep == ASSUME Inv, [Next]_vars PROVE Ordered'
<1>1. CASE StartServer
    BY <1>1 DEF Inv, Ordered, StartServer
<1>2. CASE NextRun
    BY <1>2 DEF Inv, Ordered, NextRun
<1>3. CASE CreateClient
    <2>1. queue' = queue \/ queue' = 1 .. Warmup
        BY <1>3 DEF CreateClient, StartLoad
    <2> QED
        BY <2>1, LoadAssumption DEF Inv, Ordered, LoadAssumption
<1>4. CASE BeginMeasured
    <2>1. queue' = 1 .. Requests
        BY <1>4 DEF BeginMeasured, StartLoad
    <2> QED
        BY <2>1, LoadAssumption DEF Ordered, LoadAssumption
<1>5. CASE JoinQueue
    BY <1>5 DEF Inv, Ordered, JoinQueue
<1>6. CASE EndMeasured
    BY <1>6 DEF Inv, Ordered, EndMeasured, StopSampler
<1>7. CASE FailLoad
    BY <1>7 DEF Inv, Ordered, FailLoad, StopSampler
<1>8. CASE LeaveSampler
    BY <1>8 DEF Inv, Ordered, LeaveSampler
<1>9. CASE ReadStats
    BY <1>9 DEF Inv, Ordered, ReadStats
<1>10. CASE CloseClient
    BY <1>10 DEF Inv, Ordered, CloseClient, Unwound
<1>11. CASE Settle
    BY <1>11 DEF Inv, Ordered, Settle
<1>12. CASE StopServer
    BY <1>12 DEF Inv, Ordered, StopServer
<1>13. CASE WriteReports
    BY <1>13 DEF Inv, Ordered, WriteReports
<1>14. CASE Teardown
    BY <1>14 DEF Inv, Ordered, Teardown
<1>15. CASE SampleLoop
    BY <1>15 DEF Inv, Ordered, SampleLoop
<1>16. CASE Cancel
    BY <1>16 DEF Inv, Ordered, Cancel, StopSampler, CancelGathered
<1>17. ASSUME NEW w \in Workers, Worker(w) PROVE Ordered'
    <2>1. queue' = queue \/ (queue # {} /\ queue' = queue \ {Min(queue)})
        BY <1>17 DEF Worker, Take, NoMore, Answered, CountedError, Abort
    <2> QED
        BY <2>1, MinFacts DEF Inv, Ordered
<1>18. CASE UNCHANGED vars
    BY <1>18 DEF Inv, Ordered, vars
<1> QED
    BY <1>1, <1>2, <1>3, <1>4, <1>5, <1>6, <1>7, <1>8, <1>9, <1>10, <1>11, <1>12, <1>13,
       <1>14, <1>15, <1>16, <1>17, <1>18, StepCases

\* A worker has the number of the request it has sent (worker).
LEMMA InFlightStep == ASSUME Inv, [Next]_vars PROVE InFlight'
<1>1. CASE StartServer
    BY <1>1 DEF Inv, InFlight, TypeOK, StartServer
<1>2. CASE NextRun
    BY <1>2 DEF Inv, InFlight, TypeOK, NextRun
<1>3. CASE CreateClient
    BY <1>3 DEF Inv, InFlight, TypeOK, CreateClient, StartLoad
<1>4. CASE BeginMeasured
    BY <1>4 DEF Inv, InFlight, TypeOK, BeginMeasured, StartLoad
<1>5. CASE JoinQueue
    BY <1>5 DEF Inv, InFlight, TypeOK, JoinQueue
<1>6. CASE EndMeasured
    BY <1>6 DEF Inv, InFlight, TypeOK, EndMeasured, StopSampler
<1>7. CASE FailLoad
    BY <1>7 DEF Inv, InFlight, TypeOK, FailLoad, StopSampler
<1>8. CASE LeaveSampler
    BY <1>8 DEF Inv, InFlight, TypeOK, LeaveSampler
<1>9. CASE ReadStats
    BY <1>9 DEF Inv, InFlight, TypeOK, ReadStats
<1>10. CASE CloseClient
    BY <1>10 DEF Inv, InFlight, TypeOK, CloseClient, Unwound
<1>11. CASE Settle
    BY <1>11 DEF Inv, InFlight, TypeOK, Settle
<1>12. CASE StopServer
    BY <1>12 DEF Inv, InFlight, TypeOK, StopServer
<1>13. CASE WriteReports
    BY <1>13 DEF Inv, InFlight, TypeOK, WriteReports
<1>14. CASE Teardown
    BY <1>14 DEF Inv, InFlight, TypeOK, Teardown
<1>15. CASE SampleLoop
    BY <1>15 DEF Inv, InFlight, TypeOK, SampleLoop
<1>16. CASE Cancel
    BY <1>16 DEF Inv, InFlight, TypeOK, Cancel, StopSampler, CancelGathered
<1>17. ASSUME NEW w \in Workers, Worker(w) PROVE InFlight'
    <2>1. CASE Take(w)
        <3>1. Min(queue) # 0 /\ item' = [item EXCEPT ![w] = Min(queue)]
            BY <2>1, MinFacts DEF Inv, Take
        <3> QED
            BY <2>1, <3>1 DEF Inv, InFlight, TypeOK, Take
    <2>2. CASE ~Take(w)
        <3>1. task'[w] # "requesting"
              /\ \A v \in Workers \ {w} : task'[v] = task[v] /\ item'[v] = item[v]
            BY <1>17, <2>2 DEF Inv, TypeOK, Worker, NoMore, Answered,
               CountedError, Abort, Report
        <3> QED
            BY <3>1 DEF Inv, InFlight
    <2> QED
        BY <2>1, <2>2
<1>18. CASE UNCHANGED vars
    BY <1>18 DEF Inv, InFlight, TypeOK, vars
<1> QED
    BY <1>1, <1>2, <1>3, <1>4, <1>5, <1>6, <1>7, <1>8, <1>9, <1>10, <1>11, <1>12, <1>13,
       <1>14, <1>15, <1>16, <1>17, <1>18, StepCases

\* A load is gathered once its queue was joined, when no request is in flight
\* (run_async_load).
LEMMA LoadingStep == ASSUME Inv, [Next]_vars PROVE Loading'
<1>1. CASE StartServer
    BY <1>1 DEF Inv, Loading, TypeOK, InFlight, Idle, Joined, StartServer
<1>2. CASE NextRun
    BY <1>2 DEF Inv, Loading, TypeOK, InFlight, Idle, Joined, NextRun
<1>3. CASE CreateClient
    BY <1>3 DEF Inv, Loading, TypeOK, InFlight, Idle, Joined, CreateClient, StartLoad
<1>4. CASE BeginMeasured
    BY <1>4 DEF Inv, Loading, TypeOK, InFlight, Idle, Joined, BeginMeasured, StartLoad
<1>5. CASE JoinQueue
    BY <1>5 DEF Inv, Loading, TypeOK, InFlight, Idle, Joined, JoinQueue
<1>6. CASE EndMeasured
    BY <1>6 DEF Inv, Loading, TypeOK, InFlight, Idle, Joined, EndMeasured, StopSampler
<1>7. CASE FailLoad
    BY <1>7 DEF Inv, Loading, TypeOK, InFlight, Idle, Joined, FailLoad, StopSampler
<1>8. CASE LeaveSampler
    BY <1>8 DEF Inv, Loading, TypeOK, InFlight, Idle, Joined, LeaveSampler
<1>9. CASE ReadStats
    BY <1>9 DEF Inv, Loading, TypeOK, InFlight, Idle, Joined, ReadStats
<1>10. CASE CloseClient
    BY <1>10 DEF Inv, Loading, TypeOK, InFlight, Idle, Joined, CloseClient, Unwound
<1>11. CASE Settle
    BY <1>11 DEF Inv, Loading, TypeOK, InFlight, Idle, Joined, Settle
<1>12. CASE StopServer
    BY <1>12 DEF Inv, Loading, TypeOK, InFlight, Idle, Joined, StopServer
<1>13. CASE WriteReports
    BY <1>13 DEF Inv, Loading, TypeOK, InFlight, Idle, Joined, WriteReports
<1>14. CASE Teardown
    BY <1>14 DEF Inv, Loading, TypeOK, InFlight, Idle, Joined, Teardown
<1>15. CASE SampleLoop
    BY <1>15 DEF Inv, Loading, TypeOK, InFlight, Idle, Joined, SampleLoop
<1>16. CASE Cancel
    BY <1>16 DEF Inv, Loading, TypeOK, InFlight, Idle, Joined, Cancel, StopSampler,
       CancelGathered
<1>17. ASSUME NEW w \in Workers, Worker(w) PROVE Loading'
    BY <1>17 DEF Inv, Loading, TypeOK, InFlight, Idle, Joined, Worker, Take, NoMore,
       Answered, CountedError, Abort, Report
<1>18. CASE UNCHANGED vars
    BY <1>18 DEF Inv, Loading, TypeOK, InFlight, Idle, Joined, vars
<1> QED
    BY <1>1, <1>2, <1>3, <1>4, <1>5, <1>6, <1>7, <1>8, <1>9, <1>10, <1>11, <1>12, <1>13,
       <1>14, <1>15, <1>16, <1>17, <1>18, StepCases

\* A load that ends has no request in flight, unless the main task was cancelled, and
\* no worker, unless something was raised (run_async_load, run_sync_load).
LEMMA LeftoversStep == ASSUME Inv, [Next]_vars PROVE Leftovers'
<1>1. CASE StartServer
    BY <1>1 DEF Inv, Leftovers, TypeOK, Loading, Blocks, InFlight, Idle, Alive,
       LoadRaises, LoadReturns, Ended, Died, StartServer
<1>2. CASE NextRun
    BY <1>2 DEF Inv, Leftovers, TypeOK, Loading, Blocks, InFlight, Idle, Alive,
       LoadRaises, LoadReturns, Ended, Died, NextRun
<1>3. CASE CreateClient
    BY <1>3 DEF Inv, Leftovers, TypeOK, Loading, Blocks, InFlight, Idle, Alive,
       LoadRaises, LoadReturns, Ended, Died, CreateClient, StartLoad
<1>4. CASE BeginMeasured
    BY <1>4 DEF Inv, Leftovers, TypeOK, Loading, Blocks, InFlight, Idle, Alive,
       LoadRaises, LoadReturns, Ended, Died, BeginMeasured, StartLoad
<1>5. CASE JoinQueue
    BY <1>5 DEF Inv, Leftovers, TypeOK, Loading, Blocks, InFlight, Idle, Alive,
       LoadRaises, LoadReturns, Ended, Died, JoinQueue
<1>6. CASE EndMeasured
    BY <1>6 DEF Inv, Leftovers, TypeOK, Loading, Blocks, InFlight, Idle, Alive,
       LoadRaises, LoadReturns, Ended, Died, EndMeasured, StopSampler
<1>7. CASE FailLoad
    BY <1>7 DEF Inv, Leftovers, TypeOK, Loading, Blocks, InFlight, Idle, Alive,
       LoadRaises, LoadReturns, Ended, Died, FailLoad, StopSampler
<1>8. CASE LeaveSampler
    BY <1>8 DEF Inv, Leftovers, TypeOK, Loading, Blocks, InFlight, Idle, Alive,
       LoadRaises, LoadReturns, Ended, Died, LeaveSampler
<1>9. CASE ReadStats
    BY <1>9 DEF Inv, Leftovers, TypeOK, Loading, Blocks, InFlight, Idle, Alive,
       LoadRaises, LoadReturns, Ended, Died, ReadStats
<1>10. CASE CloseClient
    BY <1>10 DEF Inv, Leftovers, TypeOK, Loading, Blocks, InFlight, Idle, Alive,
       LoadRaises, LoadReturns, Ended, Died, CloseClient, Unwound
<1>11. CASE Settle
    BY <1>11 DEF Inv, Leftovers, TypeOK, Loading, Blocks, InFlight, Idle, Alive,
       LoadRaises, LoadReturns, Ended, Died, Settle
<1>12. CASE StopServer
    BY <1>12 DEF Inv, Leftovers, TypeOK, Loading, Blocks, InFlight, Idle, Alive,
       LoadRaises, LoadReturns, Ended, Died, StopServer
<1>13. CASE WriteReports
    BY <1>13 DEF Inv, Leftovers, TypeOK, Loading, Blocks, InFlight, Idle, Alive,
       LoadRaises, LoadReturns, Ended, Died, WriteReports
<1>14. CASE Teardown
    BY <1>14 DEF Inv, Leftovers, TypeOK, Loading, Blocks, InFlight, Idle, Alive,
       LoadRaises, LoadReturns, Ended, Died, Teardown
<1>15. CASE SampleLoop
    BY <1>15 DEF Inv, Leftovers, TypeOK, Loading, Blocks, InFlight, Idle, Alive,
       LoadRaises, LoadReturns, Ended, Died, SampleLoop
<1>16. CASE Cancel
    BY <1>16 DEF Inv, Leftovers, TypeOK, Loading, Blocks, InFlight, Idle, Alive,
       LoadRaises, LoadReturns, Ended, Died, Cancel, StopSampler, CancelGathered
<1>17. ASSUME NEW w \in Workers, Worker(w) PROVE Leftovers'
    BY <1>17 DEF Inv, Leftovers, TypeOK, Loading, Blocks, InFlight, Idle, Alive,
       LoadRaises, LoadReturns, Ended, Died, Worker, Take, NoMore, Answered,
       CountedError, Abort, Report
<1>18. CASE UNCHANGED vars
    BY <1>18 DEF Inv, Leftovers, TypeOK, Loading, Blocks, InFlight, Idle, Alive,
       LoadRaises, LoadReturns, Ended, Died, vars
<1> QED
    BY <1>1, <1>2, <1>3, <1>4, <1>5, <1>6, <1>7, <1>8, <1>9, <1>10, <1>11, <1>12, <1>13,
       <1>14, <1>15, <1>16, <1>17, <1>18, StepCases

\* Client, sampler and server are open only within their blocks (run_once,
\* run_request_suite).
LEMMA BlocksStep == ASSUME Inv, [Next]_vars PROVE Blocks'
<1>1. CASE StartServer
    BY <1>1 DEF Inv, Blocks, TypeOK, Loading, Leftovers, Alive, Settled, LoadReturns,
       LoadRaises, StartServer
<1>2. CASE NextRun
    BY <1>2 DEF Inv, Blocks, TypeOK, Loading, Leftovers, Alive, Settled, LoadReturns,
       LoadRaises, NextRun
<1>3. CASE CreateClient
    BY <1>3 DEF Inv, Blocks, TypeOK, Loading, Leftovers, Alive, Settled, LoadReturns,
       LoadRaises, CreateClient, StartLoad
<1>4. CASE BeginMeasured
    BY <1>4 DEF Inv, Blocks, TypeOK, Loading, Leftovers, Alive, Settled, LoadReturns,
       LoadRaises, BeginMeasured, StartLoad
<1>5. CASE JoinQueue
    BY <1>5 DEF Inv, Blocks, TypeOK, Loading, Leftovers, Alive, Settled, LoadReturns,
       LoadRaises, JoinQueue
<1>6. CASE EndMeasured
    BY <1>6 DEF Inv, Blocks, TypeOK, Loading, Leftovers, Alive, Settled, LoadReturns,
       LoadRaises, EndMeasured, StopSampler
<1>7. CASE FailLoad
    BY <1>7 DEF Inv, Blocks, TypeOK, Loading, Leftovers, Alive, Settled, LoadReturns,
       LoadRaises, FailLoad, StopSampler
<1>8. CASE LeaveSampler
    BY <1>8 DEF Inv, Blocks, TypeOK, Loading, Leftovers, Alive, Settled, LoadReturns,
       LoadRaises, LeaveSampler
<1>9. CASE ReadStats
    BY <1>9 DEF Inv, Blocks, TypeOK, Loading, Leftovers, Alive, Settled, LoadReturns,
       LoadRaises, ReadStats
<1>10. CASE CloseClient
    BY <1>10 DEF Inv, Blocks, TypeOK, Loading, Leftovers, Alive, Settled, LoadReturns,
       LoadRaises, CloseClient, Unwound
<1>11. CASE Settle
    BY <1>11 DEF Inv, Blocks, TypeOK, Loading, Leftovers, Alive, Settled, LoadReturns,
       LoadRaises, Settle
<1>12. CASE StopServer
    BY <1>12 DEF Inv, Blocks, TypeOK, Loading, Leftovers, Alive, Settled, LoadReturns,
       LoadRaises, StopServer
<1>13. CASE WriteReports
    BY <1>13 DEF Inv, Blocks, TypeOK, Loading, Leftovers, Alive, Settled, LoadReturns,
       LoadRaises, WriteReports
<1>14. CASE Teardown
    BY <1>14 DEF Inv, Blocks, TypeOK, Loading, Leftovers, Alive, Settled, LoadReturns,
       LoadRaises, Teardown
<1>15. CASE SampleLoop
    BY <1>15 DEF Inv, Blocks, TypeOK, Loading, Leftovers, Alive, Settled, LoadReturns,
       LoadRaises, SampleLoop
<1>16. CASE Cancel
    BY <1>16 DEF Inv, Blocks, TypeOK, Loading, Leftovers, Alive, Settled, LoadReturns,
       LoadRaises, Cancel, StopSampler, CancelGathered
<1>17. ASSUME NEW w \in Workers, Worker(w) PROVE Blocks'
    BY <1>17 DEF Inv, Blocks, TypeOK, Loading, Leftovers, Alive, Settled, LoadReturns,
       LoadRaises, Worker, Take, NoMore, Answered, CountedError, Abort, Report
<1>18. CASE UNCHANGED vars
    BY <1>18 DEF Inv, Blocks, TypeOK, Loading, Leftovers, Alive, Settled, LoadReturns,
       LoadRaises, vars
<1> QED
    BY <1>1, <1>2, <1>3, <1>4, <1>5, <1>6, <1>7, <1>8, <1>9, <1>10, <1>11, <1>12, <1>13,
       <1>14, <1>15, <1>16, <1>17, <1>18, StepCases

\* A step that neither takes a load nor a worker further leaves the counts alone.
LEMMA AccountedKept ==
    ASSUME Accounted, Measuring' => Measuring,
           UNCHANGED <<queue, task, item, failed, timed, good>>
    PROVE  Accounted'
BY DEF Accounted

\* Each request of the measured load is counted by one worker (worker).
LEMMA AccountedStep == ASSUME Inv, [Next]_vars PROVE Accounted'
<1>1. CASE StartServer
    BY <1>1, AccountedKept DEF Inv, Measuring, StartServer
<1>2. CASE NextRun
    BY <1>2, AccountedKept DEF Inv, Measuring, NextRun
<1>3. CASE CreateClient
    BY <1>3 DEF Accounted, Measuring, CreateClient
<1>4. CASE BeginMeasured
    BY <1>4 DEF Accounted, Requested, BeginMeasured, StartLoad
<1>5. CASE JoinQueue
    BY <1>5, AccountedKept DEF Inv, Measuring, JoinQueue
<1>6. CASE EndMeasured
    BY <1>6, AccountedKept DEF Inv, Blocks, Measuring, EndMeasured, StopSampler
<1>7. CASE FailLoad
    BY <1>7, AccountedKept DEF Inv, Measuring, FailLoad, StopSampler
<1>8. CASE LeaveSampler
    BY <1>8, AccountedKept DEF Inv, Measuring, LeaveSampler
<1>9. CASE ReadStats
    BY <1>9, AccountedKept DEF Inv, Measuring, Blocks, ReadStats
<1>10. CASE CloseClient
    BY <1>10, AccountedKept DEF Inv, Measuring, CloseClient
<1>11. CASE Settle
    BY <1>11, AccountedKept DEF Inv, Measuring, Settle
<1>12. CASE StopServer
    BY <1>12, AccountedKept DEF Inv, Measuring, StopServer
<1>13. CASE WriteReports
    BY <1>13, AccountedKept DEF Inv, Measuring, WriteReports
<1>14. CASE Teardown
    BY <1>14 DEF Accounted, Measuring, Teardown
<1>15. CASE SampleLoop
    BY <1>15, AccountedKept DEF Inv, Measuring, SampleLoop
<1>16. CASE Cancel
    BY <1>16 DEF Accounted, Measuring, Cancel
<1>17. ASSUME NEW w \in Workers, Worker(w), Measuring' PROVE Accounted'
    <2>1. UNCHANGED <<pc, exc>> /\ Measuring
        BY <1>17 DEF Worker, Measuring
    <2>2. task[w] \in {"idle", "requesting"}
        BY <1>17 DEF Worker, Take, NoMore, Answered, CountedError, Abort
    <2>3. pc = "measured"
        BY <2>1, <2>2 DEF Inv, Measuring, Loading, Leftovers, Alive
    <2> DEFINE i == item[w]
    <2> USE DEF Inv, TypeOK, Accounted
    <2>4. CASE Take(w)
        <3>1. Min(queue) \in queue
            <4> QED
                BY <2>4, MinMember DEF Take
        <3>2. PICK m \in queue : m = Min(queue)
            BY <3>1
        <3>3. /\ item' = [item EXCEPT ![w] = m] /\ queue' = queue \ {m}
              /\ task' = [task EXCEPT ![w] = "requesting"]
              /\ UNCHANGED <<failed, timed, good>>
            BY <2>4, <3>2 DEF Take
        <3>4. /\ item'[w] = m /\ task'[w] = "requesting"
              /\ \A v \in Workers \ {w} : item'[v] = item[v] /\ task'[v] = task[v]
            BY <3>3
        <3>5. m \in Requested /\ \A v \in Workers : m \notin timed[v]
            BY <2>1
        <3>6. \A v \in Workers : task[v] = "requesting" => item[v] # m
            BY <2>1
        <3>7. task[w] = "idle"
            BY <2>4 DEF Take
        <3>8. queue' \subseteq Requested /\ \A v \in Workers : timed[v] \subseteq Requested \ queue'
            BY <2>1, <3>3
        <3>9. \A v \in Workers : task'[v] = "requesting" =>
                /\ item'[v] \in Requested \ queue'
                /\ \A u \in Workers : item'[v] \notin timed[u]
                /\ \A u \in Workers : task'[u] = "requesting" /\ item'[u] = item'[v] => u = v
            BY <2>1, <3>3, <3>4, <3>5, <3>6
        <3>10. ASSUME NEW n \in Requested
               PROVE  \/ n \in queue'
                      \/ \E v \in Workers : task'[v] = "requesting" /\ item'[v] = n
                      \/ \E v \in Workers : n \in timed[v]
            BY <2>1, <3>3, <3>4, <3>7
        <3>11. \A v \in Workers : task'[v] # "dead" => task[v] # "dead"
            BY <3>4, <3>7
        <3> QED
            BY <2>1, <3>3, <3>8, <3>9, <3>10, <3>11
    <2>5. CASE NoMore(w)
        <3>1. /\ task[w] = "idle" /\ task'[w] = "done"
              /\ \A v \in Workers \ {w} : task'[v] = task[v]
              /\ UNCHANGED <<queue, item, failed, timed, good>>
            BY <2>5 DEF NoMore
        <3>2. \A v \in Workers : (task'[v] = "requesting" <=> task[v] = "requesting")
                                /\ (task'[v] # "dead" => task[v] # "dead")
            BY <3>1
        <3> QED
            BY <2>1, <3>1, <3>2
    <2>6. CASE task[w] = "requesting" /\ item' = [item EXCEPT ![w] = 0] /\ queue' = queue
               /\ timed' = [timed EXCEPT ![w] = @ \cup {i}]
               /\ \/ /\ task' = [task EXCEPT ![w] = "idle"]
                     /\ good' = good \cup {i} /\ failed' = failed
                  \/ /\ task' = [task EXCEPT ![w] = "idle"]
                     /\ good' = good /\ failed' = [failed EXCEPT ![w] = @ \cup {i}]
                  \/ /\ task' = [task EXCEPT ![w] = "dead"]
                     /\ good' = good /\ failed' = failed
        <3>1. i \in Requested \ queue /\ \A v \in Workers : i \notin timed[v] /\ i \notin failed[v]
            BY <2>1, <2>6
        <3>2. \A v \in Workers : task[v] = "requesting" /\ item[v] = i => v = w
            BY <2>1, <2>6
        <3>3. i \notin good
            BY <2>1, <3>1
        <3>4. /\ timed'[w] = timed[w] \cup {i}
              /\ \A v \in Workers \ {w} : /\ timed'[v] = timed[v] /\ item'[v] = item[v]
                                          /\ task'[v] = task[v] /\ failed'[v] = failed[v]
            BY <2>6
        <3>5. task'[w] # "requesting"
            BY <2>6
        <3>6. \A v \in Workers : failed'[v] \subseteq timed'[v] /\ timed'[v] \subseteq Requested \ queue'
            BY <2>1, <2>6, <3>1, <3>4
        <3>7. ASSUME NEW u \in Workers, NEW v \in Workers, u # v
              PROVE  timed'[u] \cap timed'[v] = {}
            <4>1. timed[u] \cap timed[v] = {} /\ i \notin timed[u] /\ i \notin timed[v]
                BY <2>1, <3>1, <3>7
            <4>2. \/ timed'[u] = timed[u] /\ timed'[v] = timed[v]
                  \/ timed'[u] = timed[u] \cup {i} /\ timed'[v] = timed[v]
                  \/ timed'[u] = timed[u] /\ timed'[v] = timed[v] \cup {i}
                BY <3>4, <3>7
            <4> HIDE DEF i
            <4> QED
                BY <4>1, <4>2
        <3>8. \A v \in Workers : task'[v] = "requesting" =>
                /\ v # w /\ task[v] = "requesting" /\ item'[v] = item[v] /\ item[v] # i
            BY <3>2, <3>4, <3>5
        <3>9. \A v \in Workers : task'[v] = "requesting" =>
                /\ item'[v] \in Requested \ queue'
                /\ \A u \in Workers : item'[v] \notin timed'[u]
                /\ \A u \in Workers : task'[u] = "requesting" /\ item'[u] = item'[v] => u = v
            BY <2>1, <2>6, <3>4, <3>8
        <3>10. ASSUME NEW n \in Requested
               PROVE  \/ n \in queue'
                      \/ \E v \in Workers : task'[v] = "requesting" /\ item'[v] = n
                      \/ \E v \in Workers : n \in timed'[v]
            <4>1. CASE n = i
                BY <3>4, <4>1
            <4>2. CASE n \in queue \/ \E v \in Workers : n \in timed[v]
                BY <2>6, <3>4, <4>2
            <4>3. ASSUME n # i, NEW v \in Workers, task[v] = "requesting", item[v] = n
                  PROVE  v # w /\ task'[v] = "requesting" /\ item'[v] = n
                BY <3>4, <4>3
            <4> QED
                BY <2>1, <4>1, <4>2, <4>3
        <3>11. \A n \in good' : \E v \in Workers : n \in timed'[v]
            BY <2>1, <2>6, <3>4
        <3>12. ASSUME NEW v \in Workers
               PROVE  good' \cap failed'[v] = {}
            <4>1. good \cap failed[v] = {} /\ i \notin failed[v] /\ i \notin good
                BY <2>1, <3>1, <3>3
            <4>2. \/ failed'[v] = failed[v] /\ good' \subseteq good \cup {i}
                  \/ failed'[v] = failed[v] \cup {i} /\ good' = good
                BY <2>6, <3>4
            <4> HIDE DEF i
            <4> QED
                BY <4>1, <4>2
        <3>13. \A v \in Workers : task'[v] # "dead" => timed'[v] \subseteq good' \cup failed'[v]
            BY <2>1, <2>6, <3>4
        <3>14. queue' \subseteq Requested
            BY <2>1, <2>6
        <3> QED
            BY <3>6, <3>7, <3>9, <3>10, <3>11, <3>12, <3>13, <3>14
    <2> QED
        BY <1>17, <2>3, <2>4, <2>5, <2>6 DEF Worker, Answered, CountedError, Abort, Report
<1>18. CASE UNCHANGED vars
    BY <1>18, AccountedKept DEF Inv, Measuring, vars
<1> QED
    BY <1>1, <1>2, <1>3, <1>4, <1>5, <1>6, <1>7, <1>8, <1>9, <1>10, <1>11, <1>12, <1>13,
       <1>14, <1>15, <1>16, <1>17, <1>18, StepCases DEF Accounted

\* A worker leaves when the queue is empty (worker).
LEMMA WorkedStep == ASSUME Inv, [Next]_vars PROVE Worked'
<1>1. CASE StartServer \/ NextRun \/ CreateClient \/ CloseClient \/ Settle \/ StopServer
           \/ WriteReports \/ Teardown \/ Cancel \/ FailLoad
    BY <1>1 DEF Inv, Worked, Measuring, StartServer, NextRun, CreateClient, CloseClient,
       Settle, StopServer, WriteReports, Teardown, Cancel, FailLoad, StopSampler, Blocks
<1>2. CASE BeginMeasured
    <2>1. 1 \in Workers /\ 1 <= Requests
        BY LoadAssumption DEF LoadAssumption, Workers
    <2>2. (\A w \in Workers : task'[w] \in {"idle", "none"}) /\ task'[1] = "idle"
        BY <1>2, <2>1 DEF BeginMeasured, StartLoad
    <2> QED
        BY <2>2 DEF Worked
<1>3. CASE JoinQueue \/ EndMeasured \/ LeaveSampler \/ ReadStats \/ SampleLoop \/ UNCHANGED vars
    <2>1. (Measuring' => Measuring) /\ UNCHANGED <<task, queue>>
        BY <1>3 DEF Inv, Measuring, Blocks, JoinQueue, EndMeasured, LeaveSampler, ReadStats,
           SampleLoop, StopSampler, vars
    <2> QED
        BY <2>1 DEF Inv, Worked
<1>4. ASSUME NEW w \in Workers, Worker(w) PROVE Worked'
    <2>1. Measuring' = Measuring /\ queue' \subseteq queue
        BY <1>4 DEF Measuring, Worker, Take, NoMore, Answered, CountedError, Abort
    <2>2. \A v \in Workers \ {w} : task'[v] = task[v]
        BY <1>4 DEF Inv, TypeOK, Worker, Take, NoMore, Answered, CountedError, Abort
    <2>3. task'[w] # "none" /\ (task'[w] = "done" => queue' = {})
        BY <1>4 DEF Inv, TypeOK, Worker, Take, NoMore, Answered, CountedError, Abort
    <2>4. 1 \in Workers
        BY LoadAssumption DEF LoadAssumption, Workers
    <2> QED
        BY <2>1, <2>2, <2>3, <2>4 DEF Inv, Worked
<1> QED
    BY <1>1, <1>2, <1>3, <1>4, StepCases

\* The result of the measured load is what its workers have counted, until the run
\* ends (run_once).
LEMMA KeptStep == ASSUME Inv, [Next]_vars PROVE Kept'
<1> DEFINE After == Measuring /\ pc # "measured"
<1>1. CASE EndMeasured
    <2>1. measured' = Merged /\ Died = {} /\ Alive = {} /\ UNCHANGED loadVars
        BY <1>1 DEF EndMeasured, LoadReturns, Ended
    <2>2. Measuring
        BY <1>1 DEF Inv, Blocks, EndMeasured, Measuring
    <2>3. 1 \in Workers
        BY LoadAssumption DEF LoadAssumption, Workers
    <2>4. task[1] = "done"
        BY <2>1, <2>2, <2>3 DEF Inv, TypeOK, Worked, Alive, Died
    <2>5. queue = {}
        BY <2>2, <2>3, <2>4 DEF Inv, Worked
    <2>6. Merged' = Merged /\ Died' = Died
        BY <2>1 DEF Merged, Died
    <2> QED
        BY <2>1, <2>5, <2>6 DEF Kept
<1>2. CASE /\ ~EndMeasured
           /\ ~\E w \in Workers : Worker(w)
    <2>1. After' => After /\ UNCHANGED <<measured, queue, task, failed, timed>>
        BY <1>2, StepCases DEF Inv, Blocks, Measuring, StartServer, NextRun, CreateClient,
           BeginMeasured, JoinQueue, FailLoad, LeaveSampler, ReadStats, CloseClient,
           Settle, StopServer, WriteReports, Teardown, SampleLoop, Cancel, StopSampler, vars
    <2>2. After' => Merged' = Merged /\ Died' = Died
        BY <2>1 DEF Merged, Died
    <2> QED
        BY <2>1, <2>2 DEF Inv, Kept
<1>3. ASSUME NEW w \in Workers, Worker(w) PROVE ~After'
    <2>1. UNCHANGED <<pc, exc>> /\ task[w] \in {"idle", "requesting"}
        BY <1>3 DEF Worker, Take, NoMore, Answered, CountedError, Abort
    <2> QED
        BY <2>1 DEF Inv, Measuring, Loading, Leftovers, Alive
<1> QED
    BY <1>1, <1>2, <1>3 DEF Kept

\* Inv is inductive.
THEOREM Invariance == Spec => []Inv
<1>1. Init => Inv
    <2>1. ASSUME Init PROVE TypeOK
        BY <2>1, LoadAssumption DEF Init, TypeOK, LoadAssumption
    <2>2. ASSUME Init PROVE Ordered
        <3>1. queue = 1 .. 0
            BY <2>2 DEF Init
        <3> QED
            BY <3>1 DEF Ordered
    <2>3. ASSUME Init PROVE InFlight /\ Loading /\ Leftovers /\ Blocks
        BY <2>3 DEF Init, InFlight, Loading, Leftovers, Blocks, Idle, Alive
    <2>4. ASSUME Init PROVE Accounted /\ Worked /\ Kept
        BY <2>4 DEF Init, Accounted, Worked, Kept, Measuring
    <2> QED
        BY <2>1, <2>2, <2>3, <2>4 DEF Inv
<1>2. Inv /\ [Next]_vars => Inv'
    BY TypeOKStep, OrderedStep, InFlightStep, LoadingStep, LeftoversStep, BlocksStep,
       AccountedStep, WorkedStep, KeptStep DEF Inv
<1> QED
    BY <1>1, <1>2, PTL DEF Spec

(***************************************************************************)
(* The properties.                                                          *)
(***************************************************************************)
\* The variables of the main task, its client, sampler, server and workers keep
\* their types.
THEOREM TypeCorrect == Spec => []TypeOK
<1>1. Inv => TypeOK
    BY DEF Inv
<1> QED
    BY <1>1, Invariance, PTL

\* What a run reports is what its measured load did: every request was counted by one
\* worker, as good or as an error, and timed once (run_once, merge_load_results).
THEOREM ResultsAreTrue == Spec => ResultsTellTheTruth
<1>1. ASSUME Inv, [Next]_vars, results' # results
      PROVE  LET r == results'[Len(results')]
             IN  /\ r.ok_requests = Cardinality(good)
                 /\ r.errors + r.ok_requests = Requests
                 /\ r.latencies = Requests
    <2> DEFINE Counted == UNION {failed[w] : w \in Workers}
               Timed == UNION {timed[w] : w \in Workers}
               r == [ok_requests |-> OkRequests(measured), errors |-> measured.errors,
                     latencies |-> measured.latencies]
    <2>1. CloseClient
        BY <1>1, StepCases DEF StartServer, NextRun, CreateClient, BeginMeasured, JoinQueue,
           EndMeasured, FailLoad, LeaveSampler, ReadStats, Settle, StopServer, WriteReports,
           Teardown, SampleLoop, Cancel, Worker, vars
    <2>2. Measuring /\ pc = "close" /\ results' = Append(results, r)
        BY <1>1, <2>1 DEF CloseClient, Unwound, Measuring
    <2>3. results'[Len(results')] = r
        <3>1. results \in Seq([ok_requests : Int, errors : Nat, latencies : Nat])
            BY <1>1 DEF Inv, TypeOK
        <3>2. r \in [ok_requests : Int, errors : Nat, latencies : Nat]
            BY <1>1, LoadAssumption DEF Inv, TypeOK, OkRequests, LoadAssumption
        <3> HIDE DEF r
        <3> QED
            BY <2>2, <3>1, <3>2
    <2>4. measured = Merged /\ queue = {} /\ Died = {} /\ Alive = {}
        BY <1>1, <2>2 DEF Inv, Kept, Loading, Leftovers, Measuring
    <2>5. Timed = Requested
        BY <1>1, <2>2, <2>4 DEF Inv, Accounted, Alive
    <2>6. good \cup Counted = Requested /\ good \cap Counted = {}
        <3>1. \A w \in Workers : /\ failed[w] \subseteq timed[w]
                                 /\ timed[w] \subseteq good \cup failed[w]
                                 /\ good \cap failed[w] = {}
            BY <1>1, <2>2, <2>4 DEF Inv, Accounted, Died
        <3>2. good \subseteq Timed
            BY <1>1, <2>2 DEF Inv, Accounted
        <3> QED
            BY <2>5, <3>1, <3>2
    <2>7. /\ IsFiniteSet(Counted) /\ IsFiniteSet(Timed)
          /\ Merged = [errors |-> Cardinality(Counted), latencies |-> Cardinality(Timed)]
        BY <1>1, <2>2, MergedFacts DEF Inv
    <2>8. IsFiniteSet(Requested) /\ Cardinality(Requested) = Requests
        BY LoadAssumption, FS_Interval DEF LoadAssumption, Requested
    <2>9. Cardinality(good) = Requests - Cardinality(Counted)
        <3> DEFINE c == Counted
        <3>1. IsFiniteSet(c) /\ good \cup c = Requested /\ good \cap c = {}
            BY <2>6, <2>7
        <3> HIDE DEF c
        <3>2. IsFiniteSet(good)
            BY <2>8, <3>1, FS_Subset
        <3>3. Cardinality(good \cup c) = Cardinality(good) + Cardinality(c) - Cardinality(good \cap c)
            BY <3>1, <3>2, FS_Union
        <3>4. Cardinality(good) \in Nat /\ Cardinality(c) \in Nat /\ Cardinality(good \cap c) = 0
            BY <3>1, <3>2, FS_CardinalityType, FS_EmptySet
        <3>5. Cardinality(good \cup c) = Requests
            BY <2>8, <3>1
        <3>6. Cardinality(good) = Requests - Cardinality(c)
            BY <3>3, <3>4, <3>5
        <3> QED
            BY <3>6 DEF c
    <2>10. Cardinality(Counted) \in Nat
        BY <2>7, FS_CardinalityType
    <2>11. /\ r.ok_requests = Requests - Cardinality(Counted)
           /\ r.errors = Cardinality(Counted) /\ r.latencies = Requests
        BY <2>4, <2>5, <2>7, <2>8 DEF OkRequests
    <2> HIDE DEF Counted, r
    <2> QED
        BY <2>3, <2>9, <2>10, <2>11, LoadAssumption DEF LoadAssumption
<1>2. Inv /\ [Next]_vars => [results' # results =>
         LET r == results'[Len(results')]
         IN  /\ r.ok_requests = Cardinality(good)
             /\ r.errors + r.ok_requests = Requests
             /\ r.latencies = Requests]_vars
    BY <1>1
<1> QED
    BY <1>2, Invariance, PTL DEF Spec, ResultsTellTheTruth

\* A load starts when no worker of an earlier one is left (run_once).
THEOREM LoadsAreSeparate == Spec => LoadsDoNotOverlap
<1>1. ASSUME Inv, [Next]_vars, pc' # pc, pc' \in {"warmup", "measured"} PROVE Alive = {}
    <2>1. CreateClient \/ BeginMeasured
        BY <1>1, StepCases DEF StartServer, NextRun, JoinQueue, EndMeasured,
           FailLoad, LeaveSampler, ReadStats, CloseClient, Settle, StopServer,
           WriteReports, Teardown, SampleLoop, Cancel, StopSampler, Worker, vars
    <2>2. CASE CreateClient
        BY <1>1, <2>2 DEF CreateClient, Inv, Loading, Leftovers, Blocks
    <2>3. CASE BeginMeasured
        BY <1>1, <2>3 DEF BeginMeasured, LoadReturns, Ended, Inv, Leftovers, Blocks
    <2> QED
        BY <2>1, <2>2, <2>3
<1>2. Inv /\ [Next]_vars => [pc' # pc /\ pc' \in {"warmup", "measured"} => Alive = {}]_vars
    BY <1>1
<1> QED
    BY <1>2, Invariance, PTL DEF Spec, LoadsDoNotOverlap

\* A client is closed under no request, unless the main task was cancelled (run_once,
\* run_async_load).
THEOREM ClientsCloseAtRest == Spec => []ClosedAtRest
<1>1. Inv => ClosedAtRest
    BY DEF Inv, Blocks, Leftovers, Idle, ClosedAtRest
<1> QED
    BY <1>1, Invariance, PTL

\* Whatever is raised, the process ends with everything closed and stopped
\* (run_once, run_request_suite).
THEOREM NothingIsLeftBehind == Spec => []NothingLeftBehind
<1>1. Inv => NothingLeftBehind
    BY DEF Inv, TypeOK, Blocks, NothingLeftBehind
<1> QED
    BY <1>1, Invariance, PTL
=============================================================================
