-------------------------- MODULE CaseObservation --------------------------
(***************************************************************************)
(* What the supervisor of a lifecycle case observes while the client works: *)
(* the resource sampler, isolation/lifecycle_resources.py, which probes      *)
(* both processes at every phase and in between, and the profiler session,   *)
(* isolation/native_profile.py or perf_profile.py, which samples stacks of   *)
(* one of them for a while and later claims that all of it lay inside the    *)
(* measured load.  profile_evidence.py checks that claim once more when the  *)
(* saved report is classified.                                              *)
(*                                                                          *)
(* Processes run next to the probes: one can exit between the reading of     *)
(* its memory and the look at its return code.  How the case is launched,    *)
(* cancelled and reaped is the subject of LifecycleCase.                     *)
(***************************************************************************)
EXTENDS Integers, Sequences

CONSTANTS
  Profiler,     \* "sample" on macOS, "perf" on Linux
  Phases,       \* the phases the worker marks; the second is batch_1_start
  MaxSamples,   \* config.max_samples
  AttachDelay,  \* ATTACH_DELAY_NS
  MaxTime       \* bound: the clock stops there

ASSUME ObservationAssumption ==
  /\ Profiler \in {"sample", "perf"}
  /\ Phases \in Nat \ {0, 1} /\ MaxSamples \in Nat
  /\ AttachDelay \in Nat /\ MaxTime \in Nat \ {0}

VARIABLES
  now,      \* perf_counter_ns of every process, one clock
  proc,     \* the processes: an exiting one has no memory and no return code yet
  crashed,  \* those that end with a return code other than 0
  worker,   \* [phase, acked]: the last phase it marked, and whether it goes on
  load,     \* [start, finish] of the measured load, 0 before
  report,   \* client.json
  ack,      \* ack.json
  pc,       \* where monitor_client or the cleanup is
  purpose,  \* what the samples being taken are for
  todo,     \* the roles still to be probed
  probe,    \* ProcessResourceProbe: "gone" if the process was when it attached
  observed, \* the role's ResourceSample: RSS, 0 for None, and process_terminated
  samples,  \* length of the sample series
  taken,    \* the samples there have been, recorded or not
  peaks,    \* sampled_peaks
  phases,   \* per recorded phase, the roles whose RSS it has
  failures, \* the case's failures
  excuse,   \* why an RSS could not be had: a denied probe, an exit not seen in time
  session,  \* marker_seen_ns, tool_started_ns, tool_finished_ns, cleanup_interrupted
  tool,     \* the profiler's process
  toolEnd,  \* when it really ended
  receipt,  \* receipt["status"]
  payload   \* receipt["native_profile"]

processVars == <<proc, crashed>>
workerVars == <<worker, load, report>>
samplerVars == <<todo, probe, observed, samples, taken, peaks, phases, excuse>>
toolVars == <<session, tool, toolEnd>>
endVars == <<receipt, payload>>
vars == <<now, processVars, workerVars, ack, pc, purpose, samplerVars, failures, toolVars, endVars>>

Role == {"server", "client"}
LoadPhase == 2
\* RSS: None, below the ceiling, above it.
None == 0
Low == 1
High == 2
Unobserved == [rss |-> None, terminated |-> FALSE]
NoProfile == [status |-> "none"]

Init ==
  /\ now = 1
  /\ proc \in [Role -> {"live", "exiting"}] /\ crashed = {r \in Role : proc[r] = "exiting"}
  /\ worker = [phase |-> 0, acked |-> TRUE]
  /\ load = [start |-> 0, finish |-> 0] /\ report = "none" /\ ack = 0
  /\ pc = "poll" /\ purpose = "sample" /\ todo = <<>>
  /\ probe = [r \in Role |-> IF proc[r] = "live" THEN "attached" ELSE "gone"]
  /\ observed = [r \in Role |-> Unobserved]
  /\ samples = 0 /\ taken = 0 /\ peaks = [r \in Role |-> None] /\ phases = <<>>
  /\ failures = {} /\ excuse = {}
  /\ session = [seen |-> 0, started |-> 0, finished |-> 0, interrupted |-> FALSE]
  /\ tool = "none" /\ toolEnd = 0
  /\ receipt = "none" /\ payload = NoProfile

-----------------------------------------------------------------------------
(* The client and the server.                                               *)

Running(r) == proc[r] = "live"
parentVars == <<ack, pc, purpose, samplerVars, failures, toolVars, endVars>>

Clock ==
  /\ now < MaxTime /\ now' = now + 1
  /\ UNCHANGED <<processVars, workerVars, parentVars>>

Mark ==
  /\ Running("client") /\ worker.acked /\ worker.phase < Phases
  /\ worker.phase = LoadPhase => load.finish > 0
  /\ worker' = [phase |-> worker.phase + 1, acked |-> FALSE]
  /\ UNCHANGED <<now, processVars, load, report, parentVars>>

Acknowledged ==
  /\ Running("client") /\ ~worker.acked /\ ack = worker.phase
  /\ worker' = [worker EXCEPT !.acked = TRUE]
  /\ UNCHANGED <<now, processVars, load, report, parentVars>>

RunLoad ==
  /\ Running("client") /\ worker.acked /\ worker.phase = LoadPhase
  /\ \/ load.start = 0 /\ load' = [load EXCEPT !.start = now]
     \/ load.start > 0 /\ load.finish = 0 /\ load' = [load EXCEPT !.finish = now]
  /\ UNCHANGED <<now, processVars, worker, report, parentVars>>

\* The worker ends after its last phase, or at any time with an error, such as
\* an acknowledgement that timed out: it saves its report and exits with 1.
EndWorker ==
  /\ Running("client")
  /\ \/ worker.acked /\ worker.phase = Phases /\ report' = "ok" /\ UNCHANGED crashed
     \/ report' = "failed" /\ crashed' = crashed \cup {"client"}
  /\ proc' = [proc EXCEPT !["client"] = "exiting"]
  /\ UNCHANGED <<now, worker, load, parentVars>>

Crash(r) ==
  /\ Running(r)
  /\ proc' = [proc EXCEPT ![r] = "exiting"] /\ crashed' = crashed \cup {r}
  /\ UNCHANGED <<now, workerVars, parentVars>>

Exit(r) ==
  /\ proc[r] = "exiting" /\ proc' = [proc EXCEPT ![r] = "exited"]
  /\ UNCHANGED <<now, crashed, workerVars, parentVars>>

\* A profiler that ends by itself before the cleanup; its end may be a failure.
ToolEnds ==
  /\ tool = "running" /\ tool' \in {"ok", "failed"} /\ toolEnd' = now
  /\ UNCHANGED <<now, processVars, workerVars, ack, pc, purpose, samplerVars, failures, session, endVars>>

-----------------------------------------------------------------------------
(* monitor_client.                                                          *)

childVars == <<now, processVars, workerVars>>

Return(reasons) == pc' = "cleanup" /\ failures' = failures \cup reasons

\* What the loop looks at before anything else.
PollClient ==
  /\ pc = "poll"
  /\ \/ proc["client"] = "exited" /\ pc' = "last" /\ UNCHANGED failures
     \/ proc["client"] # "exited" /\ Return({"deadline"})
     \/ proc["client"] # "exited" /\ proc["server"] = "exited" /\ Return({"server exited"})
     \/ proc["client"] # "exited" /\ proc["server"] # "exited" /\ pc' = "marker" /\ UNCHANGED failures
  /\ UNCHANGED <<childVars, ack, purpose, samplerVars, toolVars, endVars>>

StartSamples(why) ==
  /\ purpose' = why /\ pc' = "probe" /\ todo' = <<"server", "client">>
  /\ UNCHANGED <<childVars, ack, probe, observed, samples, taken, peaks, phases, excuse,
                 failures, toolVars, endVars>>

NewMarker == worker.phase = Len(phases) + 1

CheckMarker ==
  \/ pc = "marker" /\ NewMarker /\ StartSamples("mark")
  \/ pc = "last" /\ NewMarker /\ StartSamples("last mark")
  \/ /\ pc \in {"marker", "last"} /\ ~NewMarker
     /\ pc' = IF pc = "marker" THEN "tick" ELSE "last checks"
     /\ UNCHANGED <<childVars, ack, purpose, samplerVars, failures, toolVars, endVars>>

\* sampler.sample, when its interval has passed.
SampleInterval ==
  \/ pc = "interval" /\ StartSamples("sample")
  \/ /\ pc = "interval" /\ pc' = "poll"
     /\ UNCHANGED <<childVars, ack, purpose, samplerVars, failures, toolVars, endVars>>

\* The server is looked at once more after the client has ended.  Faulty: not.
ChecksOfClient == IF "client" \in crashed THEN {"client code"} ELSE {}
Checks ==
  ChecksOfClient \cup (IF proc["server"] = "exited" THEN {"server exited"} ELSE {})

LastChecks ==
  /\ pc = "last checks" /\ Return(Checks)
  /\ UNCHANGED <<childVars, ack, purpose, samplerVars, toolVars, endVars>>

-----------------------------------------------------------------------------
(* ProcessResourceProbe.sample for the first role that is left.             *)

Probed(r, rss, terminated) ==
  /\ observed' = [observed EXCEPT ![r] = [rss |-> rss, terminated |-> terminated]]
  /\ todo' = Tail(todo)
  /\ pc' = IF Len(todo) = 1 THEN "record" ELSE "probe"
  /\ UNCHANGED <<childVars, ack, purpose, probe, samples, taken, peaks, phases, failures,
                 toolVars, endVars>>

\* The memory of a live process, or an error other than that it has exited.
ReadRss ==
  /\ pc = "probe" /\ probe[Head(todo)] = "attached" /\ Running(Head(todo))
  /\ \/ \E rss \in {Low, High} : Probed(Head(todo), rss, FALSE) /\ UNCHANGED excuse
     \/ Probed(Head(todo), None, FALSE) /\ excuse' = excuse \cup {"denied"}

\* NoSuchProcess, or an RSS of zero: the process seems to have exited.
SeemsExited ==
  /\ pc = "probe"
  /\ (probe[Head(todo)] = "gone" \/ ~Running(Head(todo)))
  /\ pc' = "confirm"
  /\ UNCHANGED <<childVars, ack, purpose, samplerVars, failures, toolVars, endVars>>

\* confirm_termination: the return code is there, or comes within the time
\* allowed for it, or does not.  Faulty: an exit is only looked up, not waited for.
ConfirmNow ==
  /\ pc = "confirm"
  /\ IF proc[Head(todo)] = "exited"
     THEN Probed(Head(todo), None, TRUE) /\ UNCHANGED excuse
     ELSE Probed(Head(todo), None, FALSE) /\ UNCHANGED excuse

ConfirmTermination ==
  /\ pc = "confirm"
  /\ \/ proc[Head(todo)] = "exited" /\ Probed(Head(todo), None, TRUE) /\ UNCHANGED excuse
     \/ /\ proc[Head(todo)] # "exited" /\ Probed(Head(todo), None, FALSE)
        /\ excuse' = excuse \cup {"not in time"}

-----------------------------------------------------------------------------
(* LifecycleResourceSampler.sample and mark, once both roles are probed.    *)

Least(a, b) == IF a < b THEN a ELSE b
Greatest(a, b) == IF a > b THEN a ELSE b

\* Reaching the cap is a failure; the peaks go on.
SampleFailures ==
  (IF samples + 2 > MaxSamples THEN {"cap"} ELSE {})
    \cup (IF \E r \in Role : observed[r].rss = High THEN {"ceiling"} ELSE {})
    \cup (IF \E r \in Role : observed[r].rss = None /\ ~observed[r].terminated
          THEN {"no rss"} ELSE {})

Measured == {r \in Role : observed[r].rss # None}

\* The acknowledgement is written although the samples may have failed.
RecordSamples ==
  /\ pc = "record"
  /\ samples' = Least(samples + 2, MaxSamples) /\ taken' = taken + 2
  /\ peaks' = [r \in Role |-> Greatest(peaks[r], observed[r].rss)]
  /\ IF purpose = "sample" THEN UNCHANGED <<phases, ack>>
     ELSE phases' = Append(phases, Measured) /\ ack' = Len(phases) + 1
  /\ failures' = failures \cup SampleFailures
  /\ pc' = CASE purpose = "last mark" -> "last checks"
             [] SampleFailures # {} -> "cleanup"
             [] purpose = "mark" -> "tick"
             [] OTHER -> "poll"
  /\ observed' = [r \in Role |-> Unobserved]
  /\ UNCHANGED <<childVars, purpose, todo, probe, excuse, toolVars, endVars>>

-----------------------------------------------------------------------------
(* The profiler session.                                                    *)

InLoadPhase == Len(phases) = LoadPhase
Ended == tool \in {"ok", "failed"}
Polled(s) == [s EXCEPT !.finished = IF Ended /\ @ = 0 THEN now ELSE @]

Due == tool = "none" /\ session.seen > 0 /\ now >= session.seen + AttachDelay

Tick ==
  /\ pc = "tick"
  /\ LET seen == [session EXCEPT !.seen = IF InLoadPhase /\ @ = 0 THEN now ELSE @]
     IN \/ /\ Due /\ ~InLoadPhase /\ session' = seen
           /\ Return({"attach too late"}) /\ UNCHANGED tool
        \/ /\ Due /\ InLoadPhase /\ session' = [seen EXCEPT !.started = now]
           /\ tool' = "running" /\ pc' = "interval" /\ UNCHANGED failures
        \/ /\ ~Due /\ session' = Polled(seen) /\ UNCHANGED tool
           /\ IF tool = "failed" THEN Return({"profiler code"})
              ELSE pc' = "interval" /\ UNCHANGED failures
  /\ UNCHANGED <<childVars, ack, purpose, samplerVars, toolEnd, endVars>>

\* before_cleanup, and the reaping of all processes.
Cleanup ==
  /\ pc = "cleanup" /\ pc' = "finalize"
  /\ session' = [Polled(session) EXCEPT !.interrupted = (tool = "running")]
  /\ proc' = [r \in Role |-> "exited"]
  /\ IF tool = "running" THEN tool' = "failed" /\ toolEnd' = now ELSE UNCHANGED <<tool, toolEnd>>
  /\ UNCHANGED <<now, crashed, workerVars, ack, purpose, samplerVars, failures, endVars>>

\* min and max over the two intervals.
Overlap(first, last) ==
  Greatest(0, Least(load.finish, last) - Greatest(load.start, first))

\* _qualify: the whole invocation lies inside the load.  Faulty: some of it does.
Overlaps(first, last) == Overlap(first, last) > 0
Inside(first, last) == load.start <= first /\ last <= load.finish

\* perf's own samples are timestamped; sample's are not.
Timestamped(first, last) ==
  Profiler = "sample" \/ (first > 0 /\ Inside(first, last))

Bounds == 0 < load.start /\ load.start < load.finish /\ report = "ok"
Invocation == 0 < session.started /\ session.started < session.finished

\* finalize: first and last are the timestamps of perf's samples, and good says
\* whether the artifacts could be read and decoded.
Finalized(first, last, good) ==
  LET problems ==
        (IF tool = "ok" /\ ~session.interrupted THEN {} ELSE {"profiler unfinished"})
          \cup (IF good /\ Bounds /\ Invocation THEN {} ELSE {"invalid profile"})
      qualified == Inside(session.started, session.finished) /\ Timestamped(first, last)
  IN [status |-> IF problems = {} THEN "ok" ELSE "failed", problems |-> problems,
      started |-> session.started, finished |-> session.finished,
      first |-> first, last |-> last,
      overlap |-> Overlap(session.started, session.finished),
      outside |-> session.finished - session.started - Overlap(session.started, session.finished),
      qualified |-> problems = {} /\ qualified]

FinalizeReceipt ==
  /\ pc = "finalize" /\ pc' = "done"
  /\ session' = Polled(session)
  /\ \E first, last \in 0 .. toolEnd, good \in BOOLEAN :
       /\ (first = 0 /\ last = 0) \/ (session.started > 0 /\ session.started <= first /\ first <= last)
       /\ LET profile == Finalized(first, last, good)
              all == failures \cup profile.problems
                       \cup (IF report = "ok" THEN {} ELSE {"client report"})
          IN /\ payload' = profile /\ failures' = all
             /\ receipt' = IF all = {} THEN "ok" ELSE "failed"
  /\ UNCHANGED <<childVars, ack, purpose, samplerVars, tool, toolEnd>>

-----------------------------------------------------------------------------
Child ==
  \/ Mark \/ Acknowledged \/ RunLoad \/ EndWorker
  \/ \E r \in Role : Crash(r) \/ Exit(r)

Parent ==
  \/ PollClient \/ CheckMarker \/ SampleInterval \/ LastChecks
  \/ ReadRss \/ SeemsExited \/ ConfirmTermination \/ RecordSamples
  \/ Tick \/ Cleanup \/ FinalizeReceipt

Next == (pc # "done" /\ (Clock \/ Child \/ ToolEnds)) \/ Parent

Spec == Init /\ [][Next]_vars

-----------------------------------------------------------------------------
(* inspect_profile_evidence: what the classification of the saved report     *)
(* requires of the payload of an ok receipt.                                 *)

VerifiedProfile ==
  /\ payload.status = "ok"
  /\ Bounds
  /\ 0 < payload.started /\ payload.started < payload.finished
  /\ payload.overlap = Overlap(payload.started, payload.finished)
  /\ payload.outside = payload.finished - payload.started - payload.overlap
  /\ payload.qualified =
       (Inside(payload.started, payload.finished) /\ Timestamped(payload.first, payload.last))

TypeOK ==
  /\ now \in Nat
  /\ proc \in [Role -> {"live", "exiting", "exited"}] /\ crashed \subseteq Role
  /\ worker \in [phase : Nat, acked : BOOLEAN]
  /\ load \in [start : Nat, finish : Nat]
  /\ report \in {"none", "ok", "failed"} /\ ack \in Nat
  /\ pc \in {"poll", "marker", "probe", "confirm", "record", "tick", "interval", "last",
             "last checks", "cleanup", "finalize", "done"}
  /\ purpose \in {"sample", "mark", "last mark"} /\ todo \in Seq(Role)
  /\ probe \in [Role -> {"attached", "gone"}]
  /\ observed \in [Role -> [rss : {None, Low, High}, terminated : BOOLEAN]]
  /\ samples \in Nat /\ taken \in Nat
  /\ peaks \in [Role -> {None, Low, High}] /\ phases \in Seq(SUBSET Role)
  /\ session \in [seen : Nat, started : Nat, finished : Nat, interrupted : BOOLEAN]
  /\ tool \in {"none", "running", "ok", "failed"} /\ toolEnd \in Nat
  /\ receipt \in {"none", "ok", "failed"}

\* An ok receipt has the memory of both processes at every phase, its series is
\* complete, and no sample, recorded or not, was above the ceiling: a process
\* that exits while it is probed, the cap of the series and a phase that is
\* marked after the client has ended all fail the case in time.
OkSeriesIsMeasured ==
  receipt = "ok" =>
    /\ Len(phases) = Phases
    /\ \A i \in 1 .. Phases : phases[i] = Role
    /\ samples = taken
    /\ \A r \in Role : peaks[r] = Low

\* confirm_termination: the sampler reports a missing RSS only for a probe that
\* was denied or an exit that was not confirmed in time, never for an exit that
\* merely came between two looks at the process.
ExitIsNotFailure == "no rss" \in failures => excuse # {}

\* An ok receipt's profile passes the later inspection, and one that is said to
\* be qualified has all of the profiler's run inside the load, whenever the
\* supervisor looked.
ProfileClaimsHold ==
  receipt = "ok" =>
    /\ VerifiedProfile
    /\ payload.qualified => load.start <= session.started /\ toolEnd <= load.finish
=============================================================================
