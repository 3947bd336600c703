---------------------------- MODULE LifecycleCase ----------------------------
(***************************************************************************)
(* One isolated streaming-lifecycle case: the parent coroutine             *)
(* run_lifecycle_case of isolation/lifecycle.py, the client process running *)
(* streaming/lifecycle_worker.py, the server process, and the optional      *)
(* native profiler.  The parent and the client share three files, each      *)
(* replaced atomically: marker.json (written by the client), ack.json       *)
(* (written by the parent) and client.json (the client's report).           *)
(*                                                                          *)
(* Wall-clock limits are abstract: a limit may pass at any moment that the   *)
(* code looks at it.  The numbered phases 1 .. LastPhase stand for the names *)
(* the worker marks, in the order _run_sync and _run_async mark them.        *)
(***************************************************************************)
EXTENDS Naturals, Sequences

CONSTANTS
  Batches,     \* config.batches
  PostGc,      \* config.post_gc
  Async,       \* case.mode = "async"
  WithProfiler,\* config.attribution.profiler is a sample- or perf- profiler
  MayRefuse,   \* roles whose group killpg may refuse to signal (PermissionError)
  Forking,     \* roles whose group may hold a descendant of its leader
  MaxCancels   \* bound on the cancellations requested of the parent task

Roles == {"server", "client", "profiler"}

ASSUME CaseAssumption ==
  /\ Batches \in Nat \ {0}
  /\ PostGc \in BOOLEAN
  /\ Async \in BOOLEAN
  /\ WithProfiler \in BOOLEAN
  /\ MayRefuse \subseteq Roles
  /\ Forking \subseteq Roles
  /\ MaxCancels \in Nat

\* before_load, post_warmup, then batch_k_start and post_batch_k for every
\* batch, then controls_start and before_client_close.
BatchOneStart == 3
LastLoadPhase == 4 + 2 * Batches

AfterClientClose == LastLoadPhase + 1
PostGcPhase == LastLoadPhase + 2
LastPhase == IF PostGc THEN PostGcPhase ELSE AfterClientClose
Phases == 1 .. PostGcPhase

\* post_warmup and post_batch_k end a batch; with before_client_close, which
\* ends the controls, they are reached only with the server's answers.
EndsBatch(p) == p % 2 = 0 /\ p < LastLoadPhase
NeedsServer(p) == p % 2 = 0 /\ p <= LastLoadPhase

VARIABLES
  ppc,        \* where the parent coroutine is
  sequence,   \* monitor_client's local sequence
  sampled,    \* sampler.phases: the phases the parent has sampled
  expired,    \* the case deadline has passed
  failures,   \* the failures list
  pending,    \* the exception in flight
  cancelled,  \* finish_cleanup's local cancelled
  cancels,    \* cancellations requested of the parent task so far
  reapFailed, \* reap_processes has collected a failure
  profile,    \* the profiler session: "none", or the state of its attachment
  receipt,    \* receipt["status"] once written
  outcome,    \* how run_lifecycle_case ended
  marker,     \* marker.json
  ack,        \* ack.json
  report,     \* client.json
  wpc,        \* where the worker is
  listed,     \* worker.phases: the phases the worker holds acknowledged
  raised,     \* an exception has left the worker's load
  leader,     \* the leader of each owned process group
  descendant, \* the other members of each group
  lostServer  \* the server died by itself while the client was running

parentVars == <<ppc, sequence, sampled, failures, pending, cancelled, cancels,
                reapFailed, profile, receipt, outcome>>
workerVars == <<marker, report, wpc, listed, raised>>
groupVars == <<leader, descendant>>
vars == <<parentVars, expired, ack, workerVars, groupVars, lostServer>>

Monitoring == {"poll", "marker", "ack", "tick", "sample", "sleep", "lastMarker",
               "lastAck", "last"}
Cleaning == {"term", "termWait", "kill", "killWait", "reap", "reaped"}
ParentPc == {"launchServer", "awaitServer", "launchClient", "openProfile",
             "cleanup", "finalize", "done"} \cup Monitoring \cup Cleaning
Reasons == {"deadline", "serverExit", "sampler", "reapRequest", "clientExit",
            "error", "cancelled", "cleanup", "report", "missing", "profile"}
WorkerPc == {"boot", "work", "await", "closing", "gc", "draining", "record",
             "finish", "exit"}
LeaderState == {"absent", "running", "dying", "exit0", "exit1"}
Exited == {"exit0", "exit1"}

TypeOK ==
  /\ ppc \in ParentPc
  /\ sequence \in Nat
  /\ sampled \in Seq(Phases)
  /\ expired \in BOOLEAN
  /\ failures \subseteq Reasons
  /\ pending \in {"none", "error", "cancelled", "cleanup"}
  /\ cancelled \in BOOLEAN
  /\ cancels \in 0 .. MaxCancels
  /\ reapFailed \in BOOLEAN
  /\ profile \in {"none", "open", "seen", "attached", "interrupted", "finished"}
  /\ receipt \in {"none", "ok", "failed"}
  /\ outcome \in {"none", "returned", "cancelled"}
  /\ marker \in [seq : Nat, phase : Phases]
  /\ ack \in Nat
  /\ report \in [status : {"missing", "failed", "ok"}, errors : BOOLEAN, force : BOOLEAN]
  /\ wpc \in WorkerPc
  /\ listed \in Seq(Phases)
  /\ raised \in BOOLEAN
  /\ leader \in [Roles -> LeaderState]
  /\ descendant \in [Roles -> {"none", "live", "dying"}]
  /\ lostServer \in BOOLEAN

Init ==
  /\ ppc = "launchServer"
  /\ sequence = 0
  /\ sampled = <<>>
  /\ expired = FALSE
  /\ failures = {}
  /\ pending = "none"
  /\ cancelled = FALSE
  /\ cancels = 0
  /\ reapFailed = FALSE
  /\ profile = "none"
  /\ receipt = "none"
  /\ outcome = "none"
  /\ marker = [seq |-> 0, phase |-> 1]
  /\ ack = 0
  /\ report = [status |-> "missing", errors |-> FALSE, force |-> FALSE]
  /\ wpc = "boot"
  /\ listed = <<>>
  /\ raised = FALSE
  /\ leader = [r \in Roles |-> "absent"]
  /\ descendant = [r \in Roles |-> "none"]
  /\ lostServer = FALSE

(***************************************************************************)
(* The parent, up to the end of monitor_client.                             *)
(***************************************************************************)
\* An exception leaves the try block: cleanup is next.
RaiseError ==
  /\ pending' = "error"
  /\ ppc' = "cleanup"

Launch(r) ==
  /\ leader' = [leader EXCEPT ![r] = "running"]
  /\ \E d \in {"none", "live"} :
        /\ d = "live" => r \in Forking
        /\ descendant' = [descendant EXCEPT ![r] = d]

LaunchFails ==
  /\ RaiseError
  /\ UNCHANGED groupVars

LaunchServer ==
  /\ ppc = "launchServer"
  /\ \/ /\ Launch("server")
        /\ ppc' = "awaitServer"
        /\ UNCHANGED pending
     \/ LaunchFails
  /\ UNCHANGED <<sequence, sampled, failures, cancelled, cancels, reapFailed, profile,
                 receipt, outcome, expired, ack, workerVars, lostServer>>

\* The server answers readiness, or it exits, a sample fails or the startup
\* deadline passes.
AwaitServer ==
  /\ ppc = "awaitServer"
  /\ \/ /\ leader["server"] = "running"
        /\ ppc' = "launchClient"
        /\ UNCHANGED pending
     \/ RaiseError
  /\ UNCHANGED <<sequence, sampled, failures, cancelled, cancels, reapFailed, profile,
                 receipt, outcome, expired, ack, workerVars, groupVars, lostServer>>

LaunchClient ==
  /\ ppc = "launchClient"
  /\ \/ /\ Launch("client")
        /\ ppc' = IF WithProfiler THEN "openProfile" ELSE "poll"
        /\ UNCHANGED pending
     \/ LaunchFails
  /\ UNCHANGED <<sequence, sampled, failures, cancelled, cancels, reapFailed, profile,
                 receipt, outcome, expired, ack, workerVars, lostServer>>

\* The session's constructor rejects an unsupported host or existing output.
OpenProfile ==
  /\ ppc = "openProfile"
  /\ \/ /\ profile' = "open"
        /\ ppc' = "poll"
        /\ UNCHANGED pending
     \/ /\ RaiseError
        /\ UNCHANGED profile
  /\ UNCHANGED <<sequence, sampled, failures, cancelled, cancels, reapFailed,
                 receipt, outcome, expired, ack, workerVars, groupVars, lostServer>>

\* monitor_client returns its failures.
StopMonitoring(reasons) ==
  /\ failures' = failures \cup reasons
  /\ ppc' = "cleanup"

\* Faulty variant: the deadline is not looked at.
PollClientForever ==
  /\ ppc = "poll"
  /\ IF leader["client"] \in Exited
     THEN ppc' = "lastMarker" /\ UNCHANGED failures
     ELSE IF leader["server"] \in Exited THEN StopMonitoring({"serverExit"})
     ELSE ppc' = "marker" /\ UNCHANGED failures
  /\ UNCHANGED <<sequence, sampled, pending, cancelled, cancels, reapFailed, profile,
                 receipt, outcome, expired, ack, workerVars, groupVars, lostServer>>

\* The head of the monitoring loop: client, deadline, server, in that order.
PollClient ==
  /\ ppc = "poll"
  /\ IF leader["client"] \in Exited
     THEN ppc' = "lastMarker" /\ UNCHANGED failures
     ELSE IF expired THEN StopMonitoring({"deadline"})
     ELSE IF leader["server"] \in Exited THEN StopMonitoring({"serverExit"})
     ELSE ppc' = "marker" /\ UNCHANGED failures
  /\ UNCHANGED <<sequence, sampled, pending, cancelled, cancels, reapFailed, profile,
                 receipt, outcome, expired, ack, workerVars, groupVars, lostServer>>

\* check_marker up to the sampling of the phase it read.
ReadMarker ==
  /\ ppc \in {"marker", "lastMarker"}
  /\ \/ /\ marker.seq = sequence
        /\ ppc' = IF ppc = "marker" THEN "tick" ELSE "last"
        /\ UNCHANGED <<sampled, pending>>
     \/ /\ marker.seq = sequence + 1
        /\ sampled' = Append(sampled, marker.phase)
        /\ ppc' = IF ppc = "marker" THEN "ack" ELSE "lastAck"
        /\ UNCHANGED pending
     \/ /\ marker.seq \notin {sequence, sequence + 1}
        /\ RaiseError
        /\ UNCHANGED sampled
  /\ UNCHANGED <<sequence, failures, cancelled, cancels, reapFailed, profile, receipt,
                 outcome, expired, ack, workerVars, groupVars, lostServer>>

\* The rest of check_marker: the acknowledgement is written even when the
\* sample of the phase has failed.
WriteAck ==
  /\ ppc \in {"ack", "lastAck"}
  /\ sequence' = sequence + 1
  /\ ack' = sequence + 1
  /\ \/ /\ ppc' = IF ppc = "ack" THEN "tick" ELSE "last"
        /\ UNCHANGED failures
     \/ /\ failures' = failures \cup {"sampler"}
        /\ ppc' = IF ppc = "ack" THEN "cleanup" ELSE "last"
  /\ UNCHANGED <<sampled, pending, cancelled, cancels, reapFailed, profile, receipt,
                 outcome, expired, workerVars, groupVars, lostServer>>

\* tick_native_profile: attach once the first batch has been running for the
\* attach delay; too late an attach, one the system refuses, and a profiler that
\* failed are errors.
CurrentPhase == IF sampled = <<>> THEN 0 ELSE sampled[Len(sampled)]

ProfilerFailed == profile = "attached" /\ leader["profiler"] = "exit1"

TickNativeProfile ==
  /\ ppc = "tick"
  /\ \/ /\ ~ ProfilerFailed
        /\ profile' = IF profile = "open" /\ CurrentPhase = BatchOneStart THEN "seen" ELSE profile
        /\ ppc' = "sample"
        /\ UNCHANGED <<pending, groupVars>>
     \/ /\ profile = "seen" /\ CurrentPhase = BatchOneStart
        /\ profile' = "attached"
        /\ Launch("profiler")
        /\ ppc' = "sample"
        /\ UNCHANGED pending
     \/ /\ profile = "seen" \/ ProfilerFailed
        /\ RaiseError
        /\ UNCHANGED <<profile, groupVars>>
  /\ UNCHANGED <<sequence, sampled, failures, cancelled, cancels, reapFailed, receipt,
                 outcome, expired, ack, workerVars, lostServer>>

\* A sample that is due first looks for the client's request to be reaped, in a
\* report that may be too large to be read.
Sample ==
  /\ ppc = "sample"
  /\ \/ ppc' = "sleep" /\ UNCHANGED <<failures, pending>>
     \/ ~ report.force /\ StopMonitoring({"sampler"}) /\ UNCHANGED pending
     \/ report.force /\ StopMonitoring({"reapRequest"}) /\ UNCHANGED pending
     \/ report.status # "missing" /\ RaiseError /\ UNCHANGED failures
  /\ UNCHANGED <<sequence, sampled, cancelled, cancels, reapFailed, profile,
                 receipt, outcome, expired, ack, workerVars, groupVars, lostServer>>

Wake ==
  /\ ppc = "sleep"
  /\ ppc' = "poll"
  /\ UNCHANGED <<sequence, sampled, failures, pending, cancelled, cancels, reapFailed,
                 profile, receipt, outcome, expired, ack, workerVars, groupVars, lostServer>>

\* Faulty variant: the server is not looked at once the client has left.
LastChecksOfClient ==
  /\ ppc = "last"
  /\ StopMonitoring(IF leader["client"] = "exit1" THEN {"clientExit"} ELSE {})
  /\ UNCHANGED <<sequence, sampled, pending, cancelled, cancels, reapFailed, profile,
                 receipt, outcome, expired, ack, workerVars, groupVars, lostServer>>

\* After the loop: the server must still be there and the client have left with 0.
LastChecks ==
  /\ ppc = "last"
  /\ StopMonitoring((IF leader["server"] \in Exited THEN {"serverExit"} ELSE {})
                    \cup (IF leader["client"] = "exit1" THEN {"clientExit"} ELSE {}))
  /\ UNCHANGED <<sequence, sampled, pending, cancelled, cancels, reapFailed, profile,
                 receipt, outcome, expired, ack, workerVars, groupVars, lostServer>>

(***************************************************************************)
(* Cleanup: reap_processes runs in a task of its own, shielded by           *)
(* finish_cleanup from cancellations of the parent task.                    *)
(***************************************************************************)
\* The list processes handed to finish_cleanup: what was launched, the
\* profiler included.
Owned == {r \in Roles : leader[r] # "absent"}

Cleanup ==
  /\ ppc = "cleanup"
  /\ profile' = IF profile = "attached"
                THEN IF leader["profiler"] \in Exited THEN "finished" ELSE "interrupted"
                ELSE profile
  /\ ppc' = "term"
  /\ UNCHANGED <<sequence, sampled, failures, pending, cancelled, cancels, reapFailed,
                 receipt, outcome, expired, ack, workerVars, groupVars, lostServer>>

\* The groups killpg refuses to signal.
Refusals == SUBSET (Owned \cap MayRefuse)

\* A refusal is a failure unless the group is verified to be quiescent.
LiveGroup(r) == leader[r] \in {"running", "dying"} \/ descendant[r] = "live"

SignalFails(refused) ==
  IF \E r \in refused : LiveGroup(r) THEN {TRUE}
  ELSE IF refused = {} THEN {FALSE} ELSE BOOLEAN

\* SIGTERM: the members that do not ignore it end.
TerminateGroups ==
  /\ ppc = "term"
  /\ \E refused \in Refusals :
     \E enduring \in SUBSET {r \in Owned : leader[r] = "running"},
        staying \in SUBSET {r \in Owned : descendant[r] # "none"} :
        /\ leader' = [r \in Roles |->
             IF r \in Owned \ (refused \cup enduring) /\ leader[r] = "running"
             THEN "exit1" ELSE leader[r]]
        /\ descendant' = [r \in Roles |->
             IF r \in Owned \ (refused \cup staying) THEN "none" ELSE descendant[r]]
        /\ reapFailed' \in SignalFails(refused)
  /\ ppc' = "termWait"
  /\ UNCHANGED <<sequence, sampled, failures, pending, cancelled, cancels, profile,
                 receipt, outcome, expired, ack, workerVars, lostServer>>

\* Every leader has exited, or config.settle_timeout_s is over.
EndTermWait ==
  /\ ppc = "termWait"
  /\ ppc' = "kill"
  /\ UNCHANGED <<sequence, sampled, failures, pending, cancelled, cancels, reapFailed,
                 profile, receipt, outcome, expired, ack, workerVars, groupVars, lostServer>>

\* Faulty variant: a group whose leader has exited is taken to be gone.
KillRunningGroups ==
  /\ ppc = "kill"
  /\ \E refused \in Refusals :
        /\ leader' = [r \in Roles |->
             IF r \in Owned \ refused /\ leader[r] = "running" THEN "dying" ELSE leader[r]]
        /\ descendant' = [r \in Roles |->
             IF r \in Owned \ refused /\ leader[r] = "running" /\ descendant[r] = "live"
             THEN "dying" ELSE descendant[r]]
        /\ \E failed \in SignalFails(refused) : reapFailed' = (reapFailed \/ failed)
  /\ ppc' = "killWait"
  /\ UNCHANGED <<sequence, sampled, failures, pending, cancelled, cancels, profile,
                 receipt, outcome, expired, ack, workerVars, lostServer>>

\* SIGKILL goes to every group, those whose leader has exited included.
KillGroups ==
  /\ ppc = "kill"
  /\ \E refused \in Refusals :
        /\ leader' = [r \in Roles |->
             IF r \in Owned \ refused /\ leader[r] = "running" THEN "dying" ELSE leader[r]]
        /\ descendant' = [r \in Roles |->
             IF r \in Owned \ refused /\ descendant[r] = "live" THEN "dying" ELSE descendant[r]]
        /\ \E failed \in SignalFails(refused) : reapFailed' = (reapFailed \/ failed)
  /\ ppc' = "killWait"
  /\ UNCHANGED <<sequence, sampled, failures, pending, cancelled, cancels, profile,
                 receipt, outcome, expired, ack, workerVars, lostServer>>

EndKillWait ==
  /\ ppc = "killWait"
  /\ ppc' = "reap"
  /\ UNCHANGED <<sequence, sampled, failures, pending, cancelled, cancels, reapFailed,
                 profile, receipt, outcome, expired, ack, workerVars, groupVars, lostServer>>

\* wait_owned_child: a leader still there is killed once more, then given up.
WaitOwnedChildren ==
  /\ ppc = "reap"
  /\ \E refused \in Refusals :
     \E gone \in SUBSET {r \in Owned : leader[r] \in {"running", "dying"}} :
        /\ leader' = [r \in Roles |->
             IF r \in Owned /\ leader[r] \in {"running", "dying"}
             THEN IF r \in refused THEN leader[r] ELSE IF r \in gone THEN "exit1" ELSE "dying"
             ELSE leader[r]]
        /\ reapFailed' = (reapFailed \/ \E r \in Owned : leader'[r] \notin Exited)
  /\ ppc' = "reaped"
  /\ UNCHANGED <<sequence, sampled, failures, pending, cancelled, cancels, profile,
                 receipt, outcome, expired, ack, workerVars, descendant, lostServer>>

\* Faulty variant: the cancellation received meanwhile is forgotten.
FinishCleanupForgetting ==
  /\ ppc = "reaped"
  /\ pending' = IF reapFailed THEN "cleanup" ELSE pending
  /\ ppc' = "finalize"
  /\ UNCHANGED <<sequence, sampled, failures, cancelled, cancels, reapFailed, profile,
                 receipt, outcome, expired, ack, workerVars, groupVars, lostServer>>

\* cleanup.result() raises the failures of reap_processes, in place of any
\* exception in flight; otherwise a cancellation received meanwhile is raised.
FinishCleanup ==
  /\ ppc = "reaped"
  /\ pending' = IF reapFailed THEN "cleanup"
                ELSE IF cancelled THEN "cancelled" ELSE pending
  /\ ppc' = "finalize"
  /\ UNCHANGED <<sequence, sampled, failures, cancelled, cancels, reapFailed, profile,
                 receipt, outcome, expired, ack, workerVars, groupVars, lostServer>>

\* The handlers of run_lifecycle_case record the exception in flight.
HandledFailures == failures \cup ({pending} \ {"none"})

ReportFailures ==
  IF report.status = "missing"
  THEN IF leader["client"] # "absent" /\ HandledFailures = {} THEN {"missing"} ELSE {}
  ELSE IF report.status # "ok" \/ report.errors THEN {"report"} ELSE {}

\* Faulty variant: a profiler that never finished is not a failure.
ProfileFailuresOfFinished ==
  IF profile # "finished" THEN {{}}
  ELSE IF leader["profiler"] = "exit0" THEN {{}, {"profile"}}
  ELSE {{"profile"}}

\* The profiler must have finished by itself, with exit code 0, and left a
\* readable profile of the case's one batch.
ProfileFailures ==
  IF profile = "none" THEN {{}}
  ELSE IF profile = "finished" /\ leader["profiler"] = "exit0" THEN {{}, {"profile"}}
  ELSE {{"profile"}}

\* The handlers, then finalize_receipt, then the return or the re-raise.
FinalizeReceipt ==
  /\ ppc = "finalize"
  /\ \E found \in ProfileFailures :
        failures' = HandledFailures \cup ReportFailures \cup found
  /\ receipt' = IF failures' = {} THEN "ok" ELSE "failed"
  /\ outcome' = IF pending = "cancelled" THEN "cancelled" ELSE "returned"
  /\ ppc' = "done"
  /\ UNCHANGED <<sequence, sampled, pending, cancelled, cancels, reapFailed, profile,
                 expired, ack, workerVars, groupVars, lostServer>>

\* A cancellation of the parent task is delivered where the coroutine awaits.
Cancel ==
  /\ cancels < MaxCancels
  /\ cancels' = cancels + 1
  /\ \/ /\ ppc \in {"awaitServer", "sleep"}
        /\ pending' = "cancelled"
        /\ ppc' = "cleanup"
        /\ UNCHANGED cancelled
     \/ /\ ppc \in {"term", "termWait", "killWait", "reaped"}
        /\ cancelled' = TRUE
        /\ UNCHANGED <<pending, ppc>>
  /\ UNCHANGED <<sequence, sampled, failures, reapFailed, profile, receipt, outcome,
                 expired, ack, workerVars, groupVars, lostServer>>

Parent ==
  \/ LaunchServer \/ AwaitServer \/ LaunchClient \/ OpenProfile \/ PollClient
  \/ ReadMarker \/ WriteAck \/ TickNativeProfile \/ Sample \/ Wake \/ LastChecks
  \/ Cleanup \/ TerminateGroups \/ EndTermWait \/ KillGroups \/ EndKillWait
  \/ WaitOwnedChildren \/ FinishCleanup \/ FinalizeReceipt

(***************************************************************************)
(* The client process.  Its report client.json is saved at every phase and  *)
(* error, so report.errors is also worker.errors # [], and the phases saved  *)
(* are those of listed.  A worker acts only while its process runs.          *)
(***************************************************************************)
Running == leader["client"] = "running"

NextPhase == Len(listed) + 1

Save(status, errors, force) ==
  report' = [status |-> status, errors |-> errors, force |-> force]

\* record_error: the error is appended and the report saved.
RecordError == Save("failed", TRUE, report.force)

\* Validation, provenance and the construction of the adapter.
StartWorker ==
  /\ Running
  /\ wpc = "boot"
  /\ wpc' \in {"work", "record"}
  /\ UNCHANGED <<parentVars, expired, ack, marker, report, listed, raised, groupVars, lostServer>>

\* A stream of the batch, or the server's health check after it, has failed.
RecordBatchError ==
  /\ Running
  /\ wpc = "work" /\ EndsBatch(NextPhase)
  /\ RecordError
  /\ UNCHANGED <<parentVars, expired, ack, marker, wpc, listed, raised, groupVars, lostServer>>

\* Faulty variant: the number follows the last marker, acknowledged or not.
WriteNextMarker(phase) ==
  /\ marker' = [seq |-> marker.seq + 1, phase |-> phase]
  /\ wpc' = "await"

\* The first half of _Worker.mark: marker.json is replaced.
WriteMarker(phase) ==
  /\ marker' = [seq |-> Len(listed) + 1, phase |-> phase]
  /\ wpc' = "await"

MarkLoad ==
  /\ Running
  /\ wpc = "work"
  /\ NeedsServer(NextPhase) => leader["server"] = "running"
  /\ WriteMarker(NextPhase)
  /\ UNCHANGED <<parentVars, expired, ack, report, listed, raised, groupVars, lostServer>>

\* The load, a settlement or a control raises.
RaiseInLoad ==
  /\ Running
  /\ wpc = "work"
  /\ raised' = TRUE
  /\ wpc' = "closing"
  /\ UNCHANGED <<parentVars, expired, ack, marker, report, listed, groupVars, lostServer>>

\* UnsettledWorkers: the adapter stays open and the parent is asked to reap.
RaiseUnsettled ==
  /\ Running
  /\ Async
  /\ wpc = "work" /\ NextPhase = LastLoadPhase
  /\ raised' = TRUE
  /\ Save("failed", TRUE, TRUE)
  /\ wpc' = "draining"
  /\ UNCHANGED <<parentVars, expired, ack, marker, listed, groupVars, lostServer>>

\* asyncio.run ends only when the unsettled tasks do, if they ever do.
Drain ==
  /\ Running
  /\ wpc = "draining"
  /\ wpc' = "record"
  /\ UNCHANGED <<parentVars, expired, ack, marker, report, listed, raised, groupVars, lostServer>>

\* Where the worker goes on once the phase it marked is acknowledged.
AfterPhase(phase) ==
  IF phase < LastLoadPhase THEN "work"
  ELSE IF phase = LastLoadPhase THEN "closing"
  ELSE IF raised THEN "record"
  ELSE IF phase < LastPhase THEN "gc" ELSE "finish"

\* Faulty variant: any acknowledgement will do.
AcknowledgedByAny ==
  /\ Running
  /\ wpc = "await"
  /\ ack # 0
  /\ listed' = Append(listed, marker.phase)
  /\ Save("failed", report.errors, report.force)
  /\ wpc' = AfterPhase(marker.phase)
  /\ UNCHANGED <<parentVars, expired, ack, marker, raised, groupVars, lostServer>>

\* The second half of _Worker.mark: ack.json holds the marked sequence.
Acknowledged ==
  /\ Running
  /\ wpc = "await"
  /\ ack = marker.seq
  /\ listed' = Append(listed, marker.phase)
  /\ Save("failed", report.errors, report.force)
  /\ wpc' = AfterPhase(marker.phase)
  /\ UNCHANGED <<parentVars, expired, ack, marker, raised, groupVars, lostServer>>

\* The settle timeout passes first; the acknowledgement may still have come
\* between the last look at ack.json and the look at the clock.
AckTimeout ==
  /\ Running
  /\ wpc = "await"
  /\ raised' = TRUE
  /\ wpc' = IF marker.phase <= LastLoadPhase THEN "closing" ELSE "record"
  /\ UNCHANGED <<parentVars, expired, ack, marker, report, listed, groupVars, lostServer>>

\* adapter.close() and observe_closed, on the way out of the load.
CloseAdapter ==
  /\ Running
  /\ wpc = "closing"
  /\ \/ WriteMarker(AfterClientClose) /\ UNCHANGED raised
     \/ wpc' = "record" /\ raised' = TRUE /\ UNCHANGED marker
  /\ UNCHANGED <<parentVars, expired, ack, report, listed, groupVars, lostServer>>

CollectGarbage ==
  /\ Running
  /\ wpc = "gc"
  /\ WriteMarker(PostGcPhase)
  /\ UNCHANGED <<parentVars, expired, ack, report, listed, raised, groupVars, lostServer>>

\* The provenance check, the final status and the last save.
FinishWorker ==
  /\ Running
  /\ wpc = "finish"
  /\ \/ /\ Save(IF report.errors THEN "failed" ELSE "ok", report.errors, report.force)
        /\ wpc' = "exit"
     \/ /\ wpc' = "record"
        /\ UNCHANGED report
  /\ UNCHANGED <<parentVars, expired, ack, marker, listed, raised, groupVars, lostServer>>

\* The handler of run_lifecycle_worker: record_error("worker") and a save.
RecordWorkerError ==
  /\ Running
  /\ wpc = "record"
  /\ RecordError
  /\ wpc' = "exit"
  /\ UNCHANGED <<parentVars, expired, ack, marker, listed, raised, groupVars, lostServer>>

\* main: exit code 1 unless the status is ok.
ExitWorker ==
  /\ Running
  /\ wpc = "exit"
  /\ leader' = [leader EXCEPT !["client"] = IF report.status = "ok" THEN "exit0" ELSE "exit1"]
  /\ UNCHANGED <<parentVars, expired, ack, workerVars, descendant, lostServer>>

Worker ==
  \/ StartWorker \/ RecordBatchError \/ MarkLoad \/ RaiseInLoad \/ RaiseUnsettled
  \/ Drain \/ Acknowledged \/ AckTimeout \/ CloseAdapter \/ CollectGarbage
  \/ FinishWorker \/ RecordWorkerError \/ ExitWorker

(***************************************************************************)
(* What the operating system does by itself.                                *)
(***************************************************************************)
\* A process ends by a fault of its own; the profiler also by finishing.
Crash(r) ==
  /\ leader[r] = "running"
  /\ \E code \in IF r = "profiler" THEN Exited ELSE {"exit1"} :
        leader' = [leader EXCEPT ![r] = code]
  /\ lostServer' = (lostServer \/ (r = "server" /\ leader["client"] = "running"))
  /\ UNCHANGED <<parentVars, expired, ack, workerVars, descendant>>

\* A killed process is gone some time after the signal.
Vanish(r) ==
  /\ leader[r] = "dying" \/ descendant[r] = "dying"
  /\ leader' = [leader EXCEPT ![r] = IF @ = "dying" THEN "exit1" ELSE @]
  /\ descendant' = [descendant EXCEPT ![r] = IF @ = "dying" THEN "none" ELSE @]
  /\ UNCHANGED <<parentVars, expired, ack, workerVars, lostServer>>

Expire ==
  /\ ~ expired /\ ppc # "done"
  /\ expired' = TRUE
  /\ UNCHANGED <<parentVars, ack, workerVars, groupVars, lostServer>>

Done ==
  /\ ppc = "done"
  /\ UNCHANGED vars

Next ==
  \/ Parent \/ Cancel \/ Worker
  \/ \E r \in Roles : Crash(r) \/ Vanish(r)
  \/ Expire \/ Done

Spec == Init /\ [][Next]_vars

\* The event loop keeps running the parent and its cleanup task, and time
\* passes.  Nothing is assumed of the client, the server or the signals.
FairSpec == Spec /\ WF_vars(Parent) /\ WF_vars(Expire)

(***************************************************************************)
(* Properties.                                                              *)
(***************************************************************************)
Plan == [i \in 1 .. LastPhase |-> i]

\* The marker and acknowledgement files implement the phase barrier: every phase
\* the worker lists as acknowledged is the one the parent sampled under that
\* number, until an exception has left the worker's load.  (An acknowledgement
\* that arrives after the settle timeout is taken for the closing phase's, which
\* bears the same number.)
Barrier == INSTANCE PhaseBarrier WITH Phase <- Phases, broken <- raised

ImplementsPhaseBarrier == Barrier!Spec

\* check_marker never finds a marker out of order: whatever timeouts and late
\* acknowledgements do, the worker's numbering follows the parent's.
MarkersInOrder ==
  ppc \in {"marker", "lastMarker"} => marker.seq \in {sequence, sequence + 1}

\* A receipt whose status is ok stands for a whole measurement: every phase of
\* the plan was sampled by the parent and acknowledged to the worker, the
\* worker recorded no error, the server was there as long as the client was,
\* and nothing cancelled the parent.
OkReceiptIsWhole ==
  receipt = "ok" =>
     /\ sampled = Plan /\ listed = Plan
     /\ report.status = "ok" /\ ~ report.errors /\ ~ raised
     /\ leader["client"] = "exit0"
     /\ ~ lostServer
     /\ cancels = 0

\* A profiled case is ok only if the profiler was attached while the first
\* batch was the sampled phase, and ended by itself before the cleanup.
OkReceiptIsProfiled ==
  WithProfiler /\ receipt = "ok" => profile = "finished" /\ leader["profiler"] = "exit0"

\* When run_lifecycle_case ends, every leader it launched is reaped and no
\* member of its groups survives the kill, or the receipt says cleanup failed.
NoSurvivors ==
  ppc = "done" /\ "cleanup" \notin failures =>
     \A r \in Roles :
        /\ leader[r] \in Exited \cup {"absent"}
        /\ descendant[r] # "live"

\* A cancellation of the parent is re-raised after the cleanup, unless the
\* cleanup itself fails.
CancellationSurvivesCleanup ==
  ppc = "done" /\ cancels > 0 /\ "cleanup" \notin failures => outcome = "cancelled"

\* docs/application-execution.md: application errors and cancellation propagate
\* to the caller.
CancellationPropagates ==
  ppc = "done" /\ cancels > 0 => outcome = "cancelled"

\* Whatever the processes do or fail to do, the case ends with a receipt.
CaseEnds == <>(ppc = "done" /\ receipt # "none")

=============================================================================
