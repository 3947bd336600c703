----------------------- MODULE CaseObservationProofs -----------------------
(***************************************************************************)
(* Proofs about CaseObservation, for any number of phases, any cap of the   *)
(* series, either profiler and any attach delay.                            *)
(***************************************************************************)
EXTENDS CaseObservation, TLAPS

(***************************************************************************)
(* The inductive invariant, in named parts.                                 *)
(***************************************************************************)
Sampling == {"probe", "confirm", "record"}
AfterMonitor == {"cleanup", "finalize", "done"}
Sessions == [seen : Nat, started : Nat, finished : Nat, interrupted : BOOLEAN]

\* The types of TypeOK, in parts.
Kinds ==
  /\ proc \in [Role -> {"live", "exiting", "exited"}] /\ crashed \subseteq Role
  /\ worker \in [phase : Nat, acked : BOOLEAN]
  /\ report \in {"none", "ok", "failed"} /\ ack \in Nat
  /\ pc \in {"poll", "marker", "probe", "confirm", "record", "tick", "interval", "last",
             "last checks", "cleanup", "finalize", "done"}
  /\ purpose \in {"sample", "mark", "last mark"}
  /\ tool \in {"none", "running", "ok", "failed"}
  /\ receipt \in {"none", "ok", "failed"}

Measures ==
  /\ probe \in [Role -> {"attached", "gone"}]
  /\ observed \in [Role -> [rss : {None, Low, High}, terminated : BOOLEAN]]
  /\ samples \in Nat /\ taken \in Nat
  /\ peaks \in [Role -> {None, Low, High}]

Times ==
  /\ now \in Nat /\ load \in [start : Nat, finish : Nat]
  /\ toolEnd \in Nat /\ session \in Sessions

Series == phases \in Seq(SUBSET Role)

\* What is left to probe, and what a missing RSS stands for.
Probing ==
  /\ todo \in {<<>>, <<"client">>, <<"server", "client">>}
  /\ pc \in {"probe", "confirm"} => todo # <<>>
  /\ pc = "record" => todo = <<>>
  /\ \A r \in Role : observed[r].terminated => proc[r] = "exited"
  /\ pc \in Sampling =>
       /\ todo = <<>> /\ observed["client"].rss = None /\ ~observed["client"].terminated
            => excuse # {}
       /\ todo # <<"server", "client">> /\ observed["server"].rss = None
            /\ ~observed["server"].terminated => excuse # {}
  /\ "no rss" \in failures => excuse # {}

\* The phases the worker marks and those the parent records.
Handshake ==
  /\ ack = Len(phases)
  /\ Len(phases) <= worker.phase /\ worker.phase <= Len(phases) + 1
  /\ worker.acked => Len(phases) = worker.phase
  /\ pc \in Sampling /\ purpose \in {"mark", "last mark"} => worker.phase = Len(phases) + 1
  /\ report # "none" => proc["client"] # "live"
  /\ report = "ok" => worker.phase = Phases /\ worker.acked

\* A phase without the memory of a process belongs to a case that will fail.
Recorded ==
  /\ failures = {} => \A i \in 1 .. Len(phases) :
       /\ "client" \notin phases[i] => report # "ok" /\ proc["client"] # "live"
       /\ "server" \notin phases[i] => pc \notin AfterMonitor /\ proc["server"] = "exited"
  /\ \A i \in 1 .. Len(phases), r \in Role : r \in phases[i] => peaks[r] # None

\* A case without a failure so far has a whole series and no high peak.
Whole == failures = {} => samples = taken /\ \A r \in Role : peaks[r] # High

\* The end of the profiler, and when it was seen.
Profiled ==
  /\ toolEnd <= now
  /\ session.finished > 0 => Ended /\ toolEnd <= session.finished

\* What a receipt stands for.
Receipt ==
  /\ receipt # "none" => pc = "done"
  /\ receipt = "ok" => failures = {} /\ report = "ok" /\ ProfileClaimsHold

Inv == /\ Kinds /\ Measures /\ Times /\ Series /\ Probing /\ Handshake /\ Recorded /\ Whole
       /\ Profiled /\ Receipt

\* Names of sets, numbers and tuples that every proof below may expand.
USE DEF Role, LoadPhase, None, Low, High, Sampling, AfterMonitor, Unobserved, childVars, parentVars,
        processVars, workerVars, samplerVars, toolVars, endVars

(***************************************************************************)
(* Every part is preserved by every step.                                   *)
(***************************************************************************)
\* A step of the clock, of a process, of the profiler or of the parent, or a stutter.
LEMMA StepCases ==
  ASSUME [Next]_vars
  PROVE  \/ pc # "done" /\ (Clock \/ ToolEnds \/ Mark \/ Acknowledged \/ RunLoad \/ EndWorker)
         \/ pc # "done" /\ \E r \in Role : Crash(r) \/ Exit(r)
         \/ PollClient \/ CheckMarker \/ SampleInterval \/ LastChecks
         \/ ReadRss \/ SeemsExited \/ ConfirmTermination \/ RecordSamples
         \/ Tick \/ Cleanup \/ FinalizeReceipt
         \/ UNCHANGED vars
  BY DEF Next, Child, Parent

\* The two roles are probed in this order.
LEMMA HeadFacts ==
  /\ Head(<<"client">>) = "client" /\ Tail(<<"client">>) = <<>> /\ Len(<<"client">>) = 1
  /\ Head(<<"server", "client">>) = "server" /\ Tail(<<"server", "client">>) = <<"client">>
  /\ Len(<<"server", "client">>) = 2
  /\ <<>> # <<"client">> /\ <<>> # <<"server", "client">> /\ <<"client">> # <<"server", "client">>
  OBVIOUS

\* Looking at the profiler records when it was seen to have ended.
LEMMA PolledFacts ==
  ASSUME Times, NEW s \in Sessions
  PROVE  /\ Polled(s) \in Sessions
         /\ s.finished > 0 \/ ~Ended => Polled(s) = s
         /\ Ended /\ s.finished = 0 => Polled(s).finished = now
         /\ Polled(s).started = s.started
  BY DEF Polled, Sessions, Times

\* What a probe of the next role that comes to a result does.
ProbeEnds ==
  /\ pc \in {"probe", "confirm"}
  /\ \E rss \in {None, Low, High}, terminated \in BOOLEAN :
       /\ observed' = [observed EXCEPT ![Head(todo)] = [rss |-> rss, terminated |-> terminated]]
       /\ terminated => proc[Head(todo)] = "exited"
       /\ rss = None /\ ~terminated => excuse' # {}
  /\ todo' = Tail(todo) /\ pc' = IF Len(todo) = 1 THEN "record" ELSE "probe"
  /\ excuse \subseteq excuse'
  /\ UNCHANGED <<childVars, ack, purpose, probe, samples, taken, peaks, phases, failures,
                 toolVars, endVars>>

\* A probe records what it read of the role that is next, and goes on to the other.
LEMMA ProbeFacts == ReadRss \/ ConfirmTermination => ProbeEnds
<1>1. ASSUME NEW rss \in {Low, High}, pc = "probe", Probed(Head(todo), rss, FALSE),
             UNCHANGED excuse
      PROVE  ProbeEnds
  <2>1. rss \in {None, Low, High} /\ rss # None
    OBVIOUS
  <2>2. /\ observed' = [observed EXCEPT ![Head(todo)] = [rss |-> rss, terminated |-> FALSE]]
        /\ todo' = Tail(todo) /\ pc' = IF Len(todo) = 1 THEN "record" ELSE "probe"
        /\ UNCHANGED <<childVars, ack, purpose, probe, samples, taken, peaks, phases, failures,
                       toolVars, endVars>>
    BY <1>1 DEF Probed
  <2> QED
    BY <1>1, <2>1, <2>2, Zenon DEF ProbeEnds
<1>2. ASSUME pc = "probe", Probed(Head(todo), None, FALSE), excuse' = excuse \cup {"denied"}
      PROVE  ProbeEnds
  BY <1>2 DEF Probed, ProbeEnds
<1>3. ConfirmTermination => ProbeEnds
  BY DEF ConfirmTermination, Probed, ProbeEnds
<1> QED
  BY <1>1, <1>2, <1>3 DEF ReadRss

\* What the sampler does with two observations.
LEMMA RecordFacts ==
  ASSUME RecordSamples
  PROVE  /\ pc = "record" /\ pc' \in {"last checks", "cleanup", "tick", "poll"}
         /\ samples' = Least(samples + 2, MaxSamples) /\ taken' = taken + 2
         /\ peaks' = [r \in Role |-> Greatest(peaks[r], observed[r].rss)]
         /\ purpose = "sample" => UNCHANGED <<phases, ack>>
         /\ purpose # "sample" => phases' = Append(phases, Measured) /\ ack' = Len(phases) + 1
         /\ failures' = failures \cup SampleFailures
         /\ pc' = "cleanup" => SampleFailures # {}
         /\ observed' = [r \in Role |-> Unobserved]
         /\ UNCHANGED <<childVars, purpose, todo, probe, excuse, toolVars, endVars>>
  BY DEF RecordSamples

\* A recorded phase is put behind those there are.
LEMMA AppendFacts ==
  ASSUME Series
  PROVE  /\ Append(phases, Measured) \in Seq(SUBSET Role)
         /\ Len(phases) \in Nat /\ Len(Append(phases, Measured)) = Len(phases) + 1
         /\ \A i \in 1 .. Len(phases) : Append(phases, Measured)[i] = phases[i]
         /\ Append(phases, Measured)[Len(phases) + 1] = Measured
<1>1. Measured \in SUBSET Role
  BY DEF Measured
<1> QED
  BY <1>1 DEF Series

\* What a look at the profiler can change.
LEMMA TickFacts ==
  ASSUME Tick, Times
  PROVE  /\ pc = "tick" /\ pc' \in {"cleanup", "interval"}
         /\ failures \subseteq failures'
         /\ failures' \subseteq failures \cup {"attach too late", "profiler code"}
         /\ pc' = "cleanup" => failures' # {}
         /\ UNCHANGED <<childVars, ack, purpose, samplerVars, toolEnd, endVars>>
         /\ \E seen \in {session, [session EXCEPT !.seen = now]} :
              \/ session' = seen /\ UNCHANGED tool /\ tool = "none"
              \/ session' = [seen EXCEPT !.started = now] /\ tool = "none" /\ tool' = "running"
              \/ session' = Polled(seen) /\ UNCHANGED tool
<1> DEFINE seen == [session EXCEPT !.seen = IF InLoadPhase /\ @ = 0 THEN now ELSE @]
<1>1. seen \in {session, [session EXCEPT !.seen = now]}
  BY DEF Times, Sessions
<1>2. /\ pc = "tick" /\ pc' \in {"cleanup", "interval"}
      /\ failures \subseteq failures'
      /\ failures' \subseteq failures \cup {"attach too late", "profiler code"}
      /\ pc' = "cleanup" => failures' # {}
      /\ UNCHANGED <<childVars, ack, purpose, samplerVars, toolEnd, endVars>>
  BY DEF Tick, Return
<1>3. \/ session' = seen /\ UNCHANGED tool /\ tool = "none"
      \/ session' = [seen EXCEPT !.started = now] /\ tool = "none" /\ tool' = "running"
      \/ session' = Polled(seen) /\ UNCHANGED tool
  BY DEF Tick, Due
<1> QED
  BY <1>1, <1>2, <1>3

\* The verdict only adds reasons of its own to those of the observation.
LEMMA FinalizeFacts ==
  ASSUME FinalizeReceipt
  PROVE  /\ pc = "finalize" /\ pc' = "done" /\ session' = Polled(session)
         /\ failures \subseteq failures'
         /\ failures' \subseteq
              failures \cup {"profiler unfinished", "invalid profile", "client report"}
         /\ receipt' \in {"ok", "failed"} /\ (receipt' = "ok" => failures' = {})
         /\ UNCHANGED <<childVars, ack, purpose, samplerVars, tool, toolEnd>>
<1>1. PICK first \in 0 .. toolEnd, last \in 0 .. toolEnd, good \in BOOLEAN :
        LET all == failures \cup Finalized(first, last, good).problems
                     \cup (IF report = "ok" THEN {} ELSE {"client report"})
        IN failures' = all /\ receipt' = IF all = {} THEN "ok" ELSE "failed"
  BY DEF FinalizeReceipt
<1>2. Finalized(first, last, good).problems \subseteq {"profiler unfinished", "invalid profile"}
  BY DEF Finalized
<1>3. /\ failures \subseteq failures'
      /\ failures' \subseteq failures \cup {"profiler unfinished", "invalid profile", "client report"}
      /\ receipt' \in {"ok", "failed"} /\ (receipt' = "ok" => failures' = {})
  BY <1>1, <1>2
<1> QED
  BY <1>3 DEF FinalizeReceipt

\* A finished probe leaves a reading of one of the three kinds.
LEMMA MeasuresKept == ASSUME Inv, ProbeEnds PROVE Measures'
<1>1. Head(todo) \in Role
  BY HeadFacts DEF ProbeEnds, Inv, Probing
<1>2. PICK rss \in {None, Low, High}, terminated \in BOOLEAN :
        observed' = [observed EXCEPT ![Head(todo)] = [rss |-> rss, terminated |-> terminated]]
  BY DEF ProbeEnds
<1>3. observed' \in [Role -> [rss : {None, Low, High}, terminated : BOOLEAN]]
  BY <1>1, <1>2 DEF Inv, Measures
<1>4. UNCHANGED <<probe, samples, taken, peaks>>
  BY DEF ProbeEnds
<1> QED
  BY <1>3, <1>4 DEF Inv, Measures

\* A finished probe leaves a reading, a confirmed exit or an excuse for the role.
LEMMA ProbingKept == ASSUME Inv, ProbeEnds PROVE Probing'
<1>1. PICK rss \in {None, Low, High}, terminated \in BOOLEAN :
        /\ observed' = [observed EXCEPT ![Head(todo)] = [rss |-> rss, terminated |-> terminated]]
        /\ terminated => proc[Head(todo)] = "exited"
        /\ rss = None /\ ~terminated => excuse' # {}
  BY DEF ProbeEnds
<1>2. /\ todo' = Tail(todo) /\ pc' = IF Len(todo) = 1 THEN "record" ELSE "probe"
      /\ excuse \subseteq excuse' /\ UNCHANGED <<proc, failures>> /\ pc \in Sampling
  BY DEF ProbeEnds
<1>3. observed \in [Role -> [rss : {None, Low, High}, terminated : BOOLEAN]]
  BY DEF Inv, Measures
<1>4. CASE todo = <<"client">>
  <2>1. Head(todo) = "client" /\ todo' = <<>> /\ pc' = "record" /\ todo # <<"server", "client">>
    BY <1>2, <1>4, HeadFacts
  <2>2. observed'["client"] = [rss |-> rss, terminated |-> terminated]
        /\ observed'["server"] = observed["server"]
    BY <1>1, <1>3, <2>1
  <2>3. \A r \in Role : observed'[r].terminated => proc'[r] = "exited"
    <3>1. observed["server"].terminated => proc["server"] = "exited"
      BY DEF Inv, Probing
    <3>2. observed'["client"].terminated => proc["client"] = "exited"
      BY <1>1, <2>1, <2>2
    <3> QED
      BY <1>2, <2>2, <3>1, <3>2
  <2>4. observed'["client"].rss = None /\ ~observed'["client"].terminated => excuse' # {}
    BY <1>1, <2>2
  <2>5. observed'["server"].rss = None /\ ~observed'["server"].terminated => excuse' # {}
    BY <1>2, <2>1, <2>2 DEF Inv, Probing
  <2>6. "no rss" \in failures' => excuse' # {}
    BY <1>2 DEF Inv, Probing
  <2> QED
    BY <2>1, <2>3, <2>4, <2>5, <2>6 DEF Probing
<1>5. CASE todo = <<"server", "client">>
  <2>1. Head(todo) = "server" /\ todo' = <<"client">> /\ pc' = "probe"
        /\ <<"client">> # <<>> /\ <<"client">> # <<"server", "client">>
    BY <1>2, <1>5, HeadFacts
  <2>2. observed'["server"] = [rss |-> rss, terminated |-> terminated]
        /\ observed'["client"] = observed["client"]
    BY <1>1, <1>3, <2>1
  <2>3. \A r \in Role : observed'[r].terminated => proc'[r] = "exited"
    <3>1. observed["client"].terminated => proc["client"] = "exited"
      BY DEF Inv, Probing
    <3>2. observed'["server"].terminated => proc["server"] = "exited"
      BY <1>1, <2>1, <2>2
    <3> QED
      BY <1>2, <2>2, <3>1, <3>2
  <2>4. observed'["server"].rss = None /\ ~observed'["server"].terminated => excuse' # {}
    BY <1>1, <2>2
  <2>5. "no rss" \in failures' => excuse' # {}
    BY <1>2 DEF Inv, Probing
  <2> QED
    BY <2>1, <2>3, <2>4, <2>5 DEF Probing
<1> QED
  BY <1>4, <1>5 DEF ProbeEnds, Inv, Probing

\* Processes, worker, profiler and monitor_client keep to the types of what they assign.
LEMMA KindsStep == ASSUME Inv, [Next]_vars PROVE Kinds'
<1>1. CASE pc # "done" /\ Clock
  BY <1>1 DEF Inv, Kinds, Handshake, Clock
<1>2. CASE pc # "done" /\ ToolEnds
  BY <1>2 DEF Inv, Kinds, Handshake, ToolEnds
<1>3. CASE pc # "done" /\ Mark
  <2>1. worker.phase \in Nat /\ worker' = [phase |-> worker.phase + 1, acked |-> FALSE]
    BY <1>3 DEF Inv, Kinds, Mark
  <2>2. worker' \in [phase : Nat, acked : BOOLEAN]
    BY <2>1
  <2> QED
    BY <1>3, <2>2 DEF Inv, Kinds, Mark
<1>4. CASE pc # "done" /\ Acknowledged
  BY <1>4 DEF Inv, Kinds, Handshake, Acknowledged, Running
<1>5. CASE pc # "done" /\ RunLoad
  BY <1>5 DEF Inv, Kinds, Handshake, RunLoad, Running
<1>6. CASE pc # "done" /\ EndWorker
  BY <1>6 DEF Inv, Kinds, Handshake, EndWorker, Running
<1>7. ASSUME pc # "done", NEW r \in Role, Crash(r) PROVE Kinds'
  BY <1>7 DEF Inv, Kinds, Handshake, Crash, Running
<1>8. ASSUME pc # "done", NEW r \in Role, Exit(r) PROVE Kinds'
  BY <1>8 DEF Inv, Kinds, Handshake, Exit
<1>9. CASE PollClient
  BY <1>9 DEF Inv, Kinds, Handshake, PollClient, Return
<1>10. CASE CheckMarker
  BY <1>10 DEF Inv, Kinds, Handshake, CheckMarker, NewMarker, StartSamples
<1>11. CASE SampleInterval
  BY <1>11 DEF Inv, Kinds, Handshake, SampleInterval, StartSamples
<1>12. CASE LastChecks
  BY <1>12 DEF Inv, Kinds, Handshake, LastChecks, Return, Checks, ChecksOfClient
<1>13. CASE ReadRss
  BY <1>13, ProbeFacts, HeadFacts DEF Inv, Kinds, Handshake, ProbeEnds
<1>14. CASE SeemsExited
  BY <1>14 DEF Inv, Kinds, Handshake, SeemsExited, Running
<1>15. CASE ConfirmTermination
  BY <1>15, ProbeFacts, HeadFacts DEF Inv, Kinds, Handshake, ProbeEnds
<1>16. CASE RecordSamples
  BY <1>16, RecordFacts, AppendFacts DEF Inv, Kinds, Handshake
<1>17. CASE Tick
  BY <1>17, TickFacts DEF Inv, Kinds, Handshake
<1>18. CASE Cleanup
  BY <1>18 DEF Inv, Kinds, Handshake, Cleanup, Polled, Ended
<1>19. CASE FinalizeReceipt
  BY <1>19, FinalizeFacts DEF Inv, Kinds, Handshake
<1>20. CASE UNCHANGED vars
  BY <1>20 DEF Inv, Kinds, Handshake, vars
<1> QED
  BY <1>1, <1>2, <1>3, <1>4, <1>5, <1>6, <1>7, <1>8, <1>9, <1>10, <1>11, <1>12, <1>13,
     <1>14, <1>15, <1>16, <1>17, <1>18, <1>19, <1>20, StepCases

\* Probes yield one of three readings, and the series and its peaks keep their types.
LEMMA MeasuresStep == ASSUME Inv, [Next]_vars PROVE Measures'
<1>1. CASE pc # "done" /\ Clock
  BY <1>1 DEF Inv, Measures, Probing, Clock
<1>2. CASE pc # "done" /\ ToolEnds
  BY <1>2 DEF Inv, Measures, Probing, ToolEnds
<1>3. CASE pc # "done" /\ Mark
  BY <1>3 DEF Inv, Measures, Probing, Mark, Running
<1>4. CASE pc # "done" /\ Acknowledged
  BY <1>4 DEF Inv, Measures, Probing, Acknowledged, Running
<1>5. CASE pc # "done" /\ RunLoad
  BY <1>5 DEF Inv, Measures, Probing, RunLoad, Running
<1>6. CASE pc # "done" /\ EndWorker
  BY <1>6 DEF Inv, Measures, Probing, EndWorker, Running
<1>7. ASSUME pc # "done", NEW r \in Role, Crash(r) PROVE Measures'
  BY <1>7 DEF Inv, Measures, Probing, Crash, Running
<1>8. ASSUME pc # "done", NEW r \in Role, Exit(r) PROVE Measures'
  BY <1>8 DEF Inv, Measures, Probing, Exit
<1>9. CASE PollClient
  BY <1>9 DEF Inv, Measures, Probing, PollClient, Return
<1>10. CASE CheckMarker
  BY <1>10 DEF Inv, Measures, Probing, CheckMarker, NewMarker, StartSamples
<1>11. CASE SampleInterval
  BY <1>11 DEF Inv, Measures, Probing, SampleInterval, StartSamples
<1>12. CASE LastChecks
  BY <1>12 DEF Inv, Measures, Probing, LastChecks, Return, Checks, ChecksOfClient
<1>13. CASE ReadRss
  BY <1>13, ProbeFacts, MeasuresKept
<1>14. CASE SeemsExited
  BY <1>14 DEF Inv, Measures, Probing, SeemsExited, Running
<1>15. CASE ConfirmTermination
  BY <1>15, ProbeFacts, MeasuresKept
<1>16. CASE RecordSamples
  <2>1. samples \in Nat /\ taken \in Nat /\ MaxSamples \in Nat
    BY ObservationAssumption DEF Inv, Measures, ObservationAssumption
  <2>2. samples' = Least(samples + 2, MaxSamples) /\ taken' = taken + 2
    BY <1>16, RecordFacts
  <2>3. samples' \in Nat /\ taken' \in Nat
    BY <2>1, <2>2 DEF Least
  <2>4. Unobserved \in [rss : {None, Low, High}, terminated : BOOLEAN]
    OBVIOUS
  <2>5. observed' = [r \in Role |-> Unobserved] /\ UNCHANGED probe
    BY <1>16, RecordFacts
  <2>6. observed' \in [Role -> [rss : {None, Low, High}, terminated : BOOLEAN]]
    BY <2>4, <2>5, Zenon
  <2>7. peaks' \in [Role -> {None, Low, High}]
    <3>1. \A r \in Role : peaks[r] \in {None, Low, High} /\ observed[r].rss \in {None, Low, High}
      BY DEF Inv, Measures
    <3>2. \A r \in Role : Greatest(peaks[r], observed[r].rss) \in {None, Low, High}
      BY <3>1 DEF Greatest
    <3>3. peaks' = [r \in Role |-> Greatest(peaks[r], observed[r].rss)]
      BY <1>16, RecordFacts
    <3> QED
      BY <3>2, <3>3, Zenon
  <2> QED
    BY <2>3, <2>5, <2>6, <2>7 DEF Inv, Measures
<1>17. CASE Tick
  BY <1>17, TickFacts DEF Inv, Measures, Probing
<1>18. CASE Cleanup
  BY <1>18 DEF Inv, Measures, Probing, Cleanup, Polled, Ended
<1>19. CASE FinalizeReceipt
  BY <1>19, FinalizeFacts DEF Inv, Measures, Probing
<1>20. CASE UNCHANGED vars
  BY <1>20 DEF Inv, Measures, Probing, vars
<1> QED
  BY <1>1, <1>2, <1>3, <1>4, <1>5, <1>6, <1>7, <1>8, <1>9, <1>10, <1>11, <1>12, <1>13,
     <1>14, <1>15, <1>16, <1>17, <1>18, <1>19, <1>20, StepCases

\* Every time is a reading of the one clock.
LEMMA TimesStep == ASSUME Inv, [Next]_vars PROVE Times'
<1>1. CASE pc # "done" /\ Clock
  <2>1. now \in Nat /\ now' = now + 1
    BY <1>1 DEF Inv, Times, Clock
  <2> QED
    BY <1>1, <2>1 DEF Inv, Times, Clock
<1>2. CASE pc # "done" /\ ToolEnds
  BY <1>2 DEF Inv, Times, Kinds, ToolEnds
<1>3. CASE pc # "done" /\ Mark
  BY <1>3 DEF Inv, Times, Kinds, Mark, Running
<1>4. CASE pc # "done" /\ Acknowledged
  BY <1>4 DEF Inv, Times, Kinds, Acknowledged, Running
<1>5. CASE pc # "done" /\ RunLoad
  BY <1>5 DEF Inv, Times, Kinds, RunLoad, Running
<1>6. CASE pc # "done" /\ EndWorker
  BY <1>6 DEF Inv, Times, Kinds, EndWorker, Running
<1>7. ASSUME pc # "done", NEW r \in Role, Crash(r) PROVE Times'
  BY <1>7 DEF Inv, Times, Kinds, Crash, Running
<1>8. ASSUME pc # "done", NEW r \in Role, Exit(r) PROVE Times'
  BY <1>8 DEF Inv, Times, Kinds, Exit
<1>9. CASE PollClient
  BY <1>9 DEF Inv, Times, Kinds, PollClient, Return
<1>10. CASE CheckMarker
  BY <1>10 DEF Inv, Times, Kinds, CheckMarker, NewMarker, StartSamples
<1>11. CASE SampleInterval
  BY <1>11 DEF Inv, Times, Kinds, SampleInterval, StartSamples
<1>12. CASE LastChecks
  BY <1>12 DEF Inv, Times, Kinds, LastChecks, Return, Checks, ChecksOfClient
<1>13. CASE ReadRss
  BY <1>13, ProbeFacts, HeadFacts DEF Inv, Times, Kinds, ProbeEnds
<1>14. CASE SeemsExited
  BY <1>14 DEF Inv, Times, Kinds, SeemsExited, Running
<1>15. CASE ConfirmTermination
  BY <1>15, ProbeFacts, HeadFacts DEF Inv, Times, Kinds, ProbeEnds
<1>16. CASE RecordSamples
  BY <1>16, RecordFacts, AppendFacts DEF Inv, Times, Kinds
<1>17. CASE Tick
  <2> DEFINE seen == [session EXCEPT !.seen = IF InLoadPhase /\ @ = 0 THEN now ELSE @]
  <2>1. now \in Nat /\ session \in Sessions
    BY DEF Inv, Times
  <2>2. seen \in Sessions
    BY <2>1 DEF Sessions
  <2>3. [seen EXCEPT !.started = now] \in Sessions
    BY <2>1, <2>2 DEF Sessions
  <2>4. Polled(seen) \in Sessions
    BY <2>2, PolledFacts DEF Inv
  <2>5. session' \in Sessions
    BY <1>17, <2>2, <2>3, <2>4 DEF Tick
  <2> QED
    BY <1>17, <2>5 DEF Inv, Times, Tick
<1>18. CASE Cleanup
  <2>1. Polled(session) \in Sessions
    BY PolledFacts DEF Inv, Times
  <2>2. session' \in Sessions
    BY <1>18, <2>1 DEF Cleanup, Sessions
  <2>3. toolEnd' = now \/ toolEnd' = toolEnd
    BY <1>18 DEF Cleanup
  <2> QED
    BY <1>18, <2>2, <2>3 DEF Inv, Times, Cleanup
<1>19. CASE FinalizeReceipt
  <2>1. Polled(session) \in Sessions
    BY PolledFacts DEF Inv, Times
  <2> QED
    BY <1>19, <2>1 DEF Inv, Times, FinalizeReceipt
<1>20. CASE UNCHANGED vars
  BY <1>20 DEF Inv, Times, Kinds, vars
<1> QED
  BY <1>1, <1>2, <1>3, <1>4, <1>5, <1>6, <1>7, <1>8, <1>9, <1>10, <1>11, <1>12, <1>13,
     <1>14, <1>15, <1>16, <1>17, <1>18, <1>19, <1>20, StepCases

\* Every recorded phase has a set of roles.
LEMMA SeriesStep == ASSUME Inv, [Next]_vars PROVE Series'
<1>1. CASE pc # "done" /\ Clock
  BY <1>1 DEF Inv, Series, Probing, Clock
<1>2. CASE pc # "done" /\ ToolEnds
  BY <1>2 DEF Inv, Series, Probing, ToolEnds
<1>3. CASE pc # "done" /\ Mark
  BY <1>3 DEF Inv, Series, Probing, Mark, Running
<1>4. CASE pc # "done" /\ Acknowledged
  BY <1>4 DEF Inv, Series, Probing, Acknowledged, Running
<1>5. CASE pc # "done" /\ RunLoad
  BY <1>5 DEF Inv, Series, Probing, RunLoad, Running
<1>6. CASE pc # "done" /\ EndWorker
  BY <1>6 DEF Inv, Series, Probing, EndWorker, Running
<1>7. ASSUME pc # "done", NEW r \in Role, Crash(r) PROVE Series'
  BY <1>7 DEF Inv, Series, Probing, Crash, Running
<1>8. ASSUME pc # "done", NEW r \in Role, Exit(r) PROVE Series'
  BY <1>8 DEF Inv, Series, Probing, Exit
<1>9. CASE PollClient
  BY <1>9 DEF Inv, Series, Probing, PollClient, Return
<1>10. CASE CheckMarker
  BY <1>10 DEF Inv, Series, Probing, CheckMarker, NewMarker, StartSamples
<1>11. CASE SampleInterval
  BY <1>11 DEF Inv, Series, Probing, SampleInterval, StartSamples
<1>12. CASE LastChecks
  BY <1>12 DEF Inv, Series, Probing, LastChecks, Return, Checks, ChecksOfClient
<1>13. CASE ReadRss
  BY <1>13, ProbeFacts, HeadFacts DEF Inv, Series, Probing, ProbeEnds
<1>14. CASE SeemsExited
  BY <1>14 DEF Inv, Series, Probing, SeemsExited, Running
<1>15. CASE ConfirmTermination
  BY <1>15, ProbeFacts, HeadFacts DEF Inv, Series, Probing, ProbeEnds
<1>16. CASE RecordSamples
  BY <1>16, RecordFacts, AppendFacts DEF Inv, Series, Probing
<1>17. CASE Tick
  BY <1>17, TickFacts DEF Inv, Series, Probing
<1>18. CASE Cleanup
  BY <1>18 DEF Inv, Series, Probing, Cleanup, Polled, Ended
<1>19. CASE FinalizeReceipt
  BY <1>19, FinalizeFacts DEF Inv, Series, Probing
<1>20. CASE UNCHANGED vars
  BY <1>20 DEF Inv, Series, Probing, vars
<1> QED
  BY <1>1, <1>2, <1>3, <1>4, <1>5, <1>6, <1>7, <1>8, <1>9, <1>10, <1>11, <1>12, <1>13,
     <1>14, <1>15, <1>16, <1>17, <1>18, <1>19, <1>20, StepCases

\* One role is probed after the other, an exit is confirmed only once there is a return
\* code, and every other missing RSS has its excuse (confirm_termination).
LEMMA ProbingStep == ASSUME Inv, [Next]_vars PROVE Probing'
<1>1. CASE pc # "done" /\ Clock
  BY <1>1 DEF Inv, Probing, Kinds, Clock
<1>2. CASE pc # "done" /\ ToolEnds
  BY <1>2 DEF Inv, Probing, Kinds, ToolEnds
<1>3. CASE pc # "done" /\ Mark
  BY <1>3 DEF Inv, Probing, Kinds, Mark, Running
<1>4. CASE pc # "done" /\ Acknowledged
  BY <1>4 DEF Inv, Probing, Kinds, Acknowledged, Running
<1>5. CASE pc # "done" /\ RunLoad
  BY <1>5 DEF Inv, Probing, Kinds, RunLoad, Running
<1>6. CASE pc # "done" /\ EndWorker
  BY <1>6 DEF Inv, Probing, Kinds, EndWorker, Running
<1>7. ASSUME pc # "done", NEW r \in Role, Crash(r) PROVE Probing'
  BY <1>7 DEF Inv, Probing, Kinds, Crash, Running
<1>8. ASSUME pc # "done", NEW r \in Role, Exit(r) PROVE Probing'
  BY <1>8 DEF Inv, Probing, Kinds, Exit
<1>9. CASE PollClient
  BY <1>9 DEF Inv, Probing, Kinds, PollClient, Return
<1>10. CASE CheckMarker
  <2>1. CASE NewMarker /\ todo' = <<"server", "client">> /\ pc' = "probe"
    BY <1>10, <2>1, HeadFacts DEF Inv, Probing, CheckMarker, StartSamples
  <2>2. CASE UNCHANGED todo /\ pc' \in {"tick", "last checks"}
    BY <1>10, <2>2 DEF Inv, Probing, CheckMarker, StartSamples
  <2> QED
    BY <1>10, <2>1, <2>2 DEF CheckMarker, StartSamples
<1>11. CASE SampleInterval
  <2>1. CASE todo' = <<"server", "client">> /\ pc' = "probe"
    BY <1>11, <2>1, HeadFacts DEF Inv, Probing, SampleInterval, StartSamples
  <2>2. CASE UNCHANGED todo /\ pc' = "poll"
    BY <1>11, <2>2 DEF Inv, Probing, SampleInterval, StartSamples
  <2> QED
    BY <1>11, <2>1, <2>2 DEF SampleInterval, StartSamples
<1>12. CASE LastChecks
  BY <1>12 DEF Inv, Probing, Kinds, LastChecks, Return, Checks, ChecksOfClient
<1>13. CASE ReadRss
  BY <1>13, ProbeFacts, ProbingKept
<1>14. CASE SeemsExited
  BY <1>14 DEF Inv, Probing, Kinds, SeemsExited, Running
<1>15. CASE ConfirmTermination
  BY <1>15, ProbeFacts, ProbingKept
<1>16. CASE RecordSamples
  <2>1. /\ pc = "record" /\ pc' \notin {"probe", "confirm", "record"}
        /\ failures' = failures \cup SampleFailures /\ observed' = [r \in Role |-> Unobserved]
        /\ UNCHANGED <<proc, todo, excuse>>
    BY <1>16, RecordFacts
  <2>2. "no rss" \in SampleFailures => excuse # {}
    BY <2>1, HeadFacts DEF Inv, Probing, SampleFailures
  <2> QED
    BY <2>1, <2>2 DEF Inv, Probing
<1>17. CASE Tick
  BY <1>17, TickFacts DEF Inv, Probing, Kinds
<1>18. CASE Cleanup
  BY <1>18 DEF Inv, Probing, Kinds, Cleanup, Polled, Ended
<1>19. CASE FinalizeReceipt
  BY <1>19, FinalizeFacts DEF Inv, Probing, Kinds
<1>20. CASE UNCHANGED vars
  BY <1>20 DEF Inv, Probing, Kinds, vars
<1> QED
  BY <1>1, <1>2, <1>3, <1>4, <1>5, <1>6, <1>7, <1>8, <1>9, <1>10, <1>11, <1>12, <1>13,
     <1>14, <1>15, <1>16, <1>17, <1>18, <1>19, <1>20, StepCases

\* The worker marks a phase only after the last was recorded and acknowledged, and
\* reports ok only after its last phase.
LEMMA HandshakeStep == ASSUME Inv, [Next]_vars PROVE Handshake'
<1>1. CASE pc # "done" /\ Clock
  BY <1>1 DEF Inv, Handshake, Kinds, Clock
<1>2. CASE pc # "done" /\ ToolEnds
  BY <1>2 DEF Inv, Handshake, Kinds, ToolEnds
<1>3. CASE pc # "done" /\ Mark
  <2>1. worker.phase \in Nat /\ worker'.phase = worker.phase + 1 /\ worker'.acked = FALSE
    BY <1>3 DEF Inv, Kinds, Mark
  <2>2. worker.acked /\ worker.phase < Phases /\ proc["client"] = "live"
        /\ UNCHANGED <<phases, ack, pc, purpose, report, proc>>
    BY <1>3 DEF Mark, Running
  <2>3. Len(phases) \in Nat
    BY AppendFacts DEF Inv
  <2>4. /\ Len(phases) = worker.phase /\ ack = Len(phases) /\ report = "none"
        /\ ~(pc \in Sampling /\ purpose \in {"mark", "last mark"})
    <3>1. Len(phases) = worker.phase /\ ack = Len(phases)
      BY <2>2 DEF Inv, Handshake
    <3>2. report = "none"
      BY <2>2 DEF Inv, Kinds, Handshake
    <3>3. worker.phase # Len(phases) + 1
      BY <2>1, <3>1
    <3>4. ~(pc \in Sampling /\ purpose \in {"mark", "last mark"})
      BY <3>3 DEF Inv, Handshake
    <3> QED
      BY <3>1, <3>2, <3>4
  <2>5. Len(phases') = worker.phase /\ ack' = Len(phases') /\ report' = "none"
    BY <2>2, <2>4
  <2> QED
    <3>1. ack' = Len(phases') /\ report' # "ok" /\ ~(report' # "none") /\ ~worker'.acked
      BY <2>1, <2>2, <2>4, <2>5
    <3>2. Len(phases') <= worker'.phase /\ worker'.phase <= Len(phases') + 1
      BY <2>1, <2>5
    <3>3. ~(pc' \in Sampling /\ purpose' \in {"mark", "last mark"})
      BY <2>2, <2>4
    <3> QED
      BY <3>1, <3>2, <3>3 DEF Handshake
<1>4. CASE pc # "done" /\ Acknowledged
  BY <1>4 DEF Inv, Handshake, Kinds, Acknowledged, Running
<1>5. CASE pc # "done" /\ RunLoad
  BY <1>5 DEF Inv, Handshake, Kinds, RunLoad, Running
<1>6. CASE pc # "done" /\ EndWorker
  BY <1>6 DEF Inv, Handshake, Kinds, EndWorker, Running
<1>7. ASSUME pc # "done", NEW r \in Role, Crash(r) PROVE Handshake'
  BY <1>7 DEF Inv, Handshake, Kinds, Crash, Running
<1>8. ASSUME pc # "done", NEW r \in Role, Exit(r) PROVE Handshake'
  BY <1>8 DEF Inv, Handshake, Kinds, Exit
<1>9. CASE PollClient
  BY <1>9 DEF Inv, Handshake, Kinds, PollClient, Return
<1>10. CASE CheckMarker
  BY <1>10 DEF Inv, Handshake, Kinds, CheckMarker, NewMarker, StartSamples
<1>11. CASE SampleInterval
  BY <1>11 DEF Inv, Handshake, Kinds, SampleInterval, StartSamples
<1>12. CASE LastChecks
  BY <1>12 DEF Inv, Handshake, Kinds, LastChecks, Return, Checks, ChecksOfClient
<1>13. CASE ReadRss
  BY <1>13, ProbeFacts, HeadFacts DEF Inv, Handshake, Kinds, ProbeEnds
<1>14. CASE SeemsExited
  BY <1>14 DEF Inv, Handshake, Kinds, SeemsExited, Running
<1>15. CASE ConfirmTermination
  BY <1>15, ProbeFacts, HeadFacts DEF Inv, Handshake, Kinds, ProbeEnds
<1>16. CASE RecordSamples
  <2>1. pc = "record" /\ pc' \notin Sampling /\ UNCHANGED <<worker, proc, report>>
    BY <1>16, RecordFacts
  <2>2. CASE purpose = "sample"
    <3>1. UNCHANGED <<phases, ack>>
      BY <1>16, <2>2, RecordFacts
    <3> QED
      BY <2>1, <3>1 DEF Inv, Handshake
  <2>3. CASE purpose # "sample"
    <3>1. worker.phase = Len(phases) + 1
      BY <2>1, <2>3 DEF Inv, Kinds, Handshake
    <3>2. ack' = Len(phases) + 1 /\ Len(phases') = Len(phases) + 1 /\ Len(phases) \in Nat
      BY <1>16, <2>3, RecordFacts, AppendFacts DEF Inv
    <3>3. worker.phase # Len(phases)
      BY <3>1, <3>2
    <3>4. ~worker.acked /\ report # "ok"
      BY <3>3 DEF Inv, Handshake
    <3>5. report' # "none" => proc'["client"] # "live"
      BY <2>1 DEF Inv, Handshake
    <3>6. Len(phases') = worker'.phase /\ ack' = Len(phases') /\ worker'.phase \in Nat
      BY <2>1, <3>1, <3>2
    <3>7. ~worker'.acked /\ report' # "ok"
      BY <2>1, <3>4
    <3>8. Len(phases') <= worker'.phase /\ worker'.phase <= Len(phases') + 1
      BY <3>6
    <3> QED
      BY <2>1, <3>5, <3>6, <3>7, <3>8 DEF Handshake
  <2> QED
    BY <2>2, <2>3
<1>17. CASE Tick
  BY <1>17, TickFacts DEF Inv, Handshake, Kinds
<1>18. CASE Cleanup
  BY <1>18 DEF Inv, Handshake, Kinds, Cleanup, Polled, Ended
<1>19. CASE FinalizeReceipt
  BY <1>19, FinalizeFacts DEF Inv, Handshake, Kinds
<1>20. CASE UNCHANGED vars
  BY <1>20 DEF Inv, Handshake, Kinds, vars
<1> QED
  BY <1>1, <1>2, <1>3, <1>4, <1>5, <1>6, <1>7, <1>8, <1>9, <1>10, <1>11, <1>12, <1>13,
     <1>14, <1>15, <1>16, <1>17, <1>18, <1>19, <1>20, StepCases

\* A phase marked by a process that has gone since is recorded without its memory, and
\* the case then fails before its cleanup (LastChecks, PollClient).
LEMMA RecordedStep == ASSUME Inv, [Next]_vars PROVE Recorded'
<1>1. CASE pc # "done" /\ Clock
  BY <1>1 DEF Inv, Recorded, Clock
<1>2. CASE pc # "done" /\ ToolEnds
  BY <1>2 DEF Inv, Recorded, ToolEnds
<1>3. CASE pc # "done" /\ Mark
  BY <1>3 DEF Inv, Recorded, Mark, Running
<1>4. CASE pc # "done" /\ Acknowledged
  BY <1>4 DEF Inv, Recorded, Acknowledged, Running
<1>5. CASE pc # "done" /\ RunLoad
  BY <1>5 DEF Inv, Recorded, RunLoad, Running
<1>6. CASE pc # "done" /\ EndWorker
  BY <1>6 DEF Inv, Recorded, EndWorker, Running
<1>7. ASSUME pc # "done", NEW r \in Role, Crash(r) PROVE Recorded'
  BY <1>7 DEF Inv, Recorded, Crash, Running
<1>8. ASSUME pc # "done", NEW r \in Role, Exit(r) PROVE Recorded'
  BY <1>8 DEF Inv, Recorded, Exit
<1>9. CASE PollClient
  BY <1>9 DEF Inv, Recorded, PollClient, Return
<1>10. CASE CheckMarker
  BY <1>10 DEF Inv, Recorded, CheckMarker, NewMarker, StartSamples
<1>11. CASE SampleInterval
  BY <1>11 DEF Inv, Recorded, SampleInterval, StartSamples
<1>12. CASE LastChecks
  BY <1>12 DEF Inv, Recorded, LastChecks, Return, Checks, ChecksOfClient
<1>13. CASE ReadRss
  BY <1>13, ProbeFacts, HeadFacts DEF Inv, Recorded, ProbeEnds
<1>14. CASE SeemsExited
  BY <1>14 DEF Inv, Recorded, SeemsExited, Running
<1>15. CASE ConfirmTermination
  BY <1>15, ProbeFacts, HeadFacts DEF Inv, Recorded, ProbeEnds
<1>16. CASE RecordSamples
  <2>1. /\ pc = "record" /\ pc' \in {"last checks", "cleanup", "tick", "poll"}
        /\ failures' = failures \cup SampleFailures /\ (pc' = "cleanup" => SampleFailures # {})
        /\ UNCHANGED <<worker, proc, report>>
    BY <1>16, RecordFacts
  <2>2. \A r \in Role : peaks'[r] = Greatest(peaks[r], observed[r].rss)
                        /\ peaks[r] \in {None, Low, High} /\ observed[r].rss \in {None, Low, High}
    BY <1>16, RecordFacts DEF Inv, Measures
  <2>3. \A r \in Role : (peaks[r] # None \/ observed[r].rss # None) => peaks'[r] # None
    BY <2>2 DEF Greatest
  <2>4. CASE purpose = "sample"
    <3>1. UNCHANGED phases
      BY <1>16, <2>4, RecordFacts
    <3> QED
      BY <2>1, <2>3, <3>1 DEF Inv, Recorded
  <2>5. CASE purpose # "sample"
    <3> DEFINE n == Len(phases) + 1
    <3>1. /\ Len(phases) \in Nat /\ Len(phases') = n /\ phases'[n] = Measured
          /\ \A i \in 1 .. Len(phases) : phases'[i] = phases[i]
      BY <1>16, <2>5, RecordFacts, AppendFacts DEF Inv
    <3>2. report # "ok"
      <4>1. worker.phase = Len(phases) + 1
        BY <2>1, <2>5 DEF Inv, Kinds, Handshake
      <4> QED
        BY <3>1, <4>1 DEF Inv, Handshake
    <3>3. ASSUME failures' = {}, NEW r \in Role, r \notin Measured PROVE proc[r] = "exited"
      <4>1. observed[r].rss = None /\ observed[r].terminated
        BY <2>1, <3>3 DEF SampleFailures, Measured
      <4> QED
        BY <4>1 DEF Inv, Probing
    <3>4. ASSUME NEW i \in 1 .. n
          PROVE  /\ failures' = {} => /\ "client" \notin phases'[i] => proc["client"] # "live"
                                      /\ "server" \notin phases'[i] => proc["server"] = "exited"
                 /\ \A r \in Role : r \in phases'[i] => peaks'[r] # None
      <4>1. CASE i = n
        BY <2>3, <3>1, <3>3, <4>1 DEF Measured
      <4>2. CASE i \in 1 .. Len(phases)
        BY <2>1, <2>3, <3>1, <4>2 DEF Inv, Recorded
      <4> QED
        BY <3>1, <4>1, <4>2
    <3> QED
      BY <2>1, <3>1, <3>2, <3>4 DEF Recorded
  <2> QED
    BY <2>4, <2>5
<1>17. CASE Tick
  BY <1>17, TickFacts DEF Inv, Recorded
<1>18. CASE Cleanup
  BY <1>18 DEF Inv, Recorded, Cleanup, Polled, Ended
<1>19. CASE FinalizeReceipt
  BY <1>19, FinalizeFacts DEF Inv, Recorded
<1>20. CASE UNCHANGED vars
  BY <1>20 DEF Inv, Recorded, vars
<1> QED
  BY <1>1, <1>2, <1>3, <1>4, <1>5, <1>6, <1>7, <1>8, <1>9, <1>10, <1>11, <1>12, <1>13,
     <1>14, <1>15, <1>16, <1>17, <1>18, <1>19, <1>20, StepCases

\* The cap of the series and a reading above the ceiling fail the case when they occur.
LEMMA WholeStep == ASSUME Inv, [Next]_vars PROVE Whole'
<1>1. CASE pc # "done" /\ Clock
  BY <1>1 DEF Inv, Whole, Clock
<1>2. CASE pc # "done" /\ ToolEnds
  BY <1>2 DEF Inv, Whole, ToolEnds
<1>3. CASE pc # "done" /\ Mark
  BY <1>3 DEF Inv, Whole, Mark, Running
<1>4. CASE pc # "done" /\ Acknowledged
  BY <1>4 DEF Inv, Whole, Acknowledged, Running
<1>5. CASE pc # "done" /\ RunLoad
  BY <1>5 DEF Inv, Whole, RunLoad, Running
<1>6. CASE pc # "done" /\ EndWorker
  BY <1>6 DEF Inv, Whole, EndWorker, Running
<1>7. ASSUME pc # "done", NEW r \in Role, Crash(r) PROVE Whole'
  BY <1>7 DEF Inv, Whole, Crash, Running
<1>8. ASSUME pc # "done", NEW r \in Role, Exit(r) PROVE Whole'
  BY <1>8 DEF Inv, Whole, Exit
<1>9. CASE PollClient
  BY <1>9 DEF Inv, Whole, PollClient, Return
<1>10. CASE CheckMarker
  BY <1>10 DEF Inv, Whole, CheckMarker, NewMarker, StartSamples
<1>11. CASE SampleInterval
  BY <1>11 DEF Inv, Whole, SampleInterval, StartSamples
<1>12. CASE LastChecks
  BY <1>12 DEF Inv, Whole, LastChecks, Return, Checks, ChecksOfClient
<1>13. CASE ReadRss
  BY <1>13, ProbeFacts, HeadFacts DEF Inv, Whole, ProbeEnds
<1>14. CASE SeemsExited
  BY <1>14 DEF Inv, Whole, SeemsExited, Running
<1>15. CASE ConfirmTermination
  BY <1>15, ProbeFacts, HeadFacts DEF Inv, Whole, ProbeEnds
<1>16. CASE RecordSamples
  <2>1. /\ samples' = Least(samples + 2, MaxSamples) /\ taken' = taken + 2
        /\ failures' = failures \cup SampleFailures
        /\ \A r \in Role : peaks'[r] = Greatest(peaks[r], observed[r].rss)
    BY <1>16, RecordFacts
  <2>2. /\ samples \in Nat /\ taken \in Nat /\ MaxSamples \in Nat
        /\ \A r \in Role : peaks[r] \in {None, Low, High} /\ observed[r].rss \in {None, Low, High}
    BY ObservationAssumption DEF Inv, Measures, ObservationAssumption
  <2>3. ASSUME failures' = {}
        PROVE  samples + 2 <= MaxSamples /\ \A r \in Role : observed[r].rss # High
    <3>1. SampleFailures = {}
      BY <2>1, <2>3
    <3>2. ~(samples + 2 > MaxSamples) /\ ~(\E r \in Role : observed[r].rss = High)
      BY <3>1 DEF SampleFailures
    <3> QED
      BY <2>2, <3>2
  <2>4. ASSUME failures' = {} PROVE samples' = taken' /\ \A r \in Role : peaks'[r] # High
    <3>1. samples = taken /\ \A r \in Role : peaks[r] # High
      BY <2>1, <2>4 DEF Inv, Whole
    <3>2. samples' = taken'
      <4>1. samples + 2 <= MaxSamples
        BY <2>3, <2>4
      <4>2. samples' = samples + 2
        BY <2>1, <2>2, <4>1 DEF Least
      <4> QED
        BY <2>1, <3>1, <4>2
    <3>3. \A r \in Role : peaks'[r] # High
      BY <2>1, <2>3, <2>4, <3>1 DEF Greatest
    <3> QED
      BY <3>2, <3>3
  <2> QED
    BY <2>4 DEF Whole
<1>17. CASE Tick
  BY <1>17, TickFacts DEF Inv, Whole
<1>18. CASE Cleanup
  BY <1>18 DEF Inv, Whole, Cleanup, Polled, Ended
<1>19. CASE FinalizeReceipt
  BY <1>19, FinalizeFacts DEF Inv, Whole
<1>20. CASE UNCHANGED vars
  BY <1>20 DEF Inv, Whole, vars
<1> QED
  BY <1>1, <1>2, <1>3, <1>4, <1>5, <1>6, <1>7, <1>8, <1>9, <1>10, <1>11, <1>12, <1>13,
     <1>14, <1>15, <1>16, <1>17, <1>18, <1>19, <1>20, StepCases

\* The profiler is never said to have ended before it has.
LEMMA ProfiledStep == ASSUME Inv, [Next]_vars PROVE Profiled'
<1>1. CASE pc # "done" /\ Clock
  BY <1>1 DEF Inv, Profiled, Times, Ended, Clock
<1>2. CASE pc # "done" /\ ToolEnds
  BY <1>2 DEF Inv, Profiled, Times, Ended, ToolEnds
<1>3. CASE pc # "done" /\ Mark
  BY <1>3 DEF Inv, Profiled, Times, Ended, Mark, Running
<1>4. CASE pc # "done" /\ Acknowledged
  BY <1>4 DEF Inv, Profiled, Times, Ended, Acknowledged, Running
<1>5. CASE pc # "done" /\ RunLoad
  BY <1>5 DEF Inv, Profiled, Times, Ended, RunLoad, Running
<1>6. CASE pc # "done" /\ EndWorker
  BY <1>6 DEF Inv, Profiled, Times, Ended, EndWorker, Running
<1>7. ASSUME pc # "done", NEW r \in Role, Crash(r) PROVE Profiled'
  BY <1>7 DEF Inv, Profiled, Times, Ended, Crash, Running
<1>8. ASSUME pc # "done", NEW r \in Role, Exit(r) PROVE Profiled'
  BY <1>8 DEF Inv, Profiled, Times, Ended, Exit
<1>9. CASE PollClient
  BY <1>9 DEF Inv, Profiled, Times, Ended, PollClient, Return
<1>10. CASE CheckMarker
  BY <1>10 DEF Inv, Profiled, Times, Ended, CheckMarker, NewMarker, StartSamples
<1>11. CASE SampleInterval
  BY <1>11 DEF Inv, Profiled, Times, Ended, SampleInterval, StartSamples
<1>12. CASE LastChecks
  BY <1>12 DEF Inv, Profiled, Times, Ended, LastChecks, Return, Checks, ChecksOfClient
<1>13. CASE ReadRss
  BY <1>13, ProbeFacts, HeadFacts DEF Inv, Profiled, Times, Ended, ProbeEnds
<1>14. CASE SeemsExited
  BY <1>14 DEF Inv, Profiled, Times, Ended, SeemsExited, Running
<1>15. CASE ConfirmTermination
  BY <1>15, ProbeFacts, HeadFacts DEF Inv, Profiled, Times, Ended, ProbeEnds
<1>16. CASE RecordSamples
  BY <1>16, RecordFacts, AppendFacts DEF Inv, Profiled, Times, Ended
<1>17. CASE Tick
  <2>1. PICK seen \in {session, [session EXCEPT !.seen = now]} :
          \/ session' = seen /\ UNCHANGED tool /\ tool = "none"
          \/ session' = [seen EXCEPT !.started = now] /\ tool = "none" /\ tool' = "running"
          \/ session' = Polled(seen) /\ UNCHANGED tool
    BY <1>17, TickFacts DEF Inv
  <2>2. UNCHANGED <<toolEnd, now>> /\ now \in Nat /\ session \in Sessions
    BY <1>17, TickFacts DEF Inv, Times
  <2>3. seen \in Sessions /\ seen.finished = session.finished
    BY <2>2 DEF Sessions
  <2>4. tool = "none" => session.finished = 0
    BY <2>2 DEF Inv, Profiled, Ended, Sessions
  <2>5. CASE tool = "none" /\ session'.finished = 0
    BY <2>2, <2>5 DEF Inv, Profiled
  <2>6. CASE session' = Polled(seen) /\ UNCHANGED tool
    BY <2>2, <2>3, <2>6, PolledFacts DEF Inv, Profiled, Ended, Sessions, Polled
  <2> QED
    BY <2>1, <2>2, <2>3, <2>4, <2>5, <2>6 DEF Sessions
<1>18. CASE Cleanup
  BY <1>18 DEF Inv, Profiled, Times, Ended, Cleanup, Polled, Ended
<1>19. CASE FinalizeReceipt
  <2>1. session' = Polled(session) /\ UNCHANGED <<tool, toolEnd, now>>
    BY <1>19, FinalizeFacts
  <2>2. session \in Sessions /\ now \in Nat
    BY DEF Inv, Times
  <2>3. session.finished > 0 \/ ~Ended => session' = session
    BY <2>1, <2>2, PolledFacts DEF Inv
  <2>4. Ended /\ session.finished = 0 => session'.finished = now
    BY <2>1, <2>2, PolledFacts DEF Inv
  <2>5. session.finished \in Nat
    BY <2>2 DEF Sessions
  <2> QED
    BY <2>1, <2>3, <2>4, <2>5 DEF Inv, Profiled, Ended
<1>20. CASE UNCHANGED vars
  BY <1>20 DEF Inv, Profiled, Times, Ended, vars
<1> QED
  BY <1>1, <1>2, <1>3, <1>4, <1>5, <1>6, <1>7, <1>8, <1>9, <1>10, <1>11, <1>12, <1>13,
     <1>14, <1>15, <1>16, <1>17, <1>18, <1>19, <1>20, StepCases

\* An ok receipt is written only without failures, with an ok report and a profile that
\* passes the later inspection (finalize).
LEMMA ReceiptStep == ASSUME Inv, [Next]_vars PROVE Receipt'
<1>1. CASE pc # "done" /\ Clock
  BY <1>1 DEF Inv, Receipt, Clock
<1>2. CASE pc # "done" /\ ToolEnds
  BY <1>2 DEF Inv, Receipt, ToolEnds
<1>3. CASE pc # "done" /\ Mark
  BY <1>3 DEF Inv, Receipt, Mark, Running
<1>4. CASE pc # "done" /\ Acknowledged
  BY <1>4 DEF Inv, Receipt, Acknowledged, Running
<1>5. CASE pc # "done" /\ RunLoad
  BY <1>5 DEF Inv, Receipt, RunLoad, Running
<1>6. CASE pc # "done" /\ EndWorker
  BY <1>6 DEF Inv, Receipt, EndWorker, Running
<1>7. ASSUME pc # "done", NEW r \in Role, Crash(r) PROVE Receipt'
  BY <1>7 DEF Inv, Receipt, Crash, Running
<1>8. ASSUME pc # "done", NEW r \in Role, Exit(r) PROVE Receipt'
  BY <1>8 DEF Inv, Receipt, Exit
<1>9. CASE PollClient
  BY <1>9 DEF Inv, Receipt, PollClient, Return
<1>10. CASE CheckMarker
  BY <1>10 DEF Inv, Receipt, CheckMarker, NewMarker, StartSamples
<1>11. CASE SampleInterval
  BY <1>11 DEF Inv, Receipt, SampleInterval, StartSamples
<1>12. CASE LastChecks
  BY <1>12 DEF Inv, Receipt, LastChecks, Return, Checks, ChecksOfClient
<1>13. CASE ReadRss
  BY <1>13, ProbeFacts, HeadFacts DEF Inv, Receipt, ProbeEnds
<1>14. CASE SeemsExited
  BY <1>14 DEF Inv, Receipt, SeemsExited, Running
<1>15. CASE ConfirmTermination
  BY <1>15, ProbeFacts, HeadFacts DEF Inv, Receipt, ProbeEnds
<1>16. CASE RecordSamples
  BY <1>16, RecordFacts, AppendFacts DEF Inv, Receipt
<1>17. CASE Tick
  BY <1>17, TickFacts DEF Inv, Receipt
<1>18. CASE Cleanup
  BY <1>18 DEF Inv, Receipt, Cleanup, Polled, Ended
<1>19. CASE FinalizeReceipt
  <2>1. /\ pc' = "done" /\ UNCHANGED <<load, report, tool, toolEnd>> /\ session' = Polled(session)
    BY <1>19, FinalizeFacts
  <2>2. PICK first \in 0 .. toolEnd, last \in 0 .. toolEnd, good \in BOOLEAN :
          /\ payload' = Finalized(first, last, good)
          /\ failures' = failures \cup Finalized(first, last, good).problems
                           \cup (IF report = "ok" THEN {} ELSE {"client report"})
          /\ receipt' = IF failures' = {} THEN "ok" ELSE "failed"
    BY <1>19 DEF FinalizeReceipt
  <2>3. SUFFICES ASSUME receipt' = "ok"
                 PROVE  failures' = {} /\ report' = "ok" /\ ProfileClaimsHold'
    BY <2>1 DEF Receipt
  <2> DEFINE qualified == Inside(session.started, session.finished) /\ Timestamped(first, last)
  <2>4. failures' = {} /\ report = "ok" /\ Finalized(first, last, good).problems = {}
    BY <2>2, <2>3
  <2>5. Bounds /\ Invocation
    BY <2>4 DEF Finalized
  <2>6. session.started \in Nat /\ session.finished \in Nat /\ session \in Sessions
        /\ load.finish \in Nat /\ toolEnd \in Nat
    BY DEF Inv, Times, Sessions
  <2>7. session.finished > 0
    BY <2>5, <2>6 DEF Invocation
  <2>8. session' = session
    BY <2>1, <2>6, <2>7, PolledFacts DEF Inv
  <2>9. /\ payload'.status = "ok"
        /\ payload'.started = session.started /\ payload'.finished = session.finished
        /\ payload'.first = first /\ payload'.last = last
        /\ payload'.overlap = Overlap(session.started, session.finished)
        /\ payload'.outside = session.finished - session.started
                                - Overlap(session.started, session.finished)
        /\ payload'.qualified = qualified
    BY <2>2, <2>4 DEF Finalized
  <2>10. VerifiedProfile'
    BY <2>1, <2>5, <2>9 DEF VerifiedProfile, Bounds, Invocation, Overlap, Inside,
       Timestamped
  <2>11. ASSUME payload'.qualified PROVE load.start <= session.started /\ toolEnd <= load.finish
    <3>1. load.start <= session.started /\ session.finished <= load.finish
      BY <2>9, <2>11 DEF Inside
    <3>2. toolEnd <= session.finished
      BY <2>7 DEF Inv, Profiled
    <3> QED
      BY <2>6, <3>1, <3>2
  <2> QED
    BY <2>1, <2>4, <2>8, <2>10, <2>11 DEF ProfileClaimsHold
<1>20. CASE UNCHANGED vars
  BY <1>20 DEF Inv, Receipt, vars, ProfileClaimsHold, VerifiedProfile, Bounds, Overlap,
     Inside, Timestamped
<1> QED
  BY <1>1, <1>2, <1>3, <1>4, <1>5, <1>6, <1>7, <1>8, <1>9, <1>10, <1>11, <1>12, <1>13,
     <1>14, <1>15, <1>16, <1>17, <1>18, <1>19, <1>20, StepCases

\* Inv is inductive.
THEOREM Invariance == Spec => []Inv
<1>1. Init => Inv
  <2>1. ASSUME Init PROVE Kinds /\ Measures /\ Times /\ Series
    <3>1. observed \in [Role -> [rss : {None, Low, High}, terminated : BOOLEAN]]
      BY <2>1 DEF Init
    <3>2. /\ session \in Sessions /\ worker \in [phase : Nat, acked : BOOLEAN]
          /\ load \in [start : Nat, finish : Nat]
      BY <2>1 DEF Init, Sessions
    <3> QED
      BY <2>1, <3>1, <3>2 DEF Init, Kinds, Measures, Times, Series
  <2>2. ASSUME Init PROVE Probing /\ Handshake /\ Recorded /\ Whole /\ Profiled /\ Receipt
    BY <2>2, ObservationAssumption DEF Init, Probing, Handshake, Recorded, Whole,
       Profiled, Receipt, Ended, ObservationAssumption
  <2> QED
    BY <2>1, <2>2 DEF Inv
<1>2. Inv /\ [Next]_vars => Inv'
  BY KindsStep, MeasuresStep, TimesStep, SeriesStep, ProbingStep, HandshakeStep,
     RecordedStep, WholeStep, ProfiledStep, ReceiptStep DEF Inv
<1> QED
  BY <1>1, <1>2, PTL DEF Spec

(***************************************************************************)
(* The properties.                                                          *)
(***************************************************************************)
\* Every variable of the supervisor and of its two processes keeps its type.
THEOREM TypeCorrect == Spec => []TypeOK
<1>1. Inv => TypeOK
  <2>1. <<>> \in Seq(Role) /\ <<"client">> \in Seq(Role) /\ <<"server", "client">> \in Seq(Role)
    OBVIOUS
  <2> QED
    BY <2>1 DEF Inv, Kinds, Measures, Times, Series, Probing, TypeOK, Sessions
<1> QED
  BY <1>1, Invariance, PTL

\* An RSS is reported missing only after a denied probe or an exit that was not
\* confirmed in time (confirm_termination).
THEOREM ExitsAreNoFailures == Spec => []ExitIsNotFailure
<1>1. Inv => ExitIsNotFailure
  BY DEF Inv, Probing, ExitIsNotFailure
<1> QED
  BY <1>1, Invariance, PTL

\* An ok receipt has the memory of both processes at every phase, whole and below
\* the ceiling (monitor_client, LifecycleResourceSampler.sample).
THEOREM OkSeriesAreMeasured == Spec => []OkSeriesIsMeasured
<1>1. ASSUME Inv, receipt = "ok"
      PROVE  /\ Len(phases) = Phases /\ samples = taken
             /\ \A i \in 1 .. Phases : phases[i] = Role
             /\ \A r \in Role : peaks[r] = Low
  <2>1. pc = "done" /\ failures = {} /\ report = "ok"
    BY <1>1 DEF Inv, Receipt
  <2>2. Len(phases) = Phases
    BY <1>1, <2>1 DEF Inv, Handshake
  <2>3. ASSUME NEW i \in 1 .. Phases PROVE phases[i] = Role
    <3>1. "client" \in phases[i] /\ "server" \in phases[i]
      BY <1>1, <2>1, <2>2 DEF Inv, Recorded
    <3>2. phases[i] \subseteq Role
      BY <1>1, <2>2 DEF Inv, Series
    <3> QED
      BY <3>1, <3>2
  <2>4. samples = taken /\ \A r \in Role : peaks[r] # High
    BY <1>1, <2>1 DEF Inv, Whole
  <2>5. \A r \in Role : peaks[r] # None
    <3>1. 1 \in 1 .. Len(phases)
      BY <2>2, ObservationAssumption DEF ObservationAssumption
    <3>2. \A r \in Role : r \in phases[1]
      BY <2>2, <2>3, <3>1
    <3> QED
      BY <1>1, <3>1, <3>2 DEF Inv, Recorded
  <2>6. \A r \in Role : peaks[r] = Low
    BY <1>1, <2>4, <2>5 DEF Inv, Measures
  <2> QED
    BY <2>2, <2>3, <2>4, <2>6
<1>2. Inv => OkSeriesIsMeasured
  BY <1>1 DEF OkSeriesIsMeasured
<1> QED
  BY <1>2, Invariance, PTL

\* The profile of an ok receipt passes inspect_profile_evidence, and a qualified one
\* has the profiler's whole run inside the measured load (finalize, _qualify).
THEOREM ProfilesHold == Spec => []ProfileClaimsHold
<1>1. Inv => ProfileClaimsHold
  BY DEF Inv, Receipt, ProfileClaimsHold
<1> QED
  BY <1>1, Invariance, PTL
=============================================================================
