------------------------- MODULE LifecycleCaseProofs -------------------------
(***************************************************************************)
(* Proofs about LifecycleCase, for every value of its constants.            *)
(***************************************************************************)
EXTENDS LifecycleCase, TLAPS

(***************************************************************************)
(* The inductive invariant, in named parts.                                 *)
(***************************************************************************)
\* The numbers of the handshake: what the worker lists, what the parent has
\* acknowledged and what the worker has marked follow one another by at most one.
Numbering ==
  /\ Len(listed) <= sequence
  /\ sequence <= marker.seq
  /\ marker.seq <= Len(listed) + 1
  /\ ack = sequence
  /\ ppc \in {"ack", "lastAck"} =>
        Len(sampled) = sequence + 1 /\ marker.seq = sequence + 1
  /\ ppc \notin {"ack", "lastAck"} => Len(sampled) = sequence
  /\ wpc = "await" => marker.seq = Len(listed) + 1
  /\ wpc # "await" /\ ~ raised => marker.seq = Len(listed)

\* The names: without an exception, phase i bears number i on either side.
Naming ==
  ~ raised =>
     /\ \A i \in 1 .. Len(listed) : listed[i] = i
     /\ \A i \in 1 .. Len(sampled) : sampled[i] = i
     /\ wpc = "await" => marker.phase = marker.seq

\* Where in the plan the worker is.
Place ==
  /\ wpc = "boot" => Len(listed) = 0
  /\ wpc = "work" => Len(listed) < LastLoadPhase
  /\ wpc = "closing" /\ ~ raised => Len(listed) = LastLoadPhase
  /\ wpc = "gc" => PostGc /\ Len(listed) = AfterClientClose
  /\ wpc = "finish" => Len(listed) = LastPhase
  /\ wpc \in {"boot", "work", "gc", "finish"} => ~ raised
  /\ wpc = "await" /\ ~ raised => Len(listed) + 1 <= LastPhase
  /\ wpc = "await" /\ raised => marker.phase = AfterClientClose
  /\ report.status = "ok" =>
        wpc = "exit" /\ ~ raised /\ Len(listed) = LastPhase /\ ~ report.errors

HandshakeInv == TypeOK /\ Numbering /\ Naming /\ Place

AfterMonitor == {"cleanup"} \cup Cleaning \cup {"finalize", "done"}

\* A case without a failure so far has seen its client exit with 0 and never
\* lost its server.
Measuring ==
  /\ ppc = "launchServer" => leader["server"] = "absent" /\ ~ lostServer
  /\ lostServer => leader["server"] \in Exited
  /\ ppc \in {"lastMarker", "lastAck", "last"} => leader["client"] \in Exited
  /\ ppc \in AfterMonitor /\ failures = {} /\ pending = "none" =>
        leader["client"] = "exit0" /\ ~ lostServer

\* A cancellation is in flight, kept by finish_cleanup, or replaced by a failed cleanup.
Cancelling ==
  cancels > 0 =>
     /\ ppc \in AfterMonitor
     /\ pending \in {"cancelled", "cleanup"} \/ (cancelled /\ ppc \in Cleaning)

\* A kill that reports no failure has reached every group.
Killing ==
  /\ \A r \in Roles : leader[r] = "absent" => descendant[r] = "none"
  /\ ppc \in {"killWait", "reap", "reaped", "finalize", "done"} /\ ~ reapFailed =>
        \A r \in Roles : leader[r] # "running" /\ descendant[r] # "live"
  /\ ppc \in {"reaped", "finalize", "done"} /\ ~ reapFailed =>
        \A r \in Roles : leader[r] \in Exited \cup {"absent"}
  /\ ppc \in {"finalize", "done"} /\ reapFailed => pending = "cleanup"

\* What the written receipt says of the case.
Receipt ==
  /\ receipt = "ok" => ppc = "done" /\ failures = {} /\ report.status = "ok"
  /\ ppc = "done" =>
        /\ pending # "none" => pending \in failures
        /\ pending = "cancelled" => outcome = "cancelled"

\* A profiled case that has not failed so far has a session, and an ok receipt
\* that of a profiler that has ended by itself.
Profiling ==
  WithProfiler =>
    /\ ppc \in Monitoring => profile # "none"
    /\ ppc \in AfterMonitor /\ pending = "none" => profile # "none"
    /\ receipt = "ok" => profile = "finished" /\ leader["profiler"] = "exit0"

\* The second half of the invariant: cleanup, cancellation, receipt and profile.
CaseInv == Measuring /\ Cancelling /\ Killing /\ Receipt /\ Profiling

USE DEF Phases, LastPhase, AfterClientClose, PostGcPhase, LastLoadPhase, BatchOneStart

(***************************************************************************)
(* Types.                                                                   *)
(***************************************************************************)
\* Appending to a sequence (phases are only ever appended).
LEMMA AppendFacts ==
  ASSUME NEW S, NEW s \in Seq(S), NEW x \in S
  PROVE  /\ Append(s, x) \in Seq(S)
         /\ Len(Append(s, x)) = Len(s) + 1
         /\ \A i \in 1 .. Len(s) : Append(s, x)[i] = s[i]
         /\ Append(s, x)[Len(s) + 1] = x
  OBVIOUS

\* Reading a marker appends its phase, or nothing.
LEMMA ReadMarkerSampled == ASSUME TypeOK, ReadMarker PROVE sampled' \in Seq(Phases)
<1>1. marker.phase \in Phases
  BY DEF TypeOK
<1>2. Append(sampled, marker.phase) \in Seq(Phases)
  BY <1>1, AppendFacts DEF TypeOK
<1>3. sampled' = sampled \/ sampled' = Append(sampled, marker.phase)
  BY DEF ReadMarker
<1> QED
  BY <1>2, <1>3 DEF TypeOK

\* Reading a marker keeps the types.
LEMMA ReadMarkerType == ASSUME TypeOK, ReadMarker PROVE TypeOK'
<1>1. sampled' \in Seq(Phases)
  BY ReadMarkerSampled
<1>2. ppc' \in ParentPc /\ pending' \in {"none", "error", "cancelled", "cleanup"}
  BY DEF TypeOK, ReadMarker, RaiseError, ParentPc, Monitoring
<1>3. UNCHANGED <<sequence, failures, cancelled, cancels, reapFailed, profile, receipt,
                  outcome, expired, ack, workerVars, groupVars, lostServer>>
  BY DEF ReadMarker
<1> QED
  BY <1>1, <1>2, <1>3 DEF TypeOK, workerVars, groupVars

\* So does SIGTERM,
LEMMA TerminateGroupsType == ASSUME TypeOK, TerminateGroups PROVE TypeOK'
<1>1. leader' \in [Roles -> LeaderState]
  BY DEF TypeOK, TerminateGroups, LeaderState
<1>2. descendant' \in [Roles -> {"none", "live", "dying"}]
  BY DEF TypeOK, TerminateGroups
<1>3. ppc' \in ParentPc /\ reapFailed' \in BOOLEAN
  BY DEF TypeOK, TerminateGroups, SignalFails, ParentPc, Cleaning
<1>4. UNCHANGED <<sequence, sampled, failures, pending, cancelled, cancels, profile,
                  receipt, outcome, expired, ack, workerVars, lostServer>>
  BY DEF TerminateGroups
<1> QED
  BY <1>1, <1>2, <1>3, <1>4 DEF TypeOK, workerVars

\* the receipt,
LEMMA FinalizeReceiptType == ASSUME TypeOK, FinalizeReceipt PROVE TypeOK'
<1>1. HandledFailures \subseteq Reasons /\ ReportFailures \subseteq Reasons
  BY DEF TypeOK, HandledFailures, ReportFailures, Reasons
<1>2. \A found \in ProfileFailures : found \subseteq Reasons
  BY DEF ProfileFailures, Reasons
<1>3. failures' \subseteq Reasons
  BY <1>1, <1>2 DEF FinalizeReceipt
<1>4. /\ ppc' \in ParentPc
      /\ receipt' \in {"none", "ok", "failed"}
      /\ outcome' \in {"none", "returned", "cancelled"}
  BY DEF FinalizeReceipt, ParentPc
<1>5. UNCHANGED <<sequence, sampled, pending, cancelled, cancels, reapFailed, profile,
                  expired, ack, workerVars, groupVars, lostServer>>
  BY DEF FinalizeReceipt
<1> QED
  BY <1>3, <1>4, <1>5 DEF TypeOK, workerVars, groupVars

\* a cancellation,
LEMMA CancelType == ASSUME TypeOK, Cancel PROVE TypeOK'
<1>1. cancels' \in 0 .. MaxCancels
  BY CaseAssumption DEF TypeOK, Cancel
<1>2. /\ ppc' \in ParentPc
      /\ pending' \in {"none", "error", "cancelled", "cleanup"}
      /\ cancelled' \in BOOLEAN
  BY DEF TypeOK, Cancel, ParentPc
<1>3. UNCHANGED <<sequence, sampled, failures, reapFailed, profile, receipt, outcome,
                  expired, ack, workerVars, groupVars, lostServer>>
  BY DEF Cancel
<1> QED
  BY <1>1, <1>2, <1>3 DEF TypeOK, workerVars, groupVars

\* and the marker of the close.
LEMMA CloseAdapterType == ASSUME TypeOK, CloseAdapter PROVE TypeOK'
<1>1. marker' \in [seq : Nat, phase : Phases]
  BY CaseAssumption DEF TypeOK, CloseAdapter, WriteMarker
<1>2. wpc' \in WorkerPc /\ raised' \in BOOLEAN
  BY DEF TypeOK, CloseAdapter, WriteMarker, WorkerPc
<1>3. UNCHANGED <<parentVars, expired, ack, report, listed, groupVars, lostServer>>
  BY DEF CloseAdapter
<1> QED
  BY <1>1, <1>2, <1>3 DEF TypeOK, parentVars, groupVars

\* Every step keeps the types, given where in its plan the worker marks.
LEMMA TypeStep == ASSUME TypeOK, Place, [Next]_vars PROVE TypeOK'
<1> USE DEF parentVars, workerVars, groupVars, ParentPc, Monitoring, Cleaning, Reasons, WorkerPc,
         LeaderState, Roles, RaiseError, Launch, LaunchFails, StopMonitoring, Exited, Save,
         RecordError, WriteMarker, NextPhase, AfterPhase, Running
<1>1. CASE LaunchServer
  BY <1>1, CaseAssumption DEF TypeOK, LaunchServer
<1>2. CASE AwaitServer
  BY <1>2, CaseAssumption DEF TypeOK, AwaitServer
<1>3. CASE LaunchClient
  BY <1>3, CaseAssumption DEF TypeOK, LaunchClient
<1>4. CASE OpenProfile
  BY <1>4, CaseAssumption DEF TypeOK, OpenProfile
<1>5. CASE PollClient
  <2>1. failures' \subseteq Reasons
    BY <1>5 DEF TypeOK, PollClient
  <2>2. ppc' \in ParentPc /\ sequence' \in Nat /\ ack' \in Nat
    BY <1>5 DEF TypeOK, PollClient
  <2> QED
    BY <1>5, <2>1, <2>2 DEF TypeOK, PollClient
<1>6. CASE ReadMarker
  BY <1>6, ReadMarkerType
<1>7. CASE WriteAck
  <2>1. failures' \subseteq Reasons
    BY <1>7 DEF TypeOK, WriteAck
  <2>2. ppc' \in ParentPc /\ sequence' \in Nat /\ ack' \in Nat
    BY <1>7 DEF TypeOK, WriteAck
  <2> QED
    BY <1>7, <2>1, <2>2 DEF TypeOK, WriteAck
<1>8. CASE TickNativeProfile
  BY <1>8, CaseAssumption DEF TypeOK, TickNativeProfile, ProfilerFailed, CurrentPhase
<1>9. CASE Sample
  <2>1. failures' \subseteq Reasons
    BY <1>9 DEF TypeOK, Sample
  <2>2. ppc' \in ParentPc /\ sequence' \in Nat /\ ack' \in Nat
    BY <1>9 DEF TypeOK, Sample
  <2> QED
    BY <1>9, <2>1, <2>2 DEF TypeOK, Sample
<1>10. CASE Wake
  BY <1>10, CaseAssumption DEF TypeOK, Wake
<1>11. CASE LastChecks
  <2>1. failures' \subseteq Reasons
    BY <1>11 DEF TypeOK, LastChecks
  <2>2. ppc' \in ParentPc /\ sequence' \in Nat /\ ack' \in Nat
    BY <1>11 DEF TypeOK, LastChecks
  <2> QED
    BY <1>11, <2>1, <2>2 DEF TypeOK, LastChecks
<1>12. CASE Cleanup
  BY <1>12, CaseAssumption DEF TypeOK, Cleanup
<1>13. CASE TerminateGroups
  BY <1>13, TerminateGroupsType
<1>14. CASE EndTermWait
  BY <1>14, CaseAssumption DEF TypeOK, EndTermWait
<1>15. CASE KillGroups
  BY <1>15, CaseAssumption DEF TypeOK, KillGroups, SignalFails
<1>16. CASE EndKillWait
  BY <1>16, CaseAssumption DEF TypeOK, EndKillWait
<1>17. CASE WaitOwnedChildren
  BY <1>17, CaseAssumption DEF TypeOK, WaitOwnedChildren
<1>18. CASE FinishCleanup
  BY <1>18, CaseAssumption DEF TypeOK, FinishCleanup
<1>19. CASE FinalizeReceipt
  BY <1>19, FinalizeReceiptType
<1>20. CASE Cancel
  BY <1>20, CancelType
<1>21. CASE StartWorker
  BY <1>21, CaseAssumption DEF TypeOK, StartWorker
<1>22. CASE RecordBatchError
  BY <1>22, CaseAssumption DEF TypeOK, RecordBatchError
<1>23. CASE MarkLoad
  BY <1>23, CaseAssumption DEF TypeOK, MarkLoad, Place
<1>24. CASE RaiseInLoad
  BY <1>24, CaseAssumption DEF TypeOK, RaiseInLoad
<1>25. CASE RaiseUnsettled
  BY <1>25, CaseAssumption DEF TypeOK, RaiseUnsettled
<1>26. CASE Drain
  BY <1>26, CaseAssumption DEF TypeOK, Drain
<1>27. CASE Acknowledged
  BY <1>27, CaseAssumption DEF TypeOK, Acknowledged
<1>28. CASE AckTimeout
  BY <1>28, CaseAssumption DEF TypeOK, AckTimeout
<1>29. CASE CloseAdapter
  BY <1>29, CloseAdapterType
<1>30. CASE CollectGarbage
  BY <1>30, CaseAssumption DEF TypeOK, CollectGarbage, Place
<1>31. CASE FinishWorker
  BY <1>31, CaseAssumption DEF TypeOK, FinishWorker
<1>32. CASE RecordWorkerError
  BY <1>32, CaseAssumption DEF TypeOK, RecordWorkerError
<1>33. CASE ExitWorker
  <2>1. leader' \in [Roles -> LeaderState]
    BY <1>33 DEF TypeOK, ExitWorker
  <2> QED
    BY <1>33, <2>1 DEF TypeOK, ExitWorker
<1>34. CASE \E r \in Roles : Crash(r)
  BY <1>34, CaseAssumption DEF TypeOK, Crash
<1>35. CASE \E r \in Roles : Vanish(r)
  BY <1>35, CaseAssumption DEF TypeOK, Vanish
<1>36. CASE Expire
  BY <1>36, CaseAssumption DEF TypeOK, Expire
<1>37. CASE UNCHANGED vars
  BY <1>37, CaseAssumption DEF TypeOK, vars
<1> QED
  BY <1>1, <1>2, <1>3, <1>4, <1>5, <1>6, <1>7, <1>8, <1>9, <1>10, <1>11, <1>12, <1>13,
     <1>14, <1>15, <1>16, <1>17, <1>18, <1>19, <1>20, <1>21, <1>22, <1>23, <1>24, <1>25,
     <1>26, <1>27, <1>28, <1>29, <1>30, <1>31, <1>32, <1>33, <1>34, <1>35, <1>36, <1>37
     DEF Next, Parent, Worker, Done

(***************************************************************************)
(* The handshake.                                                           *)
(***************************************************************************)
\* The initial state satisfies the handshake's part of the invariant.
LEMMA HandshakeInit == Init => HandshakeInv
<1> SUFFICES ASSUME Init PROVE HandshakeInv
  OBVIOUS
<1>1. marker \in [seq : Nat, phase : Phases]
  BY CaseAssumption DEF Init
<1>2. listed \in Seq(Phases) /\ sampled \in Seq(Phases)
  BY CaseAssumption DEF Init
<1>3. report \in [status : {"missing", "failed", "ok"}, errors : BOOLEAN, force : BOOLEAN]
  BY CaseAssumption DEF Init
<1>4. cancels \in 0..MaxCancels
  BY CaseAssumption DEF Init
<1>5.  /\ leader \in [Roles -> LeaderState]
  /\ descendant \in [Roles -> {"none", "live", "dying"}]
  BY CaseAssumption DEF Init, LeaderState
<1>6.  /\ ppc \in ParentPc
  /\ wpc \in WorkerPc
  BY CaseAssumption DEF Init, ParentPc, WorkerPc
<1>7.  /\ failures \subseteq Reasons
  BY CaseAssumption DEF Init
<1>8. TypeOK
  BY <1>1, <1>2, <1>3, <1>4, <1>5, <1>6, <1>7 DEF Init, TypeOK
<1>9. Numbering /\ Naming /\ Place
  BY CaseAssumption DEF Init, Numbering, Naming, Place
<1> QED
  BY <1>8, <1>9 DEF HandshakeInv

\* What the other steps leave alone.
HandshakeFiles == <<sequence, sampled, marker, ack, report, wpc, listed, raised>>

\* A step that leaves the handshake's state alone, and neither enters nor leaves
\* the acknowledgement of a phase, preserves the invariant's parts about it.
LEMMA HandshakeFrame ==
  ASSUME HandshakeInv, UNCHANGED HandshakeFiles,
         ppc' = ppc \/ {ppc, ppc'} \cap {"ack", "lastAck"} = {}
  PROVE  Numbering' /\ Naming' /\ Place'
  BY DEF HandshakeInv, HandshakeFiles, Numbering, Naming, Place

\* A marker read by the parent numbers and names the phase the worker awaits.
LEMMA ReadMarkerInv == ASSUME HandshakeInv, ReadMarker PROVE Numbering' /\ Naming' /\ Place'
<1> USE DEF HandshakeInv
<1>1. UNCHANGED <<sequence, marker, ack, report, wpc, listed, raised>>
  BY DEF ReadMarker, workerVars
<1>2. Place'
  BY <1>1 DEF Place
<1>3. CASE marker.seq = sequence + 1
  <2>1. /\ sampled' = Append(sampled, marker.phase)
        /\ ppc \notin {"ack", "lastAck"} /\ ppc' \in {"ack", "lastAck"}
    BY <1>3 DEF ReadMarker, TypeOK
  <2>2. marker.phase \in Phases /\ sampled \in Seq(Phases) /\ Len(sampled) = sequence
    BY <2>1 DEF TypeOK, Numbering
  <2>3. /\ Len(sampled') = sequence + 1
        /\ \A i \in 1 .. Len(sampled) : sampled'[i] = sampled[i]
        /\ sampled'[sequence + 1] = marker.phase
    BY <2>1, <2>2, AppendFacts
  <2>4. Numbering'
    BY <1>1, <1>3, <2>1, <2>3 DEF Numbering, TypeOK
  <2>5. ~ raised => wpc = "await" /\ marker.phase = sequence + 1
    BY <1>3 DEF Numbering, Naming, TypeOK
  <2>6. Naming'
    BY <1>1, <2>2, <2>3, <2>5 DEF Naming, TypeOK
  <2> QED
    BY <1>2, <2>4, <2>6
<1>4. CASE marker.seq # sequence + 1
  <2>1. UNCHANGED sampled /\ {ppc, ppc'} \cap {"ack", "lastAck"} = {}
    BY <1>4 DEF ReadMarker, TypeOK, RaiseError
  <2> QED
    BY <1>1, <1>2, <2>1 DEF Numbering, Naming
<1> QED
  BY <1>3, <1>4

\* Acknowledging it closes the parent's step.
LEMMA WriteAckInv == ASSUME HandshakeInv, WriteAck PROVE Numbering' /\ Naming' /\ Place'
<1> USE DEF HandshakeInv
<1>1. /\ UNCHANGED <<sampled, marker, report, wpc, listed, raised>>
      /\ sequence' = sequence + 1 /\ ack' = sequence + 1
      /\ ppc' \notin {"ack", "lastAck"} /\ ppc \in {"ack", "lastAck"}
  BY DEF WriteAck, workerVars
<1>2. Naming' /\ Place'
  BY <1>1 DEF Naming, Place
<1>3. Numbering'
  BY <1>1 DEF Numbering, TypeOK
<1> QED
  BY <1>2, <1>3

\* Listing it closes the worker's step and moves it on in its plan.
LEMMA AcknowledgedInv == ASSUME HandshakeInv, Acknowledged PROVE Numbering' /\ Naming' /\ Place'
<1> USE DEF HandshakeInv
<1>1. /\ wpc = "await" /\ ack = marker.seq
      /\ UNCHANGED <<ppc, sequence, sampled, marker, ack, raised>>
      /\ listed' = Append(listed, marker.phase)
      /\ wpc' = AfterPhase(marker.phase)
      /\ report'.status = "failed"
  BY DEF Acknowledged, parentVars, Save
<1>2. marker.phase \in Phases /\ listed \in Seq(Phases)
  BY DEF TypeOK
<1>3. /\ Len(listed') = Len(listed) + 1
      /\ \A i \in 1 .. Len(listed) : listed'[i] = listed[i]
      /\ listed'[Len(listed) + 1] = marker.phase
  BY <1>1, <1>2, AppendFacts
<1>4. /\ marker.seq = Len(listed) + 1 /\ sequence = Len(listed) + 1 /\ ack = sequence
      /\ ppc \notin {"ack", "lastAck"} /\ Len(sampled) = sequence
      /\ ~ raised => marker.phase = Len(listed) + 1
  BY <1>1 DEF Numbering, Naming, TypeOK
<1>5. wpc' # "await"
  BY <1>1 DEF AfterPhase
<1>6. Numbering'
  BY <1>1, <1>3, <1>4, <1>5 DEF Numbering
<1>7. Naming'
  BY <1>1, <1>2, <1>3, <1>4, <1>5 DEF Naming
<1>8. Place'
  <2>1. raised => wpc' = "record"
    BY <1>1, CaseAssumption DEF AfterPhase, Place
  <2>2. CASE ~ raised
    <3>1. Len(listed') = marker.phase /\ marker.phase <= LastPhase
      BY <1>1, <1>3, <1>4, <2>2 DEF Place
    <3>2. wpc' = IF marker.phase < LastLoadPhase THEN "work"
                 ELSE IF marker.phase = LastLoadPhase THEN "closing"
                 ELSE IF marker.phase < LastPhase THEN "gc" ELSE "finish"
      BY <1>1, <2>2 DEF AfterPhase
    <3>3. marker.phase \in Nat /\ raised' = raised /\ report'.status # "ok"
      BY <1>1, <1>2, CaseAssumption
    <3>4. CASE marker.phase < LastLoadPhase
      BY <3>1, <3>2, <3>3, <3>4, <2>2 DEF Place
    <3>5. CASE marker.phase = LastLoadPhase
      BY <3>1, <3>2, <3>3, <3>5, <2>2, CaseAssumption DEF Place
    <3>6. CASE marker.phase = AfterClientClose
      BY <3>1, <3>2, <3>3, <3>6, <2>2, CaseAssumption DEF Place
    <3>7. CASE marker.phase = PostGcPhase
      BY <3>1, <3>2, <3>3, <3>7, <2>2, CaseAssumption DEF Place
    <3>8. Batches \in Nat
      BY CaseAssumption
    <3>9. \/ marker.phase < LastLoadPhase
          \/ marker.phase = LastLoadPhase
          \/ marker.phase = AfterClientClose
          \/ marker.phase = PostGcPhase
      BY <3>1, <3>3, <3>8 DEF AfterClientClose, PostGcPhase, LastPhase, LastLoadPhase
    <3> QED
      BY <3>4, <3>5, <3>6, <3>7, <3>9
  <2> QED
    BY <2>1, <2>2, <1>1 DEF Place
<1> QED
  BY <1>6, <1>7, <1>8

\* The marker of the close names the phase after the load, unless an exception brought it there.
LEMMA CloseAdapterInv == ASSUME HandshakeInv, CloseAdapter PROVE Naming'
<1> USE DEF HandshakeInv
<1>1. CASE raised'
  BY <1>1 DEF Naming
<1>2. CASE ~ raised'
  <2>1. /\ UNCHANGED <<listed, sampled, raised>>
        /\ marker' = [seq |-> Len(listed) + 1, phase |-> AfterClientClose]
        /\ Len(listed) = LastLoadPhase
    BY <1>2 DEF CloseAdapter, WriteMarker, parentVars, Place
  <2> QED
    BY <2>1, <1>2 DEF Naming
<1> QED
  BY <1>1, <1>2

\* The marker after the collection names the plan's last phase.
LEMMA CollectGarbageInv == ASSUME HandshakeInv, CollectGarbage PROVE Naming'
<1> USE DEF HandshakeInv
<1>1. /\ UNCHANGED <<listed, sampled, raised>>
      /\ marker' = [seq |-> Len(listed) + 1, phase |-> PostGcPhase]
      /\ Len(listed) = AfterClientClose
  BY DEF CollectGarbage, WriteMarker, parentVars, Place
<1> QED
  BY <1>1, CaseAssumption DEF Naming

\* Every step preserves the handshake's part of the invariant.
LEMMA HandshakeStep == ASSUME HandshakeInv, [Next]_vars PROVE HandshakeInv'
<1>0. TypeOK'
  BY TypeStep DEF HandshakeInv
<1> SUFFICES Numbering' /\ Naming' /\ Place'
  BY <1>0 DEF HandshakeInv
<1> USE DEF HandshakeInv, parentVars, workerVars, RaiseError, LaunchFails, StopMonitoring,
            Save, RecordError, WriteMarker, NextPhase, AfterPhase
<1>1. CASE LaunchServer
  BY <1>1, HandshakeFrame DEF HandshakeFiles, LaunchServer
<1>2. CASE AwaitServer
  BY <1>2, HandshakeFrame DEF HandshakeFiles, AwaitServer
<1>3. CASE LaunchClient
  BY <1>3, HandshakeFrame DEF HandshakeFiles, LaunchClient
<1>4. CASE OpenProfile
  BY <1>4, HandshakeFrame DEF HandshakeFiles, OpenProfile
<1>5. CASE PollClient
  BY <1>5, HandshakeFrame DEF HandshakeFiles, PollClient
<1>6. CASE ReadMarker
  BY <1>6, ReadMarkerInv
<1>7. CASE WriteAck
  BY <1>7, WriteAckInv
<1>8. CASE TickNativeProfile
  BY <1>8, HandshakeFrame DEF HandshakeFiles, TickNativeProfile
<1>9. CASE Sample
  BY <1>9, HandshakeFrame DEF HandshakeFiles, Sample
<1>10. CASE Wake
  BY <1>10, HandshakeFrame DEF HandshakeFiles, Wake
<1>11. CASE LastChecks
  BY <1>11, HandshakeFrame DEF HandshakeFiles, LastChecks
<1>12. CASE Cleanup
  BY <1>12, HandshakeFrame DEF HandshakeFiles, Cleanup
<1>13. CASE TerminateGroups
  BY <1>13, HandshakeFrame DEF HandshakeFiles, TerminateGroups
<1>14. CASE EndTermWait
  BY <1>14, HandshakeFrame DEF HandshakeFiles, EndTermWait
<1>15. CASE KillGroups
  BY <1>15, HandshakeFrame DEF HandshakeFiles, KillGroups
<1>16. CASE EndKillWait
  BY <1>16, HandshakeFrame DEF HandshakeFiles, EndKillWait
<1>17. CASE WaitOwnedChildren
  BY <1>17, HandshakeFrame DEF HandshakeFiles, WaitOwnedChildren
<1>18. CASE FinishCleanup
  BY <1>18, HandshakeFrame DEF HandshakeFiles, FinishCleanup
<1>19. CASE FinalizeReceipt
  BY <1>19, HandshakeFrame DEF HandshakeFiles, FinalizeReceipt
<1>20. CASE Cancel
  BY <1>20, HandshakeFrame DEF HandshakeFiles, Cancel
<1>21. CASE StartWorker
  <2>1. Numbering'
    BY <1>21, CaseAssumption DEF StartWorker, TypeOK, Numbering, Place
  <2>2. Naming'
    BY <1>21, CaseAssumption DEF StartWorker, TypeOK, Numbering, Naming, Place
  <2>3. Place'
    BY <1>21, CaseAssumption DEF StartWorker, TypeOK, Numbering, Naming, Place
  <2> QED
    BY <2>1, <2>2, <2>3
<1>22. CASE RecordBatchError
  <2>1. Numbering'
    BY <1>22, CaseAssumption DEF RecordBatchError, TypeOK, Numbering, Place
  <2>2. Naming'
    BY <1>22, CaseAssumption DEF RecordBatchError, TypeOK, Numbering, Naming, Place
  <2>3. Place'
    BY <1>22, CaseAssumption DEF RecordBatchError, TypeOK, Numbering, Naming, Place
  <2> QED
    BY <2>1, <2>2, <2>3
<1>23. CASE MarkLoad
  <2>1. Numbering'
    BY <1>23, CaseAssumption DEF MarkLoad, TypeOK, Numbering, Place
  <2>2. Naming'
    BY <1>23, CaseAssumption DEF MarkLoad, TypeOK, Numbering, Naming, Place
  <2>3. Place'
    BY <1>23, CaseAssumption DEF MarkLoad, TypeOK, Numbering, Naming, Place
  <2> QED
    BY <2>1, <2>2, <2>3
<1>24. CASE RaiseInLoad
  <2>1. Numbering'
    BY <1>24, CaseAssumption DEF RaiseInLoad, TypeOK, Numbering, Place
  <2>2. Naming'
    BY <1>24, CaseAssumption DEF RaiseInLoad, TypeOK, Numbering, Naming, Place
  <2>3. Place'
    BY <1>24, CaseAssumption DEF RaiseInLoad, TypeOK, Numbering, Naming, Place
  <2> QED
    BY <2>1, <2>2, <2>3
<1>25. CASE RaiseUnsettled
  <2>1. Numbering'
    BY <1>25, CaseAssumption DEF RaiseUnsettled, TypeOK, Numbering, Place
  <2>2. Naming'
    BY <1>25, CaseAssumption DEF RaiseUnsettled, TypeOK, Numbering, Naming, Place
  <2>3. Place'
    BY <1>25, CaseAssumption DEF RaiseUnsettled, TypeOK, Numbering, Naming, Place
  <2> QED
    BY <2>1, <2>2, <2>3
<1>26. CASE Drain
  <2>1. Numbering'
    BY <1>26, CaseAssumption DEF Drain, TypeOK, Numbering, Place
  <2>2. Naming'
    BY <1>26, CaseAssumption DEF Drain, TypeOK, Numbering, Naming, Place
  <2>3. Place'
    BY <1>26, CaseAssumption DEF Drain, TypeOK, Numbering, Naming, Place
  <2> QED
    BY <2>1, <2>2, <2>3
<1>27. CASE Acknowledged
  BY <1>27, AcknowledgedInv
<1>28. CASE AckTimeout
  <2>1. Numbering'
    BY <1>28, CaseAssumption DEF AckTimeout, TypeOK, Numbering, Place
  <2>2. Naming'
    BY <1>28, CaseAssumption DEF AckTimeout, TypeOK, Numbering, Naming, Place
  <2>3. Place'
    BY <1>28, CaseAssumption DEF AckTimeout, TypeOK, Numbering, Naming, Place
  <2> QED
    BY <2>1, <2>2, <2>3
<1>29. CASE CloseAdapter
  <2>1. Numbering'
    BY <1>29, CaseAssumption DEF CloseAdapter, TypeOK, Numbering, Place
  <2>2. Naming'
    BY <1>29, CloseAdapterInv
  <2>3. Place'
    BY <1>29, CaseAssumption DEF CloseAdapter, TypeOK, Numbering, Naming, Place
  <2> QED
    BY <2>1, <2>2, <2>3
<1>30. CASE CollectGarbage
  <2>1. Numbering'
    BY <1>30, CaseAssumption DEF CollectGarbage, TypeOK, Numbering, Place
  <2>2. Naming'
    BY <1>30, CollectGarbageInv
  <2>3. Place'
    BY <1>30, CaseAssumption DEF CollectGarbage, TypeOK, Numbering, Naming, Place
  <2> QED
    BY <2>1, <2>2, <2>3
<1>31. CASE FinishWorker
  <2>1. Numbering'
    BY <1>31, CaseAssumption DEF FinishWorker, TypeOK, Numbering, Place
  <2>2. Naming'
    BY <1>31, CaseAssumption DEF FinishWorker, TypeOK, Numbering, Naming, Place
  <2>3. Place'
    BY <1>31, CaseAssumption DEF FinishWorker, TypeOK, Numbering, Naming, Place
  <2> QED
    BY <2>1, <2>2, <2>3
<1>32. CASE RecordWorkerError
  <2>1. Numbering'
    BY <1>32, CaseAssumption DEF RecordWorkerError, TypeOK, Numbering, Place
  <2>2. Naming'
    BY <1>32, CaseAssumption DEF RecordWorkerError, TypeOK, Numbering, Naming, Place
  <2>3. Place'
    BY <1>32, CaseAssumption DEF RecordWorkerError, TypeOK, Numbering, Naming, Place
  <2> QED
    BY <2>1, <2>2, <2>3
<1>33. CASE ExitWorker
  BY <1>33, HandshakeFrame DEF HandshakeFiles, ExitWorker
<1>34. CASE \E r \in Roles : Crash(r)
  BY <1>34, HandshakeFrame DEF HandshakeFiles, Crash
<1>35. CASE \E r \in Roles : Vanish(r)
  BY <1>35, HandshakeFrame DEF HandshakeFiles, Vanish
<1>36. CASE Expire
  BY <1>36, HandshakeFrame DEF HandshakeFiles, Expire
<1>37. CASE UNCHANGED vars
  BY <1>37, HandshakeFrame DEF HandshakeFiles, vars
<1> QED
  BY <1>1, <1>2, <1>3, <1>4, <1>5, <1>6, <1>7, <1>8, <1>9, <1>10, <1>11, <1>12, <1>13,
     <1>14, <1>15, <1>16, <1>17, <1>18, <1>19, <1>20, <1>21, <1>22, <1>23, <1>24, <1>25,
     <1>26, <1>27, <1>28, <1>29, <1>30, <1>31, <1>32, <1>33, <1>34, <1>35, <1>36, <1>37
     DEF Next, Parent, Worker, Done

(***************************************************************************)
(* Cleanup, cancellation and receipt.                                       *)
(***************************************************************************)
\* SIGKILL leaves no member of a group running, unless a refusal is reported.
LEMMA KillGroupsKilling == ASSUME TypeOK, Killing, KillGroups PROVE Killing'
<1> PICK refused \in Refusals :
        /\ leader' = [r \in Roles |->
             IF r \in Owned \ refused /\ leader[r] = "running" THEN "dying" ELSE leader[r]]
        /\ descendant' = [r \in Roles |->
             IF r \in Owned \ refused /\ descendant[r] = "live" THEN "dying" ELSE descendant[r]]
        /\ \E failed \in SignalFails(refused) : reapFailed' = (reapFailed \/ failed)
  BY DEF KillGroups
<1>1. ppc' = "killWait"
  BY DEF KillGroups
<1>2. \A r \in Roles : leader'[r] = "absent" => descendant'[r] = "none"
  BY DEF Killing
<1>3. ASSUME ~ reapFailed', NEW r \in Roles
      PROVE  leader'[r] # "running" /\ descendant'[r] # "live"
  <2>1. r \in refused => ~ LiveGroup(r)
    BY <1>3 DEF SignalFails
  <2>2. CASE r \notin Owned
    BY <2>2 DEF Owned, Killing
  <2>3. CASE r \in Owned /\ r \in refused
    BY <2>1, <2>3 DEF LiveGroup
  <2>4. CASE r \in Owned /\ r \notin refused
    BY <2>4
  <2> QED
    BY <2>2, <2>3, <2>4
<1> QED
  BY <1>1, <1>2, <1>3 DEF Killing

\* Waiting for the children ends with every leader reaped, or with a failure.
LEMMA WaitOwnedChildrenKilling == ASSUME TypeOK, Killing, WaitOwnedChildren PROVE Killing'
<1>1. /\ ppc = "reap" /\ ppc' = "reaped" /\ UNCHANGED descendant
      /\ reapFailed' = (reapFailed \/ \E r \in Owned : leader'[r] \notin Exited)
  BY DEF WaitOwnedChildren
<1>2. \A r \in Roles : leader[r] = "absent" <=> leader'[r] = "absent"
  BY DEF WaitOwnedChildren, TypeOK, LeaderState
<1>3. \A r \in Roles : leader[r] # "running" => leader'[r] # "running"
  BY DEF WaitOwnedChildren, TypeOK, LeaderState
<1>4. ~ reapFailed' => \A r \in Roles : leader'[r] \in Exited \cup {"absent"}
  BY <1>1, <1>2 DEF Owned
<1> QED
  BY <1>1, <1>2, <1>3, <1>4 DEF Killing

\* Every step keeps what a case without failures has seen.
LEMMA MeasuringStep == ASSUME TypeOK, Measuring, [Next]_vars PROVE Measuring'
<1> USE DEF TypeOK, parentVars, workerVars, groupVars, AfterMonitor, Cleaning, Roles, RaiseError, Launch,
            LaunchFails, StopMonitoring, Exited, Running, Measuring
<1>1. CASE LaunchServer
  BY <1>1 DEF LaunchServer
<1>2. CASE AwaitServer
  BY <1>2 DEF AwaitServer
<1>3. CASE LaunchClient
  BY <1>3 DEF LaunchClient
<1>4. CASE OpenProfile
  BY <1>4 DEF OpenProfile
<1>5. CASE PollClient
  BY <1>5 DEF PollClient
<1>6. CASE ReadMarker
  BY <1>6 DEF ReadMarker
<1>7. CASE WriteAck
  BY <1>7 DEF WriteAck
<1>8. CASE TickNativeProfile
  BY <1>8 DEF TickNativeProfile
<1>9. CASE Sample
  BY <1>9 DEF Sample
<1>10. CASE Wake
  BY <1>10 DEF Wake
<1>11. CASE LastChecks
  BY <1>11 DEF LastChecks
<1>12. CASE Cleanup
  BY <1>12 DEF Cleanup
<1>13. CASE TerminateGroups
  BY <1>13 DEF TerminateGroups, Owned
<1>14. CASE EndTermWait
  BY <1>14 DEF EndTermWait
<1>15. CASE KillGroups
  BY <1>15 DEF KillGroups, Owned
<1>16. CASE EndKillWait
  BY <1>16 DEF EndKillWait
<1>17. CASE WaitOwnedChildren
  BY <1>17 DEF WaitOwnedChildren, Owned, LeaderState
<1>18. CASE FinishCleanup
  BY <1>18 DEF FinishCleanup
<1>19. CASE FinalizeReceipt
  BY <1>19 DEF FinalizeReceipt, HandledFailures, ReportFailures
<1>20. CASE Cancel
  BY <1>20 DEF Cancel
<1>21. CASE StartWorker
  BY <1>21 DEF StartWorker
<1>22. CASE RecordBatchError
  BY <1>22 DEF RecordBatchError
<1>23. CASE MarkLoad
  BY <1>23 DEF MarkLoad
<1>24. CASE RaiseInLoad
  BY <1>24 DEF RaiseInLoad
<1>25. CASE RaiseUnsettled
  BY <1>25 DEF RaiseUnsettled
<1>26. CASE Drain
  BY <1>26 DEF Drain
<1>27. CASE Acknowledged
  BY <1>27 DEF Acknowledged
<1>28. CASE AckTimeout
  BY <1>28 DEF AckTimeout
<1>29. CASE CloseAdapter
  BY <1>29 DEF CloseAdapter
<1>30. CASE CollectGarbage
  BY <1>30 DEF CollectGarbage
<1>31. CASE FinishWorker
  BY <1>31 DEF FinishWorker
<1>32. CASE RecordWorkerError
  BY <1>32 DEF RecordWorkerError
<1>33. CASE ExitWorker
  BY <1>33 DEF ExitWorker
<1>34. CASE \E r \in Roles : Crash(r)
  BY <1>34 DEF Crash
<1>35. CASE \E r \in Roles : Vanish(r)
  BY <1>35 DEF Vanish
<1>36. CASE Expire
  BY <1>36 DEF Expire
<1>37. CASE UNCHANGED vars
  BY <1>37 DEF vars
<1> QED
  BY <1>1, <1>2, <1>3, <1>4, <1>5, <1>6, <1>7, <1>8, <1>9, <1>10, <1>11, <1>12, <1>13,
     <1>14, <1>15, <1>16, <1>17, <1>18, <1>19, <1>20, <1>21, <1>22, <1>23, <1>24, <1>25,
     <1>26, <1>27, <1>28, <1>29, <1>30, <1>31, <1>32, <1>33, <1>34, <1>35, <1>36, <1>37
     DEF Next, Parent, Worker, Done

\* Every step keeps a cancellation.
LEMMA CancellingStep == ASSUME TypeOK, Cancelling, [Next]_vars PROVE Cancelling'
<1> USE DEF TypeOK, parentVars, workerVars, groupVars, AfterMonitor, Cleaning, Roles, RaiseError, Launch,
            LaunchFails, StopMonitoring, Exited, Running, Cancelling
<1>1. CASE LaunchServer
  BY <1>1 DEF LaunchServer
<1>2. CASE AwaitServer
  BY <1>2 DEF AwaitServer
<1>3. CASE LaunchClient
  BY <1>3 DEF LaunchClient
<1>4. CASE OpenProfile
  BY <1>4 DEF OpenProfile
<1>5. CASE PollClient
  BY <1>5 DEF PollClient
<1>6. CASE ReadMarker
  BY <1>6 DEF ReadMarker
<1>7. CASE WriteAck
  BY <1>7 DEF WriteAck
<1>8. CASE TickNativeProfile
  BY <1>8 DEF TickNativeProfile
<1>9. CASE Sample
  BY <1>9 DEF Sample
<1>10. CASE Wake
  BY <1>10 DEF Wake
<1>11. CASE LastChecks
  BY <1>11 DEF LastChecks
<1>12. CASE Cleanup
  BY <1>12 DEF Cleanup
<1>13. CASE TerminateGroups
  BY <1>13 DEF TerminateGroups, Owned
<1>14. CASE EndTermWait
  BY <1>14 DEF EndTermWait
<1>15. CASE KillGroups
  BY <1>15 DEF KillGroups, Owned
<1>16. CASE EndKillWait
  BY <1>16 DEF EndKillWait
<1>17. CASE WaitOwnedChildren
  BY <1>17 DEF WaitOwnedChildren, Owned, LeaderState
<1>18. CASE FinishCleanup
  BY <1>18 DEF FinishCleanup
<1>19. CASE FinalizeReceipt
  BY <1>19 DEF FinalizeReceipt, HandledFailures, ReportFailures
<1>20. CASE Cancel
  BY <1>20 DEF Cancel
<1>21. CASE StartWorker
  BY <1>21 DEF StartWorker
<1>22. CASE RecordBatchError
  BY <1>22 DEF RecordBatchError
<1>23. CASE MarkLoad
  BY <1>23 DEF MarkLoad
<1>24. CASE RaiseInLoad
  BY <1>24 DEF RaiseInLoad
<1>25. CASE RaiseUnsettled
  BY <1>25 DEF RaiseUnsettled
<1>26. CASE Drain
  BY <1>26 DEF Drain
<1>27. CASE Acknowledged
  BY <1>27 DEF Acknowledged
<1>28. CASE AckTimeout
  BY <1>28 DEF AckTimeout
<1>29. CASE CloseAdapter
  BY <1>29 DEF CloseAdapter
<1>30. CASE CollectGarbage
  BY <1>30 DEF CollectGarbage
<1>31. CASE FinishWorker
  BY <1>31 DEF FinishWorker
<1>32. CASE RecordWorkerError
  BY <1>32 DEF RecordWorkerError
<1>33. CASE ExitWorker
  BY <1>33 DEF ExitWorker
<1>34. CASE \E r \in Roles : Crash(r)
  BY <1>34 DEF Crash
<1>35. CASE \E r \in Roles : Vanish(r)
  BY <1>35 DEF Vanish
<1>36. CASE Expire
  BY <1>36 DEF Expire
<1>37. CASE UNCHANGED vars
  BY <1>37 DEF vars
<1> QED
  BY <1>1, <1>2, <1>3, <1>4, <1>5, <1>6, <1>7, <1>8, <1>9, <1>10, <1>11, <1>12, <1>13,
     <1>14, <1>15, <1>16, <1>17, <1>18, <1>19, <1>20, <1>21, <1>22, <1>23, <1>24, <1>25,
     <1>26, <1>27, <1>28, <1>29, <1>30, <1>31, <1>32, <1>33, <1>34, <1>35, <1>36, <1>37
     DEF Next, Parent, Worker, Done

\* Every step keeps what the kill has reached.
LEMMA KillingStep == ASSUME TypeOK, Killing, [Next]_vars PROVE Killing'
<1> USE DEF TypeOK, parentVars, workerVars, groupVars, AfterMonitor, Cleaning, Roles, RaiseError, Launch,
            LaunchFails, StopMonitoring, Exited, Running, Killing
<1>1. CASE LaunchServer
  BY <1>1 DEF LaunchServer
<1>2. CASE AwaitServer
  BY <1>2 DEF AwaitServer
<1>3. CASE LaunchClient
  BY <1>3 DEF LaunchClient
<1>4. CASE OpenProfile
  BY <1>4 DEF OpenProfile
<1>5. CASE PollClient
  BY <1>5 DEF PollClient
<1>6. CASE ReadMarker
  BY <1>6 DEF ReadMarker
<1>7. CASE WriteAck
  BY <1>7 DEF WriteAck
<1>8. CASE TickNativeProfile
  BY <1>8 DEF TickNativeProfile
<1>9. CASE Sample
  BY <1>9 DEF Sample
<1>10. CASE Wake
  BY <1>10 DEF Wake
<1>11. CASE LastChecks
  BY <1>11 DEF LastChecks
<1>12. CASE Cleanup
  BY <1>12 DEF Cleanup
<1>13. CASE TerminateGroups
  BY <1>13 DEF TerminateGroups, Owned
<1>14. CASE EndTermWait
  BY <1>14 DEF EndTermWait
<1>15. CASE KillGroups
  BY <1>15, KillGroupsKilling
<1>16. CASE EndKillWait
  BY <1>16 DEF EndKillWait
<1>17. CASE WaitOwnedChildren
  BY <1>17, WaitOwnedChildrenKilling
<1>18. CASE FinishCleanup
  BY <1>18 DEF FinishCleanup
<1>19. CASE FinalizeReceipt
  BY <1>19 DEF FinalizeReceipt, HandledFailures, ReportFailures
<1>20. CASE Cancel
  BY <1>20 DEF Cancel
<1>21. CASE StartWorker
  BY <1>21 DEF StartWorker
<1>22. CASE RecordBatchError
  BY <1>22 DEF RecordBatchError
<1>23. CASE MarkLoad
  BY <1>23 DEF MarkLoad
<1>24. CASE RaiseInLoad
  BY <1>24 DEF RaiseInLoad
<1>25. CASE RaiseUnsettled
  BY <1>25 DEF RaiseUnsettled
<1>26. CASE Drain
  BY <1>26 DEF Drain
<1>27. CASE Acknowledged
  BY <1>27 DEF Acknowledged
<1>28. CASE AckTimeout
  BY <1>28 DEF AckTimeout
<1>29. CASE CloseAdapter
  BY <1>29 DEF CloseAdapter
<1>30. CASE CollectGarbage
  BY <1>30 DEF CollectGarbage
<1>31. CASE FinishWorker
  BY <1>31 DEF FinishWorker
<1>32. CASE RecordWorkerError
  BY <1>32 DEF RecordWorkerError
<1>33. CASE ExitWorker
  BY <1>33 DEF ExitWorker
<1>34. CASE \E r \in Roles : Crash(r)
  BY <1>34 DEF Crash
<1>35. CASE \E r \in Roles : Vanish(r)
  BY <1>35 DEF Vanish
<1>36. CASE Expire
  BY <1>36 DEF Expire
<1>37. CASE UNCHANGED vars
  BY <1>37 DEF vars
<1> QED
  BY <1>1, <1>2, <1>3, <1>4, <1>5, <1>6, <1>7, <1>8, <1>9, <1>10, <1>11, <1>12, <1>13,
     <1>14, <1>15, <1>16, <1>17, <1>18, <1>19, <1>20, <1>21, <1>22, <1>23, <1>24, <1>25,
     <1>26, <1>27, <1>28, <1>29, <1>30, <1>31, <1>32, <1>33, <1>34, <1>35, <1>36, <1>37
     DEF Next, Parent, Worker, Done

\* Every step keeps what the receipt says.
LEMMA ReceiptStep == ASSUME TypeOK, Receipt, Measuring, HandshakeInv, [Next]_vars PROVE Receipt'
<1> USE DEF TypeOK, parentVars, workerVars, groupVars, AfterMonitor, Cleaning, Roles, RaiseError, Launch,
            LaunchFails, StopMonitoring, Exited, Running, Receipt, Measuring, HandshakeInv, Place, Save, RecordError
<1>1. CASE LaunchServer
  BY <1>1 DEF LaunchServer
<1>2. CASE AwaitServer
  BY <1>2 DEF AwaitServer
<1>3. CASE LaunchClient
  BY <1>3 DEF LaunchClient
<1>4. CASE OpenProfile
  BY <1>4 DEF OpenProfile
<1>5. CASE PollClient
  BY <1>5 DEF PollClient
<1>6. CASE ReadMarker
  BY <1>6 DEF ReadMarker
<1>7. CASE WriteAck
  BY <1>7 DEF WriteAck
<1>8. CASE TickNativeProfile
  BY <1>8 DEF TickNativeProfile
<1>9. CASE Sample
  BY <1>9 DEF Sample
<1>10. CASE Wake
  BY <1>10 DEF Wake
<1>11. CASE LastChecks
  BY <1>11 DEF LastChecks
<1>12. CASE Cleanup
  BY <1>12 DEF Cleanup
<1>13. CASE TerminateGroups
  BY <1>13 DEF TerminateGroups, Owned
<1>14. CASE EndTermWait
  BY <1>14 DEF EndTermWait
<1>15. CASE KillGroups
  BY <1>15 DEF KillGroups, Owned
<1>16. CASE EndKillWait
  BY <1>16 DEF EndKillWait
<1>17. CASE WaitOwnedChildren
  BY <1>17 DEF WaitOwnedChildren, Owned, LeaderState
<1>18. CASE FinishCleanup
  BY <1>18 DEF FinishCleanup
<1>19. CASE FinalizeReceipt
  BY <1>19 DEF FinalizeReceipt, HandledFailures, ReportFailures
<1>20. CASE Cancel
  BY <1>20 DEF Cancel
<1>21. CASE StartWorker
  BY <1>21 DEF StartWorker
<1>22. CASE RecordBatchError
  BY <1>22 DEF RecordBatchError
<1>23. CASE MarkLoad
  BY <1>23 DEF MarkLoad
<1>24. CASE RaiseInLoad
  BY <1>24 DEF RaiseInLoad
<1>25. CASE RaiseUnsettled
  BY <1>25 DEF RaiseUnsettled
<1>26. CASE Drain
  BY <1>26 DEF Drain
<1>27. CASE Acknowledged
  BY <1>27 DEF Acknowledged
<1>28. CASE AckTimeout
  BY <1>28 DEF AckTimeout
<1>29. CASE CloseAdapter
  BY <1>29 DEF CloseAdapter
<1>30. CASE CollectGarbage
  BY <1>30 DEF CollectGarbage
<1>31. CASE FinishWorker
  BY <1>31 DEF FinishWorker
<1>32. CASE RecordWorkerError
  BY <1>32 DEF RecordWorkerError
<1>33. CASE ExitWorker
  BY <1>33 DEF ExitWorker
<1>34. CASE \E r \in Roles : Crash(r)
  BY <1>34 DEF Crash
<1>35. CASE \E r \in Roles : Vanish(r)
  BY <1>35 DEF Vanish
<1>36. CASE Expire
  BY <1>36 DEF Expire
<1>37. CASE UNCHANGED vars
  BY <1>37 DEF vars
<1> QED
  BY <1>1, <1>2, <1>3, <1>4, <1>5, <1>6, <1>7, <1>8, <1>9, <1>10, <1>11, <1>12, <1>13,
     <1>14, <1>15, <1>16, <1>17, <1>18, <1>19, <1>20, <1>21, <1>22, <1>23, <1>24, <1>25,
     <1>26, <1>27, <1>28, <1>29, <1>30, <1>31, <1>32, <1>33, <1>34, <1>35, <1>36, <1>37
     DEF Next, Parent, Worker, Done

\* A step of the worker, of the clock or of another process leaves the session
\* and its profiler alone.
LEMMA ProfilingFrame ==
  ASSUME TypeOK, Profiling, UNCHANGED <<ppc, profile, pending, receipt>>,
         leader["profiler"] \in Exited => leader'["profiler"] = leader["profiler"]
  PROVE  Profiling'
  BY DEF Profiling, Exited

\* Every step keeps what the session and an ok receipt say of the profiler.
LEMMA ProfilingStep == ASSUME TypeOK, Receipt, Profiling, [Next]_vars PROVE Profiling'
<1> USE DEF TypeOK, Profiling, AfterMonitor, Monitoring, Cleaning, Roles, RaiseError, StopMonitoring,
            workerVars, groupVars
<1>1. receipt = "ok" => ppc = "done"
  BY DEF Receipt
<1>2. CASE LaunchServer
  BY <1>1, <1>2 DEF LaunchServer, LaunchFails
<1>3. CASE AwaitServer
  BY <1>1, <1>3 DEF AwaitServer
<1>4. CASE LaunchClient
  BY <1>1, <1>4 DEF LaunchClient, LaunchFails
<1>5. CASE OpenProfile
  BY <1>1, <1>5 DEF OpenProfile
<1>6. CASE PollClient
  BY <1>1, <1>6 DEF PollClient
<1>7. CASE ReadMarker
  BY <1>1, <1>7 DEF ReadMarker
<1>8. CASE WriteAck
  BY <1>1, <1>8 DEF WriteAck
<1>9. CASE TickNativeProfile
  BY <1>1, <1>9 DEF TickNativeProfile
<1>10. CASE Sample
  BY <1>1, <1>10 DEF Sample
<1>11. CASE Wake
  BY <1>1, <1>11 DEF Wake
<1>12. CASE LastChecks
  BY <1>1, <1>12 DEF LastChecks
<1>13. CASE Cleanup
  BY <1>1, <1>13 DEF Cleanup
<1>14. CASE TerminateGroups
  BY <1>1, <1>14 DEF TerminateGroups
<1>15. CASE EndTermWait
  BY <1>1, <1>15 DEF EndTermWait
<1>16. CASE KillGroups
  BY <1>1, <1>16 DEF KillGroups
<1>17. CASE EndKillWait
  BY <1>1, <1>17 DEF EndKillWait
<1>18. CASE WaitOwnedChildren
  BY <1>1, <1>18 DEF WaitOwnedChildren
<1>19. CASE FinishCleanup
  BY <1>1, <1>19 DEF FinishCleanup
<1>20. CASE FinalizeReceipt
  <2>1. receipt' = "ok" => failures' = {}
    BY <1>20 DEF FinalizeReceipt
  <2>2. failures' = {} => pending = "none"
    BY <1>20 DEF FinalizeReceipt, HandledFailures
  <2>3. failures' = {} => profile = "none" \/ (profile = "finished" /\ leader["profiler"] = "exit0")
    BY <1>20 DEF FinalizeReceipt, ProfileFailures
  <2>4. ppc = "finalize" /\ ppc' = "done" /\ UNCHANGED <<pending, profile, leader>>
    BY <1>20 DEF FinalizeReceipt
  <2> QED
    BY <2>1, <2>2, <2>3, <2>4
<1>21. CASE Cancel
  BY <1>1, <1>21 DEF Cancel
<1>22. CASE Worker
  <2>1. UNCHANGED parentVars
    BY <1>22 DEF Worker, StartWorker, RecordBatchError, MarkLoad, RaiseInLoad,
       RaiseUnsettled, Drain, Acknowledged, AckTimeout, CloseAdapter, CollectGarbage,
       FinishWorker, RecordWorkerError, ExitWorker
  <2>2. leader'["profiler"] = leader["profiler"]
    BY <1>22 DEF Worker, StartWorker, RecordBatchError, MarkLoad, RaiseInLoad,
       RaiseUnsettled, Drain, Acknowledged, AckTimeout, CloseAdapter, CollectGarbage,
       FinishWorker, RecordWorkerError, ExitWorker
  <2> QED
    BY <2>1, <2>2, ProfilingFrame DEF parentVars
<1>23. CASE \E r \in Roles : Crash(r)
  <2>1. UNCHANGED parentVars
    BY <1>23 DEF Crash
  <2>2. leader["profiler"] \in Exited => leader'["profiler"] = leader["profiler"]
    BY <1>23 DEF Crash, Exited
  <2> QED
    BY <2>1, <2>2, ProfilingFrame DEF parentVars
<1>24. CASE \E r \in Roles : Vanish(r)
  <2>1. UNCHANGED parentVars
    BY <1>24 DEF Vanish
  <2>2. leader["profiler"] \in Exited => leader'["profiler"] = leader["profiler"]
    BY <1>24 DEF Vanish, Exited
  <2> QED
    BY <2>1, <2>2, ProfilingFrame DEF parentVars
<1>25. CASE Expire \/ UNCHANGED vars
  BY <1>25 DEF Expire, vars, parentVars
<1> QED
  BY <1>2, <1>3, <1>4, <1>5, <1>6, <1>7, <1>8, <1>9, <1>10, <1>11, <1>12, <1>13, <1>14,
     <1>15, <1>16, <1>17, <1>18, <1>19, <1>20, <1>21, <1>22, <1>23, <1>24, <1>25 DEF Next,
     Parent, Done

\* The whole invariant is inductive.
Inv == HandshakeInv /\ CaseInv

\* The invariant holds when a case begins.
LEMMA InvInit == Init => Inv
<1> SUFFICES ASSUME Init PROVE CaseInv
  BY HandshakeInit DEF Inv
<1>1. Measuring
  BY DEF Init, Roles, Measuring, AfterMonitor, Cleaning
<1>2. Cancelling
  BY DEF Init, Cancelling, Cleaning
<1>3. Killing
  BY DEF Init, Killing, Cleaning
<1>4. Receipt
  BY DEF Init, Receipt
<1>5. Profiling
  BY DEF Init, Profiling, Monitoring, AfterMonitor, Cleaning
<1> QED
  BY <1>1, <1>2, <1>3, <1>4, <1>5 DEF CaseInv

\* Every step preserves it.
LEMMA InvStep == Inv /\ [Next]_vars => Inv'
<1> SUFFICES ASSUME Inv, [Next]_vars PROVE Inv'
  OBVIOUS
<1>1. HandshakeInv'
  BY HandshakeStep DEF Inv
<1>2. Measuring' /\ Cancelling' /\ Killing' /\ Receipt' /\ Profiling'
  BY MeasuringStep, CancellingStep, KillingStep, ReceiptStep, ProfilingStep DEF Inv,
     CaseInv, HandshakeInv
<1> QED
  BY <1>1, <1>2 DEF Inv, CaseInv

\* It is an invariant of the case.
LEMMA Invariance == Spec => []Inv
  BY InvInit, InvStep, PTL DEF Spec

(***************************************************************************)
(* The theorems.                                                            *)
(***************************************************************************)
\* The state of parent, worker and files is well typed in every case.
THEOREM TypeCorrect == Spec => []TypeOK
<1>1. Inv => TypeOK
  BY DEF Inv, HandshakeInv
<1> QED
  BY <1>1, Invariance, PTL

\* check_marker never raises for an out-of-order marker of a worker of its own.
THEOREM MarkersStayInOrder == Spec => []MarkersInOrder
<1>1. Inv => MarkersInOrder
  BY DEF Inv, HandshakeInv, TypeOK, Numbering, MarkersInOrder
<1> QED
  BY <1>1, Invariance, PTL

\* An ok receipt stands for a whole, undisturbed measurement.
THEOREM OkReceiptsAreWhole == Spec => []OkReceiptIsWhole
<1>1. ASSUME Inv, receipt = "ok"
      PROVE  /\ sampled = Plan /\ listed = Plan
             /\ report.status = "ok" /\ ~ report.errors /\ ~ raised
             /\ leader["client"] = "exit0" /\ ~ lostServer /\ cancels = 0
  <2>1. ppc = "done" /\ failures = {} /\ pending = "none" /\ report.status = "ok"
    BY <1>1 DEF Inv, CaseInv, Receipt
  <2>2. leader["client"] = "exit0" /\ ~ lostServer /\ cancels = 0
    BY <1>1, <2>1 DEF Inv, CaseInv, Measuring, Cancelling, AfterMonitor, Cleaning,
       HandshakeInv, TypeOK
  <2>3. wpc = "exit" /\ ~ raised /\ Len(listed) = LastPhase /\ ~ report.errors
    BY <1>1, <2>1 DEF Inv, HandshakeInv, Place
  <2>4. Len(sampled) = LastPhase
    BY <1>1, <2>1, <2>3 DEF Inv, HandshakeInv, Numbering, TypeOK
  <2>5. /\ listed \in Seq(Phases) /\ sampled \in Seq(Phases)
        /\ \A i \in 1 .. Len(listed) : listed[i] = i
        /\ \A i \in 1 .. Len(sampled) : sampled[i] = i
    BY <1>1, <2>3 DEF Inv, HandshakeInv, Naming, TypeOK
  <2>6. listed = Plan /\ sampled = Plan
    BY <2>3, <2>4, <2>5 DEF Plan
  <2> QED
    BY <2>1, <2>2, <2>3, <2>6
<1>2. Inv => OkReceiptIsWhole
  BY <1>1 DEF OkReceiptIsWhole
<1> QED
  BY <1>2, Invariance, PTL

\* An ok receipt of a profiled case is that of a profiler that was attached and
\* has ended by itself (native_profile.finalize).
THEOREM OkReceiptsAreProfiled == Spec => []OkReceiptIsProfiled
<1>1. Inv => OkReceiptIsProfiled
  BY DEF Inv, CaseInv, Profiling, OkReceiptIsProfiled
<1> QED
  BY <1>1, Invariance, PTL

\* No owned process survives a case whose receipt reports no cleanup failure.
THEOREM NothingSurvives == Spec => []NoSurvivors
<1>1. ASSUME Inv, ppc = "done", "cleanup" \notin failures
      PROVE  \A r \in Roles : leader[r] \in Exited \cup {"absent"} /\ descendant[r] # "live"
  <2>1. ~ reapFailed
    BY <1>1 DEF Inv, CaseInv, Killing, Receipt, HandshakeInv, TypeOK
  <2> QED
    BY <1>1, <2>1 DEF Inv, CaseInv, Killing
<1>2. Inv => NoSurvivors
  BY <1>1 DEF NoSurvivors
<1> QED
  BY <1>2, Invariance, PTL

\* A cancelled case is re-raised as cancelled unless its cleanup failed.
THEOREM CancellationIsKept == Spec => []CancellationSurvivesCleanup
<1>1. Inv => CancellationSurvivesCleanup
  BY DEF Inv, CaseInv, Cancelling, Receipt, Cleaning, HandshakeInv, TypeOK,
     CancellationSurvivesCleanup
<1> QED
  BY <1>1, Invariance, PTL

\* The handshake files refine the phase barrier: reading a marker samples a phase
\* only when the worker has caught up, and an acknowledgement the worker accepts is
\* of the phase sampled last.
THEOREM HandshakeRefinesBarrier == Spec => ImplementsPhaseBarrier
<1>1. Init => Barrier!Init
  BY DEF Init, Barrier!Init
<1>2. ASSUME HandshakeInv, ReadMarker PROVE [Barrier!Next]_Barrier!vars
  <2>1. CASE sampled' = sampled
    BY <1>2, <2>1 DEF ReadMarker, workerVars, Barrier!vars
  <2>2. CASE marker.seq = sequence + 1 /\ sampled' = Append(sampled, marker.phase)
    <3>1. Len(listed) = Len(sampled)
      BY <1>2, <2>2 DEF HandshakeInv, TypeOK, Numbering, ReadMarker
    <3>2. Barrier!Sample(marker.phase)
      BY <1>2, <2>2, <3>1 DEF ReadMarker, workerVars, Barrier!Sample
    <3> QED
      BY <1>2, <3>2 DEF HandshakeInv, TypeOK, Barrier!Next
  <2> QED
    BY <1>2, <2>1, <2>2 DEF ReadMarker
<1>3. ASSUME HandshakeInv, Acknowledged PROVE [Barrier!Next]_Barrier!vars
  <2>1. /\ marker.seq = Len(listed) + 1
        /\ Len(sampled) = Len(listed) + 1
        /\ listed' = Append(listed, marker.phase)
        /\ UNCHANGED <<sampled, raised>>
    BY <1>3 DEF HandshakeInv, TypeOK, Numbering, Acknowledged, parentVars
  <2>2. CASE raised
    <3>1. Barrier!AcknowledgeLate(marker.phase)
      BY <2>1, <2>2 DEF Barrier!AcknowledgeLate
    <3> QED
      BY <1>3, <3>1 DEF HandshakeInv, TypeOK, Barrier!Next
  <2>3. CASE ~ raised
    <3>1. marker.phase = sampled[Len(sampled)]
      BY <1>3, <2>1, <2>3 DEF HandshakeInv, TypeOK, Naming, Acknowledged
    <3>2. Barrier!Acknowledge
      BY <2>1, <3>1 DEF Barrier!Acknowledge
    <3> QED
      BY <3>2 DEF Barrier!Next
  <2> QED
    BY <2>2, <2>3
<1>4. ASSUME HandshakeInv, [Next]_vars, ~ ReadMarker, ~ Acknowledged
      PROVE  [Barrier!Next]_Barrier!vars
  <2>1. UNCHANGED <<sampled, listed>> /\ (raised' = raised \/ raised' = TRUE)
    <3>1. CASE Parent \/ Cancel
      BY <1>4, <3>1 DEF Parent, Cancel, LaunchServer, AwaitServer, LaunchClient,
         OpenProfile, PollClient, WriteAck, TickNativeProfile, Sample, Wake,
         LastChecks, Cleanup, TerminateGroups, EndTermWait, KillGroups, EndKillWait,
         WaitOwnedChildren, FinishCleanup, FinalizeReceipt, workerVars
    <3>2. CASE Worker
      BY <1>4, <3>2 DEF Worker, StartWorker, RecordBatchError, MarkLoad, RaiseInLoad,
         RaiseUnsettled, Drain, AckTimeout, CloseAdapter, CollectGarbage,
         FinishWorker, RecordWorkerError, ExitWorker, WriteMarker, parentVars,
         workerVars
    <3>3. CASE (\E r \in Roles : Crash(r) \/ Vanish(r)) \/ Expire \/ Done \/ UNCHANGED vars
      BY <3>3 DEF Crash, Vanish, Expire, Done, vars, parentVars, workerVars
    <3> QED
      BY <1>4, <3>1, <3>2, <3>3 DEF Next
  <2> QED
    BY <2>1 DEF Barrier!Next, Barrier!Break, Barrier!vars
<1>5. Inv /\ [Next]_vars => [Barrier!Next]_Barrier!vars
  BY <1>2, <1>3, <1>4 DEF Inv
<1> QED
  BY <1>1, <1>5, Invariance, PTL DEF Spec, ImplementsPhaseBarrier, Barrier!Spec
=============================================================================
