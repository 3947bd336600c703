-------------------------- MODULE AttributionBatch --------------------------
(***************************************************************************)
(* One batch of the attribution study: rounds of streams read at the same    *)
(* time, a fixed number of them or as many as a time window asks for, the    *)
(* sizes of their chunks recorded under bounds that all streams share, the   *)
(* digests finalized when the load is over, and the replay of the observed   *)
(* sizes.  What is recorded of a batch is judged once more, by readers that  *)
(* have nothing but the record.                                              *)
(***************************************************************************)
EXTENDS Naturals, SequencesExt

CONSTANTS
  Body,         \* bytes of the declared body
  Concurrency,  \* streams of a round
  Rounds,       \* rounds of a fixed batch, the least of a window
  Minimum,      \* minimum_duration_s of a window
  MaxStreams,   \* max_window_streams
  BinsCap,      \* histogram_bins_cap: different sizes that are counted
  SharedBins,   \* bins the streams of a fixed batch have together
  ReplayBytes, ReplayChunks,  \* what is replayed in one go
  MaxSegments,  \* segments of the replay of a window
  MaxClock,     \* bound: ticks of the clock
  MaxFaults     \* bound: faults of probes, headers, bytes and transports in a batch

\* validate_attribution_config and the checks measure_async_batch starts with.
ConfigIsValid ==
  /\ {Body, Concurrency, Rounds, Minimum, BinsCap, SharedBins, ReplayBytes, ReplayChunks} \subseteq Nat \ {0}
  /\ {MaxStreams, MaxSegments, MaxClock, MaxFaults} \subseteq Nat
  /\ Rounds * Concurrency <= MaxStreams

ASSUME ConfigAssumption == ConfigIsValid

VARIABLES
  window,     \* is this batch a time window?
  phase,      \* "before", "load", "stopped", "after", "measured"
  clock,
  probes,     \* the CPU probes of client and server, before and after the load
  span,       \* when the load has started and finished
  active,     \* the streams of the round
  pending,    \* the streams of the rounds that are over
  histogram,  \* the sizes of a window, and whether all of them are counted
  bins,       \* bins the streams have taken
  sending,    \* what the server has sent in the round, which no code records,
  delivered,  \* and in the rounds that are over
  faults      \* how often something went wrong, which no code records either

loadVars == <<active, pending, histogram, bins, sending, delivered>>
batchVars == <<window, phase, clock, probes, span, loadVars, faults>>

Sizes == 1 .. Body
NoSizes == [n \in Sizes |-> 0]
Slots == 1 .. Concurrency

\* bad: the digest is not that of the body; framed: the headers announce it.
NewStream ==
  [state |-> "sent", framed |-> FALSE, bytes |-> 0, chunks |-> 0, least |-> 0, most |-> 0,
   sizes |-> NoSizes, complete |-> TRUE, bad |-> FALSE, eof |-> FALSE, error |-> FALSE]

\* What the server has sent of a stream: its sizes, and whether they are the body's bytes.
Nothing == [sizes |-> NoSizes, corrupt |-> FALSE, ended |-> FALSE]

MaximumRequests ==
  IF window THEN (MaxStreams \div Concurrency) * Concurrency ELSE Rounds * Concurrency

BatchInit ==
  /\ window \in BOOLEAN /\ phase = "before" /\ clock = 0
  /\ probes = << >> /\ span = [started |-> 0, finished |-> 0]
  /\ active = [s \in Slots |-> NewStream] /\ pending = << >>
  /\ histogram = [sizes |-> NoSizes, complete |-> TRUE] /\ bins = 0
  /\ sending = [s \in Slots |-> Nothing] /\ delivered = << >> /\ faults = 0

\* Bound: time stands still outside of the load, where only its order is compared.
Tick ==
  /\ phase \in {"load", "stopped"} /\ clock < MaxClock /\ clock' = clock + 1
  /\ UNCHANGED <<window, phase, probes, span, loadVars, faults>>

-----------------------------------------------------------------------------
(* The probes and the ends of the load.                                     *)

\* A step goes well, or is one of the faults.
Goes(well) == IF well THEN UNCHANGED faults ELSE faults < MaxFaults /\ faults' = faults + 1

\* A process that is gone, or may not be asked, leaves the probe without counters.
CpuSnapshot ==
  /\ phase \in {"before", "after"} /\ Len(probes) < IF phase = "before" THEN 2 ELSE 4
  /\ \E known \in BOOLEAN : probes' = Append(probes, [at |-> clock, known |-> known]) /\ Goes(known)
  /\ UNCHANGED <<window, phase, clock, span, loadVars>>

StartLoad ==
  /\ phase = "before" /\ Len(probes) = 2
  /\ phase' = "load" /\ span' = [span EXCEPT !.started = clock]
  /\ UNCHANGED <<window, clock, probes, loadVars, faults>>

\* The load has stopped; the clock is read only now.
FinishLoad ==
  /\ phase = "stopped" /\ phase' = "after" /\ span' = [span EXCEPT !.finished = clock]
  /\ UNCHANGED <<window, clock, probes, loadVars, faults>>

Measured ==
  /\ phase = "after" /\ Len(probes) = 4 /\ phase' = "measured"
  /\ UNCHANGED <<window, clock, probes, span, loadVars, faults>>

-----------------------------------------------------------------------------
(* The streams of a round.                                                  *)

Reading(s, state) == phase = "load" /\ active[s].state = state
Sends(s, sent) == sending' = [sending EXCEPT ![s] = sent] /\ UNCHANGED delivered

\* The headers are those of an uncompressed HTTP/1.1 body of the declared length or not.
Headers(s) ==
  /\ Reading(s, "sent")
  /\ \E framed \in BOOLEAN :
       active' = [active EXCEPT ![s].state = "open", ![s].framed = framed] /\ Goes(framed)
  /\ UNCHANGED <<window, phase, clock, probes, span, pending, histogram, bins, sending, delivered>>

Record(sizes, n) == [sizes EXCEPT ![n] = @ + 1]

\* Faulty: every delivery takes a bin.
TakesBin(sizes, n) == TRUE

\* A size that is counted already takes no bin.
NeedsBin(sizes, n) == sizes[n] = 0

Distinct(sizes) == Cardinality({n \in Sizes : sizes[n] > 0})

\* A window counts sizes in a histogram of the whole batch.
ObserveWindow(n) ==
  IF ~NeedsBin(histogram.sizes, n)
  THEN histogram' = [histogram EXCEPT !.sizes = Record(@, n)] /\ UNCHANGED bins
  ELSE IF bins < BinsCap
  THEN histogram' = [histogram EXCEPT !.sizes = Record(@, n)] /\ bins' = bins + 1
  ELSE histogram' = [histogram EXCEPT !.complete = FALSE] /\ UNCHANGED bins

\* A fixed batch counts them by stream, under a cap of the stream's and one of the batch.
KeepsSize(r, n) ==
  ~NeedsBin(r.sizes, n) \/ (Distinct(r.sizes) < BinsCap /\ bins < SharedBins)

ObserveStream(r, n) ==
  bins' = IF NeedsBin(r.sizes, n) /\ KeepsSize(r, n) THEN bins + 1 ELSE bins

\* Faulty: the digest is begun anew with every chunk.
DigestOfLast(r, corrupt) == corrupt

Digest(r, corrupt) == r.bad \/ corrupt

Observed(r, n, corrupt) ==
  [r EXCEPT !.bytes = @ + n, !.chunks = @ + 1,
            !.least = IF @ = 0 \/ n < @ THEN n ELSE @,
            !.most = IF n > @ THEN n ELSE @,
            !.sizes = IF ~window /\ KeepsSize(r, n) THEN Record(@, n) ELSE @,
            !.complete = @ /\ (window \/ KeepsSize(r, n)),
            !.bad = Digest(r, corrupt)]

\* A chunk is recorded, then digested; more bytes than declared end the stream.
Chunk(s) ==
  /\ Reading(s, "open")
  /\ \E n \in Sizes, corrupt \in BOOLEAN :
       LET r == Observed(active[s], n, corrupt)
           sent == sending[s]
       IN /\ IF window THEN ObserveWindow(n) ELSE ObserveStream(active[s], n) /\ UNCHANGED histogram
          /\ active' = [active EXCEPT ![s] =
               IF r.bytes > Body THEN [r EXCEPT !.state = "done", !.error = TRUE] ELSE r]
          /\ Sends(s, [sent EXCEPT !.sizes = Record(@, n), !.corrupt = @ \/ corrupt])
          /\ Goes(~corrupt /\ r.bytes <= Body)
  /\ UNCHANGED <<window, phase, clock, probes, span, pending>>

\* The iterator ends; leaving the response may raise all the same.
EndOfStream(s) ==
  /\ Reading(s, "open")
  /\ \E error \in BOOLEAN :
       /\ active' = [active EXCEPT ![s].state = "done", ![s].eof = TRUE, ![s].error = error]
       /\ Goes(~error)
  /\ Sends(s, [sending[s] EXCEPT !.ended = TRUE])
  /\ UNCHANGED <<window, phase, clock, probes, span, pending, histogram, bins>>

\* The request, or the next chunk, raises; what has arrived is kept.
StreamFails(s) ==
  /\ Reading(s, "sent") \/ Reading(s, "open")
  /\ active' = [active EXCEPT ![s].state = "done", ![s].error = TRUE] /\ Goes(FALSE)
  /\ UNCHANGED <<window, phase, clock, probes, span, pending, histogram, bins, sending, delivered>>

Elapsed == clock - span.started

\* The gather of a round returns; a window ends with the round its time is over.
EndRound ==
  /\ phase = "load" /\ \A s \in Slots : active[s].state = "done"
  /\ pending' = pending \o active /\ active' = [s \in Slots |-> NewStream]
  /\ delivered' = delivered \o sending /\ sending' = [s \in Slots |-> Nothing]
  /\ phase' = IF \/ Len(pending') >= MaximumRequests
                 \/ window /\ Len(pending') >= Rounds * Concurrency /\ Elapsed >= Minimum
              THEN "stopped" ELSE "load"
  /\ UNCHANGED <<window, clock, probes, span, histogram, bins, faults>>

BatchNext ==
  \/ Tick \/ CpuSnapshot \/ StartLoad \/ FinishLoad \/ Measured \/ EndRound
  \/ \E s \in Slots : Headers(s) \/ Chunk(s) \/ EndOfStream(s) \/ StreamFails(s)

BatchSpec == BatchInit /\ [][BatchNext]_batchVars

-----------------------------------------------------------------------------
(* The record of the batch.                                                 *)

\* finalize: the digest is compared after the load.
IntegrityHolds(r) == r.framed /\ r.eof /\ r.bytes = Body /\ ~r.bad
Ok(r) == ~r.error /\ IntegrityHolds(r)

Sum(f(_)) == SumFunction([i \in DOMAIN pending |-> f(pending[i])])
Duration == span.finished - span.started
TargetReached == Duration >= Minimum
Bytes(sizes) == SumFunctionOnSet([n \in Sizes |-> n * sizes[n]], Sizes)
Chunks(sizes) == SumFunctionOnSet(sizes, Sizes)

BytesOf(r) == r.bytes
ChunksOf(r) == r.chunks
VerifiedOf(r) == IF Ok(r) THEN r.bytes ELSE 0

\* The sizes of some streams, added up.
SizesOf(streams) == [n \in Sizes |-> SumFunction([i \in DOMAIN streams |-> streams[i].sizes[n]])]

\* The histogram to replay: the window's, or that of all streams under one cap.
ObservedHistogram ==
  IF window THEN histogram
  ELSE [sizes |-> SizesOf(pending),
        complete |-> /\ Distinct(SizesOf(pending)) <= BinsCap
                     /\ \A i \in 1 .. Len(pending) : pending[i].complete]

\* Sizes in ascending order, each as often as it was observed.
Ascending(sizes) == FlattenSeq([n \in Sizes |-> [i \in 1 .. sizes[n] |-> n]])

FitsBytes(segment, n) == Bytes(segment) + n <= ReplayBytes

\* Does another chunk fit into a segment of the replay?
Fits(segment, n) == FitsBytes(segment, n) /\ Chunks(segment) < ReplayChunks

\* A chunk goes into the last segment, or begins one.
Packed(segments, n) ==
  IF segments # << >> /\ Fits(Last(segments), n)
  THEN [segments EXCEPT ![Len(segments)] = Record(@, n)]
  ELSE Append(segments, Record(NoSizes, n))

Segments(sizes) == FoldLeft(Packed, << >>, Ascending(sizes))

ReplayFails ==
  LET h == ObservedHistogram
  IN \/ ~h.complete \/ Sum(ChunksOf) = 0
     \/ ~window /\ (Sum(BytesOf) > ReplayBytes \/ Sum(ChunksOf) > ReplayChunks)
     \/ Chunks(h.sizes) # Sum(ChunksOf) \/ Bytes(h.sizes) # Sum(BytesOf)
     \/ \E n \in Sizes : h.sizes[n] > 0 /\ n > ReplayBytes
     \/ window /\ Len(Segments(h.sizes)) > MaxSegments

\* The segments that are recorded with the replay.
Replay == IF ReplayFails THEN << >> ELSE Segments(ObservedHistogram.sizes)

\* The counters of a process over the load, if both its probes have them.
CpuKnown(role) == probes[role].known /\ probes[role + 2].known

-----------------------------------------------------------------------------
(* The readers of the record.                                               *)

HistogramMatches(r) == Chunks(r.sizes) = r.chunks /\ Bytes(r.sizes) = Body

SampleEvidenceComplete(r) ==
  /\ Ok(r) /\ r.eof /\ r.framed /\ ~r.bad /\ r.bytes = Body
  /\ IF window THEN histogram.complete ELSE r.complete /\ HistogramMatches(r)

ReplayMatches ==
  /\ Replay # << >> /\ Len(Replay) <= MaxSegments
  /\ \A i \in 1 .. Len(Replay) : Bytes(Replay[i]) <= ReplayBytes /\ Chunks(Replay[i]) <= ReplayChunks
  /\ \A n \in Sizes : SumFunction([i \in DOMAIN Replay |-> Replay[i][n]]) = histogram.sizes[n]

\* The sizes a stream has met are consistent with a whole body.
ChunkBoundsMatch(r) ==
  /\ r.chunks \in 1 .. Body /\ 1 <= r.least /\ r.least <= r.most
  /\ r.least * r.chunks <= Body /\ Body <= r.most * r.chunks
  /\ histogram.sizes[r.least] > 0 /\ histogram.sizes[r.most] > 0

WindowDistributionMatches ==
  /\ histogram.complete /\ Distinct(histogram.sizes) \in 1 .. BinsCap
  /\ Chunks(histogram.sizes) = Sum(ChunksOf)
  /\ Bytes(histogram.sizes) = Body * Len(pending)
  /\ \A i \in 1 .. Len(pending) : ChunkBoundsMatch(pending[i])
  /\ ReplayMatches

BatchEvidenceComplete ==
  /\ pending # << >> /\ \A i \in 1 .. Len(pending) : SampleEvidenceComplete(pending[i])
  /\ window => WindowDistributionMatches

\* A window was ended by its time, or by its number of streams.
WindowWorkloadMatches ==
  LET rounds == Len(pending) \div Concurrency
  IN /\ rounds \in Rounds .. MaxStreams \div Concurrency
     /\ ~TargetReached => rounds = MaxStreams \div Concurrency

BatchWorkloadMatches ==
  /\ ~window => Len(pending) = Rounds * Concurrency
  /\ \A i \in 1 .. Len(pending) : Ok(pending[i])

\* The probes enclose the load, which takes some time.
CpuBoundaryMatches ==
  /\ span.started < span.finished
  /\ \A role \in 1 .. 2 : probes[role].at <= span.started /\ span.finished <= probes[role + 2].at

DeclaredWorkloadMatches ==
  (window => WindowWorkloadMatches) /\ BatchWorkloadMatches /\ CpuBoundaryMatches

\* The aggregate row of a child with one batch.
Expected == IF window THEN Len(pending) ELSE Rounds * Concurrency
IntegrityComplete ==
  /\ Sum(VerifiedOf) = Expected * Body /\ Len(pending) = Expected
  /\ BatchEvidenceComplete /\ DeclaredWorkloadMatches

\* Is there any reason not to use the row, a short window or a missing counter?
OverheadComplete == ~ReplayFails
CpuComplete == \A role \in 1 .. 2 : CpuKnown(role)
Conclusive ==
  IntegrityComplete /\ (window => TargetReached) /\ OverheadComplete /\ CpuComplete

-----------------------------------------------------------------------------
Whole(sent) == ~sent.corrupt /\ sent.ended /\ Bytes(sent.sizes) = Body
AllSent == SizesOf(delivered)

\* A batch whose record is taken as complete did read every body of its rounds
\* to the end, byte for byte, and its replay is that of the very sizes that were
\* sent, however the streams shared the bins.
CompleteIsWhole ==
  phase = "measured" /\ IntegrityComplete =>
    /\ Len(pending) >= Rounds * Concurrency
    /\ \A i \in 1 .. Len(pending) : Whole(delivered[i])
    /\ OverheadComplete => ObservedHistogram.sizes = AllSent

\* The readers refuse nothing the batch has recorded faithfully: streams that
\* came whole, sizes within the caps and a load that took time are a complete
\* row, whichever way the window was ended; with nothing gone wrong, time enough
\* and a replay it is a conclusive one.
FaithfulIsComplete ==
  /\ phase = "measured" /\ span.started < span.finished
  /\ \A i \in 1 .. Len(pending) : Whole(delivered[i]) /\ pending[i].framed /\ ~pending[i].error
  /\ IF window THEN ~ReplayFails ELSE \A i \in 1 .. Len(pending) : pending[i].complete
  => IntegrityComplete /\ (TargetReached /\ faults = 0 /\ ~ReplayFails => Conclusive)

\* The sizes of a window are all counted unless there are more of them than
\* bins; those of a fixed batch unless a stream or all streams run out of bins.
SizesAreCounted ==
  phase = "measured" =>
    IF window THEN histogram.complete <=> Distinct(AllSent) <= BinsCap
    ELSE \A i \in 1 .. Len(pending) :
           /\ pending[i].complete => pending[i].sizes = delivered[i].sizes
           /\ ~pending[i].complete => Distinct(delivered[i].sizes) > BinsCap \/ bins = SharedBins
=============================================================================
