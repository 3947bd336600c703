-------------------------- MODULE StreamingProofs ---------------------------
(***************************************************************************)
(* Proofs about the streaming side: that StreamControls judges and releases  *)
(* its streams, for any set of streams and any sequence of controls; that    *)
(* what AttributionBatch records is what was sent, and that readers of the   *)
(* record refuse nothing that was recorded faithfully, for every body,       *)
(* number of streams and bounds of the histograms.                           *)
(***************************************************************************)
EXTENDS StreamControls, AttributionBatch, Sums

(***************************************************************************)
(* THE BATCH                                                                *)
(***************************************************************************)

(***************************************************************************)
(* The inductive invariant, in named parts.                                 *)
(***************************************************************************)
StreamRecord ==
  [state : {"sent", "open", "done"}, framed : BOOLEAN, bytes : Nat, chunks : Nat, least : Nat, most : Nat,
   sizes : [Sizes -> Nat], complete : BOOLEAN, bad : BOOLEAN, eof : BOOLEAN, error : BOOLEAN]
SentRecord == [sizes : [Sizes -> Nat], corrupt : BOOLEAN, ended : BOOLEAN]

BatchTypeOK ==
  /\ window \in BOOLEAN /\ phase \in {"before", "load", "stopped", "after", "measured"} /\ clock \in Nat
  /\ probes \in Seq([at : Nat, known : BOOLEAN]) /\ span \in [started : Nat, finished : Nat]
  /\ active \in [Slots -> StreamRecord] /\ pending \in Seq(StreamRecord)
  /\ histogram \in [sizes : [Sizes -> Nat], complete : BOOLEAN] /\ bins \in Nat
  /\ sending \in [Slots -> SentRecord] /\ delivered \in Seq(SentRecord) /\ faults \in Nat

\* The record of a stream is that of what the server has sent of it.
Faithful(r, sent) == r.bytes = Bytes(sent.sizes) /\ r.bad = sent.corrupt /\ r.eof = sent.ended

\* Were all bins of the batch taken, or all of the stream's, before a size had one?
Overflowed(r, sent, taken) ==
  \/ taken = SharedBins
  \/ Distinct(r.sizes) >= BinsCap /\ \E n \in Sizes : r.sizes[n] = 0 /\ sent.sizes[n] > 0

\* A stream of a fixed batch has counted the sizes it was sent, or was short of bins.
Sized(r, sent, taken) ==
  /\ \A n \in Sizes : r.sizes[n] > 0 => sent.sizes[n] > 0
  /\ IF r.complete THEN r.sizes = sent.sizes ELSE Overflowed(r, sent, taken)

\* Streams of the round, and those of the rounds that are over.
Read ==
  /\ Len(pending) = Len(delivered)
  /\ \A s \in Slots : Faithful(active[s], sending[s])
  /\ \A i \in 1 .. Len(pending) : Faithful(pending[i], delivered[i])

FixedSizes ==
  ~window => /\ bins <= SharedBins
             /\ \A s \in Slots : Sized(active[s], sending[s], bins)
             /\ \A i \in 1 .. Len(pending) : Sized(pending[i], delivered[i], bins)

\* How often the server has sent a chunk of n bytes.
SentSoFar == [n \in Sizes |-> SizesOf(delivered)[n] + SizesOf(sending)[n]]

\* A histogram has counted all sizes, or was short of bins.
Counted(h, taken, sizes) ==
  /\ taken = Distinct(h.sizes) /\ taken <= BinsCap
  /\ \A n \in Sizes : h.sizes[n] > 0 => sizes[n] > 0
  /\ IF h.complete THEN h.sizes = sizes
     ELSE taken = BinsCap /\ \E n \in Sizes : h.sizes[n] = 0 /\ sizes[n] > 0

WindowSizes == window => Counted(histogram, bins, SentSoFar)

\* The load stops between two rounds, when there have been enough.
Stopped ==
  /\ phase # "load" => sending = [s \in Slots |-> Nothing]
  /\ phase \in {"stopped", "after", "measured"} => Len(pending) >= Rounds * Concurrency

BatchInv == BatchTypeOK /\ Read /\ FixedSizes /\ WindowSizes /\ Stopped

(***************************************************************************)
(* Sizes.                                                                   *)
(***************************************************************************)
\* What the bounds of a batch satisfy (ConfigAssumption).
LEMMA ConfigFact ==
  /\ Body \in Nat \ {0} /\ Concurrency \in Nat \ {0} /\ Rounds \in Nat \ {0} /\ BinsCap \in Nat \ {0}
  /\ SharedBins \in Nat \ {0} /\ MaxStreams \in Nat /\ Rounds * Concurrency <= MaxStreams
  /\ IsFiniteSet(Sizes) /\ IsFiniteSet(Slots)
<1>1. /\ Body \in Nat \ {0} /\ Concurrency \in Nat \ {0} /\ Rounds \in Nat \ {0} /\ BinsCap \in Nat \ {0}
      /\ SharedBins \in Nat \ {0} /\ MaxStreams \in Nat /\ Rounds * Concurrency <= MaxStreams
  BY ConfigAssumption DEF ConfigAssumption, ConfigIsValid
<1>2. IsFiniteSet(1 .. Body) /\ IsFiniteSet(1 .. Concurrency)
  BY <1>1, FS_Interval
<1> QED
  BY <1>1, <1>2 DEF Sizes, Slots

\* A chunk of n bytes adds one to its size, and n to the bytes.
LEMMA RecordFact ==
  ASSUME NEW sizes \in [Sizes -> Nat], NEW n \in Sizes
  PROVE  /\ Record(sizes, n) \in [Sizes -> Nat]
         /\ Record(sizes, n)[n] = sizes[n] + 1
         /\ \A m \in Sizes \ {n} : Record(sizes, n)[m] = sizes[m]
         /\ Bytes(Record(sizes, n)) = Bytes(sizes) + n
<1>1. /\ Record(sizes, n) \in [Sizes -> Nat]
      /\ Record(sizes, n)[n] = sizes[n] + 1
      /\ \A m \in Sizes \ {n} : Record(sizes, n)[m] = sizes[m]
  BY DEF Record
<1> DEFINE more == Record(sizes, n)
           f == [m \in Sizes |-> m * sizes[m]]
           g == [m \in Sizes |-> m * more[m]]
<1>2. \A m \in Sizes : m \in Nat
  BY DEF Sizes
<1>3. n * (sizes[n] + 1) = n * sizes[n] + n
  BY <1>2
<1> HIDE DEF more
<1>4. \A m \in Sizes : f[m] \in Nat
  BY <1>2
<1>5. g[n] = f[n] + n /\ \A m \in Sizes \ {n} : g[m] = f[m]
  BY <1>1, <1>2, <1>3 DEF more
<1>6. Bytes(sizes) = SumFunctionOnSet(f, Sizes) /\ Bytes(more) = SumFunctionOnSet(g, Sizes)
  BY Zenon DEF Bytes
<1> HIDE DEF f, g
<1>7. Bytes(more) = Bytes(sizes) + n
  BY <1>2, <1>4, <1>5, <1>6, ConfigFact, SumRaise
<1> QED
  BY <1>1, <1>7 DEF more

\* No chunks are no bytes and no different sizes.
LEMMA NoSizesFact == NoSizes \in [Sizes -> Nat] /\ Bytes(NoSizes) = 0 /\ Distinct(NoSizes) = 0
<1>1. NoSizes \in [Sizes -> Nat] /\ \A n \in Sizes : NoSizes[n] = 0
  BY DEF NoSizes
<1> DEFINE f == [m \in Sizes |-> m * NoSizes[m]]
<1>2. \A m \in Sizes : f[m] = 0
  BY <1>1 DEF Sizes
<1>3. Bytes(NoSizes) = SumFunctionOnSet(f, Sizes)
  BY Zenon DEF Bytes
<1> HIDE DEF f
<1>4. Bytes(NoSizes) = 0
  BY <1>2, <1>3, ConfigFact, SumZero
<1>5. {n \in Sizes : NoSizes[n] > 0} = {}
  BY <1>1
<1>6. Distinct(NoSizes) = 0
  BY <1>5, FS_EmptySet DEF Distinct
<1> QED
  BY <1>1, <1>4, <1>6

\* How many different sizes there are.
LEMMA DistinctFact ==
  ASSUME NEW sizes \in [Sizes -> Nat], NEW n \in Sizes
  PROVE  /\ Distinct(sizes) \in Nat
         /\ Distinct(Record(sizes, n)) = IF sizes[n] = 0 THEN Distinct(sizes) + 1 ELSE Distinct(sizes)
<1> DEFINE D == {m \in Sizes : sizes[m] > 0}
           E == {m \in Sizes : Record(sizes, n)[m] > 0}
<1>1. IsFiniteSet(D)
  BY ConfigFact, FS_Subset
<1>2. E = D \cup {n} /\ (n \in D <=> sizes[n] # 0)
  BY RecordFact
<1>3. Distinct(sizes) = Cardinality(D) /\ Distinct(Record(sizes, n)) = Cardinality(E)
  BY DEF Distinct
<1> HIDE DEF D, E
<1>4. Cardinality(D) \in Nat
  BY <1>1, FS_CardinalityType
<1>5. Cardinality(D \cup {n}) = IF n \in D THEN Cardinality(D) ELSE Cardinality(D) + 1
  BY <1>1, FS_AddElement
<1> QED
  BY <1>2, <1>3, <1>4, <1>5

\* Sizes that are among others are no more of them, and fewer if one is missing.
LEMMA FewerFact ==
  ASSUME NEW a \in [Sizes -> Nat], NEW b \in [Sizes -> Nat], \A n \in Sizes : a[n] > 0 => b[n] > 0
  PROVE  /\ Distinct(a) \in Nat /\ Distinct(b) \in Nat /\ Distinct(a) <= Distinct(b)
         /\ (\E n \in Sizes : a[n] = 0 /\ b[n] > 0) => Distinct(a) < Distinct(b)
<1> DEFINE A == {n \in Sizes : a[n] > 0}
           B == {n \in Sizes : b[n] > 0}
<1>1. IsFiniteSet(A) /\ IsFiniteSet(B)
  BY ConfigFact, FS_Subset
<1>2. A \subseteq B /\ ((\E n \in Sizes : a[n] = 0 /\ b[n] > 0) => A # B)
  OBVIOUS
<1>3. Distinct(a) = Cardinality(A) /\ Distinct(b) = Cardinality(B)
  BY DEF Distinct
<1> HIDE DEF A, B
<1>4. Cardinality(A) \in Nat /\ Cardinality(B) \in Nat
  BY <1>1, FS_CardinalityType
<1>5. Cardinality(A) <= Cardinality(B) /\ (Cardinality(A) = Cardinality(B) => A = B)
  BY <1>1, <1>2, FS_Subset
<1> QED
  BY <1>2, <1>3, <1>4, <1>5

(***************************************************************************)
(* The sizes of several streams, added up.                                  *)
(***************************************************************************)

\* How often each stream has a chunk of n bytes.
Column(streams, n) == [i \in DOMAIN streams |-> streams[i].sizes[n]]

\* The sum for a size is that over the streams.
LEMMA SizesOfFact ==
  ASSUME NEW D, IsFiniteSet(D), NEW streams, DOMAIN streams = D,
         \A i \in D : streams[i].sizes \in [Sizes -> Nat]
  PROVE  /\ SizesOf(streams) \in [Sizes -> Nat]
         /\ \A n \in Sizes : SizesOf(streams)[n] = SumFunctionOnSet(Column(streams, n), D)
         /\ \A n \in Sizes, i \in D : Column(streams, n)[i] = streams[i].sizes[n] /\ Column(streams, n)[i] \in Nat
<1>1. ASSUME NEW n \in Sizes
      PROVE  /\ SumFunction(Column(streams, n)) = SumFunctionOnSet(Column(streams, n), D)
             /\ SumFunctionOnSet(Column(streams, n), D) \in Nat
             /\ \A i \in D : Column(streams, n)[i] = streams[i].sizes[n] /\ Column(streams, n)[i] \in Nat
  <2>1. PICK f : f = Column(streams, n)
    OBVIOUS
  <2>2. DOMAIN f = D /\ \A i \in D : f[i] = streams[i].sizes[n] /\ f[i] \in Nat
    BY <2>1 DEF Column
  <2>3. SumFunction(f) = SumFunctionOnSet(f, DOMAIN f)
    BY Zenon DEF SumFunction, FoldFunction, SumFunctionOnSet
  <2>4. SumFunctionOnSet(f, D) \in Nat
    BY <2>2, SumType
  <2> QED
    BY <2>1, <2>2, <2>3, <2>4
<1>2. SizesOf(streams) = [n \in Sizes |-> SumFunction(Column(streams, n))]
  BY Zenon DEF SizesOf, Column
<1> QED
  BY <1>1, <1>2

\* A chunk more for one of the streams is one more of its size.
LEMMA SizesRaised ==
  ASSUME NEW streams \in [Slots -> SentRecord], NEW s \in Slots, NEW n \in Sizes, NEW sent \in SentRecord,
         sent.sizes = Record(streams[s].sizes, n)
  PROVE  SizesOf([streams EXCEPT ![s] = sent]) = Record(SizesOf(streams), n)
<1>1. PICK more : more = [streams EXCEPT ![s] = sent]
  OBVIOUS
<1>2. /\ more \in [Slots -> SentRecord] /\ DOMAIN more = Slots /\ DOMAIN streams = Slots
      /\ more[s] = sent /\ \A i \in Slots \ {s} : more[i] = streams[i]
  BY <1>1
<1>3. \A i \in Slots : more[i].sizes \in [Sizes -> Nat] /\ streams[i].sizes \in [Sizes -> Nat]
  BY <1>2 DEF SentRecord
<1>4. /\ SizesOf(streams) \in [Sizes -> Nat]
      /\ \A m \in Sizes : SizesOf(streams)[m] = SumFunctionOnSet(Column(streams, m), Slots)
      /\ \A m \in Sizes, i \in Slots : /\ Column(streams, m)[i] = streams[i].sizes[m]
                                      /\ Column(streams, m)[i] \in Nat
  BY <1>2, <1>3, ConfigFact, SizesOfFact
<1>5. /\ SizesOf(more) \in [Sizes -> Nat]
      /\ \A m \in Sizes : SizesOf(more)[m] = SumFunctionOnSet(Column(more, m), Slots)
      /\ \A m \in Sizes, i \in Slots : /\ Column(more, m)[i] = more[i].sizes[m]
                                      /\ Column(more, m)[i] \in Nat
  BY <1>2, <1>3, ConfigFact, SizesOfFact
<1>6. ASSUME NEW m \in Sizes
      PROVE  SumFunctionOnSet(Column(more, m), Slots) =
               SumFunctionOnSet(Column(streams, m), Slots) + (IF m = n THEN 1 ELSE 0)
  <2>1. PICK f, g, k : f = Column(streams, m) /\ g = Column(more, m) /\ k = IF m = n THEN 1 ELSE 0
    OBVIOUS
  <2>2. k \in Nat /\ (\A i \in Slots : f[i] \in Nat) /\ (\A i \in Slots \ {s} : g[i] = f[i])
    BY <1>2, <1>4, <1>5, <2>1
  <2>3. g[s] = f[s] + k
    <3>1. more[s].sizes[m] = streams[s].sizes[m] + k
      BY <1>2, <1>3, <2>1, RecordFact
    <3> QED
      BY <1>4, <1>5, <2>1, <3>1
  <2>4. SumFunctionOnSet(g, Slots) = SumFunctionOnSet(f, Slots) + k
    BY <2>2, <2>3, ConfigFact, SumRaise
  <2> QED
    BY <2>1, <2>4
<1>7. Record(SizesOf(streams), n) \in [Sizes -> Nat]
      /\ \A m \in Sizes : Record(SizesOf(streams), n)[m] = SizesOf(streams)[m] + (IF m = n THEN 1 ELSE 0)
  BY <1>4, RecordFact
<1>8. \A m \in Sizes : SizesOf(more)[m] = Record(SizesOf(streams), n)[m]
  BY <1>4, <1>5, <1>6, <1>7
<1>9. SizesOf(more) = Record(SizesOf(streams), n)
  BY <1>5, <1>7, <1>8
<1> QED
  BY <1>1, <1>9

\* Streams with the same sizes have the same sum of them.
LEMMA SizesKept ==
  ASSUME NEW D, IsFiniteSet(D), NEW a, NEW b, DOMAIN a = D, DOMAIN b = D,
         \A i \in D : a[i].sizes \in [Sizes -> Nat] /\ b[i].sizes = a[i].sizes
  PROVE  SizesOf(b) = SizesOf(a)
<1>1. /\ SizesOf(a) \in [Sizes -> Nat]
      /\ \A n \in Sizes : SizesOf(a)[n] = SumFunctionOnSet(Column(a, n), D)
  BY SizesOfFact
<1>2. /\ SizesOf(b) \in [Sizes -> Nat]
      /\ \A n \in Sizes : SizesOf(b)[n] = SumFunctionOnSet(Column(b, n), D)
  BY SizesOfFact
<1>3. \A n \in Sizes : Column(b, n) = Column(a, n)
  BY DEF Column
<1>4. \A n \in Sizes : SizesOf(b)[n] = SizesOf(a)[n]
  BY <1>1, <1>2, <1>3
<1> QED
  BY <1>1, <1>2, <1>4

\* Nothing that is sent adds nothing.
LEMMA SizesOfNothing ==
  ASSUME NEW D, IsFiniteSet(D), NEW streams, DOMAIN streams = D, \A i \in D : streams[i] = Nothing
  PROVE  \A n \in Sizes : SizesOf(streams)[n] = 0
<1>1. \A i \in D : streams[i].sizes = NoSizes
  BY DEF Nothing
<1>2. \A i \in D : streams[i].sizes \in [Sizes -> Nat]
  BY <1>1, NoSizesFact
<1>3. /\ \A n \in Sizes : SizesOf(streams)[n] = SumFunctionOnSet(Column(streams, n), D)
      /\ \A n \in Sizes, i \in D : Column(streams, n)[i] = streams[i].sizes[n]
  BY <1>2, SizesOfFact
<1>4. \A n \in Sizes : \A i \in D : Column(streams, n)[i] = 0
  BY <1>1, <1>3 DEF NoSizes
<1>5. ASSUME NEW n \in Sizes PROVE SumFunctionOnSet(Column(streams, n), D) = 0
  <2>1. PICK f : f = Column(streams, n)
    OBVIOUS
  <2>2. \A i \in D : f[i] = 0
    BY <1>4, <2>1
  <2> QED
    BY <2>1, <2>2, SumZero
<1> QED
  BY <1>3, <1>5

\* The streams of a round follow those of the rounds before it.
LEMMA ConcatFact ==
  ASSUME NEW S, NEW p \in Seq(S), NEW a \in [Slots -> S]
  PROVE  /\ p \o a \in Seq(S) /\ Len(p \o a) = Len(p) + Concurrency
         /\ \A i \in 1 .. Len(p) : (p \o a)[i] = p[i]
         /\ \A s \in Slots : (p \o a)[Len(p) + s] = a[s]
         /\ \A i \in 1 .. Len(p \o a) : i \in 1 .. Len(p) \/ \E s \in Slots : i = Len(p) + s
<1>1. Concurrency \in Nat
  BY ConfigFact
<1>2. a \in Seq(S) /\ Len(a) = Concurrency
  BY <1>1 DEF Slots
<1>3. \A i \in 1 .. (Len(p) + Concurrency) :
        i \in 1 .. Len(p) \/ (i - Len(p) \in Slots /\ i = Len(p) + (i - Len(p)))
  BY <1>1 DEF Slots
<1> QED
  BY <1>1, <1>2, <1>3 DEF Slots

\* Their sizes are added to those of the rounds before.
LEMMA SizesOfRounds ==
  ASSUME NEW p \in Seq(SentRecord), NEW a \in [Slots -> SentRecord], NEW n \in Sizes
  PROVE  /\ SizesOf(p)[n] \in Nat /\ SizesOf(a)[n] \in Nat
         /\ SizesOf(p \o a)[n] = SizesOf(p)[n] + SizesOf(a)[n]
<1>1. PICK q, m, k : q = p \o a /\ m = Len(p) /\ k = Concurrency
  OBVIOUS
<1>2. /\ q \in Seq(SentRecord) /\ Len(q) = m + k /\ m \in Nat /\ k \in Nat
      /\ \A i \in 1 .. m : q[i] = p[i]
      /\ \A i \in 1 .. k : q[m + i] = a[i]
  BY <1>1, ConcatFact, ConfigFact DEF Slots
<1>3. /\ IsFiniteSet(1 .. m) /\ IsFiniteSet(1 .. k) /\ IsFiniteSet(1 .. (m + k))
      /\ DOMAIN p = 1 .. m /\ DOMAIN q = 1 .. (m + k) /\ DOMAIN a = 1 .. k
  BY <1>1, <1>2, FS_Interval DEF Slots
<1>4. \A x \in SentRecord : x.sizes \in [Sizes -> Nat]
  BY DEF SentRecord
<1>5. /\ \A i \in 1 .. m : p[i].sizes \in [Sizes -> Nat]
      /\ \A i \in 1 .. k : a[i].sizes \in [Sizes -> Nat]
      /\ \A i \in 1 .. (m + k) : q[i].sizes \in [Sizes -> Nat]
  <2>1. \A i \in 1 .. (m + k) : q[i] \in SentRecord
    BY <1>2, <1>3
  <2>2. (\A i \in 1 .. m : p[i] \in SentRecord) /\ \A i \in 1 .. k : a[i] \in SentRecord
    BY <1>1, <1>3 DEF Slots
  <2> QED
    BY <2>1, <2>2, <1>4
<1>6. PICK f, g, h : f = Column(p, n) /\ g = Column(a, n) /\ h = Column(q, n)
  OBVIOUS
<1>7. SizesOf(p)[n] = SumFunctionOnSet(f, 1 .. m) /\ \A i \in 1 .. m : f[i] = p[i].sizes[n] /\ f[i] \in Nat
  <2>1. PICK D : D = 1 .. m
    OBVIOUS
  <2>2. IsFiniteSet(D) /\ DOMAIN p = D /\ \A i \in D : p[i].sizes \in [Sizes -> Nat]
    BY <1>3, <1>5, <2>1
  <2>3. /\ SizesOf(p)[n] = SumFunctionOnSet(Column(p, n), D)
        /\ \A i \in D : Column(p, n)[i] = p[i].sizes[n] /\ Column(p, n)[i] \in Nat
    BY <2>2, SizesOfFact
  <2> QED
    BY <1>6, <2>1, <2>3
<1>8. SizesOf(a)[n] = SumFunctionOnSet(g, 1 .. k) /\ \A i \in 1 .. k : g[i] = a[i].sizes[n] /\ g[i] \in Nat
  <2>1. PICK D : D = 1 .. k
    OBVIOUS
  <2>2. IsFiniteSet(D) /\ DOMAIN a = D /\ \A i \in D : a[i].sizes \in [Sizes -> Nat]
    BY <1>3, <1>5, <2>1
  <2>3. /\ SizesOf(a)[n] = SumFunctionOnSet(Column(a, n), D)
        /\ \A i \in D : Column(a, n)[i] = a[i].sizes[n] /\ Column(a, n)[i] \in Nat
    BY <2>2, SizesOfFact
  <2> QED
    BY <1>6, <2>1, <2>3
<1>9. SizesOf(q)[n] = SumFunctionOnSet(h, 1 .. (m + k)) /\ \A i \in 1 .. (m + k) : h[i] = q[i].sizes[n] /\ h[i] \in Nat
  <2>1. PICK D : D = 1 .. (m + k)
    OBVIOUS
  <2>2. IsFiniteSet(D) /\ DOMAIN q = D /\ \A i \in D : q[i].sizes \in [Sizes -> Nat]
    BY <1>3, <1>5, <2>1
  <2>3. /\ SizesOf(q)[n] = SumFunctionOnSet(Column(q, n), D)
        /\ \A i \in D : Column(q, n)[i] = q[i].sizes[n] /\ Column(q, n)[i] \in Nat
    BY <2>2, SizesOfFact
  <2> QED
    BY <1>6, <2>1, <2>3
<1>10. Joins(h, f, m, g, k)
  <2>1. \A i \in 1 .. m : i \in 1 .. (m + k) /\ f[i] \in Nat /\ h[i] = f[i]
    BY <1>2, <1>7, <1>9
  <2>2. \A i \in 1 .. k : m + i \in 1 .. (m + k)
    BY <1>2
  <2>3. \A i \in 1 .. k : g[i] \in Nat /\ h[m + i] = g[i]
    BY <1>2, <1>8, <1>9, <2>2
  <2> QED
    BY <2>1, <2>3 DEF Joins
<1>11. SumFunctionOnSet(h, 1 .. (m + k)) = SumFunctionOnSet(f, 1 .. m) + SumFunctionOnSet(g, 1 .. k)
  BY <1>2, <1>10, SumConcat
<1>12. SumFunctionOnSet(f, 1 .. m) \in Nat /\ SumFunctionOnSet(g, 1 .. k) \in Nat
  BY <1>3, <1>7, <1>8, SumType
<1> QED
  BY <1>1, <1>7, <1>8, <1>9, <1>11, <1>12

\* A window of as many rounds as its streams allow has those of a fixed batch.
LEMMA MaximumFact == ASSUME BatchTypeOK PROVE MaximumRequests \in Nat /\ MaximumRequests >= Rounds * Concurrency
<1>1. /\ MaxStreams \in Nat /\ Rounds \in Nat /\ Concurrency \in Nat \ {0} /\ Rounds * Concurrency <= MaxStreams
      /\ window \in BOOLEAN
  BY ConfigFact DEF BatchTypeOK
<1> DEFINE most == MaxStreams \div Concurrency
<1>2. most \in Nat /\ most >= Rounds
  BY <1>1
<1> HIDE DEF most
<1>3. most * Concurrency \in Nat /\ most * Concurrency >= Rounds * Concurrency /\ Rounds * Concurrency \in Nat
  BY <1>1, <1>2
<1> QED
  BY <1>1, <1>3 DEF MaximumRequests, most

(***************************************************************************)
(* The segments of a replay.                                                *)
(***************************************************************************)
\* The greatest of some numbers.
LEMMA GreatestFact ==
  ASSUME NEW n \in Nat, NEW s \in SUBSET (1 .. n), s # {}
  PROVE  Max(s) \in s /\ \A j \in s : j <= Max(s)
<1> DEFINE N == {n - j : j \in s}
<1>1. N \in SUBSET Nat /\ N # {} /\ \A j \in s : n - j \in N
  <2>1. \A j \in s : n - j \in Nat
    OBVIOUS
  <2> QED
    BY <2>1
<1>2. PICK k \in N : \A j \in N : k <= j
  <2> HIDE DEF N
  <2> QED
    BY <1>1, LeastFact
<1>3. PICK x \in s : k = n - x
  BY <1>2
<1>4. \A j \in s : x >= j
  <2>1. \A j \in s : n - x <= n - j
    BY <1>1, <1>2, <1>3
  <2> QED
    BY <2>1
<1> QED
  BY <1>4 DEF Max

\* The numbers up to k are k and those before it.
LEMMA PrefixFact ==
  ASSUME NEW n \in Nat, NEW k \in 1 .. n
  PROVE  /\ 1 .. k \in SUBSET (1 .. n) /\ 1 .. k # {} /\ Max(1 .. k) = k
         /\ (1 .. k) \ {k} = 1 .. (k - 1)
<1>1. 1 .. k \in SUBSET (1 .. n) /\ k \in 1 .. k
  OBVIOUS
<1>2. Max(1 .. k) \in 1 .. k /\ k <= Max(1 .. k)
  BY <1>1, GreatestFact
<1> QED
  BY <1>1, <1>2

\* FlattenSeq joins sequences one after the other.
LEMMA FlattenFact ==
  ASSUME NEW E, NEW n \in Nat \ {0}, NEW ss \in [1 .. n -> Seq(E)]
  PROVE  \E g : /\ g[1] = ss[1] /\ \A i \in 2 .. n : g[i] = g[i - 1] \o ss[i]
                /\ FlattenSeq(ss) = g[n]
<1> DEFINE Joined(g) == g = [i \in 1 .. n |-> IF i = 1 THEN ss[i] ELSE g[i - 1] \o ss[i]]
           D == 1 .. n
           next == [s \in SUBSET D |-> Max(s)]
           step == [i \in D |-> [q \in Seq(E) |-> IF i = 1 THEN ss[i] ELSE q \o ss[i]]]
<1>1. \E g : Joined(g)
  <2>1. \A s \in SUBSET D : s # {} => next[s] \in s
    BY GreatestFact
  <2>2. \A i \in D, q \in Seq(E) : step[i][q] \in Seq(E)
    OBVIOUS
  <2>3. IsFiniteSet(D) /\ << >> \in Seq(E)
    BY FS_Interval
  <2>4. PICK h \in [SUBSET D -> Seq(E)] : Folds(D, << >>, next, step, h)
    <3> HIDE DEF D, next, step
    <3> QED
      BY <2>1, <2>2, <2>3, FoldExists
  <2>5. ASSUME NEW i \in D
        PROVE  h[1 .. i] = IF i = 1 THEN ss[i] ELSE h[1 .. (i - 1)] \o ss[i]
    <3>1. /\ 1 .. i \in SUBSET D /\ 1 .. i # {} /\ Max(1 .. i) = i
          /\ (1 .. i) \ {i} = 1 .. (i - 1) /\ 1 .. (i - 1) \in SUBSET D
      BY PrefixFact
    <3>2. next[1 .. i] = i
      BY <3>1
    <3>3. h[1 .. i] = step[i][h[1 .. (i - 1)]]
      <4> HIDE DEF D, next, step
      <4> QED
        BY <2>4, <3>1, <3>2 DEF Folds
    <3>4. h[1 .. (i - 1)] \in Seq(E)
      BY <3>1
    <3> QED
      BY <3>3, <3>4
  <2> DEFINE g == [i \in D |-> h[1 .. i]]
  <2>6. \A i \in D : g[i] = IF i = 1 THEN ss[i] ELSE g[i - 1] \o ss[i]
    BY <2>5
  <2>7. Joined(g)
    BY <2>6
  <2> QED
    BY <2>7
<1> DEFINE g == CHOOSE f : Joined(f)
<1>2. Joined(g)
  <2> HIDE DEF Joined
  <2> QED
    BY <1>1
<1>3. Len(ss) = n
  OBVIOUS
<1>4. FlattenSeq(ss) = g[n]
  BY <1>3 DEF FlattenSeq
<1> HIDE DEF g
<1>5. g[1] = ss[1] /\ \A i \in 2 .. n : g[i] = g[i - 1] \o ss[i]
  <2>1. \A i \in D : g[i] = IF i = 1 THEN ss[i] ELSE g[i - 1] \o ss[i]
    BY <1>2
  <2>2. 1 \in D /\ \A i \in 2 .. n : i \in D /\ i # 1
    OBVIOUS
  <2> HIDE DEF D
  <2> QED
    BY <2>1, <2>2
<1> QED
  BY <1>4, <1>5

\* Where n is in a sequence, and how often.
Hits(s, n) == [i \in DOMAIN s |-> IF s[i] = n THEN 1 ELSE 0]
Often(s, n) == SumFunctionOnSet(Hits(s, n), DOMAIN s)

\* In a sequence after another one, as often as in both.
LEMMA OftenConcat ==
  ASSUME NEW E, NEW s \in Seq(E), NEW t \in Seq(E), NEW n
  PROVE  Often(s \o t, n) = Often(s, n) + Often(t, n)
<1>1. PICK k, m, q : q = s \o t /\ k = Len(s) /\ m = Len(t)
  OBVIOUS
<1>2. /\ k \in Nat /\ m \in Nat
      /\ DOMAIN s = 1 .. k /\ DOMAIN t = 1 .. m /\ DOMAIN q = 1 .. (k + m)
      /\ \A i \in 1 .. k : q[i] = s[i]
      /\ \A i \in 1 .. m : q[k + i] = t[i]
  BY <1>1
<1>3. PICK f, g, h : f = Hits(s, n) /\ g = Hits(t, n) /\ h = Hits(q, n)
  OBVIOUS
<1>4. Joins(h, f, k, g, m)
  <2>1. (\A i \in 1 .. k : i \in 1 .. (k + m)) /\ \A i \in 1 .. m : k + i \in 1 .. (k + m)
    BY <1>2
  <2>2. \A i \in 1 .. k : f[i] = (IF s[i] = n THEN 1 ELSE 0) /\ h[i] = (IF q[i] = n THEN 1 ELSE 0)
    BY <1>2, <1>3, <2>1 DEF Hits
  <2>3. \A i \in 1 .. m : g[i] = (IF t[i] = n THEN 1 ELSE 0) /\ h[k + i] = (IF q[k + i] = n THEN 1 ELSE 0)
    BY <1>2, <1>3, <2>1 DEF Hits
  <2> QED
    BY <1>2, <2>2, <2>3 DEF Joins
<1>5. SumFunctionOnSet(h, 1 .. (k + m)) = SumFunctionOnSet(f, 1 .. k) + SumFunctionOnSet(g, 1 .. m)
  BY <1>2, <1>4, SumConcat
<1> QED
  BY <1>1, <1>2, <1>3, <1>5 DEF Often

\* In a sequence of nothing else, as often as it is long.
Repeats(b, k, n) == DOMAIN b = 1 .. k /\ \A i \in 1 .. k : b[i] = n

LEMMA OftenBlock ==
  ASSUME NEW k \in Nat, NEW n, NEW b, Repeats(b, k, n), NEW m
  PROVE  (m = n => Often(b, m) = k) /\ (m # n => Often(b, m) = 0)
<1>1. IsFiniteSet(1 .. k) /\ Cardinality(1 .. k) = k /\ DOMAIN b = 1 .. k
  BY FS_Interval DEF Repeats
<1>2. PICK f : f = Hits(b, m)
  OBVIOUS
<1>3. \A i \in 1 .. k : f[i] = IF m = n THEN 1 ELSE 0
  BY <1>1, <1>2 DEF Hits, Repeats
<1>4. CASE m = n
  <2>1. \A i \in 1 .. k : f[i] = 1
    BY <1>3, <1>4
  <2>2. SumFunctionOnSet(f, 1 .. k) = 1 * k
    BY <1>1, <2>1, SumConstant
  <2> QED
    BY <1>1, <1>2, <1>4, <2>2 DEF Often
<1>5. CASE m # n
  <2>1. \A i \in 1 .. k : f[i] = 0
    BY <1>3, <1>5
  <2>2. SumFunctionOnSet(f, 1 .. k) = 0
    BY <1>1, <2>1, SumZero
  <2> QED
    BY <1>1, <1>2, <1>5, <2>2 DEF Often
<1> QED
  BY <1>4, <1>5

\* The sizes in ascending order: each as often as it was observed.
LEMMA AscendingFact ==
  ASSUME NEW sizes \in [Sizes -> Nat]
  PROVE  /\ Ascending(sizes) \in Seq({n \in Sizes : sizes[n] > 0})
         /\ \A m \in Sizes : Often(Ascending(sizes), m) = sizes[m]
<1> DEFINE E == {n \in Sizes : sizes[n] > 0}
           block == [n \in Sizes |-> [i \in 1 .. sizes[n] |-> n]]
<1>1. ASSUME NEW n \in Sizes
      PROVE  block[n] \in Seq(E) /\ \A m : Often(block[n], m) = IF m = n THEN sizes[n] ELSE 0
  <2>1. PICK k, b : k = sizes[n] /\ k \in Nat /\ b = [i \in 1 .. k |-> n] /\ b = block[n]
    OBVIOUS
  <2>2. ASSUME NEW m
        PROVE  Often(b, m) = IF m = n THEN k ELSE 0
    <3>1. k \in Nat /\ Repeats(b, k, n)
      BY <2>1 DEF Repeats
    <3>2. (m = n => Often(b, m) = k) /\ (m # n => Often(b, m) = 0)
      BY <3>1, OftenBlock
    <3> QED
      BY <3>2
  <2>3. \A i \in 1 .. k : n \in E
    BY <2>1
  <2>4. b \in Seq(E)
    <3> HIDE DEF E
    <3> QED
      BY <2>1, <2>3
  <2> QED
    BY <2>1, <2>2, <2>4
<1>2. Body \in Nat \ {0} /\ Sizes = 1 .. Body
  BY ConfigFact DEF Sizes
<1>3. block \in [1 .. Body -> Seq(E)]
  BY <1>1, <1>2
<1>4. Ascending(sizes) = FlattenSeq(block)
  BY DEF Ascending
<1> HIDE DEF E, block
<1>5. PICK g : /\ g[1] = block[1] /\ \A i \in 2 .. Body : g[i] = g[i - 1] \o block[i]
               /\ FlattenSeq(block) = g[Body]
  BY <1>2, <1>3, FlattenFact
<1> DEFINE Upto(k) == \A m \in Sizes : Often(g[k], m) = IF m <= k THEN sizes[m] ELSE 0
           Q == {k \in 0 .. Body : k = 0 \/ (g[k] \in Seq(E) /\ Upto(k))}
<1>6. ASSUME NEW k \in 1 .. Body, k - 1 \in Q
      PROVE  k \in Q
  <2>1. k \in Sizes
    BY <1>2
  <2>2. CASE k = 1
    <3>1. g[k] = block[k] /\ block[k] \in Seq(E)
      BY <1>1, <1>5, <2>1, <2>2
    <3>2. \A m \in Sizes : m <= 1 <=> m = 1
      BY <1>2
    <3>3. Upto(k)
      BY <1>1, <2>1, <2>2, <3>1, <3>2
    <3> HIDE DEF Upto
    <3> QED
      BY <3>1, <3>3
  <2>3. CASE k # 1
    <3>1. k \in 2 .. Body /\ k - 1 \in 0 .. Body /\ k - 1 # 0
      BY <1>2, <2>3
    <3>2. g[k] = g[k - 1] \o block[k] /\ g[k - 1] \in Seq(E) /\ block[k] \in Seq(E) /\ Upto(k - 1)
      BY <1>1, <1>5, <1>6, <2>1, <3>1
    <3>3. ASSUME NEW m \in Sizes
          PROVE  Often(g[k], m) = IF m <= k THEN sizes[m] ELSE 0
      <4>1. Often(g[k], m) = Often(g[k - 1], m) + Often(block[k], m)
        BY <3>2, OftenConcat
      <4>2. Often(g[k - 1], m) = IF m <= k - 1 THEN sizes[m] ELSE 0
        BY <3>2
      <4>3. Often(block[k], m) = IF m = k THEN sizes[k] ELSE 0
        BY <1>1, <2>1
      <4>4. m \in Nat /\ k \in Nat /\ sizes[m] \in Nat
        BY <1>2
      <4> QED
        BY <4>1, <4>2, <4>3, <4>4
    <3>4. g[k] \in Seq(E)
      BY <3>2
    <3> QED
      BY <3>3, <3>4
  <2> QED
    BY <2>2, <2>3
<1>7. Body \in Q
  <2>1. 0 \in Q
    BY <1>2
  <2>2. Body \in Nat /\ Body \in 0 .. Body
    BY <1>2
  <2> HIDE DEF Q
  <2>3. \A k \in 0 .. Body : k \in Q
    BY <1>6, <2>1, <2>2, UpTo
  <2> QED
    BY <2>2, <2>3
<1>8. g[Body] \in Seq(E) /\ Upto(Body)
  BY <1>2, <1>7
<1>9. \A m \in Sizes : Often(g[Body], m) = sizes[m]
  BY <1>2, <1>8
<1> QED
  BY <1>4, <1>5, <1>8, <1>9 DEF E

\* A chunk more is one chunk more of all.
LEMMA ChunksFact ==
  ASSUME NEW sizes \in [Sizes -> Nat], NEW n \in Sizes
  PROVE  Chunks(sizes) \in Nat /\ Bytes(sizes) \in Nat /\ Chunks(Record(sizes, n)) = Chunks(sizes) + 1
<1>1. PICK more : more = Record(sizes, n)
  OBVIOUS
<1>2. more[n] = sizes[n] + 1 /\ \A m \in Sizes \ {n} : more[m] = sizes[m]
  BY <1>1, RecordFact
<1>3. Chunks(more) = Chunks(sizes) + 1
  BY <1>2, ConfigFact, SumRaise DEF Chunks
<1>4. Bytes(sizes) \in Nat
  <2>1. PICK f : f = [m \in Sizes |-> m * sizes[m]]
    OBVIOUS
  <2>2. \A m \in Sizes : f[m] \in Nat
    BY <2>1 DEF Sizes
  <2>3. SumFunctionOnSet(f, Sizes) \in Nat
    BY <2>2, ConfigFact, SumType
  <2> QED
    BY <2>1, <2>3, Zenon DEF Bytes
<1> QED
  BY <1>1, <1>3, <1>4, ConfigFact, SumType DEF Chunks

\* No segment is more than is replayed in one go.
Bounded(q) ==
  /\ q \in Seq([Sizes -> Nat])
  /\ \A i \in 1 .. Len(q) : Bytes(q[i]) <= ReplayBytes /\ Chunks(q[i]) <= ReplayChunks

\* How often each segment has a chunk of m bytes, and all of them.
Entries(q, m) == [i \in DOMAIN q |-> q[i][m]]
Replayed(q, m) == SumFunctionOnSet(Entries(q, m), DOMAIN q)

\* A chunk that is packed keeps the segments bounded, and is one more of its size.
LEMMA PackedFact ==
  ASSUME NEW q, Bounded(q), NEW n \in Sizes, n <= ReplayBytes
  PROVE  /\ Bounded(Packed(q, n))
         /\ \A m \in Sizes : /\ Replayed(q, m) \in Nat
                             /\ Replayed(Packed(q, n), m) = Replayed(q, m) + (IF m = n THEN 1 ELSE 0)
<1>1. PICK k, more : k = Len(q) /\ more = Packed(q, n)
  OBVIOUS
<1>2. /\ k \in Nat /\ q \in Seq([Sizes -> Nat]) /\ DOMAIN q = 1 .. k /\ IsFiniteSet(1 .. k)
      /\ \A i \in 1 .. k : q[i] \in [Sizes -> Nat] /\ Bytes(q[i]) <= ReplayBytes /\ Chunks(q[i]) <= ReplayChunks
      /\ ReplayBytes \in Nat /\ ReplayChunks \in Nat \ {0} /\ n \in Nat
  <2>1. ReplayBytes \in Nat /\ ReplayChunks \in Nat \ {0} /\ n \in Nat
    BY ConfigAssumption DEF ConfigAssumption, ConfigIsValid, Sizes
  <2>2. k \in Nat /\ q \in Seq([Sizes -> Nat]) /\ DOMAIN q = 1 .. k
    BY <1>1 DEF Bounded
  <2>3. IsFiniteSet(1 .. k)
    BY <2>2, FS_Interval
  <2>4. \A i \in 1 .. k : q[i] \in [Sizes -> Nat] /\ Bytes(q[i]) <= ReplayBytes /\ Chunks(q[i]) <= ReplayChunks
    BY <1>1, <2>2 DEF Bounded
  <2> QED
    BY <2>1, <2>2, <2>3, <2>4
<1>3. ASSUME NEW m \in Sizes
      PROVE  /\ Replayed(q, m) \in Nat /\ Replayed(q, m) = SumFunctionOnSet(Entries(q, m), 1 .. k)
             /\ \A i \in 1 .. k : Entries(q, m)[i] = q[i][m] /\ q[i][m] \in Nat
  <2>1. PICK f : f = Entries(q, m)
    OBVIOUS
  <2>2. \A i \in 1 .. k : f[i] = q[i][m] /\ q[i][m] \in Nat
    BY <1>2, <2>1 DEF Entries
  <2> QED
    BY <1>2, <2>1, <2>2, SumType DEF Replayed
<1>4. CASE q # << >> /\ Fits(Last(q), n)
  <2>1. k \in 1 .. k /\ Last(q) = q[k]
    BY <1>1, <1>2, <1>4 DEF Last
  <2>2. PICK old, new : old = q[k] /\ old \in [Sizes -> Nat] /\ new = Record(old, n)
    BY <1>2, <2>1
  <2>3. more = [q EXCEPT ![k] = new]
    BY <1>1, <1>4, <2>1, <2>2 DEF Packed
  <2>4. /\ new \in [Sizes -> Nat] /\ Bytes(new) = Bytes(old) + n /\ Chunks(new) = Chunks(old) + 1
        /\ \A m \in Sizes : new[m] = old[m] + (IF m = n THEN 1 ELSE 0)
        /\ Bytes(old) \in Nat /\ Chunks(old) \in Nat
    BY <2>2, RecordFact, ChunksFact
  <2>5. Bytes(new) <= ReplayBytes /\ Chunks(new) <= ReplayChunks
    BY <1>2, <1>4, <2>1, <2>2, <2>4 DEF Fits, FitsBytes
  <2>6. /\ more \in Seq([Sizes -> Nat]) /\ Len(more) = k /\ DOMAIN more = 1 .. k
        /\ more[k] = new /\ \A i \in (1 .. k) \ {k} : more[i] = q[i]
    BY <1>1, <1>2, <2>1, <2>3, <2>4
  <2>7. Bounded(more)
    BY <1>2, <2>5, <2>6 DEF Bounded
  <2>8. ASSUME NEW m \in Sizes
        PROVE  Replayed(more, m) = Replayed(q, m) + (IF m = n THEN 1 ELSE 0)
    <3>1. PICK f, g, one : f = Entries(q, m) /\ g = Entries(more, m) /\ one = (IF m = n THEN 1 ELSE 0) /\ one \in Nat
      OBVIOUS
    <3>2. (\A i \in 1 .. k : f[i] \in Nat) /\ f[k] = old[m]
      BY <1>3, <2>1, <2>2, <3>1
    <3>3. g[k] = f[k] + one /\ \A i \in (1 .. k) \ {k} : g[i] = f[i]
      <4>1. \A i \in 1 .. k : g[i] = more[i][m] /\ f[i] = q[i][m]
        BY <1>2, <2>6, <3>1 DEF Entries
      <4>2. new[m] = old[m] + one
        BY <2>4, <3>1
      <4>3. g[k] = new[m] /\ f[k] = old[m]
        BY <2>1, <2>2, <2>6, <4>1
      <4>4. \A i \in (1 .. k) \ {k} : g[i] = f[i]
        BY <2>6, <4>1
      <4> QED
        BY <4>2, <4>3, <4>4
    <3>4. SumFunctionOnSet(g, 1 .. k) = SumFunctionOnSet(f, 1 .. k) + one
      <4>1. IsFiniteSet(1 .. k) /\ k \in 1 .. k /\ one \in Nat /\ \A i \in 1 .. k : f[i] \in Nat
        BY <1>2, <2>1, <3>1, <3>2
      <4> QED
        BY <3>3, <4>1, SumRaise
    <3> QED
      BY <1>3, <2>6, <3>1, <3>4 DEF Replayed
  <2> QED
    BY <1>1, <1>3, <2>7, <2>8
<1>5. CASE ~(q # << >> /\ Fits(Last(q), n))
  <2>1. PICK new : new = Record(NoSizes, n)
    OBVIOUS
  <2>2. more = Append(q, new)
    BY <1>1, <1>5, <2>1 DEF Packed
  <2>3. /\ new \in [Sizes -> Nat] /\ Bytes(new) = n /\ Chunks(new) = 1
        /\ \A m \in Sizes : new[m] = IF m = n THEN 1 ELSE 0
    <3>1. Chunks(NoSizes) = 0
      BY NoSizesFact, ConfigFact, SumZero DEF Chunks, NoSizes
    <3>2. \A m \in Sizes : NoSizes[m] = 0
      BY DEF NoSizes
    <3>3. /\ new \in [Sizes -> Nat] /\ Bytes(new) = 0 + n /\ Chunks(new) = 0 + 1
          /\ new[n] = NoSizes[n] + 1 /\ \A m \in Sizes \ {n} : new[m] = NoSizes[m]
      BY <2>1, <3>1, NoSizesFact, RecordFact, ChunksFact
    <3>4. Bytes(new) = n /\ Chunks(new) = 1
      BY <1>2, <3>3
    <3>5. \A m \in Sizes : new[m] = IF m = n THEN 1 ELSE 0
      BY <3>2, <3>3
    <3> QED
      BY <3>3, <3>4, <3>5
  <2>4. /\ more \in Seq([Sizes -> Nat]) /\ Len(more) = k + 1 /\ DOMAIN more = 1 .. (k + 1)
        /\ more[k + 1] = new /\ \A i \in 1 .. k : more[i] = q[i]
    BY <1>1, <1>2, <2>2, <2>3
  <2>5. Bounded(more)
    <3>1. \A i \in 1 .. (k + 1) : i = k + 1 \/ i \in 1 .. k
      BY <1>2
    <3>2. Bytes(new) <= ReplayBytes /\ Chunks(new) <= ReplayChunks
      BY <1>2, <2>3
    <3> QED
      BY <1>2, <2>4, <3>1, <3>2 DEF Bounded
  <2>6. ASSUME NEW m \in Sizes
        PROVE  Replayed(more, m) = Replayed(q, m) + (IF m = n THEN 1 ELSE 0)
    <3>1. PICK f, g : f = Entries(q, m) /\ g = Entries(more, m)
      OBVIOUS
    <3>2. /\ \A i \in 1 .. k : g[i] = f[i] /\ f[i] \in Nat
          /\ g[k + 1] = new[m] /\ new[m] \in Nat
      <4>1. k + 1 \in 1 .. (k + 1) /\ \A i \in 1 .. k : i \in 1 .. (k + 1)
        BY <1>2
      <4>2. \A i \in 1 .. (k + 1) : g[i] = more[i][m]
        BY <2>4, <3>1 DEF Entries
      <4>3. \A i \in 1 .. k : f[i] = q[i][m] /\ f[i] \in Nat
        BY <1>3, <3>1
      <4> QED
        BY <2>3, <2>4, <4>1, <4>2, <4>3
    <3>3. /\ k + 1 \in 1 .. (k + 1) /\ IsFiniteSet(1 .. (k + 1)) /\ (1 .. (k + 1)) \ {k + 1} = 1 .. k
          /\ \A i \in 1 .. (k + 1) : i = k + 1 \/ i \in 1 .. k
      <4>1. k + 1 \in Nat
        BY <1>2
      <4>2. IsFiniteSet(1 .. (k + 1))
        BY <4>1, FS_Interval
      <4> QED
        BY <1>2, <4>2
    <3>4. SumFunctionOnSet(g, 1 .. (k + 1)) = g[k + 1] + SumFunctionOnSet(g, 1 .. k)
      <4>1. \A i \in 1 .. (k + 1) : g[i] \in Nat
        BY <3>2, <3>3
      <4>2. \A i \in 1 .. (k + 1) :
              SumFunctionOnSet(g, 1 .. (k + 1)) = g[i] + SumFunctionOnSet(g, (1 .. (k + 1)) \ {i})
        BY <3>3, <4>1, SumStep
      <4> QED
        BY <3>3, <4>2
    <3>5. SumFunctionOnSet(g, 1 .. k) = SumFunctionOnSet(f, 1 .. k)
      BY <1>2, <3>2, SumEqual
    <3> QED
      BY <1>3, <2>3, <2>4, <3>1, <3>2, <3>4, <3>5 DEF Replayed
  <2> QED
    BY <1>1, <1>3, <2>5, <2>6
<1> QED
  BY <1>4, <1>5

\* The segments of some sizes are bounded, and hold these sizes between them
\* (_replay_segments).
THEOREM SegmentsHoldSizes ==
  ASSUME NEW sizes \in [Sizes -> Nat], \A n \in Sizes : sizes[n] > 0 => n <= ReplayBytes
  PROVE  Bounded(Segments(sizes)) /\ \A m \in Sizes : Replayed(Segments(sizes), m) = sizes[m]
<1> DEFINE E == {n \in Sizes : sizes[n] > 0}
<1>1. PICK a : a = Ascending(sizes)
  OBVIOUS
<1>2. a \in Seq(E) /\ \A m \in Sizes : Often(a, m) = sizes[m]
  BY <1>1, AscendingFact
<1>3. PICK k \in Nat : k = Len(a)
  BY <1>2
<1>4. DOMAIN a = 1 .. k /\ \A i \in 1 .. k : a[i] \in Sizes /\ a[i] <= ReplayBytes
  BY <1>2, <1>3
<1> HIDE DEF E
<1> DEFINE D == 1 .. k
           X == {q \in Seq([Sizes -> Nat]) : Bounded(q)}
           next == [s \in SUBSET D |-> Max(s)]
           step == [i \in D |-> [q \in X |-> Packed(q, a[i])]]
           Solves(g) == g = [s \in SUBSET D |-> IF s = {} THEN << >>
                                                ELSE Packed(g[s \ {Max(s)}], a[Max(s)])]
<1>5. \E g : Solves(g)
  <2>1. \A s \in SUBSET D : s # {} => next[s] \in s
    BY GreatestFact
  <2>2. \A i \in D, q \in X : step[i][q] \in X
    BY <1>4, PackedFact DEF Bounded
  <2>3. IsFiniteSet(D) /\ << >> \in X
    BY FS_Interval DEF Bounded
  <2>4. PICK g \in [SUBSET D -> X] : Folds(D, << >>, next, step, g)
    <3> HIDE DEF D, X, next, step
    <3> QED
      BY <2>1, <2>2, <2>3, FoldExists
  <2>5. \A s \in SUBSET D : s # {} => step[next[s]][g[s \ {next[s]}]] = Packed(g[s \ {Max(s)}], a[Max(s)])
    <3> SUFFICES ASSUME NEW s \in SUBSET D, s # {}
                 PROVE  step[next[s]][g[s \ {next[s]}]] = Packed(g[s \ {Max(s)}], a[Max(s)])
      OBVIOUS
    <3>1. next[s] = Max(s) /\ Max(s) \in D
      BY <2>1
    <3>2. g[s \ {Max(s)}] \in X
      <4> HIDE DEF X
      <4> QED
        OBVIOUS
    <3> HIDE DEF X, next
    <3> QED
      BY <3>1, <3>2
  <2>6. g = [s \in SUBSET D |-> IF s = {} THEN << >> ELSE step[next[s]][g[s \ {next[s]}]]]
    BY <2>4 DEF Folds
  <2>7. Solves(g)
    <3> HIDE DEF D, next, step
    <3> QED
      BY <2>5, <2>6
  <2> QED
    BY <2>7
<1>6. PICK g : g = CHOOSE f : Solves(f)
  OBVIOUS
<1>7. Solves(g)
  BY <1>5, <1>6
<1>8. Segments(sizes) = g[D]
  BY <1>1, <1>4, <1>6 DEF Segments, FoldLeft, MapThenFoldSet
<1>9. g[{}] = << >> /\ \A i \in 1 .. k : g[1 .. i] = Packed(g[1 .. (i - 1)], a[i])
  <2>1. \A i \in 1 .. k : /\ 1 .. i \in SUBSET D /\ 1 .. i # {} /\ Max(1 .. i) = i
                          /\ (1 .. i) \ {i} = 1 .. (i - 1)
    BY PrefixFact
  <2>2. {} \in SUBSET D
    OBVIOUS
  <2> HIDE DEF D
  <2>3. \A s \in SUBSET D : g[s] = IF s = {} THEN << >> ELSE Packed(g[s \ {Max(s)}], a[Max(s)])
    BY <1>7
  <2>4. ASSUME NEW i \in 1 .. k
        PROVE  g[1 .. i] = Packed(g[1 .. (i - 1)], a[i])
    <3>1. PICK s \in SUBSET D : s = 1 .. i /\ s # {} /\ Max(s) = i /\ s \ {i} = 1 .. (i - 1)
      BY <2>1
    <3>2. g[s] = Packed(g[s \ {Max(s)}], a[Max(s)])
      BY <2>3, <3>1
    <3> QED
      BY <3>1, <3>2
  <2>5. g[{}] = << >>
    BY <2>2, <2>3
  <2> QED
    BY <2>4, <2>5
<1> DEFINE Q == {i \in 0 .. k :
                   /\ Bounded(g[1 .. i])
                   /\ \A m \in Sizes : Replayed(g[1 .. i], m) = SumFunctionOnSet(Hits(a, m), 1 .. i)}
<1> HIDE DEF X, next, step, Solves
<1>10. 0 \in Q
  <2>1. 1 .. 0 = {} /\ g[1 .. 0] = << >>
    BY <1>9
  <2>2. \A m \in Sizes : Replayed(<< >>, m) = 0
    BY SumEmpty DEF Replayed
  <2>3. Bounded(<< >>)
    BY DEF Bounded
  <2>4. \A m \in Sizes : SumFunctionOnSet(Hits(a, m), {}) = 0
    BY SumEmpty
  <2> QED
    BY <2>1, <2>2, <2>3, <2>4
<1>11. ASSUME NEW i \in 1 .. k, i - 1 \in Q
       PROVE  i \in Q
  <2>1. PICK old, new : old = g[1 .. (i - 1)] /\ new = g[1 .. i]
    OBVIOUS
  <2>2. /\ Bounded(old) /\ new = Packed(old, a[i])
        /\ \A m \in Sizes : Replayed(old, m) = SumFunctionOnSet(Hits(a, m), 1 .. (i - 1))
    BY <1>9, <1>11, <2>1
  <2>3. /\ Bounded(new)
        /\ \A m \in Sizes : Replayed(new, m) = Replayed(old, m) + (IF m = a[i] THEN 1 ELSE 0)
    BY <1>4, <2>2, PackedFact
  <2>4. ASSUME NEW m \in Sizes
        PROVE  SumFunctionOnSet(Hits(a, m), 1 .. i) =
                 SumFunctionOnSet(Hits(a, m), 1 .. (i - 1)) + (IF m = a[i] THEN 1 ELSE 0)
    <3>1. PICK f : f = Hits(a, m)
      OBVIOUS
    <3>2. f[i] = (IF m = a[i] THEN 1 ELSE 0) /\ \A j \in 1 .. i : f[j] \in Nat
      BY <1>4, <3>1 DEF Hits
    <3>3. IsFiniteSet(1 .. i) /\ i \in 1 .. i /\ (1 .. i) \ {i} = 1 .. (i - 1)
      <4>1. i \in Nat
        OBVIOUS
      <4>2. IsFiniteSet(1 .. i)
        BY <4>1, FS_Interval
      <4> QED
        BY <4>2
    <3>4. SumFunctionOnSet(f, 1 .. i) = f[i] + SumFunctionOnSet(f, 1 .. (i - 1))
      BY <3>2, <3>3, SumStep
    <3>5. SumFunctionOnSet(f, 1 .. (i - 1)) \in Nat
      BY <2>2, <2>3, <3>1, <1>4, PackedFact
    <3> QED
      BY <3>1, <3>2, <3>4, <3>5
  <2>5. \A m \in Sizes : Replayed(new, m) = SumFunctionOnSet(Hits(a, m), 1 .. i)
    BY <2>2, <2>3, <2>4
  <2>6. Bounded(g[1 .. i]) /\ \A m \in Sizes : Replayed(g[1 .. i], m) = SumFunctionOnSet(Hits(a, m), 1 .. i)
    BY <2>1, <2>3, <2>5
  <2>7. i \in 0 .. k
    OBVIOUS
  <2> QED
    BY <2>6, <2>7
<1>12. k \in Q
  <2> HIDE DEF Q
  <2> QED
    BY <1>10, <1>11, UpTo
<1>13. \A m \in Sizes : Replayed(g[D], m) = sizes[m]
  BY <1>2, <1>4, <1>12 DEF Often
<1> QED
  BY <1>8, <1>12, <1>13

(***************************************************************************)
(* The record of one stream.                                                *)
(***************************************************************************)
\* The fields of a record of a stream.
LEMMA StreamFields ==
  ASSUME NEW r \in StreamRecord
  PROVE  /\ r.state \in {"sent", "open", "done"} /\ r.framed \in BOOLEAN /\ r.bytes \in Nat /\ r.chunks \in Nat
         /\ r.least \in Nat /\ r.most \in Nat /\ r.sizes \in [Sizes -> Nat] /\ r.complete \in BOOLEAN
         /\ r.bad \in BOOLEAN /\ r.eof \in BOOLEAN /\ r.error \in BOOLEAN
BY DEF StreamRecord

\* The fields of what is sent of a stream.
LEMMA SentFields ==
  ASSUME NEW sent \in SentRecord
  PROVE  sent.sizes \in [Sizes -> Nat] /\ sent.corrupt \in BOOLEAN /\ sent.ended \in BOOLEAN
BY DEF SentRecord

\* A stream that begins is recorded as it is: nothing has been sent of it.
LEMMA NewFact ==
  /\ NewStream \in StreamRecord /\ Nothing \in SentRecord /\ Faithful(NewStream, Nothing)
  /\ NewStream.complete /\ NewStream.sizes = Nothing.sizes /\ Nothing.sizes = NoSizes
<1>1. NewStream \in StreamRecord /\ Nothing \in SentRecord
  BY NoSizesFact DEF NewStream, Nothing, StreamRecord, SentRecord
<1>2. /\ NewStream.sizes = NoSizes /\ Nothing.sizes = NoSizes /\ NewStream.complete
      /\ NewStream.bytes = 0 /\ NewStream.bad = Nothing.corrupt /\ NewStream.eof = Nothing.ended
  BY DEF NewStream, Nothing
<1> QED
  BY <1>1, <1>2, NoSizesFact DEF Faithful

\* What a chunk changes in the record of its stream.
LEMMA ObservedFact ==
  ASSUME window \in BOOLEAN, NEW r \in StreamRecord, NEW n \in Sizes, NEW corrupt \in BOOLEAN
  PROVE  LET more == Observed(r, n, corrupt)
         IN /\ more \in StreamRecord
            /\ more.bytes = r.bytes + n /\ more.bad = (r.bad \/ corrupt) /\ more.eof = r.eof
            /\ more.sizes = IF ~window /\ KeepsSize(r, n) THEN Record(r.sizes, n) ELSE r.sizes
            /\ more.complete = (r.complete /\ (window \/ KeepsSize(r, n)))
            /\ more.chunks = r.chunks + 1 /\ more.least = IF r.least = 0 \/ n < r.least THEN n ELSE r.least
            /\ more.most = IF n > r.most THEN n ELSE r.most
<1>1. n \in Nat
  BY DEF Sizes
<1>2. Record(r.sizes, n) \in [Sizes -> Nat]
  BY StreamFields, RecordFact
<1>3. PICK keeps \in BOOLEAN : keeps = KeepsSize(r, n)
  BY DEF KeepsSize
<1>4. PICK kept : kept = Record(r.sizes, n)
  OBVIOUS
<1> DEFINE fields == {"state", "framed", "bytes", "chunks", "least", "most", "sizes", "complete", "bad", "eof", "error"}
           more == Observed(r, n, corrupt)
<1>5. DOMAIN r = fields
  BY DEF StreamRecord
<1>6. /\ more.bytes = r.bytes + n /\ more.bad = (r.bad \/ corrupt) /\ more.eof = r.eof
      /\ more.sizes = IF ~window /\ keeps THEN kept ELSE r.sizes
      /\ more.complete = (r.complete /\ (window \/ keeps))
  BY <1>3, <1>4, <1>5 DEF Observed, Digest
<1>8. /\ more.chunks = r.chunks + 1 /\ more.least = IF r.least = 0 \/ n < r.least THEN n ELSE r.least
      /\ more.most = IF n > r.most THEN n ELSE r.most
  BY <1>5 DEF Observed
<1>7. more \in StreamRecord
  <2>1. PICK b \in Nat, c \in Nat, least \in Nat, most \in Nat, sizes \in [Sizes -> Nat],
             complete \in BOOLEAN, bad \in BOOLEAN :
          more = [r EXCEPT !.bytes = b, !.chunks = c, !.least = least, !.most = most,
                           !.sizes = sizes, !.complete = complete, !.bad = bad]
    <3> DEFINE b == r.bytes + n
               c == r.chunks + 1
               least == IF r.least = 0 \/ n < r.least THEN n ELSE r.least
               most == IF n > r.most THEN n ELSE r.most
               sizes == IF ~window /\ KeepsSize(r, n) THEN Record(r.sizes, n) ELSE r.sizes
               complete == r.complete /\ (window \/ KeepsSize(r, n))
               bad == r.bad \/ corrupt
    <3>1. b \in Nat /\ c \in Nat /\ least \in Nat /\ most \in Nat
      BY <1>1, StreamFields
    <3>2. sizes \in [Sizes -> Nat] /\ complete \in BOOLEAN /\ bad \in BOOLEAN
      BY <1>2, StreamFields
    <3>3. more = [r EXCEPT !.bytes = b, !.chunks = c, !.least = least, !.most = most,
                           !.sizes = sizes, !.complete = complete, !.bad = bad]
      BY Zenon DEF Observed, Digest
    <3> HIDE DEF more, b, c, least, most, sizes, complete, bad
    <3> QED
      BY <3>1, <3>2, <3>3, Zenon
  <2> HIDE DEF more
  <2> QED
    BY <2>1 DEF StreamRecord
<1> QED
  BY <1>3, <1>4, <1>6, <1>7, <1>8

\* More bins are taken: a stream that was short of them still was.
LEMMA SizedKept ==
  ASSUME NEW r, NEW sent, NEW taken \in Nat, NEW next \in Nat, taken <= next, next <= SharedBins,
         Sized(r, sent, taken)
  PROVE  Sized(r, sent, next)
BY ConfigFact DEF Sized, Overflowed

\* A chunk is counted if its size has a bin or may take one.
LEMMA SizedObserved ==
  ASSUME NEW r \in StreamRecord, NEW more \in StreamRecord, NEW sent \in SentRecord, NEW told \in SentRecord,
         NEW n \in Sizes, NEW taken \in Nat, taken <= SharedBins, NEW next, NEW keeps \in BOOLEAN,
         keeps <=> ~NeedsBin(r.sizes, n) \/ (Distinct(r.sizes) < BinsCap /\ taken < SharedBins),
         next = IF NeedsBin(r.sizes, n) /\ keeps THEN taken + 1 ELSE taken,
         more.sizes = IF keeps THEN Record(r.sizes, n) ELSE r.sizes,
         more.complete = (r.complete /\ keeps),
         told.sizes = Record(sent.sizes, n), Sized(r, sent, taken)
  PROVE  next \in Nat /\ taken <= next /\ next <= SharedBins /\ Sized(more, told, next)
<1>1. /\ r.sizes \in [Sizes -> Nat] /\ sent.sizes \in [Sizes -> Nat] /\ r.complete \in BOOLEAN
      /\ SharedBins \in Nat /\ BinsCap \in Nat
  BY StreamFields, SentFields, ConfigFact
<1>2. next \in Nat /\ taken <= next /\ next <= SharedBins
  BY <1>1
<1>3. /\ \A m \in Sizes \ {n} : told.sizes[m] = sent.sizes[m]
      /\ told.sizes[n] = sent.sizes[n] + 1
      /\ \A m \in Sizes : sent.sizes[m] \in Nat /\ told.sizes[m] \in Nat /\ r.sizes[m] \in Nat
      /\ \A m \in Sizes : sent.sizes[m] > 0 => told.sizes[m] > 0
  <2>1. PICK a, b : a = sent.sizes /\ b = Record(a, n) /\ a \in [Sizes -> Nat]
    BY <1>1
  <2>2. b \in [Sizes -> Nat] /\ b[n] = a[n] + 1 /\ \A m \in Sizes \ {n} : b[m] = a[m]
    BY <2>1, RecordFact
  <2>3. sent.sizes = a /\ told.sizes = b /\ \A m \in Sizes : r.sizes[m] \in Nat
    BY <1>1, <2>1
  <2> QED
    BY <2>1, <2>2, <2>3
<1>4. CASE keeps
  <2>1. /\ \A m \in Sizes \ {n} : more.sizes[m] = r.sizes[m]
        /\ more.sizes[n] = r.sizes[n] + 1
        /\ Distinct(r.sizes) \in Nat
        /\ Distinct(more.sizes) = IF r.sizes[n] = 0 THEN Distinct(r.sizes) + 1 ELSE Distinct(r.sizes)
    <3>1. PICK a, b : a = r.sizes /\ b = Record(a, n) /\ a \in [Sizes -> Nat]
      BY <1>1
    <3>2. b[n] = a[n] + 1 /\ \A m \in Sizes \ {n} : b[m] = a[m]
      BY <3>1, RecordFact
    <3>3. Distinct(a) \in Nat /\ Distinct(b) = IF a[n] = 0 THEN Distinct(a) + 1 ELSE Distinct(a)
      BY <3>1, DistinctFact
    <3>4. r.sizes = a /\ more.sizes = b
      BY <1>4, <3>1
    <3> QED
      BY <3>2, <3>3, <3>4
  <2>2. \A m \in Sizes : more.sizes[m] > 0 => told.sizes[m] > 0
    BY <1>3, <2>1 DEF Sized
  <2>3. CASE r.complete
    <3>1. r.sizes = sent.sizes
      BY <2>3 DEF Sized
    <3>2. more.sizes = told.sizes
      BY <1>4, <3>1
    <3>3. more.complete = TRUE
      BY <1>4, <2>3
    <3> QED
      BY <1>2, <2>2, <3>2, <3>3 DEF Sized
  <2>4. CASE ~r.complete /\ taken = SharedBins
    BY <1>1, <1>2, <1>4, <2>2, <2>4 DEF Sized, Overflowed
  <2>5. CASE ~r.complete /\ taken # SharedBins
    <3>1. Distinct(r.sizes) >= BinsCap /\ \E m \in Sizes : r.sizes[m] = 0 /\ sent.sizes[m] > 0
      BY <2>5 DEF Sized, Overflowed
    <3>2. r.sizes[n] # 0
      BY <1>1, <1>4, <2>1, <3>1 DEF NeedsBin
    <3>3. Distinct(more.sizes) >= BinsCap /\ \E m \in Sizes : more.sizes[m] = 0 /\ told.sizes[m] > 0
      BY <1>3, <2>1, <3>1, <3>2
    <3>4. more.complete = FALSE
      BY <1>4, <2>5
    <3> QED
      BY <1>2, <2>2, <3>3, <3>4 DEF Sized, Overflowed
  <2> QED
    BY <1>1, <2>3, <2>4, <2>5
<1>5. CASE ~keeps
  <2>1. /\ more.sizes = r.sizes /\ ~more.complete /\ r.sizes[n] = 0 /\ next = taken
        /\ (Distinct(r.sizes) >= BinsCap \/ taken = SharedBins)
    BY <1>1, <1>5, DistinctFact DEF NeedsBin
  <2>2. \A m \in Sizes : more.sizes[m] > 0 => told.sizes[m] > 0
    BY <1>3, <2>1 DEF Sized
  <2>3. told.sizes[n] > 0
    BY <1>3
  <2> QED
    BY <2>1, <2>2, <2>3 DEF Sized, Overflowed
<1> QED
  BY <1>2, <1>4, <1>5

\* A window counts a chunk if its size has a bin or may take one.
LEMMA CountedObserved ==
  ASSUME NEW h \in [sizes : [Sizes -> Nat], complete : BOOLEAN], NEW next, NEW n \in Sizes,
         NEW taken \in Nat, NEW taking, NEW sizes \in [Sizes -> Nat], Counted(h, taken, sizes),
         IF h.sizes[n] # 0 \/ taken < BinsCap
         THEN /\ next = [h EXCEPT !.sizes = Record(h.sizes, n)]
              /\ taking = IF h.sizes[n] # 0 THEN taken ELSE taken + 1
         ELSE next = [h EXCEPT !.complete = FALSE] /\ taking = taken
  PROVE  /\ next \in [sizes : [Sizes -> Nat], complete : BOOLEAN] /\ taking \in Nat
         /\ Counted(next, taking, Record(sizes, n))
<1> DEFINE told == Record(sizes, n)
<1>1. h.sizes \in [Sizes -> Nat] /\ h.complete \in BOOLEAN /\ BinsCap \in Nat
  BY ConfigFact
<1>2. /\ \A m \in Sizes \ {n} : told[m] = sizes[m]
      /\ told[n] = sizes[n] + 1
      /\ \A m \in Sizes : sizes[m] \in Nat /\ told[m] \in Nat /\ h.sizes[m] \in Nat
      /\ \A m \in Sizes : sizes[m] > 0 => told[m] > 0
  <2>1. /\ told \in [Sizes -> Nat] /\ told[n] = sizes[n] + 1
        /\ \A m \in Sizes \ {n} : told[m] = sizes[m]
    BY RecordFact
  <2> HIDE DEF told
  <2> QED
    BY <1>1, <2>1
<1> HIDE DEF told
<1>3. CASE h.sizes[n] # 0 \/ taken < BinsCap
  <2>1. PICK kept \in [Sizes -> Nat] : kept = Record(h.sizes, n)
    BY <1>1, RecordFact
  <2>2. /\ next.sizes = kept /\ next.complete = h.complete
        /\ next \in [sizes : [Sizes -> Nat], complete : BOOLEAN]
    BY <1>3, <2>1
  <2>3. /\ \A m \in Sizes \ {n} : kept[m] = h.sizes[m]
        /\ kept[n] = h.sizes[n] + 1
        /\ Distinct(kept) = IF h.sizes[n] = 0 THEN Distinct(h.sizes) + 1 ELSE Distinct(h.sizes)
    BY <1>1, <2>1, RecordFact, DistinctFact
  <2>4. taking \in Nat /\ taking = Distinct(kept) /\ taking <= BinsCap
    BY <1>1, <1>3, <2>3 DEF Counted
  <2>5. \A m \in Sizes : kept[m] > 0 => told[m] > 0
    BY <1>2, <2>3 DEF Counted
  <2>6. CASE h.complete
    BY <2>1, <2>2, <2>4, <2>5, <2>6 DEF Counted, told
  <2>7. CASE ~h.complete
    <3>1. taken = BinsCap /\ h.sizes[n] # 0 /\ \E m \in Sizes : h.sizes[m] = 0 /\ sizes[m] > 0
      BY <1>1, <1>3, <2>7 DEF Counted
    <3>2. taking = BinsCap /\ \E m \in Sizes : kept[m] = 0 /\ told[m] > 0
      BY <1>2, <1>3, <2>3, <3>1
    <3> QED
      BY <2>2, <2>4, <2>5, <2>7, <3>2 DEF Counted, told
  <2> QED
    BY <1>1, <2>2, <2>4, <2>6, <2>7 DEF told
<1>4. CASE ~(h.sizes[n] # 0 \/ taken < BinsCap)
  <2>1. /\ next.sizes = h.sizes /\ ~next.complete /\ taking = taken
        /\ next \in [sizes : [Sizes -> Nat], complete : BOOLEAN]
    BY <1>4
  <2>2. h.sizes[n] = 0 /\ taken = BinsCap /\ told[n] > 0
    BY <1>1, <1>2, <1>4 DEF Counted
  <2>3. \A m \in Sizes : h.sizes[m] > 0 => told[m] > 0
    BY <1>2 DEF Counted
  <2> QED
    BY <2>1, <2>2, <2>3 DEF Counted, told
<1> QED
  BY <1>3, <1>4

(***************************************************************************)
(* The first state, and the steps.                                          *)
(***************************************************************************)
\* The invariant holds before the load (measure_async_batch).
LEMMA BatchStart == BatchInit => BatchInv
<1> SUFFICES ASSUME BatchInit PROVE BatchInv
  OBVIOUS
<1>1. /\ NewStream \in StreamRecord /\ Nothing \in SentRecord
      /\ active = [s \in Slots |-> NewStream] /\ sending = [s \in Slots |-> Nothing]
      /\ pending = << >> /\ delivered = << >>
      /\ histogram = [sizes |-> NoSizes, complete |-> TRUE] /\ bins = 0
  BY NewFact DEF BatchInit
<1>2. /\ active \in [Slots -> StreamRecord] /\ sending \in [Slots -> SentRecord]
      /\ pending \in Seq(StreamRecord) /\ delivered \in Seq(SentRecord)
      /\ histogram \in [sizes : [Sizes -> Nat], complete : BOOLEAN]
  BY <1>1, NoSizesFact
<1>3. BatchTypeOK
  BY <1>1, <1>2 DEF BatchTypeOK, BatchInit
<1>4. Read
  BY <1>1, NewFact DEF Read
<1>5. Sized(NewStream, Nothing, 0)
  BY NewFact, NoSizesFact DEF Sized, NoSizes
<1>6. FixedSizes
  BY <1>1, <1>5, ConfigFact DEF FixedSizes
<1>7. \A n \in Sizes : SentSoFar[n] = 0
  <2>1. \A n \in Sizes : SizesOf(sending)[n] = 0
    BY <1>1, SizesOfNothing, ConfigFact
  <2>2. DOMAIN delivered = {} /\ IsFiniteSet({})
    BY <1>1, FS_EmptySet
  <2>3. \A n \in Sizes : SizesOf(delivered)[n] = 0
    BY <2>2, SizesOfNothing
  <2> QED
    BY <2>1, <2>3 DEF SentSoFar
<1>8. SentSoFar = NoSizes
  BY <1>7 DEF SentSoFar, NoSizes
<1>9. WindowSizes
  BY <1>1, <1>8, NoSizesFact, ConfigFact DEF WindowSizes, Counted, NoSizes
<1>10. Stopped
  BY <1>1 DEF Stopped, BatchInit
<1> QED
  BY <1>3, <1>4, <1>6, <1>9, <1>10 DEF BatchInv

\* A fault is counted.
LEMMA GoesFact == ASSUME faults \in Nat, NEW well, Goes(well) PROVE faults' \in Nat
BY DEF Goes

\* A stream of the round goes on, and its record with it.
LEMMA StreamStep ==
  ASSUME BatchInv, phase = "load", NEW s \in Slots, NEW new \in StreamRecord, NEW told \in SentRecord,
         Faithful(new, told), active' = [active EXCEPT ![s] = new], sending' = [sending EXCEPT ![s] = told],
         UNCHANGED <<window, phase, clock, probes, span, pending, delivered>>,
         histogram' \in [sizes : [Sizes -> Nat], complete : BOOLEAN], bins' \in Nat, faults' \in Nat,
         ~window => bins <= bins' /\ bins' <= SharedBins /\ Sized(new, told, bins'),
         window => Counted(histogram', bins', SentSoFar')
  PROVE  BatchInv'
<1>1. BatchTypeOK /\ Read /\ FixedSizes /\ WindowSizes /\ Stopped
  BY DEF BatchInv
<1>2. /\ active' \in [Slots -> StreamRecord] /\ sending' \in [Slots -> SentRecord]
      /\ \A i \in Slots : active'[i] = IF i = s THEN new ELSE active[i]
      /\ \A i \in Slots : sending'[i] = IF i = s THEN told ELSE sending[i]
  BY <1>1 DEF BatchTypeOK
<1>3. BatchTypeOK'
  BY <1>1, <1>2 DEF BatchTypeOK
<1>4. Read'
  BY <1>1, <1>2 DEF Read, Faithful
<1>5. FixedSizes'
  <2> SUFFICES ASSUME ~window
               PROVE  /\ bins' <= SharedBins
                      /\ \A i \in Slots : Sized(active'[i], sending'[i], bins')
                      /\ \A i \in 1 .. Len(pending) : Sized(pending[i], delivered[i], bins')
    BY DEF FixedSizes
  <2>1. /\ bins \in Nat /\ bins' \in Nat /\ bins <= bins' /\ bins' <= SharedBins
        /\ \A i \in Slots : Sized(active[i], sending[i], bins)
        /\ \A i \in 1 .. Len(pending) : Sized(pending[i], delivered[i], bins)
    BY <1>1 DEF FixedSizes, BatchTypeOK
  <2>2. /\ \A i \in Slots : Sized(active[i], sending[i], bins')
        /\ \A i \in 1 .. Len(pending) : Sized(pending[i], delivered[i], bins')
    BY <2>1, SizedKept
  <2> QED
    BY <1>2, <2>1, <2>2
<1>6. WindowSizes'
  BY DEF WindowSizes
<1>7. Stopped'
  BY DEF Stopped
<1> QED
  BY <1>3, <1>4, <1>5, <1>6, <1>7 DEF BatchInv

\* A step of a stream that no chunk comes with.
LEMMA QuietStep ==
  ASSUME BatchInv, phase = "load", NEW s \in Slots, NEW new \in StreamRecord, NEW told \in SentRecord,
         new.sizes = active[s].sizes, new.complete = active[s].complete, told.sizes = sending[s].sizes,
         Faithful(new, told), active' = [active EXCEPT ![s] = new], sending' = [sending EXCEPT ![s] = told],
         UNCHANGED <<window, phase, clock, probes, span, pending, delivered, histogram, bins>>, faults' \in Nat
  PROVE  BatchInv'
<1>1. BatchTypeOK /\ FixedSizes /\ WindowSizes
  BY DEF BatchInv
<1>2. /\ histogram' \in [sizes : [Sizes -> Nat], complete : BOOLEAN] /\ bins' \in Nat
      /\ DOMAIN sending = Slots /\ DOMAIN sending' = Slots
      /\ \A i \in Slots : sending[i] \in SentRecord /\ sending'[i].sizes = sending[i].sizes
  BY <1>1 DEF BatchTypeOK
<1>3. ~window => bins <= bins' /\ bins' <= SharedBins /\ Sized(new, told, bins')
  BY <1>1, <1>2 DEF FixedSizes, Sized, Overflowed
<1>4. SizesOf(sending') = SizesOf(sending)
  BY <1>2, SentFields, SizesKept, ConfigFact
<1>5. SentSoFar' = SentSoFar
  <2>1. SizesOf(delivered') = SizesOf(delivered)
    OBVIOUS
  <2> QED
    BY <1>4, <2>1 DEF SentSoFar
<1>6. window => Counted(histogram', bins', SentSoFar')
  BY <1>1, <1>5 DEF WindowSizes
<1> QED
  BY <1>2, <1>3, <1>6, StreamStep

\* Headers add nothing to the sizes.
LEMMA HeadersStep == ASSUME BatchInv, NEW s \in Slots, Headers(s) PROVE BatchInv'
<1>1. PICK framed \in BOOLEAN :
        active' = [active EXCEPT ![s].state = "open", ![s].framed = framed] /\ Goes(framed)
  BY DEF Headers
<1>2. /\ phase = "load" /\ active \in [Slots -> StreamRecord] /\ sending \in [Slots -> SentRecord] /\ faults \in Nat
      /\ Faithful(active[s], sending[s])
  BY DEF Headers, Reading, BatchInv, BatchTypeOK, Read
<1>3. PICK r \in StreamRecord, sent \in SentRecord : r = active[s] /\ sent = sending[s]
  BY <1>2
<1> DEFINE new == [r EXCEPT !.state = "open", !.framed = framed]
<1>4. /\ new \in StreamRecord /\ new.sizes = r.sizes /\ new.complete = r.complete
      /\ new.bytes = r.bytes /\ new.bad = r.bad /\ new.eof = r.eof
  BY DEF StreamRecord
<1>5. active' = [active EXCEPT ![s] = new] /\ sending' = [sending EXCEPT ![s] = sent]
  BY <1>1, <1>2, <1>3 DEF Headers
<1>6. faults' \in Nat
  BY <1>1, <1>2, GoesFact
<1> HIDE DEF new
<1>7. Faithful(new, sent)
  BY <1>2, <1>3, <1>4 DEF Faithful
<1> QED
  BY <1>2, <1>3, <1>4, <1>5, <1>6, <1>7, QuietStep DEF Headers

\* The end of a body is recorded as such, and adds nothing to the sizes.
LEMMA EndOfStreamStep == ASSUME BatchInv, NEW s \in Slots, EndOfStream(s) PROVE BatchInv'
<1>1. PICK error \in BOOLEAN :
        /\ active' = [active EXCEPT ![s].state = "done", ![s].eof = TRUE, ![s].error = error]
        /\ Goes(~error)
  BY DEF EndOfStream
<1>2. /\ phase = "load" /\ active \in [Slots -> StreamRecord] /\ sending \in [Slots -> SentRecord] /\ faults \in Nat
      /\ Faithful(active[s], sending[s])
  BY DEF EndOfStream, Reading, BatchInv, BatchTypeOK, Read
<1>3. PICK r \in StreamRecord, sent \in SentRecord : r = active[s] /\ sent = sending[s]
  BY <1>2
<1> DEFINE new == [r EXCEPT !.state = "done", !.eof = TRUE, !.error = error]
           told == [sent EXCEPT !.ended = TRUE]
<1>4. /\ new \in StreamRecord /\ new.sizes = r.sizes /\ new.complete = r.complete
      /\ new.bytes = r.bytes /\ new.bad = r.bad /\ new.eof = TRUE
  BY DEF StreamRecord
<1>5. told \in SentRecord /\ told.sizes = sent.sizes /\ told.corrupt = sent.corrupt /\ told.ended = TRUE
  BY DEF SentRecord
<1>6. active' = [active EXCEPT ![s] = new] /\ sending' = [sending EXCEPT ![s] = told]
  BY <1>1, <1>2, <1>3 DEF EndOfStream, Sends
<1>7. faults' \in Nat
  BY <1>1, <1>2, GoesFact
<1> HIDE DEF new, told
<1>8. Faithful(new, told)
  BY <1>2, <1>3, <1>4, <1>5 DEF Faithful
<1> QED
  BY <1>2, <1>3, <1>4, <1>5, <1>6, <1>7, <1>8, QuietStep DEF EndOfStream, Sends

\* A stream that fails keeps what it has recorded.
LEMMA StreamFailsStep == ASSUME BatchInv, NEW s \in Slots, StreamFails(s) PROVE BatchInv'
<1>1. /\ phase = "load" /\ active \in [Slots -> StreamRecord] /\ sending \in [Slots -> SentRecord] /\ faults \in Nat
      /\ Faithful(active[s], sending[s])
  BY DEF StreamFails, Reading, BatchInv, BatchTypeOK, Read
<1>2. PICK r \in StreamRecord, sent \in SentRecord : r = active[s] /\ sent = sending[s]
  BY <1>1
<1> DEFINE new == [r EXCEPT !.state = "done", !.error = TRUE]
<1>3. /\ new \in StreamRecord /\ new.sizes = r.sizes /\ new.complete = r.complete
      /\ new.bytes = r.bytes /\ new.bad = r.bad /\ new.eof = r.eof
  BY DEF StreamRecord
<1>4. active' = [active EXCEPT ![s] = new] /\ sending' = [sending EXCEPT ![s] = sent]
  BY <1>1, <1>2 DEF StreamFails
<1>5. faults' \in Nat
  BY <1>1, GoesFact DEF StreamFails
<1> HIDE DEF new
<1>6. Faithful(new, sent)
  BY <1>1, <1>2, <1>3 DEF Faithful
<1> QED
  BY <1>1, <1>2, <1>3, <1>4, <1>5, <1>6, QuietStep DEF StreamFails

\* A chunk is one more of its size for the batch.
LEMMA SentSoFarType == ASSUME BatchTypeOK PROVE SentSoFar \in [Sizes -> Nat]
<1>1. \A n \in Sizes : SizesOf(delivered)[n] \in Nat /\ SizesOf(sending)[n] \in Nat
  BY SizesOfRounds DEF BatchTypeOK
<1> QED
  BY <1>1 DEF SentSoFar

\* A chunk of a stream is one more of its size among all that was sent.
LEMMA SentMore ==
  ASSUME BatchTypeOK, NEW s \in Slots, NEW n \in Sizes, NEW told \in SentRecord,
         told.sizes = Record(sending[s].sizes, n), sending' = [sending EXCEPT ![s] = told], delivered' = delivered
  PROVE  SentSoFar' = Record(SentSoFar, n)
<1>1. sending \in [Slots -> SentRecord] /\ SentSoFar \in [Sizes -> Nat]
  BY SentSoFarType DEF BatchTypeOK
<1>2. SizesOf(sending') = Record(SizesOf(sending), n)
  BY <1>1, SizesRaised
<1>3. SizesOf(sending) \in [Sizes -> Nat]
  <2>1. \A i \in DOMAIN sending : sending[i].sizes \in [Sizes -> Nat]
    BY <1>1, SentFields
  <2> QED
    BY <1>1, <2>1, ConfigFact, SizesOfFact
<1>4. PICK before, now, next :
        before = SizesOf(delivered) /\ now = SizesOf(sending) /\ next = SizesOf(sending')
  OBVIOUS
<1>5. SentSoFar = [m \in Sizes |-> before[m] + now[m]]
  BY <1>4 DEF SentSoFar
<1>6. SizesOf(delivered') = before
  BY <1>4
<1>7. SentSoFar' = [m \in Sizes |-> before[m] + next[m]]
  BY <1>4, <1>6 DEF SentSoFar
<1>8. \A m \in Sizes : before[m] \in Nat
  BY <1>1, <1>4, SizesOfRounds DEF BatchTypeOK
<1>9. now \in [Sizes -> Nat] /\ next = Record(now, n)
  BY <1>2, <1>3, <1>4
<1> QED
  BY <1>5, <1>7, <1>8, <1>9 DEF Record

\* A chunk is recorded by its stream and, in a window, in the shared histogram: in
\* both, or marked as not complete (_record_size).
LEMMA ChunkStep == ASSUME BatchInv, NEW s \in Slots, Chunk(s) PROVE BatchInv'
<1>1. /\ phase = "load" /\ active \in [Slots -> StreamRecord] /\ sending \in [Slots -> SentRecord] /\ faults \in Nat
      /\ window \in BOOLEAN /\ bins \in Nat /\ histogram \in [sizes : [Sizes -> Nat], complete : BOOLEAN]
      /\ Faithful(active[s], sending[s]) /\ BatchTypeOK /\ FixedSizes /\ WindowSizes
  BY DEF Chunk, Reading, BatchInv, BatchTypeOK, Read
<1>2. PICK n \in Sizes, corrupt \in BOOLEAN :
        /\ IF window THEN ObserveWindow(n) ELSE ObserveStream(active[s], n) /\ UNCHANGED histogram
        /\ active' = [active EXCEPT ![s] =
             IF Observed(active[s], n, corrupt).bytes > Body
             THEN [Observed(active[s], n, corrupt) EXCEPT !.state = "done", !.error = TRUE]
             ELSE Observed(active[s], n, corrupt)]
        /\ Sends(s, [sending[s] EXCEPT !.sizes = Record(sending[s].sizes, n),
                                       !.corrupt = sending[s].corrupt \/ corrupt])
        /\ Goes(~corrupt /\ Observed(active[s], n, corrupt).bytes <= Body)
  BY Zenon DEF Chunk
<1>3. PICK r \in StreamRecord, sent \in SentRecord : r = active[s] /\ sent = sending[s]
  BY <1>1
<1>4. PICK more : more = Observed(r, n, corrupt)
  OBVIOUS
<1>5. PICK keeps \in BOOLEAN : keeps = KeepsSize(r, n)
  BY DEF KeepsSize
<1>6. /\ more \in StreamRecord
      /\ more.bytes = r.bytes + n /\ more.bad = (r.bad \/ corrupt) /\ more.eof = r.eof
      /\ more.sizes = IF ~window /\ keeps THEN Record(r.sizes, n) ELSE r.sizes
      /\ more.complete = (r.complete /\ (window \/ keeps))
  BY <1>1, <1>4, <1>5, ObservedFact
<1> DEFINE new == IF more.bytes > Body THEN [more EXCEPT !.state = "done", !.error = TRUE] ELSE more
<1>7. /\ new \in StreamRecord /\ new.bytes = more.bytes /\ new.bad = more.bad /\ new.eof = more.eof
      /\ new.sizes = more.sizes /\ new.complete = more.complete
  BY <1>6 DEF StreamRecord
<1>8. PICK kept \in [Sizes -> Nat] : kept = Record(sent.sizes, n) /\ Bytes(kept) = Bytes(sent.sizes) + n
  BY SentFields, RecordFact
<1> DEFINE told == [sent EXCEPT !.sizes = kept, !.corrupt = sent.corrupt \/ corrupt]
<1>9. /\ told \in SentRecord /\ told.sizes = kept /\ told.corrupt = (sent.corrupt \/ corrupt)
      /\ told.ended = sent.ended
  BY DEF SentRecord
<1>10. active' = [active EXCEPT ![s] = new] /\ sending' = [sending EXCEPT ![s] = told] /\ delivered' = delivered
  BY <1>2, <1>3, <1>4, <1>8, Zenon DEF Sends
<1>11. faults' \in Nat
  BY <1>1, <1>2, GoesFact
<1>12. UNCHANGED <<window, phase, clock, probes, span, pending>>
  BY DEF Chunk
<1> HIDE DEF new, told
<1>13. Faithful(new, told)
  BY <1>1, <1>3, <1>6, <1>7, <1>8, <1>9 DEF Faithful
<1>14. CASE window
  <2>1. SentSoFar \in [Sizes -> Nat] /\ SentSoFar' = Record(SentSoFar, n)
    BY <1>1, <1>3, <1>8, <1>9, <1>10, SentSoFarType, SentMore
  <2>2. IF histogram.sizes[n] # 0 \/ bins < BinsCap
        THEN /\ histogram' = [histogram EXCEPT !.sizes = Record(histogram.sizes, n)]
             /\ bins' = IF histogram.sizes[n] # 0 THEN bins ELSE bins + 1
        ELSE histogram' = [histogram EXCEPT !.complete = FALSE] /\ bins' = bins
    BY <1>2, <1>14 DEF ObserveWindow, NeedsBin
  <2>3. Counted(histogram, bins, SentSoFar)
    BY <1>1, <1>14 DEF WindowSizes
  <2>4. /\ histogram' \in [sizes : [Sizes -> Nat], complete : BOOLEAN] /\ bins' \in Nat
        /\ Counted(histogram', bins', SentSoFar')
    BY <1>1, <2>1, <2>2, <2>3, CountedObserved
  <2> QED
    BY <1>1, <1>7, <1>9, <1>10, <1>11, <1>12, <1>13, <1>14, <2>4, StreamStep
<1>15. CASE ~window
  <2>1. /\ bins' = IF NeedsBin(r.sizes, n) /\ keeps THEN bins + 1 ELSE bins
        /\ histogram' = histogram
        /\ keeps <=> ~NeedsBin(r.sizes, n) \/ (Distinct(r.sizes) < BinsCap /\ bins < SharedBins)
    BY <1>2, <1>3, <1>5, <1>15 DEF ObserveStream, KeepsSize
  <2>2. /\ new.sizes = IF keeps THEN Record(r.sizes, n) ELSE r.sizes
        /\ new.complete = (r.complete /\ keeps)
        /\ told.sizes = Record(sent.sizes, n)
    BY <1>6, <1>7, <1>8, <1>9, <1>15
  <2>3. bins <= SharedBins /\ Sized(r, sent, bins)
    BY <1>1, <1>3, <1>15 DEF FixedSizes
  <2>4. bins' \in Nat /\ bins <= bins' /\ bins' <= SharedBins /\ Sized(new, told, bins')
    BY <1>1, <1>7, <1>9, <2>1, <2>2, <2>3, SizedObserved
  <2> QED
    BY <1>1, <1>7, <1>9, <1>10, <1>11, <1>12, <1>13, <1>15, <2>1, <2>4, StreamStep
<1> QED
  BY <1>1, <1>14, <1>15

\* A round that is over moves its streams to those of the batch, and stops the
\* load only when there are enough of them.
LEMMA EndRoundStep == ASSUME BatchInv, EndRound PROVE BatchInv'
<1>1. /\ BatchTypeOK /\ Read /\ FixedSizes /\ WindowSizes /\ Stopped
      /\ active \in [Slots -> StreamRecord] /\ sending \in [Slots -> SentRecord]
      /\ pending \in Seq(StreamRecord) /\ delivered \in Seq(SentRecord) /\ bins \in Nat
  BY DEF BatchInv, BatchTypeOK
<1>2. /\ pending' = pending \o active /\ active' = [i \in Slots |-> NewStream]
      /\ delivered' = delivered \o sending /\ sending' = [i \in Slots |-> Nothing]
      /\ phase' = IF \/ Len(pending') >= MaximumRequests
                     \/ window /\ Len(pending') >= Rounds * Concurrency /\ Elapsed >= Minimum
                  THEN "stopped" ELSE "load"
      /\ UNCHANGED <<window, clock, probes, span, histogram, bins, faults>>
  BY DEF EndRound
<1>3. /\ pending' \in Seq(StreamRecord) /\ Len(pending') = Len(pending) + Concurrency
      /\ \A i \in 1 .. Len(pending) : pending'[i] = pending[i]
      /\ \A i \in Slots : pending'[Len(pending) + i] = active[i]
      /\ \A i \in 1 .. Len(pending') : i \in 1 .. Len(pending) \/ \E j \in Slots : i = Len(pending) + j
  BY <1>1, <1>2, ConcatFact
<1>4. /\ delivered' \in Seq(SentRecord) /\ Len(delivered') = Len(delivered) + Concurrency
      /\ \A i \in 1 .. Len(delivered) : delivered'[i] = delivered[i]
      /\ \A i \in Slots : delivered'[Len(delivered) + i] = sending[i]
  BY <1>1, <1>2, ConcatFact
<1>5. Len(pending) = Len(delivered)
  BY <1>1 DEF Read
<1>6. BatchTypeOK'
  BY <1>1, <1>2, <1>3, <1>4, NewFact DEF BatchTypeOK
<1>7. Read'
  <2>1. Len(pending') = Len(delivered')
    BY <1>3, <1>4, <1>5
  <2>2. \A s \in Slots : Faithful(active'[s], sending'[s])
    BY <1>2, NewFact
  <2>3. ASSUME NEW i \in 1 .. Len(pending') PROVE Faithful(pending'[i], delivered'[i])
    <3>1. CASE i \in 1 .. Len(pending)
      BY <3>1, <1>1, <1>3, <1>4, <1>5 DEF Read
    <3>2. CASE \E j \in Slots : i = Len(pending) + j
      BY <3>2, <1>1, <1>3, <1>4, <1>5 DEF Read
    <3> QED
      BY <1>3, <3>1, <3>2
  <2>4. \A i \in 1 .. Len(pending') : Faithful(pending'[i], delivered'[i])
    BY <2>3
  <2> QED
    BY <2>1, <2>2, <2>4 DEF Read
<1>8. FixedSizes'
  <2> SUFFICES ASSUME ~window
               PROVE  /\ bins <= SharedBins
                      /\ \A s \in Slots : Sized(active'[s], sending'[s], bins)
                      /\ \A i \in 1 .. Len(pending') : Sized(pending'[i], delivered'[i], bins)
    BY <1>2 DEF FixedSizes
  <2>1. /\ bins <= SharedBins
        /\ \A s \in Slots : Sized(active[s], sending[s], bins)
        /\ \A i \in 1 .. Len(pending) : Sized(pending[i], delivered[i], bins)
    BY <1>1 DEF FixedSizes
  <2>2. Sized(NewStream, Nothing, bins)
    BY NewFact, NoSizesFact DEF Sized, NoSizes
  <2>3. \A s \in Slots : Sized(active'[s], sending'[s], bins)
    BY <1>2, <2>2
  <2>4. ASSUME NEW i \in 1 .. Len(pending') PROVE Sized(pending'[i], delivered'[i], bins)
    <3>1. CASE i \in 1 .. Len(pending)
      BY <3>1, <2>1, <1>3, <1>4, <1>5
    <3>2. CASE \E j \in Slots : i = Len(pending) + j
      BY <3>2, <2>1, <1>3, <1>4, <1>5
    <3> QED
      BY <1>3, <3>1, <3>2
  <2> QED
    BY <2>1, <2>3, <2>4
<1>9. SentSoFar' = SentSoFar
  <2>1. \A n \in Sizes : /\ SizesOf(delivered)[n] \in Nat /\ SizesOf(sending)[n] \in Nat
                         /\ SizesOf(delivered \o sending)[n] = SizesOf(delivered)[n] + SizesOf(sending)[n]
    BY <1>1, SizesOfRounds
  <2>2. PICK before, now, all, none :
          /\ before = SizesOf(delivered) /\ now = SizesOf(sending)
          /\ all = SizesOf(delivered \o sending) /\ none = SizesOf([i \in Slots |-> Nothing])
    OBVIOUS
  <2>3. \A n \in Sizes : none[n] = 0
    BY <2>2, SizesOfNothing, ConfigFact
  <2>4. SentSoFar = [n \in Sizes |-> before[n] + now[n]]
    BY <2>2 DEF SentSoFar
  <2>5. SizesOf(delivered') = all /\ SizesOf(sending') = none
    BY <1>2, <2>2
  <2>6. SentSoFar' = [n \in Sizes |-> all[n] + none[n]]
    BY <2>5 DEF SentSoFar
  <2> QED
    BY <2>1, <2>2, <2>3, <2>4, <2>6
<1>10. WindowSizes'
  BY <1>1, <1>2, <1>9 DEF WindowSizes
<1>11. Stopped'
  <2>1. MaximumRequests \in Nat /\ MaximumRequests >= Rounds * Concurrency
    BY <1>1, MaximumFact
  <2>2. Len(pending') \in Nat /\ Rounds * Concurrency \in Nat
    BY <1>3, ConfigFact
  <2>3. phase' = "stopped" => Len(pending') >= Rounds * Concurrency
    <3>1. PICK least \in Nat, most \in Nat : least = Rounds * Concurrency /\ most = MaximumRequests
      BY <2>1, <2>2
    <3> QED
      BY <1>2, <2>1, <2>2, <3>1
  <2> QED
    BY <1>2, <2>3 DEF Stopped
<1> QED
  BY <1>6, <1>7, <1>8, <1>10, <1>11 DEF BatchInv

\* A step that leaves the streams and their sizes alone.
LEMMA OtherStep ==
  ASSUME BatchInv, BatchTypeOK', UNCHANGED <<window, loadVars>>,
         phase' = phase \/ (phase = "before" /\ phase' = "load") \/ (phase = "stopped" /\ phase' = "after")
           \/ (phase = "after" /\ phase' = "measured")
  PROVE  BatchInv'
<1>1. Read /\ FixedSizes /\ WindowSizes /\ Stopped
  BY DEF BatchInv
<1>2. UNCHANGED <<window, active, pending, histogram, bins, sending, delivered>>
  BY DEF loadVars
<1>3. Read'
  BY <1>1, <1>2 DEF Read, Faithful
<1>4. FixedSizes'
  BY <1>1, <1>2 DEF FixedSizes
<1>5. SizesOf(delivered') = SizesOf(delivered) /\ SizesOf(sending') = SizesOf(sending)
  BY <1>2
<1>6. SentSoFar' = SentSoFar
  BY <1>5 DEF SentSoFar
<1>7. WindowSizes'
  BY <1>1, <1>2, <1>6 DEF WindowSizes
<1>8. Stopped'
  BY <1>1, <1>2 DEF Stopped
<1> QED
  BY <1>3, <1>4, <1>7, <1>8 DEF BatchInv

\* Every step of the batch preserves the invariant.
LEMMA BatchStepCases == ASSUME BatchInv, [BatchNext]_batchVars PROVE BatchInv'
<1>1. BatchTypeOK
  BY DEF BatchInv
<1>2. CASE Tick
  <2>1. BatchTypeOK'
    BY <1>1, <1>2 DEF Tick, BatchTypeOK, loadVars
  <2> QED
    BY <1>2, <2>1, OtherStep DEF Tick
<1>3. CASE CpuSnapshot
  <2>1. PICK known \in BOOLEAN : probes' = Append(probes, [at |-> clock, known |-> known]) /\ Goes(known)
    BY <1>3 DEF CpuSnapshot
  <2>2. faults' \in Nat
    BY <1>1, <2>1, GoesFact DEF BatchTypeOK
  <2>3. probes' \in Seq([at : Nat, known : BOOLEAN])
    BY <1>1, <2>1 DEF BatchTypeOK
  <2>4. BatchTypeOK'
    BY <1>1, <1>3, <2>2, <2>3 DEF CpuSnapshot, BatchTypeOK, loadVars
  <2> QED
    BY <1>3, <2>4, OtherStep DEF CpuSnapshot
<1>4. CASE StartLoad
  <2>1. span' \in [started : Nat, finished : Nat]
    BY <1>1, <1>4 DEF StartLoad, BatchTypeOK
  <2>2. BatchTypeOK'
    BY <1>1, <1>4, <2>1 DEF StartLoad, BatchTypeOK, loadVars
  <2> QED
    BY <1>4, <2>2, OtherStep DEF StartLoad
<1>5. CASE FinishLoad
  <2>1. span' \in [started : Nat, finished : Nat]
    BY <1>1, <1>5 DEF FinishLoad, BatchTypeOK
  <2>2. BatchTypeOK'
    BY <1>1, <1>5, <2>1 DEF FinishLoad, BatchTypeOK, loadVars
  <2> QED
    BY <1>5, <2>2, OtherStep DEF FinishLoad
<1>6. CASE Measured
  <2>1. BatchTypeOK'
    BY <1>1, <1>6 DEF Measured, BatchTypeOK, loadVars
  <2> QED
    BY <1>6, <2>1, OtherStep DEF Measured
<1>7. CASE EndRound
  BY <1>7, EndRoundStep
<1>8. CASE \E s \in Slots : Headers(s) \/ Chunk(s) \/ EndOfStream(s) \/ StreamFails(s)
  BY <1>8, HeadersStep, ChunkStep, EndOfStreamStep, StreamFailsStep
<1>9. CASE UNCHANGED batchVars
  <2>1. BatchTypeOK'
    BY <1>1, <1>9 DEF batchVars, BatchTypeOK, loadVars
  <2> QED
    BY <1>9, <2>1, OtherStep DEF batchVars
<1> QED
  BY <1>2, <1>3, <1>4, <1>5, <1>6, <1>7, <1>8, <1>9 DEF BatchNext

(***************************************************************************)
(* The theorems.                                                            *)
(***************************************************************************)

\* The inductive invariant holds.
THEOREM BatchInvariance == BatchSpec => []BatchInv
<1>1. BatchInit => BatchInv
  BY BatchStart
<1>2. BatchInv /\ [BatchNext]_batchVars => BatchInv'
  BY BatchStepCases
<1> QED
  BY <1>1, <1>2, PTL DEF BatchSpec

\* The types are right (the dataclasses of the study's samples).
THEOREM BatchTypeCorrect == BatchSpec => []BatchTypeOK
<1>1. BatchInv => BatchTypeOK
  BY DEF BatchInv
<1> QED
  BY <1>1, BatchInvariance, PTL

\* After the load nothing is under way: all that was sent is that of the rounds.
LEMMA AllIsDelivered == ASSUME BatchInv, phase # "load" PROVE SentSoFar = AllSent /\ AllSent \in [Sizes -> Nat]
<1>1. sending = [s \in Slots |-> Nothing] /\ delivered \in Seq(SentRecord) /\ sending \in [Slots -> SentRecord]
  BY DEF BatchInv, Stopped, BatchTypeOK
<1>2. \A n \in Sizes : SizesOf(sending)[n] = 0
  BY <1>1, SizesOfNothing, ConfigFact
<1>3. \A n \in Sizes : SizesOf(delivered)[n] \in Nat
  BY <1>1, SizesOfRounds
<1>4. PICK all, none : all = SizesOf(delivered) /\ none = SizesOf(sending)
  OBVIOUS
<1>5. SentSoFar = [n \in Sizes |-> all[n] + none[n]]
  BY <1>4 DEF SentSoFar
<1>6. all = [n \in Sizes |-> all[n]]
  <2>1. DOMAIN all = Sizes /\ all = [n \in DOMAIN all |-> all[n]]
    BY <1>4, Zenon DEF SizesOf
  <2> QED
    BY <2>1
<1>7. SentSoFar = all /\ all \in [Sizes -> Nat]
  BY <1>2, <1>3, <1>4, <1>5, <1>6
<1> QED
  BY <1>4, <1>7 DEF AllSent

\* The sizes of a window are all counted unless there are more of them than
\* bins; those of a stream unless it, or the batch, runs out of bins
\* (_record_size and the shared reservation of histogram bins).
THEOREM SizesCounted == BatchSpec => []SizesAreCounted
<1>1. ASSUME BatchInv PROVE SizesAreCounted
  <2> SUFFICES ASSUME phase = "measured" PROVE SizesAreCounted
    BY DEF SizesAreCounted
  <2>1. BatchTypeOK /\ Read /\ FixedSizes /\ WindowSizes
    BY <1>1 DEF BatchInv
  <2>2. SentSoFar = AllSent /\ AllSent \in [Sizes -> Nat]
    BY <1>1, AllIsDelivered
  <2>3. CASE window
    <3>1. /\ bins = Distinct(histogram.sizes) /\ bins <= BinsCap
          /\ \A n \in Sizes : histogram.sizes[n] > 0 => AllSent[n] > 0
          /\ IF histogram.complete THEN histogram.sizes = AllSent
             ELSE bins = BinsCap /\ \E n \in Sizes : histogram.sizes[n] = 0 /\ AllSent[n] > 0
      BY <2>1, <2>2, <2>3 DEF WindowSizes, Counted
    <3>2. histogram.sizes \in [Sizes -> Nat] /\ histogram.complete \in BOOLEAN /\ bins \in Nat /\ BinsCap \in Nat
      BY <2>1, ConfigFact DEF BatchTypeOK
    <3>3. PICK all \in [Sizes -> Nat] : all = AllSent
      BY <2>2
    <3>4. CASE histogram.complete
      BY <2>3, <3>1, <3>4 DEF SizesAreCounted
    <3>5. CASE ~histogram.complete
      <4>1. Distinct(histogram.sizes) < Distinct(all) /\ Distinct(all) \in Nat
        BY <3>1, <3>2, <3>3, <3>5, FewerFact
      <4>2. BinsCap < Distinct(AllSent) /\ Distinct(AllSent) \in Nat
        BY <3>1, <3>3, <3>5, <4>1
      <4> QED
        BY <2>3, <3>2, <3>5, <4>2 DEF SizesAreCounted
    <3> QED
      BY <3>2, <3>4, <3>5
  <2>4. CASE ~window
    <3>1. ASSUME NEW i \in 1 .. Len(pending)
          PROVE  /\ pending[i].complete => pending[i].sizes = delivered[i].sizes
                 /\ ~pending[i].complete => Distinct(delivered[i].sizes) > BinsCap \/ bins = SharedBins
      <4>1. Sized(pending[i], delivered[i], bins) /\ Len(pending) = Len(delivered)
        BY <2>1, <2>4 DEF FixedSizes, Read
      <4>2. pending[i] \in StreamRecord /\ delivered[i] \in SentRecord
        BY <2>1, <4>1 DEF BatchTypeOK
      <4>3. /\ pending[i].sizes \in [Sizes -> Nat] /\ delivered[i].sizes \in [Sizes -> Nat]
            /\ pending[i].complete \in BOOLEAN
        BY <4>2, StreamFields, SentFields
      <4>4. PICK a \in [Sizes -> Nat], b \in [Sizes -> Nat] : a = pending[i].sizes /\ b = delivered[i].sizes
        BY <4>3
      <4>5. pending[i].complete => pending[i].sizes = delivered[i].sizes
        BY <4>1 DEF Sized
      <4>6. ASSUME ~pending[i].complete, bins # SharedBins PROVE Distinct(delivered[i].sizes) > BinsCap
        <5>1. /\ \A n \in Sizes : a[n] > 0 => b[n] > 0
              /\ Distinct(a) >= BinsCap /\ \E n \in Sizes : a[n] = 0 /\ b[n] > 0
          BY <4>1, <4>4, <4>6 DEF Sized, Overflowed
        <5>2. Distinct(a) < Distinct(b) /\ Distinct(a) \in Nat /\ Distinct(b) \in Nat /\ BinsCap \in Nat
          BY <5>1, FewerFact, ConfigFact
        <5> QED
          BY <4>4, <5>1, <5>2
      <4> QED
        BY <4>5, <4>6
    <3> QED
      BY <2>4, <3>1 DEF SizesAreCounted
  <2> QED
    BY <2>3, <2>4
<1> QED
  BY <1>1, BatchInvariance, PTL

\* A batch whose record is taken as complete did read every body of its rounds
\* to the end, byte for byte, and its replay is that of the sizes that were sent
\* (_sample_evidence_complete and _batch_evidence_complete read nothing but the
\* record).
THEOREM CompleteRowsAreWhole == BatchSpec => []CompleteIsWhole
<1>1. ASSUME BatchInv PROVE CompleteIsWhole
  <2> SUFFICES ASSUME phase = "measured", IntegrityComplete
               PROVE  /\ Len(pending) >= Rounds * Concurrency
                      /\ \A i \in 1 .. Len(pending) : Whole(delivered[i])
                      /\ OverheadComplete => ObservedHistogram.sizes = AllSent
    BY DEF CompleteIsWhole
  <2>1. BatchTypeOK /\ Read /\ FixedSizes /\ WindowSizes /\ Stopped
    BY <1>1 DEF BatchInv
  <2>2. Len(pending) >= Rounds * Concurrency
    BY <2>1 DEF Stopped
  <2>3. ASSUME NEW i \in 1 .. Len(pending) PROVE Whole(delivered[i])
    <3>1. pending[i].eof /\ ~pending[i].bad /\ pending[i].bytes = Body
      BY DEF IntegrityComplete, BatchEvidenceComplete, SampleEvidenceComplete
    <3>2. Faithful(pending[i], delivered[i])
      BY <2>1 DEF Read
    <3> QED
      BY <3>1, <3>2 DEF Faithful, Whole
  <2>4. ASSUME OverheadComplete PROVE ObservedHistogram.sizes = AllSent
    <3>1. ObservedHistogram.complete
      BY <2>4 DEF OverheadComplete, ReplayFails
    <3>2. CASE window
      <4>1. ObservedHistogram = histogram
        BY <3>2 DEF ObservedHistogram
      <4>2. histogram.sizes = SentSoFar
        BY <2>1, <3>1, <3>2, <4>1 DEF WindowSizes, Counted
      <4> QED
        BY <1>1, <4>1, <4>2, AllIsDelivered
    <3>3. CASE ~window
      <4>1. /\ ObservedHistogram.sizes = SizesOf(pending)
            /\ \A i \in 1 .. Len(pending) : pending[i].complete
        BY <3>1, <3>3 DEF ObservedHistogram
      <4>2. \A i \in 1 .. Len(pending) : pending[i].sizes = delivered[i].sizes
        BY <2>1, <3>3, <4>1 DEF FixedSizes, Sized
      <4>3. /\ DOMAIN pending = 1 .. Len(pending) /\ DOMAIN delivered = 1 .. Len(pending)
            /\ IsFiniteSet(1 .. Len(pending))
            /\ \A i \in 1 .. Len(pending) : delivered[i] \in SentRecord
        BY <2>1, FS_Interval DEF BatchTypeOK, Read
      <4>4. \A i \in 1 .. Len(pending) : delivered[i].sizes \in [Sizes -> Nat]
        BY <4>3, SentFields
      <4>5. SizesOf(pending) = SizesOf(delivered)
        BY <4>2, <4>3, <4>4, SizesKept
      <4> QED
        BY <4>1, <4>5 DEF AllSent
    <3> QED
      BY <3>2, <3>3
  <2> QED
    BY <2>2, <2>3, <2>4
<1> QED
  BY <1>1, BatchInvariance, PTL

(***************************************************************************)
(* What a batch measures beside the sizes, and when.                        *)
(***************************************************************************)
\* The chunks a stream has counted, and the least and the greatest of their
\* sizes, are those of what the server has sent of it.
Gauges(r, sent) ==
  /\ r.chunks = Chunks(sent.sizes)
  /\ r.least * r.chunks <= r.bytes /\ r.bytes <= r.most * r.chunks
  /\ IF r.chunks = 0 THEN r.least = 0 /\ r.most = 0
     ELSE /\ r.least \in Sizes /\ r.most \in Sizes /\ r.least <= r.most
          /\ sent.sizes[r.least] > 0 /\ sent.sizes[r.most] > 0

Gauged ==
  /\ \A s \in Slots : Gauges(active[s], sending[s])
  /\ \A i \in 1 .. Len(pending) : Gauges(pending[i], delivered[i])

\* A batch has whole rounds, and is over after the last it may have or, if it is
\* a window, when its time is.
MaximumRounds == IF window THEN MaxStreams \div Concurrency ELSE Rounds
Enough == (IF phase = "stopped" THEN clock ELSE span.finished) - span.started >= Minimum
RoundsAre(k) ==
  /\ Len(pending) = k * Concurrency
  /\ phase \in {"before", "load"} => k < MaximumRounds
  /\ phase \in {"stopped", "after", "measured"} /\ k < MaximumRounds => window /\ k >= Rounds /\ Enough
Rounded == \E k \in 0 .. MaximumRounds : RoundsAre(k)

\* The probes are taken before the load has started and after it has finished;
\* without a fault all of them have their counters.
Enclosed ==
  /\ faults = 0 => \A i \in 1 .. Len(probes) : probes[i].known
  /\ \A i \in 1 .. Len(probes) : probes[i].at <= clock
  /\ phase # "before" => Len(probes) >= 2 /\ \A i \in 1 .. 2 : probes[i].at <= span.started
  /\ phase \in {"load", "stopped"} => Len(probes) = 2
  /\ phase \in {"after", "measured"} =>
       span.finished <= clock /\ \A i \in 3 .. Len(probes) : span.finished <= probes[i].at
  /\ phase = "measured" => Len(probes) = 4

BatchRecord == BatchInv /\ Gauged /\ Rounded /\ Enclosed

\* A record that has changed in nothing that is measured still agrees.
LEMMA GaugesKept ==
  ASSUME NEW r, NEW sent, NEW new, NEW told, Gauges(r, sent), told.sizes = sent.sizes, new.bytes = r.bytes,
         new.chunks = r.chunks, new.least = r.least, new.most = r.most
  PROVE  Gauges(new, told)
BY DEF Gauges

\* Nothing has been measured of a stream that begins.
LEMMA GaugesNew == Gauges(NewStream, Nothing)
<1>1. /\ NewStream.chunks = 0 /\ NewStream.least = 0 /\ NewStream.most = 0 /\ NewStream.bytes = 0
      /\ Nothing.sizes = NoSizes
  BY DEF NewStream, Nothing
<1>2. \A n \in Sizes : NoSizes[n] = 0
  BY DEF NoSizes
<1>3. SumFunctionOnSet(NoSizes, Sizes) = 0
  BY <1>2, SumZero, ConfigFact
<1> QED
  BY <1>1, <1>3 DEF Gauges, Chunks

\* With one chunk more the least and the greatest size still bound the bytes
\* (the count, minimum and maximum of a sample's chunks).
LEMMA GaugesObserved ==
  ASSUME NEW r \in StreamRecord, NEW sent \in SentRecord, NEW n \in Sizes, NEW new, NEW told, Gauges(r, sent),
         told.sizes = Record(sent.sizes, n), new.bytes = r.bytes + n, new.chunks = r.chunks + 1,
         new.least = IF r.least = 0 \/ n < r.least THEN n ELSE r.least,
         new.most = IF n > r.most THEN n ELSE r.most
  PROVE  Gauges(new, told)
<1>1. PICK c \in Nat, l \in Nat, m \in Nat, b \in Nat :
        c = r.chunks /\ l = r.least /\ m = r.most /\ b = r.bytes
  BY StreamFields
<1>2. n \in Nat /\ n > 0 /\ \A j \in Sizes : j \in Nat /\ j > 0
  BY DEF Sizes
<1>3. PICK sizes \in [Sizes -> Nat], more \in [Sizes -> Nat] : sizes = sent.sizes /\ more = Record(sizes, n)
  BY SentFields, RecordFact
<1>4. more[n] = sizes[n] + 1 /\ \A j \in Sizes \ {n} : more[j] = sizes[j]
  BY <1>3, RecordFact
<1>5. new.chunks = Chunks(told.sizes)
  BY <1>3, ChunksFact DEF Gauges
<1>6. PICK d \in Nat, e \in Nat : d = new.least /\ e = new.most
  BY <1>1, <1>2
<1>7. d = (IF l = 0 \/ n < l THEN n ELSE l) /\ e = (IF n > m THEN n ELSE m)
  BY <1>1, <1>6
<1>8. /\ c = 0 => l = 0 /\ m = 0
      /\ c # 0 => l \in Sizes /\ m \in Sizes /\ l <= m /\ sizes[l] > 0 /\ sizes[m] > 0
      /\ l * c <= b /\ b <= m * c
  BY <1>1, <1>3 DEF Gauges
<1>9. d \in Sizes /\ e \in Sizes /\ d <= e
  BY <1>2, <1>7, <1>8
<1>10. \A j \in Sizes : sizes[j] > 0 \/ j = n => more[j] > 0
  BY <1>3, <1>4
<1>11. more[d] > 0 /\ more[e] > 0
  BY <1>2, <1>7, <1>8, <1>9, <1>10
<1>12. d * (c + 1) <= b + n /\ b + n <= e * (c + 1)
  <2>1. d <= n /\ n <= e
    BY <1>2, <1>7
  <2>2. d * c <= b /\ b <= e * c
    <3>1. CASE c = 0
      BY <1>8, <3>1
    <3>2. CASE c # 0
      <4>1. d <= l /\ m <= e
        BY <1>2, <1>7, <1>8, <3>2
      <4>2. d * c <= l * c /\ m * c <= e * c
        BY <4>1
      <4>3. d * c \in Nat /\ l * c \in Nat /\ m * c \in Nat /\ e * c \in Nat
        OBVIOUS
      <4> QED
        BY <1>8, <4>2, <4>3
    <3> QED
      BY <3>1, <3>2
  <2>3. d * (c + 1) = d * c + d /\ e * (c + 1) = e * c + e /\ d * c \in Nat /\ e * c \in Nat
    OBVIOUS
  <2> QED
    BY <1>2, <2>1, <2>2, <2>3
<1>13. new.chunks = c + 1 /\ new.bytes = b + n /\ told.sizes = more
  BY <1>1, <1>3
<1> QED
  BY <1>5, <1>6, <1>9, <1>11, <1>12, <1>13 DEF Gauges

\* A stream of the round goes on, and what is measured of it with it.
LEMMA GaugedStreamStep ==
  ASSUME BatchTypeOK, Gauged, NEW s \in Slots, NEW new, NEW told, Gauges(new, told),
         active' = [active EXCEPT ![s] = new], sending' = [sending EXCEPT ![s] = told],
         UNCHANGED <<pending, delivered>>
  PROVE  Gauged'
<1>1. \A i \in Slots : /\ active'[i] = IF i = s THEN new ELSE active[i]
                       /\ sending'[i] = IF i = s THEN told ELSE sending[i]
  BY DEF BatchTypeOK
<1>2. \A i \in Slots : Gauges(active'[i], sending'[i])
  BY <1>1 DEF Gauged
<1>3. \A i \in 1 .. Len(pending') : Gauges(pending'[i], delivered'[i])
  BY DEF Gauged
<1> QED
  BY <1>2, <1>3 DEF Gauged

\* Headers, the end of a stream and its failure measure nothing.
LEMMA GaugedHeaders == ASSUME BatchInv, Gauged, NEW s \in Slots, Headers(s) PROVE Gauged'
<1>1. PICK framed \in BOOLEAN : active' = [active EXCEPT ![s].state = "open", ![s].framed = framed]
  BY DEF Headers
<1>2. /\ BatchTypeOK /\ active \in [Slots -> StreamRecord] /\ sending \in [Slots -> SentRecord]
      /\ Gauges(active[s], sending[s])
  BY DEF BatchInv, BatchTypeOK, Gauged
<1>3. PICK r \in StreamRecord, sent \in SentRecord : r = active[s] /\ sent = sending[s]
  BY <1>2
<1> DEFINE new == [r EXCEPT !.state = "open", !.framed = framed]
<1>4. new.bytes = r.bytes /\ new.chunks = r.chunks /\ new.least = r.least /\ new.most = r.most
  BY DEF StreamRecord
<1>5. active' = [active EXCEPT ![s] = new] /\ sending' = [sending EXCEPT ![s] = sent]
  BY <1>1, <1>2, <1>3 DEF Headers
<1>6. UNCHANGED <<pending, delivered>>
  BY DEF Headers
<1> HIDE DEF new
<1>7. Gauges(new, sent)
  BY <1>2, <1>3, <1>4, GaugesKept
<1> QED
  BY <1>2, <1>5, <1>6, <1>7, GaugedStreamStep

LEMMA GaugedEndOfStream == ASSUME BatchInv, Gauged, NEW s \in Slots, EndOfStream(s) PROVE Gauged'
<1>1. PICK error \in BOOLEAN :
        active' = [active EXCEPT ![s].state = "done", ![s].eof = TRUE, ![s].error = error]
  BY DEF EndOfStream
<1>2. /\ BatchTypeOK /\ active \in [Slots -> StreamRecord] /\ sending \in [Slots -> SentRecord]
      /\ Gauges(active[s], sending[s])
  BY DEF BatchInv, BatchTypeOK, Gauged
<1>3. PICK r \in StreamRecord, sent \in SentRecord : r = active[s] /\ sent = sending[s]
  BY <1>2
<1> DEFINE new == [r EXCEPT !.state = "done", !.eof = TRUE, !.error = error]
           told == [sent EXCEPT !.ended = TRUE]
<1>4. new.bytes = r.bytes /\ new.chunks = r.chunks /\ new.least = r.least /\ new.most = r.most
  BY DEF StreamRecord
<1>5. told.sizes = sent.sizes
  BY DEF SentRecord
<1>6. active' = [active EXCEPT ![s] = new] /\ sending' = [sending EXCEPT ![s] = told]
  BY <1>1, <1>2, <1>3 DEF EndOfStream, Sends
<1>7. UNCHANGED <<pending, delivered>>
  BY DEF EndOfStream, Sends
<1> HIDE DEF new, told
<1>8. Gauges(new, told)
  BY <1>2, <1>3, <1>4, <1>5, GaugesKept
<1> QED
  BY <1>2, <1>6, <1>7, <1>8, GaugedStreamStep

LEMMA GaugedStreamFails == ASSUME BatchInv, Gauged, NEW s \in Slots, StreamFails(s) PROVE Gauged'
<1>1. /\ BatchTypeOK /\ active \in [Slots -> StreamRecord] /\ sending \in [Slots -> SentRecord]
      /\ Gauges(active[s], sending[s])
  BY DEF BatchInv, BatchTypeOK, Gauged
<1>2. PICK r \in StreamRecord, sent \in SentRecord : r = active[s] /\ sent = sending[s]
  BY <1>1
<1> DEFINE new == [r EXCEPT !.state = "done", !.error = TRUE]
<1>3. new.bytes = r.bytes /\ new.chunks = r.chunks /\ new.least = r.least /\ new.most = r.most
  BY DEF StreamRecord
<1>4. active' = [active EXCEPT ![s] = new] /\ sending' = [sending EXCEPT ![s] = sent]
  BY <1>1, <1>2 DEF StreamFails
<1>5. UNCHANGED <<pending, delivered>>
  BY DEF StreamFails
<1> HIDE DEF new
<1>6. Gauges(new, sent)
  BY <1>1, <1>2, <1>3, GaugesKept
<1> QED
  BY <1>1, <1>4, <1>5, <1>6, GaugedStreamStep

\* A chunk is measured as it is sent.
LEMMA GaugedChunk == ASSUME BatchInv, Gauged, NEW s \in Slots, Chunk(s) PROVE Gauged'
<1>1. /\ BatchTypeOK /\ active \in [Slots -> StreamRecord] /\ sending \in [Slots -> SentRecord]
      /\ window \in BOOLEAN /\ Gauges(active[s], sending[s])
  BY DEF BatchInv, BatchTypeOK, Gauged
<1>2. PICK n \in Sizes, corrupt \in BOOLEAN :
        /\ active' = [active EXCEPT ![s] =
             IF Observed(active[s], n, corrupt).bytes > Body
             THEN [Observed(active[s], n, corrupt) EXCEPT !.state = "done", !.error = TRUE]
             ELSE Observed(active[s], n, corrupt)]
        /\ Sends(s, [sending[s] EXCEPT !.sizes = Record(sending[s].sizes, n),
                                       !.corrupt = sending[s].corrupt \/ corrupt])
  BY Zenon DEF Chunk
<1>3. PICK r \in StreamRecord, sent \in SentRecord : r = active[s] /\ sent = sending[s]
  BY <1>1
<1>4. PICK more : more = Observed(r, n, corrupt)
  OBVIOUS
<1>5. /\ more \in StreamRecord /\ more.bytes = r.bytes + n /\ more.chunks = r.chunks + 1
      /\ more.least = (IF r.least = 0 \/ n < r.least THEN n ELSE r.least)
      /\ more.most = (IF n > r.most THEN n ELSE r.most)
  BY <1>1, <1>4, ObservedFact
<1> DEFINE new == IF more.bytes > Body THEN [more EXCEPT !.state = "done", !.error = TRUE] ELSE more
           told == [sent EXCEPT !.sizes = Record(sent.sizes, n), !.corrupt = sent.corrupt \/ corrupt]
<1>6. new.bytes = more.bytes /\ new.chunks = more.chunks /\ new.least = more.least /\ new.most = more.most
  BY <1>5 DEF StreamRecord
<1>7. told.sizes = Record(sent.sizes, n)
  BY DEF SentRecord
<1>8. active' = [active EXCEPT ![s] = new] /\ sending' = [sending EXCEPT ![s] = told] /\ delivered' = delivered
  BY <1>2, <1>3, <1>4, Zenon DEF Sends
<1>9. UNCHANGED <<pending, delivered>>
  BY <1>8 DEF Chunk
<1> HIDE DEF new, told
<1>10. Gauges(new, told)
  BY <1>1, <1>3, <1>5, <1>6, <1>7, GaugesObserved
<1> QED
  BY <1>1, <1>8, <1>9, <1>10, GaugedStreamStep

\* The streams of a round keep what was measured of them; those of the next
\* begin, and there is one round more (measure_async_batch and its windows).
LEMMA RecordEndRound == ASSUME BatchInv, Gauged, Rounded, EndRound PROVE Gauged' /\ Rounded'
<1>1. /\ BatchTypeOK /\ Len(pending) = Len(delivered) /\ Len(pending) \in Nat
      /\ active \in [Slots -> StreamRecord] /\ sending \in [Slots -> SentRecord]
      /\ pending \in Seq(StreamRecord) /\ delivered \in Seq(SentRecord)
  BY DEF BatchInv, BatchTypeOK, Read
<1>2. /\ pending' = pending \o active /\ active' = [i \in Slots |-> NewStream]
      /\ delivered' = delivered \o sending /\ sending' = [i \in Slots |-> Nothing]
      /\ phase' = IF \/ Len(pending') >= MaximumRequests
                     \/ window /\ Len(pending') >= Rounds * Concurrency /\ Elapsed >= Minimum
                  THEN "stopped" ELSE "load"
      /\ UNCHANGED <<window, clock, span>> /\ phase = "load"
  BY DEF EndRound
<1>3. /\ pending' \in Seq(StreamRecord) /\ Len(pending') = Len(pending) + Concurrency
      /\ \A i \in 1 .. Len(pending) : pending'[i] = pending[i]
      /\ \A i \in Slots : pending'[Len(pending) + i] = active[i]
      /\ \A i \in 1 .. Len(pending') : i \in 1 .. Len(pending) \/ \E j \in Slots : i = Len(pending) + j
  BY <1>1, <1>2, ConcatFact
<1>4. /\ \A i \in 1 .. Len(delivered) : delivered'[i] = delivered[i]
      /\ \A i \in Slots : delivered'[Len(delivered) + i] = sending[i]
  BY <1>1, <1>2, ConcatFact
<1>5. Gauged'
  <2>1. \A s \in Slots : Gauges(active'[s], sending'[s])
    BY <1>2, GaugesNew
  <2>2. ASSUME NEW i \in 1 .. Len(pending') PROVE Gauges(pending'[i], delivered'[i])
    <3>1. CASE i \in 1 .. Len(pending)
      BY <3>1, <1>1, <1>3, <1>4 DEF Gauged
    <3>2. CASE \E j \in Slots : i = Len(pending) + j
      BY <3>2, <1>1, <1>3, <1>4 DEF Gauged
    <3> QED
      BY <1>3, <3>1, <3>2
  <2> QED
    BY <2>1, <2>2 DEF Gauged
<1>6. Rounded'
  <2>1. PICK most \in Nat : most = MaximumRounds /\ MaximumRequests = most * Concurrency
    <3>1. PICK all \in Nat : all = MaxStreams \div Concurrency
      BY ConfigFact
    <3>2. MaximumRounds \in Nat /\ MaximumRequests = MaximumRounds * Concurrency
      BY <1>1, <3>1, ConfigFact DEF MaximumRounds, MaximumRequests, BatchTypeOK
    <3> QED
      BY <3>2
  <2>2. PICK k \in 0 .. most : Len(pending) = k * Concurrency /\ k < most
    BY <1>2, <2>1 DEF Rounded, RoundsAre
  <2>3. MaximumRounds' = most
    BY <1>2, <2>1 DEF MaximumRounds
  <2>4. PICK c \in Nat, least \in Nat : c = Concurrency /\ c > 0 /\ least = Rounds
    BY ConfigFact
  <2>5. k + 1 \in 0 .. most /\ k \in Nat /\ Len(pending') = (k + 1) * c
    BY <1>1, <1>3, <2>2, <2>4
  <2>6. /\ (k + 1) * c >= most * c => k + 1 >= most
        /\ (k + 1) * c >= least * c => k + 1 >= least
    <3>1. \A i, j \in Nat : i * c >= j * c => i >= j
      <4> SUFFICES ASSUME NEW i \in Nat, NEW j \in Nat, i < j
                   PROVE  i * c < j * c
        BY <2>4
      <4>1. (i + 1) * c <= j * c
        BY <2>4
      <4>2. (i + 1) * c = i * c + c
        BY <2>4
      <4> QED
        BY <2>4, <4>1, <4>2
    <3> QED
      BY <2>5, <3>1
  <2>7. phase' = "load" => k + 1 < most
    <3>1. phase' = "load" => ~((k + 1) * c >= most * c)
      BY <1>2, <2>1, <2>4, <2>5
    <3>2. k + 1 >= most => (k + 1) * c >= most * c
      BY <2>1, <2>4, <2>5
    <3> QED
      BY <2>5, <3>1, <3>2
  <2>8. phase' = "stopped" /\ k + 1 < most => window /\ k + 1 >= least /\ Elapsed >= Minimum
    <3>1. phase' = "stopped" => \/ (k + 1) * c >= most * c
                                \/ window /\ (k + 1) * c >= least * c /\ Elapsed >= Minimum
      BY <1>2, <2>1, <2>4, <2>5
    <3> QED
      BY <2>5, <2>6, <3>1
  <2>9. phase' \in {"load", "stopped"}
    BY <1>2
  <2>10. phase' = "stopped" /\ Elapsed >= Minimum => Enough'
    BY <1>2 DEF Enough, Elapsed
  <2>11. RoundsAre(k + 1)'
    BY <1>2, <2>3, <2>4, <2>5, <2>7, <2>8, <2>9, <2>10 DEF RoundsAre
  <2> QED
    BY <2>3, <2>5, <2>11 DEF Rounded
<1> QED
  BY <1>5, <1>6

\* A step of the probes, the clock or the ends of the load leaves the rounds alone:
\* the load is over when it has had all its rounds or enough time.
LEMMA RoundedKept ==
  ASSUME BatchTypeOK, BatchTypeOK', Rounded, UNCHANGED <<window, pending>>,
         \/ UNCHANGED <<phase, span>> /\ clock' >= clock
         \/ phase = "before" /\ phase' = "load"
         \/ phase = "stopped" /\ phase' = "after" /\ span'.started = span.started /\ span'.finished = clock
         \/ phase = "after" /\ phase' = "measured" /\ UNCHANGED span
  PROVE  Rounded'
<1>1. PICK k \in 0 .. MaximumRounds : RoundsAre(k)
  BY DEF Rounded
<1>2. MaximumRounds' = MaximumRounds /\ Len(pending') = Len(pending)
  BY DEF MaximumRounds
<1>3. PICK begun \in Nat, over \in Nat : begun = span.started /\ over = span.finished
  BY DEF BatchTypeOK
<1>4. clock \in Nat /\ clock' \in Nat /\ Minimum \in Nat
  BY ConfigAssumption DEF BatchTypeOK, ConfigIsValid
<1>5. Enough /\ phase \in {"stopped", "after", "measured"} => Enough'
  BY <1>3, <1>4 DEF Enough
<1>6. RoundsAre(k)'
  <2>1. Len(pending') = k * Concurrency
    BY <1>1, <1>2 DEF RoundsAre
  <2>2. phase' \in {"before", "load"} => k < MaximumRounds
    BY <1>1 DEF RoundsAre
  <2>3. phase' \in {"stopped", "after", "measured"} /\ k < MaximumRounds => window /\ k >= Rounds /\ Enough'
    BY <1>1, <1>5 DEF RoundsAre
  <2> QED
    BY <1>2, <2>1, <2>2, <2>3 DEF RoundsAre
<1> QED
  BY <1>1, <1>2, <1>6 DEF Rounded

\* What the probes enclose does not change while streams are read.
LEMMA EnclosedKept ==
  ASSUME BatchTypeOK, Enclosed, UNCHANGED <<clock, probes, span>>, faults' = 0 => faults = 0,
         phase' = phase \/ (phase = "load" /\ phase' = "stopped")
  PROVE  Enclosed'
BY DEF Enclosed

\* A fault is never forgotten.
LEMMA GoesOn == ASSUME faults \in Nat, NEW well, Goes(well) PROVE faults' = 0 => faults = 0 /\ well
BY DEF Goes

\* The first state of the record.
LEMMA RecordStart == BatchInit => Gauged /\ Rounded /\ Enclosed
<1> SUFFICES ASSUME BatchInit PROVE Gauged /\ Rounded /\ Enclosed
  OBVIOUS
<1>1. BatchTypeOK
  BY BatchStart DEF BatchInv
<1>2. Gauged
  BY GaugesNew DEF Gauged, BatchInit
<1>3. Rounded
  <2>1. MaximumRounds \in Nat /\ MaximumRounds > 0
    <3>1. PICK most : most = MaxStreams \div Concurrency
      OBVIOUS
    <3>2. most \in Nat /\ most >= Rounds
      BY <3>1, ConfigFact
    <3> QED
      BY <3>1, <3>2, ConfigFact DEF MaximumRounds
  <2>2. RoundsAre(0)
    BY <2>1, ConfigFact DEF RoundsAre, BatchInit
  <2> QED
    BY <2>1, <2>2 DEF Rounded
<1>4. Enclosed
  BY DEF Enclosed, BatchInit
<1> QED
  BY <1>2, <1>3, <1>4

\* Every step preserves the record (measure_async_batch, from the first probe to
\* the last).
LEMMA RecordStep == ASSUME BatchRecord, [BatchNext]_batchVars PROVE BatchRecord'
<1>1. BatchInv /\ BatchTypeOK /\ Gauged /\ Rounded /\ Enclosed /\ faults \in Nat /\ clock \in Nat
  BY DEF BatchRecord, BatchInv, BatchTypeOK
<1>2. BatchInv' /\ BatchTypeOK'
  BY <1>1, BatchStepCases DEF BatchInv
<1>3. ASSUME UNCHANGED loadVars PROVE Gauged'
  BY <1>1, <1>3 DEF Gauged, Gauges, loadVars
<1>12. Len(probes) \in Nat /\ \A i \in 1 .. Len(probes) : probes[i].at \in Nat
  <2>1. PICK S : S = [at : Nat, known : BOOLEAN]
    OBVIOUS
  <2>2. probes \in Seq(S) /\ \A probe \in S : probe.at \in Nat
    BY <1>1, <2>1 DEF BatchTypeOK
  <2>3. Len(probes) \in Nat /\ \A i \in 1 .. Len(probes) : probes[i] \in S
    BY <2>2
  <2> QED
    BY <2>2, <2>3
<1>4. CASE Tick
  <2>1. Rounded'
    BY <1>1, <1>2, <1>4, RoundedKept DEF Tick, loadVars
  <2>2. /\ UNCHANGED <<phase, probes, span, faults>> /\ phase \in {"load", "stopped"}
        /\ clock' = clock + 1
    BY <1>4 DEF Tick
  <2>3. \A i \in 1 .. Len(probes) : probes[i].at <= clock'
    BY <1>1, <1>12, <2>2 DEF Enclosed
  <2>4. Enclosed'
    BY <1>1, <2>2, <2>3 DEF Enclosed
  <2> QED
    BY <1>2, <1>3, <1>4, <2>1, <2>4 DEF Tick, BatchRecord
<1>5. CASE CpuSnapshot
  <2>1. Rounded'
    BY <1>1, <1>2, <1>5, RoundedKept DEF CpuSnapshot, loadVars
  <2>2. PICK known \in BOOLEAN : probes' = Append(probes, [at |-> clock, known |-> known]) /\ Goes(known)
    BY <1>5 DEF CpuSnapshot
  <2>3. faults' = 0 => faults = 0 /\ known
    BY <1>1, <2>2, GoesOn
  <2>4. /\ Len(probes) \in Nat /\ Len(probes') = Len(probes) + 1
        /\ \A i \in 1 .. Len(probes) : probes'[i] = probes[i]
        /\ probes'[Len(probes) + 1].at = clock /\ probes'[Len(probes) + 1].known = known
    BY <1>1, <2>2 DEF BatchTypeOK
  <2>5. \A i \in 1 .. Len(probes') : i \in 1 .. Len(probes) \/ i = Len(probes) + 1
    BY <2>4
  <2>6. /\ phase \in {"before", "after"} /\ phase' = phase /\ span' = span /\ clock' = clock
        /\ phase = "after" => Len(probes) >= 2
    BY <1>1, <1>5 DEF CpuSnapshot, Enclosed
  <2>7. faults' = 0 => \A i \in 1 .. Len(probes') : probes'[i].known
    BY <1>1, <2>3, <2>4, <2>5 DEF Enclosed
  <2>8. \A i \in 1 .. Len(probes') : probes'[i].at <= clock
    BY <1>1, <2>4, <2>5 DEF Enclosed
  <2>9. phase = "after" => Len(probes') >= 2 /\ \A i \in 1 .. 2 : probes'[i].at <= span.started
    BY <1>1, <2>4, <2>6 DEF Enclosed
  <2>10. phase = "after" => span.finished <= clock /\ \A i \in 3 .. Len(probes') : span.finished <= probes'[i].at
    BY <1>1, <2>4, <2>5, <2>6 DEF Enclosed
  <2>11. Enclosed'
    BY <2>6, <2>7, <2>8, <2>9, <2>10 DEF Enclosed
  <2> QED
    BY <1>2, <1>3, <1>5, <2>1, <2>11 DEF CpuSnapshot, BatchRecord
<1>6. CASE StartLoad
  <2>1. Rounded'
    BY <1>1, <1>2, <1>6, RoundedKept DEF StartLoad, loadVars
  <2>2. Enclosed'
    <3>1. span'.started = clock
      BY <1>1, <1>6 DEF StartLoad, BatchTypeOK
    <3>2. UNCHANGED <<clock, probes, faults>> /\ phase' = "load" /\ Len(probes) = 2
      BY <1>6 DEF StartLoad
    <3>3. \A i \in 1 .. 2 : probes[i].at <= span'.started
      BY <1>1, <3>1, <3>2 DEF Enclosed
    <3> QED
      BY <1>1, <3>2, <3>3 DEF Enclosed
  <2> QED
    BY <1>2, <1>3, <1>6, <2>1, <2>2 DEF StartLoad, BatchRecord
<1>7. CASE FinishLoad
  <2>1. span'.finished = clock /\ span'.started = span.started
    BY <1>1, <1>7 DEF FinishLoad, BatchTypeOK
  <2>2. Rounded'
    BY <1>1, <1>2, <1>7, <2>1, RoundedKept DEF FinishLoad, loadVars
  <2>3. Enclosed'
    <3>1. UNCHANGED <<clock, probes, faults>> /\ phase = "stopped" /\ phase' = "after"
      BY <1>7 DEF FinishLoad
    <3>2. Len(probes) = 2
      BY <1>1, <3>1 DEF Enclosed
    <3>3. span'.finished <= clock /\ \A i \in 3 .. Len(probes) : span'.finished <= probes[i].at
      BY <1>1, <2>1, <3>2
    <3>4. \A i \in 1 .. 2 : probes[i].at <= span'.started
      BY <1>1, <2>1, <3>1 DEF Enclosed
    <3> QED
      BY <1>1, <3>1, <3>2, <3>3, <3>4 DEF Enclosed
  <2> QED
    BY <1>2, <1>3, <1>7, <2>2, <2>3 DEF FinishLoad, BatchRecord
<1>8. CASE Measured
  <2>1. Rounded'
    BY <1>1, <1>2, <1>8, RoundedKept DEF Measured, loadVars
  <2>2. Enclosed'
    BY <1>1, <1>8 DEF Measured, Enclosed
  <2> QED
    BY <1>2, <1>3, <1>8, <2>1, <2>2 DEF Measured, BatchRecord
<1>9. CASE EndRound
  <2>1. Enclosed'
    BY <1>1, <1>9, EnclosedKept DEF EndRound
  <2> QED
    BY <1>1, <1>2, <1>9, <2>1, RecordEndRound DEF BatchRecord
<1>10. ASSUME NEW s \in Slots, Headers(s) \/ Chunk(s) \/ EndOfStream(s) \/ StreamFails(s)
       PROVE  BatchRecord'
  <2>1. UNCHANGED <<window, phase, clock, probes, span, pending>>
    <3>1. CASE Headers(s)
      BY <3>1 DEF Headers
    <3>2. CASE Chunk(s)
      BY <3>2 DEF Chunk
    <3>3. CASE EndOfStream(s)
      BY <3>3 DEF EndOfStream
    <3>4. CASE StreamFails(s)
      BY <3>4 DEF StreamFails
    <3> QED
      BY <1>10, <3>1, <3>2, <3>3, <3>4
  <2>2. Gauged'
    BY <1>1, <1>10, GaugedHeaders, GaugedChunk, GaugedEndOfStream, GaugedStreamFails
  <2>3. Rounded'
    BY <1>1, <1>2, <2>1, RoundedKept
  <2>4. faults' = 0 => faults = 0
    <3>1. PICK well : Goes(well)
      BY <1>10, Zenon DEF Headers, Chunk, EndOfStream, StreamFails
    <3> QED
      BY <1>1, <3>1, GoesOn
  <2>5. Enclosed'
    BY <1>1, <2>1, <2>4, EnclosedKept
  <2> QED
    BY <1>2, <2>2, <2>3, <2>5 DEF BatchRecord
<1>11. CASE UNCHANGED batchVars
  <2>1. Rounded'
    BY <1>1, <1>2, <1>11, RoundedKept DEF batchVars, loadVars
  <2>2. Enclosed'
    BY <1>1, <1>11, EnclosedKept DEF batchVars
  <2> QED
    BY <1>2, <1>3, <1>11, <2>1, <2>2 DEF batchVars, BatchRecord
<1> QED
  BY <1>4, <1>5, <1>6, <1>7, <1>8, <1>9, <1>10, <1>11 DEF BatchNext

\* What is measured of the streams, the rounds and the probes is the record of
\* what has happened.
THEOREM RecordInvariance == BatchSpec => []BatchRecord
<1>1. BatchInit => BatchRecord
  BY BatchStart, RecordStart DEF BatchRecord
<1>2. BatchRecord /\ [BatchNext]_batchVars => BatchRecord'
  BY RecordStep
<1> QED
  BY <1>1, <1>2, PTL DEF BatchSpec

\* The streams of a batch that came whole, were framed and raised nothing are ok,
\* and their bytes are those of the bodies (finalize, and the totals of a row).
LEMMA WholeStreams ==
  ASSUME BatchInv, \A i \in 1 .. Len(pending) : Whole(delivered[i]) /\ pending[i].framed /\ ~pending[i].error
  PROVE  /\ \A i \in 1 .. Len(pending) : Ok(pending[i]) /\ pending[i].bytes = Body
         /\ Sum(BytesOf) = Body * Len(pending) /\ Sum(VerifiedOf) = Body * Len(pending)
<1>1. BatchTypeOK /\ Read /\ pending \in Seq(StreamRecord) /\ delivered \in Seq(SentRecord)
  BY DEF BatchInv, BatchTypeOK
<1>2. ASSUME NEW i \in 1 .. Len(pending) PROVE Ok(pending[i]) /\ pending[i].bytes = Body
  BY <1>1 DEF Read, Faithful, Whole, Ok, IntegrityHolds
<1>3. PICK k \in Nat : k = Len(pending)
  BY <1>1
<1>4. DOMAIN pending = 1 .. k /\ IsFiniteSet(1 .. k) /\ Cardinality(1 .. k) = k
  <2>1. Cardinality(1 .. k) = k
    BY FS_Interval
  <2> QED
    BY <1>1, <1>3, <2>1, FS_Interval
<1>5. ASSUME NEW f, DOMAIN f = 1 .. k, \A i \in 1 .. k : f[i] = Body
      PROVE  SumFunction(f) = Body * k
  <2>1. SumFunction(f) = SumFunctionOnSet(f, DOMAIN f)
    BY Zenon DEF SumFunction, FoldFunction, SumFunctionOnSet
  <2> QED
    BY <1>4, <1>5, <2>1, SumConstant, ConfigFact
<1>6. PICK b, v : b = [i \in DOMAIN pending |-> BytesOf(pending[i])] /\ v = [i \in DOMAIN pending |-> VerifiedOf(pending[i])]
  OBVIOUS
<1>7. \A i \in 1 .. k : b[i] = Body /\ v[i] = Body
  BY <1>2, <1>3, <1>4, <1>6 DEF BytesOf, VerifiedOf
<1>8. SumFunction(b) = Body * k /\ SumFunction(v) = Body * k
  BY <1>4, <1>5, <1>6, <1>7
<1>9. Sum(BytesOf) = SumFunction(b) /\ Sum(VerifiedOf) = SumFunction(v)
  BY <1>6 DEF Sum
<1> QED
  BY <1>2, <1>3, <1>8, <1>9

\* The rounds of a batch that is measured: as many as declared, or a window whose
\* time was over (BatchWorkloadMatches and WindowWorkloadMatches).
LEMMA WholeRounds ==
  ASSUME BatchRecord, phase = "measured"
  PROVE  /\ Len(pending) = Expected /\ Len(pending) \in Nat /\ Len(pending) > 0
         /\ window => WindowWorkloadMatches
<1>1. BatchTypeOK /\ Rounded /\ window \in BOOLEAN
  BY DEF BatchRecord, BatchInv, BatchTypeOK
<1>2. PICK c \in Nat, least \in Nat, all \in Nat : c = Concurrency /\ c > 0 /\ least = Rounds /\ least > 0 /\ all = MaxStreams \div Concurrency
  BY ConfigFact
<1>3. all \in Nat /\ all >= least
  BY <1>2, ConfigFact
<1>4. MaximumRounds = IF window THEN all ELSE least
  BY <1>2 DEF MaximumRounds
<1>5. PICK k \in 0 .. MaximumRounds : RoundsAre(k)
  BY <1>1 DEF Rounded
<1>6. /\ k \in Nat /\ k <= MaximumRounds /\ Len(pending) = k * c
      /\ k < MaximumRounds => window /\ k >= least /\ span.finished - span.started >= Minimum
  BY <1>2, <1>3, <1>4, <1>5 DEF RoundsAre, Enough
<1>7. k > 0 /\ (window => k >= least /\ k <= all) /\ (~window => k = least)
  BY <1>1, <1>2, <1>3, <1>4, <1>6
<1>8. k * c \in Nat /\ k * c > 0
  BY <1>2, <1>6, <1>7
<1>9. Len(pending) = Expected
  BY <1>2, <1>6, <1>7 DEF Expected
<1>10. ASSUME window PROVE WindowWorkloadMatches
  <2>1. (k * c) \div c = k
    BY <1>2, <1>6
  <2>2. Len(pending) \div Concurrency = k
    BY <1>2, <1>6, <2>1
  <2>3. ~TargetReached => k = all
    <3>1. k < MaximumRounds => TargetReached
      BY <1>6, Zenon DEF TargetReached, Duration
    <3>2. k < all => TargetReached
      BY <1>4, <1>10, <3>1
    <3> QED
      BY <1>3, <1>6, <1>7, <1>10, <3>2
  <2>4. k \in least .. all
    BY <1>2, <1>3, <1>6, <1>7, <1>10
  <2> QED
    BY <1>2, <2>2, <2>3, <2>4 DEF WindowWorkloadMatches
<1> QED
  BY <1>6, <1>8, <1>9, <1>10

\* What is recorded of a stream of a window bounds its chunks, and the histogram
\* has the sizes (ChunkBoundsMatch).
LEMMA BoundsOfWhole ==
  ASSUME BatchRecord, histogram.sizes = AllSent, AllSent \in [Sizes -> Nat], NEW i \in 1 .. Len(pending),
         pending[i].bytes = Body
  PROVE  ChunkBoundsMatch(pending[i])
<1>1. BatchTypeOK /\ Read /\ pending \in Seq(StreamRecord) /\ delivered \in Seq(SentRecord)
  BY DEF BatchRecord, BatchInv, BatchTypeOK
<1>2. i \in 1 .. Len(delivered) /\ Gauges(pending[i], delivered[i])
  BY <1>1 DEF Read, BatchRecord, Gauged
<1>3. PICK r \in StreamRecord, sent \in SentRecord : r = pending[i] /\ sent = delivered[i]
  BY <1>1, <1>2
<1>4. PICK c \in Nat, l \in Nat, m \in Nat : c = r.chunks /\ l = r.least /\ m = r.most
  BY StreamFields
<1>5. /\ l * c <= Body /\ Body <= m * c
      /\ c = 0 => m = 0
      /\ c # 0 => l \in Sizes /\ m \in Sizes /\ l <= m /\ sent.sizes[l] > 0 /\ sent.sizes[m] > 0
  BY <1>2, <1>3, <1>4 DEF Gauges
<1>6. Body \in Nat /\ Body > 0 /\ \A n \in Sizes : n \in Nat /\ n > 0
  BY ConfigFact DEF Sizes
<1>7. c # 0
  BY <1>5, <1>6
<1>8. c <= Body
  <2>1. l > 0
    BY <1>5, <1>6, <1>7
  <2>2. c <= l * c /\ l * c \in Nat
    <3>1. 1 * c <= l * c
      BY <2>1
    <3> QED
      BY <3>1
  <2>3. PICK p \in Nat : p = l * c
    BY <2>2
  <2>4. p <= Body
    BY <1>5, <2>3, Zenon
  <2>5. c <= p
    BY <2>2, <2>3, Zenon
  <2> QED
    BY <1>6, <2>4, <2>5
<1>9. ASSUME NEW n \in Sizes, sent.sizes[n] > 0 PROVE histogram.sizes[n] > 0
  <2>1. PICK D : D = 1 .. Len(delivered)
    OBVIOUS
  <2>2. DOMAIN delivered = D /\ IsFiniteSet(D) /\ i \in D /\ \A j \in D : delivered[j].sizes \in [Sizes -> Nat]
    <3>1. Len(delivered) \in Nat /\ \A j \in 1 .. Len(delivered) : delivered[j] \in SentRecord
      BY <1>1
    <3>2. \A j \in 1 .. Len(delivered) : delivered[j].sizes \in [Sizes -> Nat]
      BY <3>1, SentFields
    <3>3. PICK k \in Nat : k = Len(delivered)
      BY <3>1
    <3>4. IsFiniteSet(1 .. k)
      BY FS_Interval
    <3>5. DOMAIN delivered = 1 .. Len(delivered)
      BY <1>1
    <3> QED
      BY <1>2, <2>1, <3>2, <3>3, <3>4, <3>5
  <2>3. PICK f : f = Column(delivered, n)
    OBVIOUS
  <2>4. SizesOf(delivered)[n] = SumFunctionOnSet(f, D) /\ f[i] = sent.sizes[n] /\ \A j \in D : f[j] \in Nat
    BY <1>3, <2>2, <2>3, SizesOfFact
  <2>5. f[i] <= SumFunctionOnSet(f, D) /\ SumFunctionOnSet(f, D) \in Nat
    BY <2>2, <2>4, SumAtLeast, SumType
  <2>6. PICK x \in Nat, y \in Nat : x = f[i] /\ y = SumFunctionOnSet(f, D)
    BY <2>2, <2>4, <2>5
  <2>7. histogram.sizes[n] = y
    BY <2>4, <2>6 DEF AllSent
  <2> QED
    BY <1>9, <2>4, <2>5, <2>6, <2>7
<1>10. c \in 1 .. Body /\ 1 <= l /\ l <= m
  BY <1>5, <1>6, <1>7, <1>8
<1> QED
  BY <1>3, <1>4, <1>5, <1>7, <1>9, <1>10 DEF ChunkBoundsMatch

\* The replay of a window that does not fail is that of its histogram
\* (ReplayMatches, and the distribution of the window's sizes).
LEMMA ReplayOfWindow ==
  ASSUME BatchRecord, phase = "measured", window, ~ReplayFails, Len(pending) > 0,
         Sum(BytesOf) = Body * Len(pending), \A i \in 1 .. Len(pending) : pending[i].bytes = Body
  PROVE  WindowDistributionMatches
<1>1. BatchInv /\ WindowSizes /\ BatchTypeOK /\ histogram.sizes \in [Sizes -> Nat]
  BY DEF BatchRecord, BatchInv, BatchTypeOK
<1>2. ObservedHistogram = histogram
  BY DEF ObservedHistogram
<1>3. /\ histogram.complete /\ Chunks(histogram.sizes) = Sum(ChunksOf) /\ Bytes(histogram.sizes) = Sum(BytesOf)
      /\ \A n \in Sizes : ~(histogram.sizes[n] > 0 /\ n > ReplayBytes)
      /\ ~(Len(Segments(histogram.sizes)) > MaxSegments)
  BY <1>2, Zenon DEF ReplayFails
<1>4. SentSoFar = AllSent /\ AllSent \in [Sizes -> Nat]
  BY <1>1, AllIsDelivered
<1>5. /\ bins = Distinct(histogram.sizes) /\ bins <= BinsCap /\ histogram.sizes = AllSent
  BY <1>1, <1>3, <1>4 DEF WindowSizes, Counted
<1>6. \A i \in 1 .. Len(pending) : ChunkBoundsMatch(pending[i])
  BY <1>4, <1>5, BoundsOfWhole
<1>7. Len(pending) \in Nat /\ 1 \in 1 .. Len(pending)
  BY <1>1 DEF BatchTypeOK
<1>8. PICK sizes \in [Sizes -> Nat], n \in Sizes : sizes = histogram.sizes /\ sizes[n] > 0
  <2>1. pending[1].chunks \in 1 .. Body /\ histogram.sizes[pending[1].least] > 0 /\ pending[1].least \in Sizes
    <3>1. ChunkBoundsMatch(pending[1])
      BY <1>6, <1>7
    <3>2. Gauges(pending[1], delivered[1])
      BY <1>7 DEF BatchRecord, Gauged
    <3>3. pending[1].chunks # 0
      BY <3>1, ConfigFact DEF ChunkBoundsMatch
    <3> QED
      BY <3>1, <3>2, <3>3 DEF ChunkBoundsMatch, Gauges
  <2> QED
    BY <1>1, <2>1
<1>9. Distinct(histogram.sizes) \in 1 .. BinsCap
  <2>1. NoSizes \in [Sizes -> Nat] /\ Distinct(NoSizes) = 0 /\ \A m \in Sizes : NoSizes[m] = 0
    BY NoSizesFact DEF NoSizes
  <2>2. Distinct(NoSizes) < Distinct(sizes) /\ Distinct(sizes) \in Nat
    BY <1>8, <2>1, FewerFact
  <2> QED
    BY <1>5, <1>8, <2>1, <2>2, ConfigFact
<1>10. ReplayMatches
  <2>1. PICK q : q = Segments(sizes)
    OBVIOUS
  <2>2. Replay = q
    BY <1>2, <1>8, <2>1 DEF Replay
  <2>3. \A m \in Sizes : sizes[m] > 0 => m <= ReplayBytes
    <3>1. ReplayBytes \in Nat /\ Sizes \subseteq Nat
      BY ConfigAssumption DEF ConfigIsValid, Sizes
    <3> QED
      BY <1>3, <1>8, <3>1
  <2>4. Bounded(q) /\ \A m \in Sizes : Replayed(q, m) = sizes[m]
    BY <2>1, <2>3, SegmentsHoldSizes
  <2>5. q \in Seq([Sizes -> Nat]) /\ Len(q) <= MaxSegments
    <3>1. q \in Seq([Sizes -> Nat])
      BY <2>4 DEF Bounded
    <3>2. Len(q) \in Nat /\ MaxSegments \in Nat /\ ~(Len(q) > MaxSegments)
      BY <1>3, <1>8, <2>1, <3>1, ConfigAssumption DEF ConfigIsValid
    <3> QED
      BY <3>1, <3>2
  <2>6. q # << >>
    <3> SUFFICES ASSUME q = << >> PROVE FALSE
      OBVIOUS
    <3>1. Replayed(q, n) = 0
      BY SumEmpty DEF Replayed
    <3> QED
      BY <1>8, <2>4, <3>1
  <2>7. ASSUME NEW m \in Sizes PROVE SumFunction([i \in DOMAIN Replay |-> Replay[i][m]]) = histogram.sizes[m]
    <3>1. PICK f : f = Entries(q, m)
      OBVIOUS
    <3>2. f = [i \in DOMAIN Replay |-> Replay[i][m]] /\ DOMAIN f = DOMAIN q
      BY <2>2, <3>1 DEF Entries
    <3>3. SumFunction(f) = SumFunctionOnSet(f, DOMAIN f)
      BY Zenon DEF SumFunction, FoldFunction, SumFunctionOnSet
    <3>4. SumFunction(f) = sizes[m]
      BY <2>4, <3>1, <3>2, <3>3 DEF Replayed
    <3> QED
      BY <1>8, <3>2, <3>4
  <2>8. \A i \in 1 .. Len(Replay) : Bytes(Replay[i]) <= ReplayBytes /\ Chunks(Replay[i]) <= ReplayChunks
    BY <2>2, <2>4 DEF Bounded
  <2> QED
    BY <2>2, <2>5, <2>6, <2>7, <2>8 DEF ReplayMatches
<1> QED
  BY <1>3, <1>6, <1>9, <1>10 DEF WindowDistributionMatches

\* The readers refuse nothing the batch has recorded faithfully: streams that
\* came whole, sizes within the caps and a load that took time are a complete
\* row; with nothing gone wrong, time enough and a replay it is a conclusive one
\* (_batch_evidence_complete, the declared workload and the reasons of a row).
THEOREM FaithfulRowsAreComplete == BatchSpec => []FaithfulIsComplete
<1>1. ASSUME BatchRecord PROVE FaithfulIsComplete
  <2> SUFFICES ASSUME phase = "measured", span.started < span.finished,
                      \A i \in 1 .. Len(pending) : Whole(delivered[i]) /\ pending[i].framed /\ ~pending[i].error,
                      IF window THEN ~ReplayFails ELSE \A i \in 1 .. Len(pending) : pending[i].complete
               PROVE  IntegrityComplete /\ (TargetReached /\ faults = 0 /\ ~ReplayFails => Conclusive)
    BY DEF FaithfulIsComplete
  <2>1. BatchInv /\ BatchTypeOK /\ Read /\ FixedSizes /\ Gauged /\ Enclosed /\ pending \in Seq(StreamRecord)
    BY <1>1 DEF BatchRecord, BatchInv, BatchTypeOK
  <2>2. /\ \A i \in 1 .. Len(pending) : Ok(pending[i]) /\ pending[i].bytes = Body
        /\ Sum(BytesOf) = Body * Len(pending) /\ Sum(VerifiedOf) = Body * Len(pending)
    BY <2>1, WholeStreams
  <2>3. /\ Len(pending) = Expected /\ Len(pending) \in Nat /\ Len(pending) > 0
        /\ window => WindowWorkloadMatches
    BY <1>1, WholeRounds
  <2>4. window => WindowDistributionMatches
    BY <1>1, <2>2, <2>3, ReplayOfWindow
  <2>5. ASSUME NEW i \in 1 .. Len(pending) PROVE SampleEvidenceComplete(pending[i])
    <3>1. Ok(pending[i]) /\ pending[i].eof /\ pending[i].framed /\ ~pending[i].bad /\ pending[i].bytes = Body
      BY <2>2 DEF Ok, IntegrityHolds
    <3>2. CASE window
      BY <2>4, <3>1, <3>2 DEF SampleEvidenceComplete, WindowDistributionMatches
    <3>3. CASE ~window
      <4>1. pending[i].complete /\ pending[i].sizes = delivered[i].sizes
        BY <2>1, <3>3 DEF FixedSizes, Sized
      <4>2. pending[i].chunks = Chunks(delivered[i].sizes) /\ Bytes(delivered[i].sizes) = Body
        BY <2>1 DEF Gauged, Gauges, Whole
      <4>3. HistogramMatches(pending[i])
        BY <4>1, <4>2 DEF HistogramMatches
      <4> QED
        BY <3>1, <3>3, <4>1, <4>3 DEF SampleEvidenceComplete
    <3> QED
      BY <3>2, <3>3
  <2>6. BatchEvidenceComplete
    <3>1. pending # << >>
      BY <2>3
    <3> QED
      BY <2>4, <2>5, <3>1 DEF BatchEvidenceComplete
  <2>7. Len(probes) = 4
    BY <2>1 DEF Enclosed
  <2>8. CpuBoundaryMatches
    <3>1. \A i \in 1 .. 2 : probes[i].at <= span.started
      BY <2>1 DEF Enclosed
    <3>2. \A i \in 3 .. 4 : span.finished <= probes[i].at
      BY <2>1, <2>7 DEF Enclosed
    <3>3. \A role \in 1 .. 2 : role + 2 \in 3 .. 4
      OBVIOUS
    <3> QED
      BY <3>1, <3>2, <3>3 DEF CpuBoundaryMatches
  <2>9. BatchWorkloadMatches
    BY <2>2, <2>3 DEF BatchWorkloadMatches, Expected
  <2>10. IntegrityComplete
    <3>1. PICK k \in Nat, b \in Nat : k = Len(pending) /\ b = Body
      BY <2>3, ConfigFact
    <3>2. Sum(VerifiedOf) = k * b
      <4>1. b * k = k * b
        OBVIOUS
      <4> QED
        BY <2>2, <3>1, <4>1
    <3> QED
      BY <2>3, <2>6, <2>8, <2>9, <3>1, <3>2 DEF IntegrityComplete, DeclaredWorkloadMatches
  <2>11. ASSUME TargetReached, faults = 0, ~ReplayFails PROVE Conclusive
    <3>1. \A i \in 1 .. 4 : probes[i].known
      BY <2>1, <2>7, <2>11 DEF Enclosed
    <3>2. \A role \in 1 .. 2 : role \in 1 .. 4 /\ role + 2 \in 1 .. 4
      OBVIOUS
    <3>3. CpuComplete
      BY <3>1, <3>2 DEF CpuComplete, CpuKnown
    <3> QED
      BY <2>10, <2>11, <3>3 DEF Conclusive, OverheadComplete
  <2> QED
    BY <2>10, <2>11
<1> QED
  BY <1>1, RecordInvariance, PTL

(***************************************************************************)
(* THE CONTROLS                                                             *)
(***************************************************************************)

(***************************************************************************)
(* The inductive invariant, in named parts.                                 *)
(***************************************************************************)
\* Before the release of a control, and in its recovery round.
Holding == {"round", "ready", "evidence", "settle"}
Releasing == {"release", "quiet"}

TypeOK ==
  /\ number \in 1 .. Len(Controls)
  /\ kind \in {"held-tail", "body-wait", "normal"}
  /\ pc \in Holding \cup Releasing \cup {"recovery", "ended"}
  /\ failing \in BOOLEAN /\ outcome \in {"none", "ok", "failed", "unsettled"}
  /\ client \in [Stream -> {"start", "open", "paused"} \cup Left]
  /\ server \in [Stream -> {"none", "started", "body", "held", "sent", "ended"}]
  /\ \A tokens \in {checked, got, ready, headers, written, eof, disconnected, released, late} :
       tokens \subseteq Stream

\* Which control is where, and what its URLs ask for.
Matching ==
  /\ pc \in Holding \cup Releasing => kind = KindOf(Control)
  /\ pc = "round" => Control = "held-tail"
  /\ pc \in {"ready", "settle"} => Control # "held-tail"

\* Who has left when.
Away ==
  /\ pc \in Releasing => \A t \in Stream : Gone(t)
  /\ pc = "evidence" /\ Control = "held-tail" => \A t \in Stream : Gone(t)

\* What the server's state of a stream says of its handler.
Told ==
  \A t \in Stream :
    /\ t \in headers \/ t \in written => server[t] \notin {"none", "started"}
    /\ t \in eof => server[t] = "ended"
    /\ t \in released => server[t] # "none"

\* A stream that is not released does not get past its barrier.
Held ==
  /\ pc \in Holding \cup {"recovery"} => released = {}
  /\ pc = "quiet" => released = Stream
  /\ \A t \in Stream \ released :
       /\ kind = "body-wait" /\ t \in headers => server[t] = "held"
       /\ kind = "held-tail" /\ t \in written => server[t] = "held"

\* What the control has seen of its streams.
Seen ==
  /\ \A t \in checked : t \in headers /\ (Control = "held-tail" => t \in written)
  /\ kind = "held-tail" => ready \subseteq written
  /\ pc = "evidence" /\ Control # "held-tail" => ready = Stream
  /\ pc \in {"settle", "release"} /\ ~failing =>
       checked = Stream /\ (Control # "held-tail" => ready = Stream)

Inv == TypeOK /\ Matching /\ Away /\ Told /\ Held /\ Seen

\* Names of places, sets and tuples that every proof below may expand.
USE DEF Holding, Releasing, Left, Gone, KindOf, FirstStep, Leaving, Cancels,
        controlVars, clientVars, stateVars, serverVars

(***************************************************************************)
(* Every part is preserved by every step.                                   *)
(***************************************************************************)
\* A step of the coroutine, of a handler or of a consumer, or a stutter.
LEMMA StepCases ==
  ASSUME [Next]_vars
  PROVE  \/ FinishRound \/ AwaitReady \/ ReadState \/ CheckBytes \/ Settle
         \/ Release \/ FinishRelease \/ WaitQuiet \/ Recover
         \/ \E t \in Stream : \/ Register(t) \/ Disconnect(t) \/ SendHeaders(t) \/ SendFirst(t)
                              \/ SendRest(t) \/ FinishBody(t) \/ NoticeDisconnect(t)
                              \/ LeaveWait(t) \/ FinishLate(t)
         \/ \E t \in Stream : \/ Open(t) \/ ReadChunk(t) \/ ReadEof(t) \/ Fail(t)
                              \/ LeaveCancelled(t)
         \/ UNCHANGED vars
  BY DEF Next, Run, Serve, Consume, Ended

\* The control under way is one of the three.
LEMMA ControlFact == ASSUME Inv PROVE Control \in Kinds
<1>1. Controls \in Seq(Kinds) /\ number \in 1 .. Len(Controls)
  BY ControlsAssumption DEF ControlsAssumption, Inv, TypeOK
<1> QED
  BY <1>1 DEF Control

\* Coroutine, handlers and consumers keep to the types of what they assign.
LEMMA TypeOKStep == ASSUME Inv, [Next]_vars PROVE TypeOK'
<1>1. CASE FinishRound
  BY <1>1 DEF Inv, TypeOK, FinishRound
<1>2. CASE AwaitReady
  BY <1>2 DEF Inv, TypeOK, AwaitReady
<1>3. CASE ReadState
  <2>1. checked' \subseteq Stream
    BY <1>3 DEF Inv, TypeOK, ReadState
  <2>2. /\ pc' \in {pc, "settle", "release"} /\ failing' \in BOOLEAN
        /\ UNCHANGED <<number, kind, outcome, clientVars, serverVars>>
    BY <1>3 DEF Inv, TypeOK, ReadState
  <2> QED
    BY <2>1, <2>2 DEF Inv, TypeOK
<1>4. CASE CheckBytes
  BY <1>4 DEF Inv, TypeOK, CheckBytes
<1>5. CASE Settle
  BY <1>5 DEF Inv, TypeOK, Settle, End
<1>6. CASE Release
  BY <1>6 DEF Inv, TypeOK, Release, End
<1>7. CASE FinishRelease
  BY <1>7 DEF Inv, TypeOK, FinishRelease, End
<1>8. CASE WaitQuiet
  BY <1>8 DEF Inv, TypeOK, WaitQuiet, End, NewRound
<1>9. CASE Recover
  BY <1>9 DEF Inv, TypeOK, Recover, End, NewRound
<1>10. ASSUME NEW t \in Stream, Register(t) PROVE TypeOK'
  BY <1>10 DEF Inv, TypeOK, Register
<1>11. ASSUME NEW t \in Stream, Disconnect(t) PROVE TypeOK'
  BY <1>11 DEF Inv, TypeOK, Disconnect
<1>12. ASSUME NEW t \in Stream, SendHeaders(t) PROVE TypeOK'
  BY <1>12 DEF Inv, TypeOK, SendHeaders
<1>13. ASSUME NEW t \in Stream, SendFirst(t) PROVE TypeOK'
  BY <1>13 DEF Inv, TypeOK, SendFirst
<1>14. ASSUME NEW t \in Stream, SendRest(t) PROVE TypeOK'
  BY <1>14 DEF Inv, TypeOK, SendRest
<1>15. ASSUME NEW t \in Stream, FinishBody(t) PROVE TypeOK'
  BY <1>15 DEF Inv, TypeOK, FinishBody
<1>16. ASSUME NEW t \in Stream, NoticeDisconnect(t) PROVE TypeOK'
  BY <1>16 DEF Inv, TypeOK, NoticeDisconnect
<1>17. ASSUME NEW t \in Stream, LeaveWait(t) PROVE TypeOK'
  BY <1>17 DEF Inv, TypeOK, LeaveWait
<1>18. ASSUME NEW t \in Stream, FinishLate(t) PROVE TypeOK'
  BY <1>18 DEF Inv, TypeOK, FinishLate
<1>19. ASSUME NEW t \in Stream, Open(t) PROVE TypeOK'
  BY <1>19 DEF Inv, TypeOK, Open
<1>20. ASSUME NEW t \in Stream, ReadChunk(t) PROVE TypeOK'
  BY <1>20 DEF Inv, TypeOK, ReadChunk
<1>21. ASSUME NEW t \in Stream, ReadEof(t) PROVE TypeOK'
  BY <1>21 DEF Inv, TypeOK, ReadEof
<1>22. ASSUME NEW t \in Stream, Fail(t) PROVE TypeOK'
  BY <1>22 DEF Inv, TypeOK, Fail
<1>23. ASSUME NEW t \in Stream, LeaveCancelled(t) PROVE TypeOK'
  BY <1>23 DEF Inv, TypeOK, LeaveCancelled
<1>24. CASE UNCHANGED vars
  BY <1>24 DEF Inv, TypeOK, Control, vars
<1> QED
  BY <1>1, <1>2, <1>3, <1>4, <1>5, <1>6, <1>7, <1>8, <1>9, <1>10, <1>11, <1>12, <1>13,
     <1>14, <1>15, <1>16, <1>17, <1>18, <1>19, <1>20, <1>21, <1>22, <1>23, <1>24,
     StepCases

\* The URLs of a round ask for what its control is about (run_async_controls).
LEMMA MatchingStep == ASSUME Inv, [Next]_vars PROVE Matching'
<1>1. CASE FinishRound
  BY <1>1 DEF Inv, Matching, TypeOK, Control, FinishRound
<1>2. CASE AwaitReady
  BY <1>2 DEF Inv, Matching, TypeOK, Control, AwaitReady
<1>3. CASE ReadState
  BY <1>3 DEF Inv, Matching, TypeOK, Control, ReadState, Proper
<1>4. CASE CheckBytes
  BY <1>4 DEF Inv, Matching, TypeOK, Control, CheckBytes
<1>5. CASE Settle
  BY <1>5 DEF Inv, Matching, TypeOK, Control, Settle, End
<1>6. CASE Release
  BY <1>6 DEF Inv, Matching, TypeOK, Control, Release, End
<1>7. CASE FinishRelease
  BY <1>7 DEF Inv, Matching, TypeOK, Control, FinishRelease, End
<1>8. CASE WaitQuiet
  BY <1>8 DEF Inv, Matching, TypeOK, Control, WaitQuiet, End, NewRound
<1>9. CASE Recover
  BY <1>9 DEF Inv, Matching, TypeOK, Control, Recover, End, NewRound
<1>10. ASSUME NEW t \in Stream, Register(t) PROVE Matching'
  BY <1>10 DEF Inv, Matching, TypeOK, Control, Register
<1>11. ASSUME NEW t \in Stream, Disconnect(t) PROVE Matching'
  BY <1>11 DEF Inv, Matching, TypeOK, Control, Disconnect
<1>12. ASSUME NEW t \in Stream, SendHeaders(t) PROVE Matching'
  BY <1>12 DEF Inv, Matching, TypeOK, Control, SendHeaders
<1>13. ASSUME NEW t \in Stream, SendFirst(t) PROVE Matching'
  BY <1>13 DEF Inv, Matching, TypeOK, Control, SendFirst
<1>14. ASSUME NEW t \in Stream, SendRest(t) PROVE Matching'
  BY <1>14 DEF Inv, Matching, TypeOK, Control, SendRest
<1>15. ASSUME NEW t \in Stream, FinishBody(t) PROVE Matching'
  BY <1>15 DEF Inv, Matching, TypeOK, Control, FinishBody
<1>16. ASSUME NEW t \in Stream, NoticeDisconnect(t) PROVE Matching'
  BY <1>16 DEF Inv, Matching, TypeOK, Control, NoticeDisconnect
<1>17. ASSUME NEW t \in Stream, LeaveWait(t) PROVE Matching'
  BY <1>17 DEF Inv, Matching, TypeOK, Control, LeaveWait
<1>18. ASSUME NEW t \in Stream, FinishLate(t) PROVE Matching'
  BY <1>18 DEF Inv, Matching, TypeOK, Control, FinishLate
<1>19. ASSUME NEW t \in Stream, Open(t) PROVE Matching'
  BY <1>19 DEF Inv, Matching, TypeOK, Control, Open
<1>20. ASSUME NEW t \in Stream, ReadChunk(t) PROVE Matching'
  BY <1>20 DEF Inv, Matching, TypeOK, Control, ReadChunk
<1>21. ASSUME NEW t \in Stream, ReadEof(t) PROVE Matching'
  BY <1>21 DEF Inv, Matching, TypeOK, Control, ReadEof
<1>22. ASSUME NEW t \in Stream, Fail(t) PROVE Matching'
  BY <1>22 DEF Inv, Matching, TypeOK, Control, Fail
<1>23. ASSUME NEW t \in Stream, LeaveCancelled(t) PROVE Matching'
  BY <1>23 DEF Inv, Matching, TypeOK, Control, LeaveCancelled
<1>24. CASE UNCHANGED vars
  BY <1>24 DEF Inv, Matching, TypeOK, Control, Control, vars
<1> QED
  BY <1>1, <1>2, <1>3, <1>4, <1>5, <1>6, <1>7, <1>8, <1>9, <1>10, <1>11, <1>12, <1>13,
     <1>14, <1>15, <1>16, <1>17, <1>18, <1>19, <1>20, <1>21, <1>22, <1>23, <1>24,
     StepCases

\* The streams of a control are released after their contexts were left, by themselves or
\* by a cancellation that settled (_cancel_and_settle).
LEMMA AwayStep == ASSUME Inv, [Next]_vars PROVE Away'
<1>1. CASE FinishRound
  BY <1>1 DEF Inv, Away, TypeOK, Matching, Control, FinishRound
<1>2. CASE AwaitReady
  BY <1>2 DEF Inv, Away, TypeOK, Matching, Control, AwaitReady
<1>3. CASE ReadState
  BY <1>3 DEF Inv, Away, TypeOK, Matching, Control, ReadState, Proper
<1>4. CASE CheckBytes
  BY <1>4 DEF Inv, Away, TypeOK, Matching, Control, CheckBytes
<1>5. CASE Settle
  BY <1>5 DEF Inv, Away, TypeOK, Matching, Control, Settle, End
<1>6. CASE Release
  BY <1>6 DEF Inv, Away, TypeOK, Matching, Control, Release, End
<1>7. CASE FinishRelease
  BY <1>7 DEF Inv, Away, TypeOK, Matching, Control, FinishRelease, End
<1>8. CASE WaitQuiet
  BY <1>8 DEF Inv, Away, TypeOK, Matching, Control, WaitQuiet, End, NewRound
<1>9. CASE Recover
  BY <1>9 DEF Inv, Away, TypeOK, Matching, Control, Recover, End, NewRound
<1>10. ASSUME NEW t \in Stream, Register(t) PROVE Away'
  BY <1>10 DEF Inv, Away, TypeOK, Matching, Control, Register
<1>11. ASSUME NEW t \in Stream, Disconnect(t) PROVE Away'
  BY <1>11 DEF Inv, Away, TypeOK, Matching, Control, Disconnect
<1>12. ASSUME NEW t \in Stream, SendHeaders(t) PROVE Away'
  BY <1>12 DEF Inv, Away, TypeOK, Matching, Control, SendHeaders
<1>13. ASSUME NEW t \in Stream, SendFirst(t) PROVE Away'
  BY <1>13 DEF Inv, Away, TypeOK, Matching, Control, SendFirst
<1>14. ASSUME NEW t \in Stream, SendRest(t) PROVE Away'
  BY <1>14 DEF Inv, Away, TypeOK, Matching, Control, SendRest
<1>15. ASSUME NEW t \in Stream, FinishBody(t) PROVE Away'
  BY <1>15 DEF Inv, Away, TypeOK, Matching, Control, FinishBody
<1>16. ASSUME NEW t \in Stream, NoticeDisconnect(t) PROVE Away'
  BY <1>16 DEF Inv, Away, TypeOK, Matching, Control, NoticeDisconnect
<1>17. ASSUME NEW t \in Stream, LeaveWait(t) PROVE Away'
  BY <1>17 DEF Inv, Away, TypeOK, Matching, Control, LeaveWait
<1>18. ASSUME NEW t \in Stream, FinishLate(t) PROVE Away'
  BY <1>18 DEF Inv, Away, TypeOK, Matching, Control, FinishLate
<1>19. ASSUME NEW t \in Stream, Open(t) PROVE Away'
  BY <1>19 DEF Inv, Away, TypeOK, Matching, Control, Open
<1>20. ASSUME NEW t \in Stream, ReadChunk(t) PROVE Away'
  BY <1>20 DEF Inv, Away, TypeOK, Matching, Control, ReadChunk
<1>21. ASSUME NEW t \in Stream, ReadEof(t) PROVE Away'
  BY <1>21 DEF Inv, Away, TypeOK, Matching, Control, ReadEof
<1>22. ASSUME NEW t \in Stream, Fail(t) PROVE Away'
  BY <1>22 DEF Inv, Away, TypeOK, Matching, Control, Fail
<1>23. ASSUME NEW t \in Stream, LeaveCancelled(t) PROVE Away'
  BY <1>23 DEF Inv, Away, TypeOK, Matching, Control, LeaveCancelled
<1>24. CASE UNCHANGED vars
  BY <1>24 DEF Inv, Away, TypeOK, Matching, Control, Control, vars
<1> QED
  BY <1>1, <1>2, <1>3, <1>4, <1>5, <1>6, <1>7, <1>8, <1>9, <1>10, <1>11, <1>12, <1>13,
     <1>14, <1>15, <1>16, <1>17, <1>18, <1>19, <1>20, <1>21, <1>22, <1>23, <1>24,
     StepCases

\* The server notes headers, bytes, the end and a release of streams it has registered.
LEMMA ToldStep == ASSUME Inv, [Next]_vars PROVE Told'
<1>1. CASE FinishRound
  BY <1>1 DEF Inv, Told, TypeOK, FinishRound
<1>2. CASE AwaitReady
  BY <1>2 DEF Inv, Told, TypeOK, AwaitReady
<1>3. CASE ReadState
  BY <1>3 DEF Inv, Told, TypeOK, ReadState, Proper
<1>4. CASE CheckBytes
  BY <1>4 DEF Inv, Told, TypeOK, CheckBytes
<1>5. CASE Settle
  BY <1>5 DEF Inv, Told, TypeOK, Settle, End
<1>6. CASE Release
  BY <1>6 DEF Inv, Told, TypeOK, Release, End
<1>7. CASE FinishRelease
  BY <1>7 DEF Inv, Told, TypeOK, FinishRelease, End
<1>8. CASE WaitQuiet
  BY <1>8 DEF Inv, Told, TypeOK, WaitQuiet, End, NewRound
<1>9. CASE Recover
  BY <1>9 DEF Inv, Told, TypeOK, Recover, End, NewRound
<1>10. ASSUME NEW t \in Stream, Register(t) PROVE Told'
  BY <1>10 DEF Inv, Told, TypeOK, Register
<1>11. ASSUME NEW t \in Stream, Disconnect(t) PROVE Told'
  BY <1>11 DEF Inv, Told, TypeOK, Disconnect
<1>12. ASSUME NEW t \in Stream, SendHeaders(t) PROVE Told'
  BY <1>12 DEF Inv, Told, TypeOK, SendHeaders
<1>13. ASSUME NEW t \in Stream, SendFirst(t) PROVE Told'
  BY <1>13 DEF Inv, Told, TypeOK, SendFirst
<1>14. ASSUME NEW t \in Stream, SendRest(t) PROVE Told'
  BY <1>14 DEF Inv, Told, TypeOK, SendRest
<1>15. ASSUME NEW t \in Stream, FinishBody(t) PROVE Told'
  BY <1>15 DEF Inv, Told, TypeOK, FinishBody
<1>16. ASSUME NEW t \in Stream, NoticeDisconnect(t) PROVE Told'
  BY <1>16 DEF Inv, Told, TypeOK, NoticeDisconnect
<1>17. ASSUME NEW t \in Stream, LeaveWait(t) PROVE Told'
  BY <1>17 DEF Inv, Told, TypeOK, LeaveWait
<1>18. ASSUME NEW t \in Stream, FinishLate(t) PROVE Told'
  BY <1>18 DEF Inv, Told, TypeOK, FinishLate
<1>19. ASSUME NEW t \in Stream, Open(t) PROVE Told'
  BY <1>19 DEF Inv, Told, TypeOK, Open
<1>20. ASSUME NEW t \in Stream, ReadChunk(t) PROVE Told'
  BY <1>20 DEF Inv, Told, TypeOK, ReadChunk
<1>21. ASSUME NEW t \in Stream, ReadEof(t) PROVE Told'
  BY <1>21 DEF Inv, Told, TypeOK, ReadEof
<1>22. ASSUME NEW t \in Stream, Fail(t) PROVE Told'
  BY <1>22 DEF Inv, Told, TypeOK, Fail
<1>23. ASSUME NEW t \in Stream, LeaveCancelled(t) PROVE Told'
  BY <1>23 DEF Inv, Told, TypeOK, LeaveCancelled
<1>24. CASE UNCHANGED vars
  BY <1>24 DEF Inv, Told, TypeOK, Control, vars
<1> QED
  BY <1>1, <1>2, <1>3, <1>4, <1>5, <1>6, <1>7, <1>8, <1>9, <1>10, <1>11, <1>12, <1>13,
     <1>14, <1>15, <1>16, <1>17, <1>18, <1>19, <1>20, <1>21, <1>22, <1>23, <1>24,
     StepCases

\* A stream that reaches its barrier stays there until it is released (_wait_release).
LEMMA HeldStep == ASSUME Inv, [Next]_vars PROVE Held'
<1>1. CASE FinishRound
  BY <1>1 DEF Inv, Held, TypeOK, Matching, Told, FinishRound
<1>2. CASE AwaitReady
  BY <1>2 DEF Inv, Held, TypeOK, Matching, Told, AwaitReady
<1>3. CASE ReadState
  BY <1>3 DEF Inv, Held, TypeOK, Matching, Told, ReadState, Proper
<1>4. CASE CheckBytes
  BY <1>4 DEF Inv, Held, TypeOK, Matching, Told, CheckBytes
<1>5. CASE Settle
  BY <1>5 DEF Inv, Held, TypeOK, Matching, Told, Settle, End
<1>6. CASE Release
  BY <1>6 DEF Inv, Held, TypeOK, Matching, Told, Release, End
<1>7. CASE FinishRelease
  BY <1>7 DEF Inv, Held, TypeOK, Matching, Told, FinishRelease, End
<1>8. CASE WaitQuiet
  BY <1>8 DEF Inv, Held, TypeOK, Matching, Told, WaitQuiet, End, NewRound
<1>9. CASE Recover
  BY <1>9 DEF Inv, Held, TypeOK, Matching, Told, Recover, End, NewRound
<1>10. ASSUME NEW t \in Stream, Register(t) PROVE Held'
  BY <1>10 DEF Inv, Held, TypeOK, Matching, Told, Register
<1>11. ASSUME NEW t \in Stream, Disconnect(t) PROVE Held'
  BY <1>11 DEF Inv, Held, TypeOK, Matching, Told, Disconnect
<1>12. ASSUME NEW t \in Stream, SendHeaders(t) PROVE Held'
  BY <1>12 DEF Inv, Held, TypeOK, Matching, Told, SendHeaders
<1>13. ASSUME NEW t \in Stream, SendFirst(t) PROVE Held'
  BY <1>13 DEF Inv, Held, TypeOK, Matching, Told, SendFirst
<1>14. ASSUME NEW t \in Stream, SendRest(t) PROVE Held'
  BY <1>14 DEF Inv, Held, TypeOK, Matching, Told, SendRest
<1>15. ASSUME NEW t \in Stream, FinishBody(t) PROVE Held'
  BY <1>15 DEF Inv, Held, TypeOK, Matching, Told, FinishBody
<1>16. ASSUME NEW t \in Stream, NoticeDisconnect(t) PROVE Held'
  BY <1>16 DEF Inv, Held, TypeOK, Matching, Told, NoticeDisconnect
<1>17. ASSUME NEW t \in Stream, LeaveWait(t) PROVE Held'
  BY <1>17 DEF Inv, Held, TypeOK, Matching, Told, LeaveWait
<1>18. ASSUME NEW t \in Stream, FinishLate(t) PROVE Held'
  BY <1>18 DEF Inv, Held, TypeOK, Matching, Told, FinishLate
<1>19. ASSUME NEW t \in Stream, Open(t) PROVE Held'
  BY <1>19 DEF Inv, Held, TypeOK, Matching, Told, Open
<1>20. ASSUME NEW t \in Stream, ReadChunk(t) PROVE Held'
  BY <1>20 DEF Inv, Held, TypeOK, Matching, Told, ReadChunk
<1>21. ASSUME NEW t \in Stream, ReadEof(t) PROVE Held'
  BY <1>21 DEF Inv, Held, TypeOK, Matching, Told, ReadEof
<1>22. ASSUME NEW t \in Stream, Fail(t) PROVE Held'
  BY <1>22 DEF Inv, Held, TypeOK, Matching, Told, Fail
<1>23. ASSUME NEW t \in Stream, LeaveCancelled(t) PROVE Held'
  BY <1>23 DEF Inv, Held, TypeOK, Matching, Told, LeaveCancelled
<1>24. CASE UNCHANGED vars
  BY <1>24 DEF Inv, Held, TypeOK, Matching, Told, Control, vars
<1> QED
  BY <1>1, <1>2, <1>3, <1>4, <1>5, <1>6, <1>7, <1>8, <1>9, <1>10, <1>11, <1>12, <1>13,
     <1>14, <1>15, <1>16, <1>17, <1>18, <1>19, <1>20, <1>21, <1>22, <1>23, <1>24,
     StepCases

\* A control that goes on without a failure has read the state of all its streams.
LEMMA SeenStep == ASSUME Inv, [Next]_vars PROVE Seen'
<1>1. CASE FinishRound
  BY <1>1 DEF Inv, Seen, TypeOK, Matching, Told, Held, Control, FinishRound
<1>2. CASE AwaitReady
  BY <1>2 DEF Inv, Seen, TypeOK, Matching, Told, Held, Control, AwaitReady
<1>3. CASE ReadState
  BY <1>3 DEF Inv, Seen, TypeOK, Matching, Told, Held, Control, ReadState, Proper
<1>4. CASE CheckBytes
  BY <1>4 DEF Inv, Seen, TypeOK, Matching, Told, Held, Control, CheckBytes
<1>5. CASE Settle
  BY <1>5 DEF Inv, Seen, TypeOK, Matching, Told, Held, Control, Settle, End
<1>6. CASE Release
  BY <1>6 DEF Inv, Seen, TypeOK, Matching, Told, Held, Control, Release, End
<1>7. CASE FinishRelease
  BY <1>7 DEF Inv, Seen, TypeOK, Matching, Told, Held, Control, FinishRelease, End
<1>8. CASE WaitQuiet
  BY <1>8 DEF Inv, Seen, TypeOK, Matching, Told, Held, Control, WaitQuiet, End, NewRound
<1>9. CASE Recover
  BY <1>9 DEF Inv, Seen, TypeOK, Matching, Told, Held, Control, Recover, End, NewRound
<1>10. ASSUME NEW t \in Stream, Register(t) PROVE Seen'
  BY <1>10 DEF Inv, Seen, TypeOK, Matching, Told, Held, Control, Register
<1>11. ASSUME NEW t \in Stream, Disconnect(t) PROVE Seen'
  BY <1>11 DEF Inv, Seen, TypeOK, Matching, Told, Held, Control, Disconnect
<1>12. ASSUME NEW t \in Stream, SendHeaders(t) PROVE Seen'
  BY <1>12 DEF Inv, Seen, TypeOK, Matching, Told, Held, Control, SendHeaders
<1>13. ASSUME NEW t \in Stream, SendFirst(t) PROVE Seen'
  BY <1>13 DEF Inv, Seen, TypeOK, Matching, Told, Held, Control, SendFirst
<1>14. ASSUME NEW t \in Stream, SendRest(t) PROVE Seen'
  BY <1>14 DEF Inv, Seen, TypeOK, Matching, Told, Held, Control, SendRest
<1>15. ASSUME NEW t \in Stream, FinishBody(t) PROVE Seen'
  BY <1>15 DEF Inv, Seen, TypeOK, Matching, Told, Held, Control, FinishBody
<1>16. ASSUME NEW t \in Stream, NoticeDisconnect(t) PROVE Seen'
  BY <1>16 DEF Inv, Seen, TypeOK, Matching, Told, Held, Control, NoticeDisconnect
<1>17. ASSUME NEW t \in Stream, LeaveWait(t) PROVE Seen'
  BY <1>17 DEF Inv, Seen, TypeOK, Matching, Told, Held, Control, LeaveWait
<1>18. ASSUME NEW t \in Stream, FinishLate(t) PROVE Seen'
  BY <1>18 DEF Inv, Seen, TypeOK, Matching, Told, Held, Control, FinishLate
<1>19. ASSUME NEW t \in Stream, Open(t) PROVE Seen'
  BY <1>19 DEF Inv, Seen, TypeOK, Matching, Told, Held, Control, Open
<1>20. ASSUME NEW t \in Stream, ReadChunk(t) PROVE Seen'
  <2>1. ready \subseteq ready' /\ ready' \subseteq Stream
    BY <1>20 DEF Inv, TypeOK, ReadChunk
  <2>2. kind = "held-tail" => ready' \subseteq written
    BY <1>20 DEF Inv, Seen, ReadChunk
  <2>3. UNCHANGED <<controlVars, headers, written>>
    BY <1>20 DEF ReadChunk
  <2> QED
    BY <2>1, <2>2, <2>3 DEF Inv, Seen, Control
<1>21. ASSUME NEW t \in Stream, ReadEof(t) PROVE Seen'
  BY <1>21 DEF Inv, Seen, TypeOK, Matching, Told, Held, Control, ReadEof
<1>22. ASSUME NEW t \in Stream, Fail(t) PROVE Seen'
  BY <1>22 DEF Inv, Seen, TypeOK, Matching, Told, Held, Control, Fail
<1>23. ASSUME NEW t \in Stream, LeaveCancelled(t) PROVE Seen'
  BY <1>23 DEF Inv, Seen, TypeOK, Matching, Told, Held, Control, LeaveCancelled
<1>24. CASE UNCHANGED vars
  BY <1>24 DEF Inv, Seen, TypeOK, Matching, Told, Held, Control, Control, vars
<1> QED
  BY <1>1, <1>2, <1>3, <1>4, <1>5, <1>6, <1>7, <1>8, <1>9, <1>10, <1>11, <1>12, <1>13,
     <1>14, <1>15, <1>16, <1>17, <1>18, <1>19, <1>20, <1>21, <1>22, <1>23, <1>24,
     StepCases

\* Inv is inductive.
THEOREM Invariance == Spec => []Inv
<1>1. Init => Inv
  <2>1. ASSUME Init PROVE TypeOK
    <3>1. Len(Controls) \in Nat /\ Len(Controls) # 0
      BY ControlsAssumption DEF ControlsAssumption
    <3>2. 1 \in 1 .. Len(Controls)
      BY <3>1
    <3> QED
      BY <2>1, <3>2 DEF Init, TypeOK
  <2>2. ASSUME Init PROVE Matching /\ Away /\ Told /\ Held /\ Seen
    BY <2>2 DEF Init, Matching, Away, Told, Held, Seen, Control
  <2> QED
    BY <2>1, <2>2 DEF Inv
<1>2. Inv /\ [Next]_vars => Inv'
  BY TypeOKStep, MatchingStep, AwayStep, ToldStep, HeldStep, SeenStep DEF Inv
<1> QED
  BY <1>1, <1>2, PTL DEF Spec

(***************************************************************************)
(* The properties.                                                          *)
(***************************************************************************)
\* Coroutine, consumers and handlers keep their types in every control.
THEOREM TypeCorrect == Spec => []TypeOK
<1>1. Inv => TypeOK
  BY DEF Inv
<1> QED
  BY <1>1, Invariance, PTL

\* No stream is released before every consumer of its control has left its context
\* (run_async_controls).
THEOREM ReleasesComeLast == Spec => ReleaseAfterClose
<1>1. ASSUME Inv, [Next]_vars, NEW t \in released' \ released, NEW u \in Stream
      PROVE  Gone(u)
  <2>1. Release
    BY <1>1, StepCases DEF FinishRound, AwaitReady, ReadState, CheckBytes, Settle,
       FinishRelease, WaitQuiet, Recover, NewRound, End, Register, Disconnect,
       SendHeaders, SendFirst, SendRest, FinishBody, NoticeDisconnect, LeaveWait,
       FinishLate, Open, ReadChunk, ReadEof, Fail, LeaveCancelled, vars
  <2> QED
    BY <1>1, <2>1 DEF Release, Inv, Away
<1>2. Inv /\ [Next]_vars => [\A t \in released' \ released : \A u \in Stream : Gone(u)]_vars
  BY <1>1
<1> QED
  BY <1>2, Invariance, PTL DEF Spec, ReleaseAfterClose

\* What the control has read of the server's state still holds when it releases the
\* streams: none has got past its barrier in between (_require_evidence).
THEOREM EvidenceIsStable == Spec => []EvidenceHolds
<1>1. ASSUME Inv, pc = "release", ~failing, NEW t \in Stream \ released
      PROVE  server[t] = "held" /\ t \notin eof
  <2>1. kind = KindOf(Control) /\ Control \in Kinds
    BY <1>1, ControlFact DEF Inv, Matching
  <2>2. t \in headers /\ (Control = "held-tail" => t \in written)
    BY <1>1 DEF Inv, Seen
  <2>3. Control = "slow-consumer" => t \in written
    BY <1>1, <2>1 DEF Inv, Seen
  <2>4. server[t] = "held"
    <3>1. t \in Stream \ released
      BY <1>1
    <3>2. CASE Control = "body-wait"
      <4>1. kind = "body-wait"
        BY <2>1, <3>2
      <4> QED
        BY <1>1, <2>2, <3>1, <4>1 DEF Inv, Held
    <3>3. CASE Control \in {"held-tail", "slow-consumer"}
      <4>1. kind = "held-tail" /\ t \in written
        BY <2>1, <2>2, <2>3, <3>3
      <4> QED
        BY <1>1, <3>1, <4>1 DEF Inv, Held
    <3> QED
      BY <2>1, <3>2, <3>3 DEF Kinds
  <2> QED
    BY <1>1, <2>4 DEF Inv, Told
<1>2. Inv => EvidenceHolds
  BY <1>1 DEF EvidenceHolds
<1> QED
  BY <1>2, Invariance, PTL

\* A control that goes on to its recovery leaves no stream behind on either side
\* (wait_quiet).
THEOREM QuietIsForGood == Spec => QuietForGood
<1>1. ASSUME Inv, [Next]_vars, pc = "quiet", pc' = "recovery"
      PROVE  late = {} /\ \A t \in Stream : server[t] = "ended" /\ t \in released /\ Gone(t)
  <2>1. WaitQuiet /\ Active = {}
    BY <1>1, StepCases DEF FinishRound, AwaitReady, ReadState, CheckBytes, Settle,
       Release, FinishRelease, WaitQuiet, Recover, End, Register, Disconnect,
       SendHeaders, SendFirst, SendRest, FinishBody, NoticeDisconnect, LeaveWait,
       FinishLate, Open, ReadChunk, ReadEof, Fail, LeaveCancelled, vars
  <2>2. late = {} /\ \A t \in Stream : server[t] \in {"none", "ended"}
    BY <2>1 DEF Active
  <2>3. \A t \in Stream : t \in released /\ server[t] # "none"
    BY <1>1 DEF Inv, Held, Told
  <2> QED
    BY <1>1, <2>2, <2>3 DEF Inv, Away
<1>2. Inv /\ [Next]_vars => [pc = "quiet" /\ pc' = "recovery" =>
        /\ late = {}
        /\ \A t \in Stream : server[t] = "ended" /\ t \in released /\ Gone(t)]_vars
  BY <1>1
<1> QED
  BY <1>2, Invariance, PTL DEF Spec, QuietForGood
=============================================================================
