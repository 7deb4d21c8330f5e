------------------------ MODULE EchoCanceller3Proofs ------------------------
(***************************************************************************)
(* The canceller's delay, alarms and framing, for rings of any size, any   *)
(* set of delays and bursts of any length.  The lemmas about the buffer    *)
(* speak of three distances (BufferLatency, InternalDelay, BlocksBehind)   *)
(* and say what each method does to them; nothing after them looks at an   *)
(* index.                                                                  *)
(***************************************************************************)
EXTENDS EchoCanceller3, TLAPS

\* How far blocks_ is read behind its write index.  spectra_ is written the
\* other way round; the two distances have to agree.
BlocksBehind(b) == IF b.write >= b.read THEN b.write - b.read
                   ELSE BlocksSize + b.write - b.read
RingsAgree(b) == BlocksBehind(b) = InternalDelay(b)

\* The delay on record is not less than the one applied, which is not negative.
DelayFits(b) ==
  /\ InternalDelay(b) >= BufferLatency(b)
  /\ b.delay # NoDelay => InternalDelay(b) - BufferLatency(b) <= b.delay

BufferFits(b) == b \in Buffer /\ RingsAgree(b) /\ DelayFits(b)

\* Two states of the buffer that agree in a part of it.
SameRings(c, b) ==
  /\ c.lowRead = b.lowRead /\ c.lowWrite = b.lowWrite
  /\ c.read = b.read /\ c.write = b.write
  /\ c.specRead = b.specRead /\ c.specWrite = b.specWrite
SameCounters(c, b) ==
  /\ c.external = b.external
  /\ c.minLatency = b.minLatency /\ c.excessCounter = b.excessCounter
SameRecord(c, b) == c.delay = b.delay /\ SameCounters(c, b)

\* What a reset leaves: no excess seen, a block of latency, no delay found.
IsReset(c, b) ==
  /\ c.external = b.external
  /\ BufferLatency(c) = 1 /\ c.minLatency = 0 /\ c.excessCounter = 0
  /\ b.external = NoDelay => c.delay = NoDelay /\ InternalDelay(c) = DefaultDelay

-----------------------------------------------------------------------------
(* The rings.                                                               *)

LEMMA SizesAre ==
  /\ LowRateSize \in Nat /\ LowRateSize >= 2
  /\ BlocksSize \in Nat /\ BlocksSize = LowRateSize + FilterLength + 1
  /\ FilterLength \in Nat /\ FilterLength >= 1
  /\ MaxDelay = LowRateSize
  /\ DefaultDelay \in 1 .. LowRateSize
  /\ ExcessInterval \in Nat /\ ExcessInterval >= 1
  /\ MaxExcess \in Nat /\ MaxExcess >= 1
BY BufferAssumption DEF BlocksSize, MaxDelay

\* An index that moves by one block goes round at the end of its ring.
LEMMA RingSteps ==
  ASSUME NEW size \in Nat \ {0}, NEW i \in 0 .. size - 1
  PROVE  /\ OffsetIndex(i, 1, size) \in 0 .. size - 1
         /\ OffsetIndex(i, 1, size) = IF i = size - 1 THEN 0 ELSE i + 1
BY DEF OffsetIndex

LEMMA RingStepsBack ==
  ASSUME NEW size \in Nat \ {0}, NEW i \in 0 .. size - 1
  PROVE  /\ OffsetIndex(i, -1, size) \in 0 .. size - 1
         /\ OffsetIndex(i, -1, size) = IF i = 0 THEN size - 1 ELSE i - 1
BY DEF OffsetIndex

LEMMA RingMoves ==
  ASSUME NEW size \in Nat \ {0}, NEW i \in 0 .. size - 1, NEW d \in 0 .. size - 1
  PROVE  /\ OffsetIndex(i, d, size) \in 0 .. size - 1
         /\ OffsetIndex(i, d, size) = IF i + d < size THEN i + d ELSE i + d - size
         /\ OffsetIndex(i, -d, size) \in 0 .. size - 1
         /\ OffsetIndex(i, -d, size) = IF i >= d THEN i - d ELSE size + i - d
BY DEF OffsetIndex

\* The three distances are distances in their rings.
LEMMA Distances ==
  ASSUME NEW b \in Buffer
  PROVE  /\ BufferLatency(b) \in 0 .. LowRateSize - 1
         /\ BufferLatency(b) = IF b.lowRead >= b.lowWrite THEN b.lowRead - b.lowWrite
                               ELSE LowRateSize + b.lowRead - b.lowWrite
         /\ InternalDelay(b) \in 0 .. BlocksSize - 1
         /\ BlocksBehind(b) \in 0 .. BlocksSize - 1
<1>1. /\ b.lowRead \in 0 .. LowRateSize - 1 /\ b.lowWrite \in 0 .. LowRateSize - 1
      /\ b.read \in 0 .. BlocksSize - 1 /\ b.write \in 0 .. BlocksSize - 1
      /\ b.specRead \in 0 .. BlocksSize - 1 /\ b.specWrite \in 0 .. BlocksSize - 1
  BY DEF Buffer
<1>2. BufferLatency(b) \in 0 .. LowRateSize - 1
      /\ BufferLatency(b) = IF b.lowRead >= b.lowWrite THEN b.lowRead - b.lowWrite
                            ELSE LowRateSize + b.lowRead - b.lowWrite
  <2> DEFINE r == b.lowRead
             w == b.lowWrite
             n == LowRateSize
  <2>1. r \in 0 .. n - 1 /\ w \in 0 .. n - 1 /\ n \in Nat /\ n > 0
        /\ BufferLatency(b) = (n + r - w) % n
    BY <1>1, SizesAre DEF BufferLatency
  <2> HIDE DEF r, w, n
  <2>2. (n + r - w) % n \in 0 .. n - 1
        /\ (n + r - w) % n = IF r >= w THEN r - w ELSE n + r - w
    BY <2>1
  <2> QED  BY <2>1, <2>2 DEF r, w, n
<1> QED  BY <1>1, <1>2, SizesAre DEF InternalDelay, BlocksBehind

\* Room for a block: both rings are read one block later, unless one is full.
LEMMA WriteIndicesMove ==
  ASSUME NEW b \in Buffer, RingsAgree(b)
  PROVE  LET c == IncrementWriteIndices(b)
         IN  /\ c \in Buffer /\ RingsAgree(c)
             /\ SameRecord(c, b)
             /\ RenderOverrun(c) <=> \/ BufferLatency(b) + 1 = LowRateSize
                                     \/ InternalDelay(b) + 1 = BlocksSize
             /\ ~RenderOverrun(c) => /\ BufferLatency(c) = BufferLatency(b) + 1
                                     /\ InternalDelay(c) = InternalDelay(b) + 1
<1> DEFINE c == IncrementWriteIndices(b)
           lw == OffsetIndex(b.lowWrite, -1, LowRateSize)
           w == OffsetIndex(b.write, 1, BlocksSize)
           sw == OffsetIndex(b.specWrite, -1, BlocksSize)
<1>1. /\ b.lowRead \in 0 .. LowRateSize - 1 /\ b.lowWrite \in 0 .. LowRateSize - 1
      /\ b.read \in 0 .. BlocksSize - 1 /\ b.write \in 0 .. BlocksSize - 1
      /\ b.specRead \in 0 .. BlocksSize - 1 /\ b.specWrite \in 0 .. BlocksSize - 1
  BY DEF Buffer
<1>2. /\ c.lowRead = b.lowRead /\ c.read = b.read /\ c.specRead = b.specRead
      /\ c.lowWrite = lw /\ c.write = w /\ c.specWrite = sw /\ SameRecord(c, b)
  BY DEF IncrementWriteIndices, Buffer, SameRecord, SameCounters
<1>3. lw \in 0 .. LowRateSize - 1
      /\ lw = IF b.lowWrite = 0 THEN LowRateSize - 1 ELSE b.lowWrite - 1
  <2>1. LowRateSize \in Nat \ {0}  BY SizesAre
  <2> QED  BY <1>1, <2>1, RingStepsBack
<1>4. w \in 0 .. BlocksSize - 1
      /\ w = IF b.write = BlocksSize - 1 THEN 0 ELSE b.write + 1
  <2>1. BlocksSize \in Nat \ {0}  BY SizesAre
  <2> QED  BY <1>1, <2>1, RingSteps
<1>5. sw \in 0 .. BlocksSize - 1
      /\ sw = IF b.specWrite = 0 THEN BlocksSize - 1 ELSE b.specWrite - 1
  <2>1. BlocksSize \in Nat \ {0}  BY SizesAre
  <2> QED  BY <1>1, <2>1, RingStepsBack
<1> HIDE DEF lw, w, sw
<1>6. c \in Buffer  BY <1>3, <1>4, <1>5 DEF IncrementWriteIndices, Buffer, lw, w, sw
<1> HIDE DEF c
<1>7. c.lowRead = c.lowWrite <=> BufferLatency(b) + 1 = LowRateSize
  BY <1>1, <1>2, <1>3, SizesAre, Distances
<1>8. c.read = c.write <=> BlocksBehind(b) + 1 = BlocksSize
  BY <1>1, <1>2, <1>4, SizesAre DEF BlocksBehind
<1>9. c.lowRead # c.lowWrite => BufferLatency(c) = BufferLatency(b) + 1
  BY <1>1, <1>2, <1>3, <1>6, SizesAre, Distances
<1>10. BlocksBehind(c) = IF BlocksBehind(b) + 1 = BlocksSize THEN 0 ELSE BlocksBehind(b) + 1
  BY <1>1, <1>2, <1>4, SizesAre DEF BlocksBehind
<1>11. InternalDelay(c) = IF InternalDelay(b) + 1 = BlocksSize THEN 0 ELSE InternalDelay(b) + 1
  BY <1>1, <1>2, <1>5, SizesAre DEF InternalDelay
<1>12. RenderOverrun(c) <=> \/ BufferLatency(b) + 1 = LowRateSize
                            \/ InternalDelay(b) + 1 = BlocksSize
  BY <1>7, <1>8 DEF RenderOverrun, RingsAgree
<1>13. RingsAgree(c)  BY <1>10, <1>11 DEF RingsAgree
<1>14. ~RenderOverrun(c) => /\ BufferLatency(c) = BufferLatency(b) + 1
                            /\ InternalDelay(c) = InternalDelay(b) + 1
  BY <1>9, <1>11, <1>12 DEF RenderOverrun
<1> QED  BY <1>2, <1>6, <1>12, <1>13, <1>14 DEF c

\* What is not an index does not change the distances.
LEMMA RingsAreIndices ==
  ASSUME NEW b, NEW c, SameRings(b, c)
  PROVE  /\ BufferLatency(b) = BufferLatency(c)
         /\ InternalDelay(b) = InternalDelay(c)
         /\ RingsAgree(b) <=> RingsAgree(c)
BY DEF SameRings, BufferLatency, InternalDelay, RingsAgree, BlocksBehind

\* A total delay that fits is the one that is applied.
LEMMA TotalDelayApplied ==
  ASSUME NEW b \in Buffer, NEW delay \in 0 .. MaxDelay
  PROVE  LET c == ApplyTotalDelay(b, delay)
         IN  /\ c \in Buffer /\ RingsAgree(c) /\ SameRecord(c, b)
             /\ InternalDelay(c) = delay /\ BufferLatency(c) = BufferLatency(b)
<1> DEFINE c == ApplyTotalDelay(b, delay)
           r == OffsetIndex(b.write, -delay, BlocksSize)
           sr == OffsetIndex(b.specWrite, delay, BlocksSize)
<1>1. b.write \in 0 .. BlocksSize - 1 /\ b.specWrite \in 0 .. BlocksSize - 1
  BY DEF Buffer
<1>2. /\ c.lowRead = b.lowRead /\ c.lowWrite = b.lowWrite
      /\ c.write = b.write /\ c.specWrite = b.specWrite
      /\ c.read = r /\ c.specRead = sr /\ SameRecord(c, b)
  BY DEF ApplyTotalDelay, Buffer, SameRecord, SameCounters
<1>3. BlocksSize \in Nat \ {0} /\ delay \in 0 .. BlocksSize - 1  BY SizesAre
<1>4. r \in 0 .. BlocksSize - 1
      /\ r = IF b.write >= delay THEN b.write - delay ELSE BlocksSize + b.write - delay
  BY <1>1, <1>3, RingMoves
<1>5. sr \in 0 .. BlocksSize - 1
      /\ sr = IF b.specWrite + delay < BlocksSize THEN b.specWrite + delay
              ELSE b.specWrite + delay - BlocksSize
  BY <1>1, <1>3, RingMoves
<1> HIDE DEF r, sr
<1>6. c \in Buffer  BY <1>4, <1>5 DEF ApplyTotalDelay, Buffer, r, sr
<1> HIDE DEF c
<1>7. BlocksBehind(c) = delay
  BY <1>1, <1>2, <1>3, <1>4 DEF BlocksBehind
<1>8. InternalDelay(c) = delay
  BY <1>1, <1>2, <1>3, <1>5 DEF InternalDelay
<1>9. BufferLatency(c) = BufferLatency(b)  BY <1>2 DEF BufferLatency
<1> QED  BY <1>2, <1>6, <1>7, <1>8, <1>9 DEF c, RingsAgree

\* The delay on record is not an index either.
LEMMA DelayIsRecorded ==
  ASSUME NEW b \in Buffer, NEW d \in {NoDelay} \cup (0 .. MaxDelay)
  PROVE  LET c == [b EXCEPT !.delay = d]
         IN  /\ c \in Buffer /\ c.delay = d
             /\ SameRings(c, b) /\ SameCounters(c, b)
BY DEF Buffer, SameRings, SameCounters

\* After a reset the call jitter is one block, and the delay is the default, or
\* the one the caller told of, which is then on record.
LEMMA ResetSets ==
  ASSUME NEW b \in Buffer
  PROVE  BufferFits(Reset(b)) /\ IsReset(Reset(b), b)
<1> DEFINE lr == OffsetIndex(b.lowWrite, 1, LowRateSize)
           cleared == [b EXCEPT !.minLatency = 0, !.excessCounter = 0, !.lowRead = lr]
           told == Smaller(IF b.external <= 2 THEN 1 ELSE b.external - 2, MaxDelay)
           applied == ApplyTotalDelay(cleared, told)
           default == ApplyTotalDelay(cleared, DefaultDelay)
           d == ComputeDelay(applied)
<1>1. /\ b.lowWrite \in 0 .. LowRateSize - 1
      /\ b.external \in {NoDelay} \cup Nat /\ NoDelay \in Int /\ b.external \in Int
  BY DEF Buffer, NoDelay
<1>2. lr \in 0 .. LowRateSize - 1
      /\ lr = IF b.lowWrite = LowRateSize - 1 THEN 0 ELSE b.lowWrite + 1
  <2>1. LowRateSize \in Nat \ {0}  BY SizesAre
  <2> QED  BY <1>1, <2>1, RingSteps
<1>3. Reset(b) = IF b.external = NoDelay THEN [default EXCEPT !.delay = NoDelay]
                 ELSE [applied EXCEPT !.delay = d]
  BY DEF Reset
<1> HIDE DEF lr
<1>4. cleared \in Buffer
  <2>1. 0 \in 0 .. LowRateSize - 1 /\ 0 \in 0 .. ExcessInterval - 1  BY SizesAre
  <2> QED  BY <1>2, <2>1 DEF Buffer
<1>5. /\ cleared.lowRead = lr /\ cleared.lowWrite = b.lowWrite
      /\ cleared.external = b.external
      /\ cleared.minLatency = 0 /\ cleared.excessCounter = 0
  BY DEF Buffer
<1> HIDE DEF cleared
<1>6. BufferLatency(cleared) = 1
  BY <1>1, <1>2, <1>4, <1>5, SizesAre, Distances
<1>7. told \in 1 .. MaxDelay
  <2> DEFINE x == IF b.external <= 2 THEN 1 ELSE b.external - 2
  <2>1. x \in Int /\ x >= 1  BY <1>1
  <2>2. told = Smaller(x, MaxDelay)  OBVIOUS
  <2> HIDE DEF x
  <2> QED  BY <2>1, <2>2, SizesAre DEF Smaller
<1> HIDE DEF told
<1>8. /\ applied \in Buffer /\ RingsAgree(applied) /\ SameRecord(applied, cleared)
      /\ InternalDelay(applied) = told /\ BufferLatency(applied) = 1
  BY <1>4, <1>6, <1>7, SizesAre, TotalDelayApplied
<1>9. /\ default \in Buffer /\ RingsAgree(default) /\ SameRecord(default, cleared)
      /\ InternalDelay(default) = DefaultDelay /\ BufferLatency(default) = 1
  <2>1. DefaultDelay \in 0 .. MaxDelay  BY SizesAre
  <2> QED  BY <1>4, <1>6, <2>1, TotalDelayApplied
<1> HIDE DEF applied, default
<1>10. d = told - 1 /\ d \in 0 .. MaxDelay
  BY <1>7, <1>8, SizesAre DEF ComputeDelay
<1> HIDE DEF d
<1>11. CASE b.external = NoDelay
  <2> DEFINE c == [default EXCEPT !.delay = NoDelay]
  <2>1. /\ c \in Buffer /\ c.delay = NoDelay
        /\ SameRings(c, default) /\ SameCounters(c, default)
    BY <1>9, DelayIsRecorded
  <2>2. Reset(b) = c  BY <1>3, <1>11
  <2> HIDE DEF c
  <2>3. RingsAgree(c) /\ BufferLatency(c) = 1 /\ InternalDelay(c) = DefaultDelay
    BY <1>9, <2>1, RingsAreIndices
  <2>4. c.external = b.external /\ c.minLatency = 0 /\ c.excessCounter = 0
    BY <1>5, <1>9, <2>1 DEF SameCounters, SameRecord
  <2> QED
    BY <1>11, <2>1, <2>2, <2>3, <2>4, SizesAre DEF BufferFits, DelayFits, IsReset
<1>12. CASE b.external # NoDelay
  <2> DEFINE c == [applied EXCEPT !.delay = d]
  <2>1. /\ c \in Buffer /\ c.delay = d
        /\ SameRings(c, applied) /\ SameCounters(c, applied)
    BY <1>8, <1>10, DelayIsRecorded
  <2>2. Reset(b) = c  BY <1>3, <1>12
  <2> HIDE DEF c
  <2>3. RingsAgree(c) /\ BufferLatency(c) = 1 /\ InternalDelay(c) = told
    BY <1>8, <2>1, RingsAreIndices
  <2>4. c.external = b.external /\ c.minLatency = 0 /\ c.excessCounter = 0
    BY <1>5, <1>8, <2>1 DEF SameCounters, SameRecord
  <2> QED
    BY <1>7, <1>10, <1>12, <2>1, <2>2, <2>3, <2>4, SizesAre DEF BufferFits, DelayFits, IsReset
<1> QED  BY <1>11, <1>12

-----------------------------------------------------------------------------
(* The methods the canceller calls.                                         *)

\* The buffer a canceller starts with.
LEMMA NewBufferFits ==
  /\ BufferFits(NewBuffer)
  /\ BufferLatency(NewBuffer) = 1 /\ InternalDelay(NewBuffer) = DefaultDelay
  /\ NewBuffer.external = NoDelay /\ NewBuffer.delay = NoDelay
  /\ NewBuffer.minLatency = 0 /\ NewBuffer.excessCounter = 0
<1> DEFINE b == [lowRead |-> 0, lowWrite |-> 0, read |-> 0, write |-> 0,
                 specRead |-> 0, specWrite |-> 0, delay |-> DefaultDelay,
                 external |-> NoDelay, minLatency |-> 0, excessCounter |-> 0]
<1>1. b \in Buffer  BY SizesAre DEF Buffer
<1>2. b.external = NoDelay /\ NewBuffer = Reset(b)  BY DEF NewBuffer
<1> HIDE DEF b
<1> QED  BY <1>1, <1>2, ResetSets DEF IsReset

\* A block of far end is one block more of both distances, unless it overruns.
LEMMA InsertSets ==
  ASSUME NEW b, BufferFits(b)
  PROVE  /\ BufferFits(Insert(b))
         /\ InsertOverruns(b) <=> \/ BufferLatency(b) + 1 = LowRateSize
                                  \/ InternalDelay(b) + 1 = BlocksSize
         /\ InsertOverruns(b) => IsReset(Insert(b), b)
         /\ ~InsertOverruns(b) =>
              /\ SameRecord(Insert(b), b)
              /\ BufferLatency(Insert(b)) = BufferLatency(b) + 1
              /\ InternalDelay(Insert(b)) = InternalDelay(b) + 1
<1> DEFINE c == IncrementWriteIndices(b)
<1>1. /\ c \in Buffer /\ RingsAgree(c) /\ SameRecord(c, b)
      /\ RenderOverrun(c) <=> \/ BufferLatency(b) + 1 = LowRateSize
                              \/ InternalDelay(b) + 1 = BlocksSize
      /\ ~RenderOverrun(c) => /\ BufferLatency(c) = BufferLatency(b) + 1
                              /\ InternalDelay(c) = InternalDelay(b) + 1
  BY WriteIndicesMove DEF BufferFits
<1>2. /\ InsertOverruns(b) <=> RenderOverrun(c)
      /\ Insert(b) = IF RenderOverrun(c) THEN Reset(c) ELSE c
  BY DEF InsertOverruns, Insert
<1> HIDE DEF c
<1>3. BufferFits(Reset(c)) /\ IsReset(Reset(c), b)
  BY <1>1, ResetSets DEF IsReset, SameRecord, SameCounters
<1>4. ASSUME ~RenderOverrun(c) PROVE BufferFits(c)
  <2>1. BufferLatency(b) \in Int /\ InternalDelay(b) \in Int
    BY Distances DEF BufferFits
  <2>2. b.delay \in {NoDelay} \cup (0 .. MaxDelay)  BY DEF BufferFits, Buffer
  <2> QED
    BY <1>1, <1>4, <2>1, <2>2, SizesAre DEF BufferFits, DelayFits, SameRecord
<1> QED  BY <1>1, <1>2, <1>3, <1>4

\* The smallest latency is noted, and nothing else.
LEMMA LatencyIsNoted ==
  ASSUME NEW b \in Buffer
  PROVE  /\ NoteLatency(b) \in Buffer
         /\ SameRings(NoteLatency(b), b)
         /\ NoteLatency(b).delay = b.delay /\ NoteLatency(b).external = b.external
         /\ NoteLatency(b).minLatency = IF IsExcessCheck(b) THEN BufferLatency(b)
                                        ELSE ExcessLatency(b)
         /\ NoteLatency(b).excessCounter = IF IsExcessCheck(b) THEN 0
                                           ELSE b.excessCounter + 1
<1>1. BufferLatency(b) \in 0 .. LowRateSize - 1  BY Distances
<1>2. ExcessLatency(b) \in 0 .. LowRateSize - 1
  BY <1>1, SizesAre DEF ExcessLatency, Smaller, Buffer
<1>3. ~IsExcessCheck(b) => b.excessCounter + 1 \in 0 .. ExcessInterval - 1
  BY SizesAre DEF IsExcessCheck, Buffer
<1> DEFINE m == IF IsExcessCheck(b) THEN BufferLatency(b) ELSE ExcessLatency(b)
           e == IF IsExcessCheck(b) THEN 0 ELSE b.excessCounter + 1
<1>4. m \in 0 .. LowRateSize - 1 /\ e \in 0 .. ExcessInterval - 1
  BY <1>1, <1>2, <1>3, SizesAre
<1>5. NoteLatency(b) = [b EXCEPT !.minLatency = m, !.excessCounter = e]
  BY DEF NoteLatency
<1> HIDE DEF m, e
<1>6. NoteLatency(b) \in Buffer  BY <1>4, <1>5 DEF Buffer
<1>7. /\ SameRings(NoteLatency(b), b)
      /\ NoteLatency(b).delay = b.delay /\ NoteLatency(b).external = b.external
      /\ NoteLatency(b).minLatency = m /\ NoteLatency(b).excessCounter = e
  BY <1>5 DEF SameRings, Buffer
<1> QED  BY <1>6, <1>7 DEF m, e

\* A block is read of blocks_, if there is one.
LEMMA BlockIsRead ==
  ASSUME NEW b \in Buffer, RingsAgree(b)
  PROVE  LET c == IncrementReadIndices(b)
         IN  /\ c \in Buffer /\ RingsAgree(c) /\ SameRecord(c, b)
             /\ BufferLatency(c) = BufferLatency(b)
             /\ InternalDelay(c) = IF InternalDelay(b) = 0 THEN 0
                                   ELSE InternalDelay(b) - 1
<1> DEFINE c == IncrementReadIndices(b)
           r == OffsetIndex(b.read, 1, BlocksSize)
           sr == OffsetIndex(b.specRead, -1, BlocksSize)
<1>1. /\ b.read \in 0 .. BlocksSize - 1 /\ b.write \in 0 .. BlocksSize - 1
      /\ b.specRead \in 0 .. BlocksSize - 1 /\ b.specWrite \in 0 .. BlocksSize - 1
  BY DEF Buffer
<1>2. BlocksSize \in Nat \ {0}  BY SizesAre
<1>3. InternalDelay(b) = BlocksBehind(b)  BY DEF RingsAgree
<1>4. b.read = b.write <=> InternalDelay(b) = 0
  BY <1>1, <1>2, <1>3 DEF BlocksBehind
<1>5. CASE b.read = b.write
  <2>1. c = b  BY <1>5 DEF IncrementReadIndices
  <2> QED  BY <1>4, <1>5, <2>1 DEF SameRecord, SameCounters
<1>6. CASE b.read # b.write
  <2>1. r \in 0 .. BlocksSize - 1
        /\ r = IF b.read = BlocksSize - 1 THEN 0 ELSE b.read + 1
    BY <1>1, <1>2, RingSteps
  <2>2. sr \in 0 .. BlocksSize - 1
        /\ sr = IF b.specRead = 0 THEN BlocksSize - 1 ELSE b.specRead - 1
    BY <1>1, <1>2, RingStepsBack
  <2>3. c = [b EXCEPT !.read = r, !.specRead = sr]
    BY <1>6 DEF IncrementReadIndices
  <2> HIDE DEF c, r, sr
  <2>4. c \in Buffer  BY <2>1, <2>2, <2>3 DEF Buffer
  <2>5. /\ c.lowRead = b.lowRead /\ c.lowWrite = b.lowWrite
        /\ c.write = b.write /\ c.specWrite = b.specWrite
        /\ c.read = r /\ c.specRead = sr /\ SameRecord(c, b)
    BY <2>3 DEF Buffer, SameRecord, SameCounters
  <2>6. BlocksBehind(c) = BlocksBehind(b) - 1
    BY <1>1, <1>2, <1>6, <2>1, <2>5 DEF BlocksBehind
  <2>7. InternalDelay(c) = InternalDelay(b) - 1
    <3>1. InternalDelay(b) # 0  BY <1>4, <1>6
    <3> QED  BY <1>1, <1>2, <2>2, <2>5, <3>1 DEF InternalDelay
  <2>8. BufferLatency(c) = BufferLatency(b)  BY <2>5 DEF BufferLatency
  <2> QED  BY <1>3, <1>4, <1>6, <2>4, <2>5, <2>6, <2>7, <2>8 DEF RingsAgree, c
<1> QED  BY <1>5, <1>6

\* A block is read of low_rate_, where there is one.
LEMMA LowRateIsRead ==
  ASSUME NEW b \in Buffer, ~RenderUnderrun(b)
  PROVE  LET c == IncrementLowRateReadIndices(b)
         IN  /\ c \in Buffer /\ (RingsAgree(c) <=> RingsAgree(b))
             /\ SameRecord(c, b)
             /\ BufferLatency(c) = BufferLatency(b) - 1
             /\ InternalDelay(c) = InternalDelay(b)
<1> DEFINE c == IncrementLowRateReadIndices(b)
           lr == OffsetIndex(b.lowRead, -1, LowRateSize)
<1>1. b.lowRead \in 0 .. LowRateSize - 1 /\ b.lowWrite \in 0 .. LowRateSize - 1
  BY DEF Buffer
<1>2. LowRateSize \in Nat \ {0}  BY SizesAre
<1>3. lr \in 0 .. LowRateSize - 1
      /\ lr = IF b.lowRead = 0 THEN LowRateSize - 1 ELSE b.lowRead - 1
  BY <1>1, <1>2, RingStepsBack
<1>4. c = [b EXCEPT !.lowRead = lr]  BY DEF IncrementLowRateReadIndices
<1> HIDE DEF c, lr
<1>5. c \in Buffer  BY <1>3, <1>4 DEF Buffer
<1>6. /\ c.lowRead = lr /\ c.lowWrite = b.lowWrite
      /\ c.read = b.read /\ c.write = b.write
      /\ c.specRead = b.specRead /\ c.specWrite = b.specWrite
      /\ SameRecord(c, b)
  BY <1>4 DEF Buffer, SameRecord, SameCounters
<1>7. BufferLatency(c) = BufferLatency(b) - 1
  BY <1>1, <1>2, <1>3, <1>5, <1>6, Distances DEF RenderUnderrun
<1> QED
  BY <1>5, <1>6, <1>7 DEF RingsAgree, BlocksBehind, InternalDelay, c

\* No latency is an underrun.
LEMMA UnderrunIsNoLatency ==
  ASSUME NEW b \in Buffer
  PROVE  RenderUnderrun(b) <=> BufferLatency(b) = 0
<1>1. b.lowRead \in 0 .. LowRateSize - 1 /\ b.lowWrite \in 0 .. LowRateSize - 1
  BY DEF Buffer
<1> QED  BY <1>1, SizesAre, Distances DEF RenderUnderrun

\* Another delay is put on record and applied as far as the ring goes.
LEMMA AlignSets ==
  ASSUME NEW b, BufferFits(b), NEW d \in 0 .. MaxDelay
  PROVE  LET c == AlignFromDelay(b, d)
         IN  /\ BufferFits(c) /\ c.delay = d /\ SameCounters(c, b)
             /\ BufferLatency(c) = BufferLatency(b)
             /\ b.delay = d => c = b
             /\ b.delay # d =>
                  InternalDelay(c) = Smaller(MaxDelay, BufferLatency(b) + d)
<1>1. CASE b.delay = d
  BY <1>1 DEF AlignFromDelay, SameCounters
<1>2. CASE b.delay # d
  <2> DEFINE a == [b EXCEPT !.delay = d]
             t == Smaller(MaxDelay, BufferLatency(b) + d)
             c == ApplyTotalDelay(a, t)
  <2>1. BufferLatency(b) \in 0 .. LowRateSize - 1  BY Distances DEF BufferFits
  <2>2. t \in 0 .. MaxDelay /\ t >= BufferLatency(b) /\ t - BufferLatency(b) <= d
    BY <2>1, SizesAre DEF Smaller
  <2>3. AlignFromDelay(b, d) = c  BY <1>2 DEF AlignFromDelay
  <2> HIDE DEF t
  <2>4. a \in Buffer /\ a.delay = d /\ SameRings(a, b) /\ SameCounters(a, b)
    BY DelayIsRecorded DEF BufferFits
  <2> HIDE DEF a
  <2>5. /\ c \in Buffer /\ RingsAgree(c) /\ SameRecord(c, a)
        /\ InternalDelay(c) = t /\ BufferLatency(c) = BufferLatency(a)
    BY <2>2, <2>4, TotalDelayApplied
  <2>6. BufferLatency(a) = BufferLatency(b)  BY <2>4, RingsAreIndices
  <2> HIDE DEF c
  <2>7. c.delay = d /\ SameCounters(c, b)
    BY <2>4, <2>5 DEF SameRecord, SameCounters
  <2>8. BufferFits(c)
    BY <2>2, <2>5, <2>6, <2>7 DEF BufferFits, DelayFits
  <2> QED  BY <1>2, <2>3, <2>5, <2>6, <2>7, <2>8 DEF t
<1> QED  BY <1>1, <1>2

\* A block is read: both rings move, or at an underrun blocks_ alone, and then
\* the delay on record is one less; too much far end is a reset.
LEMMA PrepareSets ==
  ASSUME NEW b, BufferFits(b)
  PROVE  LET c == PrepareCaptureProcessing(b)
         IN  /\ BufferFits(c)
             /\ DetectExcessRenderBlocks(b) => IsReset(c, b)
             /\ ~DetectExcessRenderBlocks(b) =>
                  /\ c.external = b.external
                  /\ c.minLatency = IF IsExcessCheck(b) THEN BufferLatency(b)
                                    ELSE ExcessLatency(b)
                  /\ c.excessCounter = IF IsExcessCheck(b) THEN 0
                                       ELSE b.excessCounter + 1
                  /\ BufferLatency(b) = 0 =>
                       /\ BufferLatency(c) = 0
                       /\ InternalDelay(c) = IF InternalDelay(b) = 0 THEN 0
                                             ELSE InternalDelay(b) - 1
                       /\ c.delay = IF b.delay > 0 THEN b.delay - 1 ELSE b.delay
                  /\ BufferLatency(b) > 0 =>
                       /\ BufferLatency(c) = BufferLatency(b) - 1
                       /\ InternalDelay(c) = InternalDelay(b) - 1
                       /\ c.delay = b.delay
<1> DEFINE n == NoteLatency(b)
           c == PrepareCaptureProcessing(b)
<1>1. /\ n \in Buffer /\ SameRings(n, b) /\ n.delay = b.delay
      /\ n.external = b.external
      /\ n.minLatency = IF IsExcessCheck(b) THEN BufferLatency(b) ELSE ExcessLatency(b)
      /\ n.excessCounter = IF IsExcessCheck(b) THEN 0 ELSE b.excessCounter + 1
  BY LatencyIsNoted DEF BufferFits
<1>2. /\ BufferLatency(n) = BufferLatency(b) /\ InternalDelay(n) = InternalDelay(b)
      /\ RingsAgree(n)
  BY <1>1, RingsAreIndices DEF BufferFits
<1>3. /\ BufferLatency(b) \in Nat /\ InternalDelay(b) \in Nat
      /\ InternalDelay(b) >= BufferLatency(b)
      /\ b.delay # NoDelay => InternalDelay(b) - BufferLatency(b) <= b.delay
      /\ b.delay \in {NoDelay} \cup (0 .. MaxDelay)
  <2>1. b \in Buffer /\ DelayFits(b)  BY DEF BufferFits
  <2>2. b.delay \in {NoDelay} \cup (0 .. MaxDelay)  BY <2>1 DEF Buffer
  <2> QED  BY <2>1, <2>2, SizesAre, Distances DEF DelayFits
<1>4. RenderUnderrun(b) <=> BufferLatency(b) = 0
  BY UnderrunIsNoLatency DEF BufferFits
<1>5. CASE DetectExcessRenderBlocks(b)
  <2>1. c = Reset(n)  BY <1>5 DEF PrepareCaptureProcessing
  <2> HIDE DEF c, n
  <2>2. BufferFits(c) /\ IsReset(c, n)  BY <1>1, <2>1, ResetSets
  <2> QED  BY <1>1, <1>5, <2>2 DEF IsReset, c
<1>6. CASE ~DetectExcessRenderBlocks(b) /\ RenderUnderrun(b)
  <2> DEFINE a == IncrementReadIndices(n)
             d == IF a.delay > 0 THEN a.delay - 1 ELSE a.delay
  <2>1. c = [a EXCEPT !.delay = d]  BY <1>6 DEF PrepareCaptureProcessing
  <2> HIDE DEF n
  <2>2. /\ a \in Buffer /\ RingsAgree(a) /\ SameRecord(a, n)
        /\ BufferLatency(a) = BufferLatency(n)
        /\ InternalDelay(a) = IF InternalDelay(n) = 0 THEN 0 ELSE InternalDelay(n) - 1
    BY <1>1, <1>2, BlockIsRead
  <2> HIDE DEF a
  <2>3. d \in {NoDelay} \cup (0 .. MaxDelay)
        /\ d = IF b.delay > 0 THEN b.delay - 1 ELSE b.delay
    BY <1>1, <1>3, <2>2, SizesAre DEF SameRecord, NoDelay
  <2> HIDE DEF d
  <2>4. c \in Buffer /\ c.delay = d /\ SameRings(c, a) /\ SameCounters(c, a)
    BY <2>1, <2>2, <2>3, DelayIsRecorded
  <2> HIDE DEF c
  <2>5. /\ BufferLatency(c) = BufferLatency(a) /\ InternalDelay(c) = InternalDelay(a)
        /\ RingsAgree(c)
    BY <2>2, <2>4, RingsAreIndices
  <2>6. BufferLatency(b) = 0  BY <1>4, <1>6
  <2>7. DelayFits(c)
    BY <1>2, <1>3, <2>2, <2>3, <2>4, <2>5, <2>6, SizesAre DEF DelayFits, NoDelay
  <2>8. c.external = n.external /\ c.minLatency = n.minLatency
        /\ c.excessCounter = n.excessCounter
    BY <2>2, <2>4 DEF SameRecord, SameCounters
  <2> QED
    BY <1>1, <1>2, <1>6, <2>2, <2>3, <2>4, <2>5, <2>6, <2>7, <2>8 DEF BufferFits, c
<1>7. CASE ~DetectExcessRenderBlocks(b) /\ ~RenderUnderrun(b)
  <2> DEFINE a == IncrementLowRateReadIndices(n)
  <2>1. c = IncrementReadIndices(a)  BY <1>7 DEF PrepareCaptureProcessing
  <2>2. ~RenderUnderrun(n)  BY <1>1, <1>7 DEF RenderUnderrun, SameRings
  <2> HIDE DEF n
  <2>3. /\ a \in Buffer /\ RingsAgree(a) /\ SameRecord(a, n)
        /\ BufferLatency(a) = BufferLatency(n) - 1
        /\ InternalDelay(a) = InternalDelay(n)
    BY <1>1, <1>2, <2>2, LowRateIsRead
  <2> HIDE DEF a
  <2>4. /\ c \in Buffer /\ RingsAgree(c) /\ SameRecord(c, a)
        /\ BufferLatency(c) = BufferLatency(a)
        /\ InternalDelay(c) = IF InternalDelay(a) = 0 THEN 0 ELSE InternalDelay(a) - 1
    BY <2>1, <2>3, BlockIsRead
  <2> HIDE DEF c
  <2>5. BufferLatency(b) > 0  BY <1>3, <1>4, <1>7
  <2>6. BufferLatency(c) = BufferLatency(b) - 1 /\ InternalDelay(c) = InternalDelay(b) - 1
    BY <1>2, <1>3, <2>3, <2>4, <2>5
  <2>7. SameRecord(c, n)  BY <2>3, <2>4 DEF SameRecord, SameCounters
  <2>8. DelayFits(c)
    BY <1>1, <1>3, <2>6, <2>7 DEF DelayFits, SameRecord
  <2> QED
    BY <1>1, <1>3, <1>7, <2>4, <2>5, <2>6, <2>7, <2>8
       DEF BufferFits, SameRecord, SameCounters, c
<1> QED  BY <1>5, <1>6, <1>7

-----------------------------------------------------------------------------
(* The inductive invariant.                                                 *)

\* What the pairing needs of the sizes: in the code 153 sub-blocks, an excess
\* above 8, a default of 5, and the lags of a histogram that ends at 151.
PairedFits ==
  /\ LowRateSize >= 4
  /\ MaxExcess >= 3
  /\ DefaultDelay < LowRateSize
  /\ \A d \in Delays : d + 2 <= LowRateSize

Controller ==
  [delay : {NoDelay} \cup Delays, sample : {NoDelay} \cup Delays,
   sampleQuality : Quality, lastQuality : Quality, significant : BOOLEAN]

ProcessorTypes ==
  /\ renderEvent \in BOOLEAN /\ renderStarted \in BOOLEAN
  /\ captureStarted \in BOOLEAN
  /\ controller \in Controller
  /\ crowded \in Nat
  /\ trouble \in {"none", "underrun", "flush"}

\* Frames leave half a block or nothing; the two capture buffers hold one
\* block together.
FramesFit ==
  /\ use \in {"paired", "bursts"}
  /\ queued \in 0 .. MaxBurst
  /\ warm \in 0 .. 3
  /\ outputFill = BlockLength - captureFill
  /\ \/ /\ step = "idle" /\ subFrame = 0
        /\ renderFill \in {0, 2} /\ captureFill \in {0, 2}
     \/ /\ step = "render" /\ subFrame \in 0 .. 2 /\ queued >= 1
        /\ renderFill - subFrame \in {0, 2} /\ captureFill \in {0, 2}
        /\ renderFill \in Int
     \/ /\ step = "capture" /\ subFrame \in 0 .. 2
        /\ renderFill \in {0, 2} /\ captureFill - subFrame \in {0, 2}
        /\ captureFill \in Int

\* Blocks in a row with too much queued were counted by the excess detector in
\* this interval, or in it and the one before.
CrowdIsCounted ==
  /\ \/ crowded <= buffer.excessCounter
     \/ /\ buffer.minLatency > MaxExcess
        /\ crowded <= ExcessInterval + buffer.excessCounter
  /\ ~captureStarted => crowded = 0

\* A delay that is known is applied in full, and none is longer than the filter
\* has room for.
DelayIsExact(b) ==
  /\ b.external = NoDelay
  /\ InternalDelay(b) - BufferLatency(b) <= LowRateSize - 2
  /\ b.delay # NoDelay => InternalDelay(b) - BufferLatency(b) = b.delay

\* The first call has no far end.
FirstCall ==
  /\ warm < 2 =>
       /\ ~renderStarted /\ ~captureStarted
       /\ step # "render" /\ renderFill = 0
       /\ BufferLatency(buffer) = 1
  /\ warm = 0 => step = "idle" /\ captureFill = 0
  /\ warm = 1 => captureFill = IF step = "idle" THEN 2 ELSE subFrame

\* The second starts both sides; its first mic block resets the buffer, and the
\* two after it find it empty.
SecondCall ==
  warm = 2 =>
    /\ step = "render" =>
         /\ renderFill = subFrame /\ captureFill = 2 /\ ~captureStarted
         /\ queued = 1
         /\ renderStarted \/ subFrame = 0
         /\ BufferLatency(buffer) = 1 + subFrame
    /\ step = "capture" =>
         /\ renderFill = 2 /\ captureFill = 2 + subFrame /\ renderStarted
         /\ captureStarted <=> subFrame # 0
         /\ BufferLatency(buffer) = IF subFrame = 0 THEN 3 ELSE 0
    /\ step = "idle" =>
         /\ renderFill = 2 /\ captureFill = 0
         /\ renderStarted /\ captureStarted
         /\ BufferLatency(buffer) = 0

\* From the third on the two sides give two blocks and three in turn, and the
\* far end is ahead by what the mic still holds.
LaterCalls ==
  warm = 3 =>
    /\ renderStarted /\ captureStarted /\ trouble = "none"
    /\ step = "idle" =>
         /\ renderFill = 2 - captureFill
         /\ BufferLatency(buffer) = IF captureFill = 0 THEN 0 ELSE 1
    /\ step = "render" =>
         /\ renderFill - subFrame = 2 - captureFill /\ queued = 1
         /\ BufferLatency(buffer) = subFrame + IF captureFill = 0 THEN 0 ELSE 1
    /\ step = "capture" =>
         /\ captureFill - subFrame = renderFill
         /\ BufferLatency(buffer) = 3 - subFrame

InStep ==
  use = "paired" =>
    /\ ~renderEvent
    /\ DelayIsExact(buffer)
    /\ FirstCall /\ SecondCall /\ LaterCalls

ProcessorInv == ProcessorTypes /\ BufferFits(buffer) /\ CrowdIsCounted

-----------------------------------------------------------------------------
(* The controller and the block processor.                                  *)

LEMMA ControllerResets ==
  ASSUME NEW c \in Controller, NEW confidence \in BOOLEAN
  PROVE  ResetController(c, confidence) \in Controller
BY DEF ResetController, Controller, Quality

\* Whatever the estimator finds, the controller's delay is one of Delays.
LEMMA ControllerHears ==
  ASSUME NEW c \in Controller, NEW e \in Estimate
  PROVE  GetDelay(c, e) \in Controller
<1> DEFINE found == e.found # "nothing"
           quality == IF e.found = "converged" THEN "refined" ELSE "coarse"
           significant == c.significant \/ e.found = "converged"
           sample == IF found THEN e.delay ELSE c.sample
           sampleQuality == IF found THEN quality ELSE c.sampleQuality
           heard == [c EXCEPT !.significant = significant, !.sample = sample,
                              !.sampleQuality = sampleQuality]
           limit == IF heard.lastQuality = "refined"
                         /\ heard.sampleQuality = "refined"
                    THEN Hysteresis ELSE 0
           delay == ComputeBufferDelay(heard.delay, limit, heard.sample)
           followed == [heard EXCEPT !.delay = delay,
                                     !.lastQuality = heard.sampleQuality]
<1>1. /\ c.sample \in {NoDelay} \cup Delays /\ c.sampleQuality \in Quality
      /\ c.significant \in BOOLEAN
  BY DEF Controller
<1>2. found => e.delay \in Delays  BY DEF Estimate
<1>3. significant \in BOOLEAN  OBVIOUS
<1>4. sample \in {NoDelay} \cup Delays  BY <1>1, <1>2
<1>5. sampleQuality \in Quality  BY <1>1 DEF Quality
<1>6. GetDelay(c, e) = IF heard.sample = NoDelay THEN heard ELSE followed
  BY DEF GetDelay
<1> HIDE DEF significant, sample, sampleQuality
<1>7. heard \in Controller  BY <1>3, <1>4, <1>5 DEF Controller
<1> HIDE DEF heard
<1>8. delay \in {NoDelay} \cup Delays  BY <1>7 DEF ComputeBufferDelay, Controller
<1>9. heard.sampleQuality \in Quality  BY <1>7 DEF Controller
<1> HIDE DEF delay
<1>10. followed \in Controller  BY <1>7, <1>8, <1>9 DEF Controller
<1> HIDE DEF followed
<1> QED  BY <1>6, <1>7, <1>10

\* The buffer when a block has been read from b and d is the delay, if any.
Delayed(b, d) ==
  IF d = NoDelay THEN PrepareCaptureProcessing(b)
  ELSE AlignFromDelay(PrepareCaptureProcessing(b), d)

LEMMA DelayedFits ==
  ASSUME NEW b, BufferFits(b), NEW d \in {NoDelay} \cup Delays
  PROVE  /\ BufferFits(Delayed(b, d))
         /\ BufferLatency(Delayed(b, d)) = BufferLatency(PrepareCaptureProcessing(b))
         /\ SameCounters(Delayed(b, d), PrepareCaptureProcessing(b))
<1> DEFINE p == PrepareCaptureProcessing(b)
<1>1. BufferFits(p)  BY PrepareSets
<1>2. CASE d = NoDelay  BY <1>1, <1>2 DEF Delayed, SameCounters
<1>3. CASE d # NoDelay
  <2>1. d \in 0 .. MaxDelay  BY <1>3, EstimatorAssumption
  <2>2. Delayed(b, d) = AlignFromDelay(p, d)  BY <1>3 DEF Delayed
  <2> HIDE DEF p
  <2>3. /\ BufferFits(AlignFromDelay(p, d)) /\ SameCounters(AlignFromDelay(p, d), p)
        /\ BufferLatency(AlignFromDelay(p, d)) = BufferLatency(p)
    BY <1>1, <2>1, AlignSets
  <2> QED  BY <2>2, <2>3 DEF p
<1> QED  BY <1>2, <1>3

\* Where the pairing keeps the jitter within three blocks, a block read leaves
\* the delay exact, and nothing is thrown away.
LEMMA DelayedIsExact ==
  ASSUME PairedFits, NEW b, BufferFits(b), DelayIsExact(b), BufferLatency(b) <= 3,
         NEW d \in {NoDelay} \cup Delays
  PROVE  /\ DelayIsExact(Delayed(b, d))
         /\ ~DetectExcessRenderBlocks(b)
         /\ BufferLatency(Delayed(b, d)) = IF BufferLatency(b) = 0 THEN 0
                                           ELSE BufferLatency(b) - 1
<1> DEFINE p == PrepareCaptureProcessing(b)
           c == AlignFromDelay(p, d)
<1>1. /\ BufferLatency(b) \in Nat /\ InternalDelay(b) \in Nat
      /\ InternalDelay(b) >= BufferLatency(b)
      /\ b.delay \in {NoDelay} \cup (0 .. MaxDelay) /\ b.minLatency \in Nat
  <2>1. b \in Buffer /\ DelayFits(b)  BY DEF BufferFits
  <2>2. b.delay \in {NoDelay} \cup (0 .. MaxDelay) /\ b.minLatency \in Nat
    BY <2>1, SizesAre DEF Buffer
  <2> QED  BY <2>1, <2>2, SizesAre, Distances DEF DelayFits
<1>2. ~DetectExcessRenderBlocks(b)
  BY <1>1, SizesAre DEF DetectExcessRenderBlocks, ExcessLatency, Smaller, PairedFits
<1>3. /\ BufferFits(p) /\ p.external = b.external
      /\ BufferLatency(b) = 0 =>
           /\ BufferLatency(p) = 0
           /\ InternalDelay(p) = IF InternalDelay(b) = 0 THEN 0 ELSE InternalDelay(b) - 1
           /\ p.delay = IF b.delay > 0 THEN b.delay - 1 ELSE b.delay
      /\ BufferLatency(b) > 0 =>
           /\ BufferLatency(p) = BufferLatency(b) - 1
           /\ InternalDelay(p) = InternalDelay(b) - 1 /\ p.delay = b.delay
  BY <1>2, PrepareSets
<1> HIDE DEF p
<1>4. BufferLatency(p) = IF BufferLatency(b) = 0 THEN 0 ELSE BufferLatency(b) - 1
  BY <1>1, <1>3
<1>5. DelayIsExact(p)
  <2>1. CASE BufferLatency(b) = 0
    BY <1>1, <1>3, <2>1, SizesAre DEF DelayIsExact, NoDelay, PairedFits
  <2>2. CASE BufferLatency(b) > 0
    BY <1>1, <1>3, <2>2 DEF DelayIsExact
  <2> QED  BY <1>1, <2>1, <2>2
<1>6. CASE d = NoDelay
  BY <1>2, <1>4, <1>5, <1>6 DEF Delayed, p
<1>7. CASE d # NoDelay
  <2>1. d \in Delays /\ d \in 0 .. MaxDelay /\ d + 2 <= LowRateSize
    BY <1>7, EstimatorAssumption DEF PairedFits
  <2>2. Delayed(b, d) = c  BY <1>7 DEF Delayed, p
  <2>3. /\ c.delay = d /\ SameCounters(c, p) /\ BufferLatency(c) = BufferLatency(p)
        /\ p.delay = d => c = p
        /\ p.delay # d => InternalDelay(c) = Smaller(MaxDelay, BufferLatency(p) + d)
    BY <1>3, <2>1, AlignSets
  <2> HIDE DEF c
  <2>4. DelayIsExact(c)
    <3>1. CASE p.delay = d  BY <1>5, <2>3, <3>1
    <3>2. CASE p.delay # d
      <4>1. BufferLatency(p) + d <= MaxDelay /\ BufferLatency(p) \in Nat
        BY <1>1, <1>4, <2>1, SizesAre
      <4>2. InternalDelay(c) = BufferLatency(p) + d
        BY <2>1, <2>3, <3>2, <4>1, SizesAre DEF Smaller
      <4>3. c.external = NoDelay
        BY <1>5, <2>3 DEF DelayIsExact, SameCounters
      <4> QED  BY <2>1, <2>3, <4>1, <4>2, <4>3, SizesAre DEF DelayIsExact
    <3> QED  BY <3>1, <3>2
  <2> QED  BY <1>2, <1>4, <2>2, <2>3, <2>4
<1> QED  BY <1>6, <1>7

\* A mic block, once the far end has started, in terms of the above.
LEMMA BlockIsProcessed ==
  ASSUME ProcessorInv, NEW e \in Estimate, ProcessBlock(e)
  PROVE  LET b == IF captureStarted THEN buffer ELSE Reset(buffer)
         IN  /\ BufferFits(b)
             /\ \E d \in {NoDelay} \cup Delays : buffer' = Delayed(b, d)
             /\ controller' \in Controller
             /\ renderStarted' = renderStarted
             /\ captureStarted' /\ ~renderEvent' /\ renderEvent' \in BOOLEAN
             /\ captureStarted' \in BOOLEAN
             /\ crowded' = IF BufferLatency(b) > MaxExcess
                                /\ ~DetectExcessRenderBlocks(b)
                           THEN crowded + 1 ELSE 0
             /\ trouble' = IF DetectExcessRenderBlocks(b) \/ renderEvent THEN "flush"
                           ELSE IF PrepareUnderruns(b) THEN "underrun" ELSE "none"
<1> DEFINE b == IF captureStarted THEN buffer ELSE Reset(buffer)
           restarted == IF ~captureStarted \/ renderEvent
                        THEN ResetController(controller, TRUE) ELSE controller
           kept == IF PrepareUnderruns(b)
                   THEN ResetController(restarted, FALSE) ELSE restarted
           heard == GetDelay(kept, e)
<1>1. BufferFits(b)
  BY ResetSets DEF ProcessorInv, BufferFits
<1>2. controller \in Controller  BY DEF ProcessorInv, ProcessorTypes
<1>3. restarted \in Controller  BY <1>2, ControllerResets
<1>4. /\ captureStarted' = TRUE /\ renderEvent' = FALSE
      /\ renderStarted' = renderStarted
      /\ controller' = heard
      /\ buffer' = Delayed(b, heard.delay)
      /\ crowded' = IF BufferLatency(b) > MaxExcess /\ ~DetectExcessRenderBlocks(b)
                    THEN crowded + 1 ELSE 0
      /\ trouble' = IF DetectExcessRenderBlocks(b) \/ renderEvent THEN "flush"
                    ELSE IF PrepareUnderruns(b) THEN "underrun" ELSE "none"
  BY DEF ProcessBlock, Delayed
<1> HIDE DEF b, restarted
<1>5. kept \in Controller  BY <1>3, ControllerResets
<1> HIDE DEF kept
<1>6. heard \in Controller  BY <1>5, ControllerHears
<1>7. heard.delay \in {NoDelay} \cup Delays  BY <1>6 DEF Controller
<1> HIDE DEF heard
<1> QED  BY <1>1, <1>4, <1>6, <1>7 DEF b

\* No order of blocks loses the buffer's or the detector's books.
LEMMA CaptureBlockKeeps ==
  ASSUME ProcessorInv, ProcessCaptureBlock
  PROVE  ProcessorInv'
<1>1. CASE SkipBlock
  BY <1>1 DEF SkipBlock, processor, ProcessorInv, ProcessorTypes, CrowdIsCounted
<1>2. ASSUME NEW e \in Estimate, ProcessBlock(e) PROVE ProcessorInv'
  <2> DEFINE b == IF captureStarted THEN buffer ELSE Reset(buffer)
             p == PrepareCaptureProcessing(b)
  <2>1. /\ BufferFits(b)
        /\ controller' \in Controller
        /\ renderStarted' = renderStarted
        /\ captureStarted' /\ ~renderEvent' /\ renderEvent' \in BOOLEAN
        /\ captureStarted' \in BOOLEAN
        /\ crowded' = IF BufferLatency(b) > MaxExcess /\ ~DetectExcessRenderBlocks(b)
                      THEN crowded + 1 ELSE 0
        /\ trouble' = IF DetectExcessRenderBlocks(b) \/ renderEvent THEN "flush"
                      ELSE IF PrepareUnderruns(b) THEN "underrun" ELSE "none"
    BY <1>2, BlockIsProcessed
  <2>2. PICK d \in {NoDelay} \cup Delays : buffer' = Delayed(b, d)
    BY <1>2, BlockIsProcessed
  <2>3. b.external \in {NoDelay} \cup Nat /\ b.minLatency \in Nat
        /\ b.excessCounter \in 0 .. ExcessInterval - 1
    BY <2>1, SizesAre DEF BufferFits, Buffer
  <2>4. captureStarted \/ (crowded = 0 /\ BufferLatency(b) = 1)
    <3>1. ~captureStarted => BufferLatency(b) = 1
      BY ResetSets DEF ProcessorInv, BufferFits, IsReset
    <3> QED  BY <3>1 DEF ProcessorInv, CrowdIsCounted
  <2>5. captureStarted => b = buffer  OBVIOUS
  <2> HIDE DEF b
  <2>6. BufferFits(buffer') /\ SameCounters(buffer', p)
    BY <2>1, <2>2, DelayedFits
  <2>7. ProcessorTypes'
    BY <2>1 DEF ProcessorInv, ProcessorTypes
  <2>8. /\ crowded' <= buffer'.excessCounter
           \/ /\ buffer'.minLatency > MaxExcess
              /\ crowded' <= ExcessInterval + buffer'.excessCounter
    <3>1. buffer'.excessCounter \in Nat
      BY <2>6, SizesAre DEF BufferFits, Buffer
    <3>2. CASE crowded' = 0  BY <3>1, <3>2
    <3>3. CASE BufferLatency(b) > MaxExcess /\ ~DetectExcessRenderBlocks(b)
      <4>1. crowded' = crowded + 1 /\ captureStarted /\ b = buffer
        BY <2>1, <2>4, <2>5, <3>3, SizesAre
      <4>2. \/ crowded <= b.excessCounter
            \/ b.minLatency > MaxExcess /\ crowded <= ExcessInterval + b.excessCounter
        BY <4>1 DEF ProcessorInv, CrowdIsCounted
      <4>3. /\ p.minLatency = IF IsExcessCheck(b) THEN BufferLatency(b)
                              ELSE ExcessLatency(b)
            /\ p.excessCounter = IF IsExcessCheck(b) THEN 0 ELSE b.excessCounter + 1
        BY <2>1, <3>3, PrepareSets
      <4> HIDE DEF p
      <4>4. buffer'.minLatency = p.minLatency /\ buffer'.excessCounter = p.excessCounter
        BY <2>6 DEF SameCounters
      <4>5. crowded \in Nat /\ BufferLatency(b) \in Nat
        BY <2>1, SizesAre, Distances DEF ProcessorInv, ProcessorTypes, BufferFits
      <4>6. CASE IsExcessCheck(b)
        <5>1. b.minLatency <= MaxExcess
          BY <2>3, <3>3, <4>5, <4>6, SizesAre
             DEF DetectExcessRenderBlocks, ExcessLatency, Smaller
        <5> QED  BY <2>3, <3>3, <4>1, <4>2, <4>3, <4>4, <4>5, <4>6, <5>1, SizesAre
      <4>7. CASE ~IsExcessCheck(b)
        BY <2>3, <3>3, <4>1, <4>2, <4>3, <4>4, <4>5, <4>7, SizesAre
           DEF ExcessLatency, Smaller
      <4> QED  BY <4>6, <4>7
    <3> QED  BY <2>1, <3>2, <3>3
  <2> QED  BY <2>1, <2>6, <2>7, <2>8 DEF ProcessorInv, CrowdIsCounted
<1> QED  BY <1>1, <1>2 DEF ProcessCaptureBlock

LEMMA RenderBlockKeeps ==
  ASSUME ProcessorInv, BufferRender
  PROVE  ProcessorInv'
<1>1. /\ BufferFits(Insert(buffer))
      /\ InsertOverruns(buffer) => IsReset(Insert(buffer), buffer)
      /\ ~InsertOverruns(buffer) => SameRecord(Insert(buffer), buffer)
  BY InsertSets DEF ProcessorInv
<1>2. /\ renderEvent' = InsertOverruns(buffer) /\ buffer' = Insert(buffer)
      /\ renderStarted' = TRUE
      /\ crowded' = IF InsertOverruns(buffer) THEN 0 ELSE crowded
      /\ captureStarted' = captureStarted /\ controller' = controller
      /\ trouble' = trouble
  BY DEF BufferRender
<1>3. renderEvent' \in BOOLEAN  BY <1>2 DEF InsertOverruns, RenderOverrun
<1>4. ProcessorTypes'  BY <1>2, <1>3 DEF ProcessorInv, ProcessorTypes
<1>5. CrowdIsCounted'
  <2>1. CASE InsertOverruns(buffer)
    BY <1>1, <1>2, <2>1 DEF CrowdIsCounted, IsReset
  <2>2. CASE ~InsertOverruns(buffer)
    BY <1>1, <1>2, <2>2 DEF ProcessorInv, CrowdIsCounted, SameRecord, SameCounters
  <2> QED  BY <2>1, <2>2
<1> QED  BY <1>1, <1>2, <1>4, <1>5 DEF ProcessorInv

\* In step, a far-end block never overruns.
LEMMA PairedRenderBlock ==
  ASSUME PairedFits, ProcessorInv, DelayIsExact(buffer), BufferLatency(buffer) <= 2,
         BufferRender
  PROVE  /\ ~renderEvent' /\ DelayIsExact(buffer') /\ renderStarted'
         /\ BufferLatency(buffer') = BufferLatency(buffer) + 1
         /\ captureStarted' = captureStarted /\ trouble' = trouble
<1>1. /\ InsertOverruns(buffer) <=> \/ BufferLatency(buffer) + 1 = LowRateSize
                                    \/ InternalDelay(buffer) + 1 = BlocksSize
      /\ ~InsertOverruns(buffer) =>
           /\ SameRecord(Insert(buffer), buffer)
           /\ BufferLatency(Insert(buffer)) = BufferLatency(buffer) + 1
           /\ InternalDelay(Insert(buffer)) = InternalDelay(buffer) + 1
  BY InsertSets DEF ProcessorInv
<1>2. BufferLatency(buffer) \in Nat /\ InternalDelay(buffer) \in Nat
  BY SizesAre, Distances DEF ProcessorInv, BufferFits
<1>3. ~InsertOverruns(buffer)
  BY <1>1, <1>2, SizesAre DEF PairedFits, DelayIsExact
<1>4. DelayIsExact(Insert(buffer))
  BY <1>1, <1>2, <1>3 DEF DelayIsExact, SameRecord, SameCounters
<1> QED  BY <1>1, <1>3, <1>4 DEF BufferRender

\* In step, a mic block reads one block of far end, if it is not the first.
LEMMA PairedCaptureBlock ==
  ASSUME PairedFits, ProcessorInv, ~renderEvent, DelayIsExact(buffer),
         BufferLatency(buffer) <= 3, renderStarted, ProcessCaptureBlock
  PROVE  /\ ~renderEvent' /\ DelayIsExact(buffer')
         /\ captureStarted' /\ renderStarted'
         /\ BufferLatency(buffer') =
              IF captureStarted /\ BufferLatency(buffer) > 0
              THEN BufferLatency(buffer) - 1 ELSE 0
         /\ captureStarted /\ BufferLatency(buffer) > 0 => trouble' = "none"
<1>1. PICK e \in Estimate : ProcessBlock(e)
  BY DEF ProcessCaptureBlock, SkipBlock
<1> DEFINE b == IF captureStarted THEN buffer ELSE Reset(buffer)
<1>2. /\ BufferFits(b) /\ renderStarted' = renderStarted
      /\ captureStarted' /\ ~renderEvent'
      /\ trouble' = IF DetectExcessRenderBlocks(b) \/ renderEvent THEN "flush"
                    ELSE IF PrepareUnderruns(b) THEN "underrun" ELSE "none"
  BY <1>1, BlockIsProcessed
<1>3. PICK d \in {NoDelay} \cup Delays : buffer' = Delayed(b, d)
  BY <1>1, BlockIsProcessed
<1>4. captureStarted => b = buffer  OBVIOUS
<1>5. ~captureStarted => /\ BufferLatency(b) = 1 /\ DelayIsExact(b)
  <2>1. ~captureStarted => IsReset(b, buffer)
    BY ResetSets DEF ProcessorInv, BufferFits
  <2> HIDE DEF b
  <2> QED  BY <2>1, SizesAre DEF IsReset, DelayIsExact, PairedFits
<1> HIDE DEF b
<1>6. DelayIsExact(b) /\ BufferLatency(b) <= 3  BY <1>4, <1>5
<1>7. /\ DelayIsExact(buffer') /\ ~DetectExcessRenderBlocks(b)
      /\ BufferLatency(buffer') = IF BufferLatency(b) = 0 THEN 0
                                  ELSE BufferLatency(b) - 1
  BY <1>2, <1>3, <1>6, DelayedIsExact
<1>8. BufferLatency(buffer) \in Nat
  BY SizesAre, Distances DEF ProcessorInv, BufferFits
<1>9. PrepareUnderruns(b) => BufferLatency(b) = 0
  BY <1>2, UnderrunIsNoLatency DEF PrepareUnderruns, BufferFits
<1> QED  BY <1>2, <1>4, <1>5, <1>7, <1>8, <1>9

-----------------------------------------------------------------------------
(* The invariant holds.                                                     *)

IInv == FramesFit /\ ProcessorInv

LEMMA InitHolds == Init => IInv
<1> SUFFICES ASSUME Init PROVE IInv  OBVIOUS
<1>1. /\ buffer = NewBuffer /\ renderEvent = FALSE /\ renderStarted = FALSE
      /\ captureStarted = FALSE /\ controller = NewController /\ crowded = 0
      /\ trouble = "none"
  BY DEF Init
<1>2. FramesFit  BY EstimatorAssumption DEF Init, FramesFit, BlockLength
<1>3. controller \in Controller  BY <1>1 DEF NewController, Controller, Quality
<1>4. ProcessorTypes  BY <1>1, <1>3 DEF ProcessorTypes
<1>5. BufferFits(buffer) /\ CrowdIsCounted
  BY <1>1, NewBufferFits DEF CrowdIsCounted
<1> QED  BY <1>2, <1>4, <1>5 DEF IInv, ProcessorInv

\* What the frames and the blocks leave in the blockers and the framer.
LEMMA FramesKeepFitting == FramesFit /\ [Next]_vars => FramesFit'
<1> SUFFICES ASSUME FramesFit, [Next]_vars PROVE FramesFit'  OBVIOUS
<1> USE DEF FramesFit, BlockLength, SubFrame
<1>1. ASSUME NEW k \in NextBurst, ProcessCapture(k) PROVE FramesFit'
  <2>1. k \in 0 .. MaxBurst  BY EstimatorAssumption DEF NextBurst
  <2>2. warm' \in 0 .. 3  BY <1>1 DEF ProcessCapture, Smaller
  <2>3. queued' = k /\ step' = (IF k = 0 THEN "capture" ELSE "render")
        /\ (k # 0 => queued' >= 1)
    BY <1>1, <2>1 DEF ProcessCapture
  <2> QED  BY <1>1, <2>1, <2>2, <2>3 DEF ProcessCapture, framing
<1>2. ASSUME NEW ms \in ExternalMs, StreamDelay(ms) PROVE FramesFit'
  BY <1>2 DEF StreamDelay, framing, calls
<1>3. CASE RenderSubFrame
  BY <1>3 DEF RenderSubFrame
<1>4. CASE RenderRemainder \/ NoRenderRemainder
  <2>1. /\ step = "render" /\ subFrame = 2 /\ renderFill' \in {0, 2}
        /\ RenderFrameEnds
    BY <1>4 DEF RenderRemainder, NoRenderRemainder, IsBlockAvailable
  <2> QED  BY <2>1, EstimatorAssumption DEF RenderFrameEnds
<1>5. CASE CaptureSubFrame
  BY <1>5 DEF CaptureSubFrame
<1>6. CASE CaptureRemainder \/ NoCaptureRemainder
  <2>1. /\ step = "capture" /\ subFrame = 2 /\ captureFill' \in {0, 2}
        /\ outputFill' = BlockLength - captureFill' /\ CaptureFrameEnds
    BY <1>6 DEF CaptureRemainder, NoCaptureRemainder, IsBlockAvailable
  <2> QED  BY <2>1 DEF CaptureFrameEnds
<1>7. CASE UNCHANGED vars
  BY <1>7 DEF vars, framing, calls
<1> QED
  BY <1>1, <1>2, <1>3, <1>4, <1>5, <1>6, <1>7 DEF Next

LEMMA ProcessorKeepsBooks == ProcessorInv /\ [Next]_vars => ProcessorInv'
<1> SUFFICES ASSUME ProcessorInv, [Next]_vars PROVE ProcessorInv'  OBVIOUS
<1>1. ASSUME NEW k \in NextBurst, ProcessCapture(k) PROVE ProcessorInv'
  BY <1>1 DEF ProcessCapture, ProcessorInv, ProcessorTypes, CrowdIsCounted
<1>2. ASSUME NEW ms \in ExternalMs, StreamDelay(ms) PROVE ProcessorInv'
  <2> DEFINE external == ms \div 4
  <2>1. external \in Nat
    <3>1. ms \in Nat  BY EstimatorAssumption
    <3> QED  BY <3>1
  <2>2. buffer' = [buffer EXCEPT !.external = external]
    BY <1>2 DEF StreamDelay, SetAudioBufferDelay
  <2> HIDE DEF external
  <2>3. buffer \in Buffer /\ RingsAgree(buffer) /\ DelayFits(buffer)
    BY DEF ProcessorInv, BufferFits
  <2>4. buffer' \in Buffer  BY <2>1, <2>2, <2>3 DEF Buffer
  <2>5. /\ SameRings(buffer', buffer) /\ buffer'.delay = buffer.delay
        /\ buffer'.minLatency = buffer.minLatency
        /\ buffer'.excessCounter = buffer.excessCounter
    BY <2>2, <2>3 DEF Buffer, SameRings
  <2>6. BufferFits(buffer')
    BY <2>3, <2>4, <2>5, RingsAreIndices DEF BufferFits, DelayFits
  <2> QED
    BY <1>2, <2>5, <2>6 DEF StreamDelay, ProcessorInv, ProcessorTypes, CrowdIsCounted
<1>3. CASE BufferRender  BY <1>3, RenderBlockKeeps
<1>4. CASE ProcessCaptureBlock  BY <1>4, CaptureBlockKeeps
<1>5. CASE UNCHANGED processor
  BY <1>5 DEF processor, ProcessorInv, ProcessorTypes, CrowdIsCounted
<1> QED
  BY <1>1, <1>2, <1>3, <1>4, <1>5
     DEF Next, RenderSubFrame, RenderRemainder, NoRenderRemainder,
         CaptureSubFrame, CaptureRemainder, NoCaptureRemainder, vars

THEOREM Invariance == Spec => []IInv
<1>1. IInv /\ [Next]_vars => IInv'
  BY FramesKeepFitting, ProcessorKeepsBooks DEF IInv
<1> QED  BY <1>1, InitHolds, PTL DEF Spec

-----------------------------------------------------------------------------
(* zMeet's calls.                                                           *)

LEMMA StartsInStep == PairedFits /\ Init => InStep
<1> SUFFICES ASSUME PairedFits, Init PROVE InStep  OBVIOUS
<1>1. DelayIsExact(buffer)
  BY NewBufferFits, SizesAre DEF Init, DelayIsExact, PairedFits
<1> QED
  BY <1>1, NewBufferFits DEF Init, InStep, FirstCall, SecondCall, LaterCalls

LEMMA StaysInStep == PairedFits /\ IInv /\ InStep /\ [Next]_vars => InStep'
<1> SUFFICES ASSUME PairedFits, IInv, InStep, [Next]_vars, use' = "paired"
             PROVE  InStep'
  BY DEF InStep
<1>1. use = "paired"
  BY DEF Next, ProcessCapture, StreamDelay, RenderSubFrame, RenderRemainder,
         RenderFrameEnds, NoRenderRemainder, CaptureSubFrame, CaptureRemainder,
         CaptureFrameEnds, NoCaptureRemainder, vars
<1>2. /\ ~renderEvent /\ DelayIsExact(buffer)
      /\ FirstCall /\ SecondCall /\ LaterCalls
  BY <1>1 DEF InStep
<1>3. FramesFit /\ ProcessorInv  BY DEF IInv
<1> USE DEF FirstCall, SecondCall, LaterCalls, BlockLength, SubFrame
<1>4. ASSUME NEW k \in NextBurst, ProcessCapture(k) PROVE InStep'
  <2>1. k = (IF warm = 0 THEN 0 ELSE 1)  BY <1>1 DEF NextBurst
  <2>2. warm' = (IF warm = 3 THEN 3 ELSE warm + 1)
    BY <1>3, <1>4 DEF ProcessCapture, Smaller, FramesFit
  <2>3. buffer' = buffer /\ renderEvent' = renderEvent  BY <1>4 DEF ProcessCapture
  <2>4. FirstCall' /\ SecondCall' /\ LaterCalls'
    BY <1>2, <1>3, <1>4, <2>1, <2>2, <2>3 DEF ProcessCapture, FramesFit, framing
  <2> QED  BY <1>2, <2>3, <2>4 DEF InStep
<1>5. ASSUME NEW ms \in ExternalMs, StreamDelay(ms) PROVE InStep'
  BY <1>1, <1>5 DEF StreamDelay
<1>6. CASE RenderSubFrame
  <2>1. BufferLatency(buffer) <= 2 /\ warm \in {2, 3}
    BY <1>2, <1>3, <1>6 DEF RenderSubFrame, FramesFit
  <2>2. /\ ~renderEvent' /\ DelayIsExact(buffer') /\ renderStarted'
        /\ BufferLatency(buffer') = BufferLatency(buffer) + 1
        /\ captureStarted' = captureStarted /\ trouble' = trouble
    BY <1>2, <1>3, <1>6, <2>1, PairedRenderBlock DEF RenderSubFrame
  <2>3. FirstCall' /\ SecondCall' /\ LaterCalls'
    BY <1>2, <1>3, <1>6, <2>1, <2>2 DEF RenderSubFrame, FramesFit
  <2> QED  BY <2>2, <2>3 DEF InStep
<1>7. CASE RenderRemainder
  <2>1. BufferLatency(buffer) = 2 /\ warm = 3
    BY <1>2, <1>3, <1>7 DEF RenderRemainder, IsBlockAvailable, FramesFit
  <2>2. /\ ~renderEvent' /\ DelayIsExact(buffer') /\ renderStarted'
        /\ BufferLatency(buffer') = BufferLatency(buffer) + 1
        /\ captureStarted' = captureStarted /\ trouble' = trouble
    BY <1>2, <1>3, <1>7, <2>1, PairedRenderBlock DEF RenderRemainder
  <2>3. FirstCall' /\ SecondCall' /\ LaterCalls'
    BY <1>2, <1>3, <1>7, <2>1, <2>2
       DEF RenderRemainder, RenderFrameEnds, IsBlockAvailable, FramesFit
  <2> QED  BY <2>2, <2>3 DEF InStep
<1>8. CASE NoRenderRemainder
  <2>1. UNCHANGED <<buffer, renderEvent, renderStarted, captureStarted, trouble>>
    BY <1>8 DEF NoRenderRemainder, processor
  <2>2. FirstCall' /\ SecondCall' /\ LaterCalls'
    BY <1>2, <1>3, <1>8, <2>1
       DEF NoRenderRemainder, RenderFrameEnds, IsBlockAvailable, FramesFit
  <2> QED  BY <1>2, <2>1, <2>2 DEF InStep
<1>9. ASSUME ProcessCaptureBlock, renderStarted, BufferLatency(buffer) <= 3
      PROVE  /\ ~renderEvent' /\ DelayIsExact(buffer')
             /\ captureStarted' /\ renderStarted'
             /\ BufferLatency(buffer') =
                  IF captureStarted /\ BufferLatency(buffer) > 0
                  THEN BufferLatency(buffer) - 1 ELSE 0
             /\ captureStarted /\ BufferLatency(buffer) > 0 => trouble' = "none"
  BY <1>2, <1>3, <1>9, PairedCaptureBlock
<1>10. ASSUME ProcessCaptureBlock, ~renderStarted
       PROVE  UNCHANGED <<buffer, renderEvent, renderStarted, captureStarted, trouble>>
  BY <1>10 DEF ProcessCaptureBlock, ProcessBlock, SkipBlock, processor
<1>11. CASE CaptureSubFrame
  <2>1. CASE ~renderStarted
    <3>1. UNCHANGED <<buffer, renderEvent, renderStarted, captureStarted, trouble>>
      BY <1>10, <1>11, <2>1 DEF CaptureSubFrame
    <3>2. FirstCall' /\ SecondCall' /\ LaterCalls'
      BY <1>2, <1>3, <1>11, <2>1, <3>1 DEF CaptureSubFrame, FramesFit
    <3> QED  BY <1>2, <3>1, <3>2 DEF InStep
  <2>2. CASE renderStarted
    <3>1. BufferLatency(buffer) <= 3 /\ warm \in {2, 3}
      BY <1>2, <1>3, <1>11, <2>2 DEF CaptureSubFrame, FramesFit
    <3>2. FirstCall' /\ SecondCall' /\ LaterCalls'
      BY <1>2, <1>3, <1>9, <1>11, <2>2, <3>1 DEF CaptureSubFrame, FramesFit
    <3> QED  BY <1>9, <1>11, <2>2, <3>1, <3>2 DEF InStep, CaptureSubFrame
  <2> QED  BY <2>1, <2>2
<1>12. CASE CaptureRemainder
  <2>1. renderStarted /\ BufferLatency(buffer) <= 3 /\ warm \in {2, 3}
    BY <1>2, <1>3, <1>12 DEF CaptureRemainder, IsBlockAvailable, FramesFit
  <2>2. FirstCall' /\ SecondCall' /\ LaterCalls'
    BY <1>2, <1>3, <1>9, <1>12, <2>1
       DEF CaptureRemainder, CaptureFrameEnds, IsBlockAvailable, FramesFit
  <2> QED  BY <1>9, <1>12, <2>1, <2>2 DEF InStep, CaptureRemainder
<1>13. CASE NoCaptureRemainder
  <2>1. UNCHANGED <<buffer, renderEvent, renderStarted, captureStarted, trouble>>
    BY <1>13 DEF NoCaptureRemainder, processor
  <2>2. FirstCall' /\ SecondCall' /\ LaterCalls'
    BY <1>2, <1>3, <1>13, <2>1
       DEF NoCaptureRemainder, CaptureFrameEnds, IsBlockAvailable, FramesFit
  <2> QED  BY <1>2, <2>1, <2>2 DEF InStep
<1>14. CASE UNCHANGED vars
  BY <1>2, <1>14 DEF vars, framing, calls, processor, InStep
<1> QED
  BY <1>4, <1>5, <1>6, <1>7, <1>8, <1>11, <1>12, <1>13, <1>14 DEF Next

THEOREM PairedInvariance == PairedFits => (Spec => [](IInv /\ InStep))
<1> SUFFICES ASSUME PairedFits PROVE Spec => [](IInv /\ InStep)  OBVIOUS
<1>1. Init => IInv /\ InStep  BY InitHolds, StartsInStep
<1>2. IInv /\ InStep /\ [Next]_vars => (IInv /\ InStep)'
  BY FramesKeepFitting, ProcessorKeepsBooks, StaysInStep DEF IInv
<1> QED  BY <1>1, <1>2, PTL DEF Spec

-----------------------------------------------------------------------------
(* The properties.                                                          *)

\* The cleaned mic is exactly one block late and no blocker or framer is fed
\* or emptied out of turn, for any sizes and any order of calls.
THEOREM OneBlockLate == Spec => []CaptureIsOneBlockLate
<1>1. IInv => CaptureIsOneBlockLate
  BY DEF IInv, FramesFit, CaptureIsOneBlockLate, IsBlockAvailable, BlockLength
<1> QED  BY <1>1, Invariance, PTL

\* However overruns and underruns restart the count, a surplus of far end is
\* thrown away before two detection intervals have passed.
THEOREM SurplusIsNoticed == Spec => []ExcessIsNoticed
<1>1. IInv => ExcessIsNoticed
  <2> SUFFICES ASSUME IInv PROVE ExcessIsNoticed  OBVIOUS
  <2>1. buffer.excessCounter \in 0 .. ExcessInterval - 1
    BY DEF IInv, ProcessorInv, BufferFits, Buffer
  <2>2. crowded \in Nat /\ CrowdIsCounted  BY DEF IInv, ProcessorInv, ProcessorTypes
  <2> QED  BY <2>1, <2>2, SizesAre DEF CrowdIsCounted, ExcessIsNoticed
<1> QED  BY <1>1, Invariance, PTL

\* The delay subtracted from two rings is never negative, and the delay on
\* record is the one that is applied: with zMeet's calls exactly.
THEOREM DelayTruth == PairedFits => (Spec => []DelayIsTrue)
<1> SUFFICES ASSUME PairedFits PROVE Spec => []DelayIsTrue  OBVIOUS
<1>1. IInv /\ InStep => DelayIsTrue
  <2> SUFFICES ASSUME IInv, InStep PROVE DelayIsTrue  OBVIOUS
  <2>1. BufferFits(buffer) /\ DelayFits(buffer) /\ buffer \in Buffer
    BY DEF IInv, ProcessorInv, BufferFits
  <2>2. BufferLatency(buffer) \in Nat /\ InternalDelay(buffer) \in Nat
    BY <2>1, SizesAre, Distances
  <2>3. ComputeDelay(buffer) = InternalDelay(buffer) - BufferLatency(buffer)
    BY DEF ComputeDelay
  <2>4. DelayIsNotNegative  BY <2>1, <2>2, <2>3 DEF DelayFits, DelayIsNotNegative
  <2>5. DelayIsApplied
    BY <2>1, <2>2, <2>3 DEF DelayFits, DelayIsApplied, InStep, DelayIsExact
  <2>6. TypeOK
    <3>1. /\ step \in {"idle", "render", "capture"} /\ subFrame \in 0 .. 2
          /\ queued \in 0 .. MaxBurst /\ warm \in 0 .. 3
          /\ use \in {"paired", "bursts"}
      BY DEF IInv, FramesFit
    <3>2. renderFill \in 0 .. BlockLength /\ captureFill \in 0 .. BlockLength
          /\ outputFill \in 0 .. BlockLength
      BY DEF IInv, FramesFit, BlockLength
    <3>3. ProcessorTypes  BY DEF IInv, ProcessorInv
    <3> QED  BY <2>1, <3>1, <3>2, <3>3 DEF TypeOK, ProcessorTypes, Controller
  <2> QED  BY <2>4, <2>5, <2>6 DEF DelayIsTrue
<1> QED  BY <1>1, PairedInvariance, PTL

\* With zMeet's calls no newer block has overwritten the filter's past.
THEOREM FilterKeepsItsPast == PairedFits => (Spec => []FilterHistoryIntact)
<1> SUFFICES ASSUME PairedFits PROVE Spec => []FilterHistoryIntact  OBVIOUS
<1>1. IInv /\ InStep => FilterHistoryIntact
  <2> SUFFICES ASSUME IInv, InStep, use = "paired"
               PROVE  InternalDelay(buffer) + FilterLength <= BlocksSize
    BY DEF FilterHistoryIntact
  <2>1. BufferLatency(buffer) \in Nat /\ InternalDelay(buffer) \in Nat
    BY SizesAre, Distances DEF IInv, ProcessorInv, BufferFits
  <2>2. InternalDelay(buffer) - BufferLatency(buffer) <= LowRateSize - 2
    BY DEF InStep, DelayIsExact
  <2>3. BufferLatency(buffer) <= 3
    BY DEF InStep, FirstCall, SecondCall, LaterCalls, IInv, FramesFit
  <2> QED  BY <2>1, <2>2, <2>3, SizesAre
<1> QED  BY <1>1, PairedInvariance, PTL

\* A surplus is noticed in time, and zMeet's calls settle within two: then
\* nothing underruns and nothing is thrown away.
THEOREM AlarmsAreTrue == PairedFits => (Spec => []AlarmsAreRight)
<1> SUFFICES ASSUME PairedFits PROVE Spec => []AlarmsAreRight  OBVIOUS
<1>1. InStep => PairedUseIsSmooth
  BY DEF InStep, LaterCalls, PairedUseIsSmooth
<1> QED  BY <1>1, PairedInvariance, SurplusIsNoticed, PTL DEF AlarmsAreRight
=============================================================================
