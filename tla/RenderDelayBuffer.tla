-------------------------- MODULE RenderDelayBuffer --------------------------
(***************************************************************************)
(* aec3/render_delay_buffer.cc: the rings that hold the far-end signal so  *)
(* that the echo remover reads it as late as the echo arrives.  Two rings  *)
(* move together: low_rate_, in which the delay is searched, and blocks_   *)
(* with its mirror images spectra_ and ffts_, from which the filter reads. *)
(* How far low_rate_ is read behind its write index is the call jitter     *)
(* (BufferLatency); how far blocks_ is read behind is the whole delay.     *)
(*                                                                         *)
(* The buffer is a record and each method an operator on it.  Low-rate     *)
(* indices count sub-blocks, not samples: the code moves them in whole     *)
(* sub-blocks only.  spectra_ stands for ffts_ too: every line that moves  *)
(* one moves the other.                                                    *)
(***************************************************************************)
EXTENDS Integers

CONSTANTS
  LowRateSize,    \* low_rate_.size in sub-blocks (153 in the code)
  FilterLength,   \* filter.refined.length_blocks, buffer_headroom_ (13)
  DefaultDelay,   \* delay.default_delay (5)
  ExcessInterval, \* excess_render_detection_interval_blocks (250)
  MaxExcess       \* max_allowed_excess_render_blocks (8)

ASSUME BufferAssumption ==
  /\ LowRateSize \in Nat \ {0, 1}
  /\ FilterLength \in Nat \ {0}
  /\ DefaultDelay \in 1 .. LowRateSize
  /\ ExcessInterval \in Nat \ {0}
  /\ MaxExcess \in Nat \ {0}

NoDelay == -1     \* a std::optional without a value

\* Mutant: no room for the filter behind the longest delay.
BlocksSizeWithoutFilter == LowRateSize + 1

\* GetRenderDelayBufferSize
BlocksSize == LowRateSize + FilterLength + 1
MaxDelay == BlocksSize - 1 - FilterLength

Smaller(i, j) == IF i < j THEN i ELSE j
OffsetIndex(i, offset, size) == (size + i + offset) % size

Buffer ==
  [lowRead : 0 .. LowRateSize - 1, lowWrite : 0 .. LowRateSize - 1,
   read : 0 .. BlocksSize - 1, write : 0 .. BlocksSize - 1,
   specRead : 0 .. BlocksSize - 1, specWrite : 0 .. BlocksSize - 1,
   delay : {NoDelay} \cup 0 .. MaxDelay,
   external : {NoDelay} \cup Nat,
   minLatency : 0 .. LowRateSize - 1,
   excessCounter : 0 .. ExcessInterval - 1]

-----------------------------------------------------------------------------
BufferLatency(b) == (LowRateSize + b.lowRead - b.lowWrite) % LowRateSize

\* The spectra are written downwards.
InternalDelay(b) == IF b.specRead >= b.specWrite THEN b.specRead - b.specWrite
                    ELSE BlocksSize + b.specRead - b.specWrite
ComputeDelay(b) == InternalDelay(b) - BufferLatency(b)

ApplyTotalDelay(b, delay) ==
  [b EXCEPT !.read = OffsetIndex(b.write, -delay, BlocksSize),
            !.specRead = OffsetIndex(b.specWrite, delay, BlocksSize)]

\* The delay set before: none, or the one the caller told of, less a margin.
Reset(b) ==
  LET cleared == [b EXCEPT
                    !.minLatency = 0, !.excessCounter = 0,
                    !.lowRead = OffsetIndex(b.lowWrite, 1, LowRateSize)]
      told == Smaller(IF b.external <= 2 THEN 1 ELSE b.external - 2, MaxDelay)
      applied == ApplyTotalDelay(cleared, told)
  IN  IF b.external = NoDelay
      THEN [ApplyTotalDelay(cleared, DefaultDelay) EXCEPT !.delay = NoDelay]
      ELSE [applied EXCEPT !.delay = ComputeDelay(applied)]

NewBuffer ==
  Reset([lowRead |-> 0, lowWrite |-> 0, read |-> 0, write |-> 0,
         specRead |-> 0, specWrite |-> 0, delay |-> DefaultDelay,
         external |-> NoDelay, minLatency |-> 0, excessCounter |-> 0])

-----------------------------------------------------------------------------
(* Insert: room for a block is made first, then the overrun is looked for. *)

IncrementWriteIndices(b) ==
  [b EXCEPT !.lowWrite = OffsetIndex(b.lowWrite, -1, LowRateSize),
            !.write = OffsetIndex(b.write, 1, BlocksSize),
            !.specWrite = OffsetIndex(b.specWrite, -1, BlocksSize)]

RenderOverrun(b) == b.lowRead = b.lowWrite \/ b.read = b.write

InsertOverruns(b) == RenderOverrun(IncrementWriteIndices(b))
Insert(b) == IF InsertOverruns(b) THEN Reset(IncrementWriteIndices(b))
             ELSE IncrementWriteIndices(b)

-----------------------------------------------------------------------------
(* PrepareCaptureProcessing.                                                *)

\* The smallest latency seen is looked at once every ExcessInterval blocks.
ExcessLatency(b) == Smaller(b.minLatency, BufferLatency(b))
IsExcessCheck(b) == b.excessCounter + 1 >= ExcessInterval
DetectExcessRenderBlocks(b) == IsExcessCheck(b) /\ ExcessLatency(b) > MaxExcess

NoteLatency(b) ==
  [b EXCEPT !.minLatency = IF IsExcessCheck(b) THEN BufferLatency(b)
                           ELSE ExcessLatency(b),
            !.excessCounter = IF IsExcessCheck(b) THEN 0 ELSE @ + 1]

RenderUnderrun(b) == b.lowRead = b.lowWrite

IncrementLowRateReadIndices(b) ==
  [b EXCEPT !.lowRead = OffsetIndex(b.lowRead, -1, LowRateSize)]
IncrementReadIndices(b) ==
  IF b.read = b.write THEN b
  ELSE [b EXCEPT !.read = OffsetIndex(b.read, 1, BlocksSize),
                 !.specRead = OffsetIndex(b.specRead, -1, BlocksSize)]

\* Mutant: the delay on record is not lowered with the delay that is applied.
PrepareKeepingDelay(b) ==
  LET noted == NoteLatency(b)
  IN  IF DetectExcessRenderBlocks(b) THEN Reset(noted)
      ELSE IF RenderUnderrun(b) THEN IncrementReadIndices(noted)
      ELSE IncrementReadIndices(IncrementLowRateReadIndices(noted))

\* At an underrun only blocks_ moves on, so the delay is one block less.
PrepareCaptureProcessing(b) ==
  LET noted == NoteLatency(b)
  IN  IF DetectExcessRenderBlocks(b) THEN Reset(noted)
      ELSE IF RenderUnderrun(b)
      THEN [IncrementReadIndices(noted) EXCEPT
              !.delay = IF @ > 0 THEN @ - 1 ELSE @]
      ELSE IncrementReadIndices(IncrementLowRateReadIndices(noted))

PrepareUnderruns(b) == ~DetectExcessRenderBlocks(b) /\ RenderUnderrun(b)

-----------------------------------------------------------------------------
\* The delay on record is the one asked for; the one applied is limited.
AlignFromDelay(b, delay) ==
  IF b.delay = delay THEN b
  ELSE ApplyTotalDelay([b EXCEPT !.delay = delay],
                       Smaller(MaxDelay, BufferLatency(b) + delay))

\* Blocks of 4 ms, rounded down.
SetAudioBufferDelay(b, delayMs) == [b EXCEPT !.external = delayMs \div 4]
=============================================================================
