--------------------------- MODULE EchoCanceller3 ---------------------------
(***************************************************************************)
(* The capture side of the echo canceller: aec3/echo_canceller3.cc,        *)
(* block_processor.cc, render_delay_controller.cc, frame_blocker.cc and    *)
(* block_framer.cc over the RenderDelayBuffer.  One thread runs all of it. *)
(*                                                                         *)
(* A call brings the far-end frames queued since the last one and a mic    *)
(* frame.  A frame of 160 samples is two sub-frames of 80, but everything  *)
(* inside works on blocks of 64, so frames give two or three blocks in     *)
(* turn; a buffer's fill is counted in units of 16 samples (a sub-frame is *)
(* 5, a block 4).  Each step below is one block.                           *)
(*                                                                         *)
(* The delay estimator's search over the signal is left out: whether it    *)
(* finds a delay, and which, is a choice.                                  *)
(***************************************************************************)
EXTENDS RenderDelayBuffer

CONSTANTS
  Delays,         \* the delays, in blocks, the estimator may find
  ExternalMs,     \* what zm_apm_set_stream_delay_ms may be told
  Hysteresis,     \* delay.hysteresis_limit_blocks (1)
  MaxBurst        \* bound: far-end frames queued between two mic frames

ASSUME EstimatorAssumption ==
  /\ Delays \subseteq 0 .. MaxDelay
  /\ ExternalMs \subseteq 0 .. 500
  /\ Hysteresis \in Nat
  /\ MaxBurst \in Nat \ {0}

SubFrame == 5     \* kSubFrameLength, in units of 16 samples
BlockLength == 4  \* kBlockSize

VARIABLES
  use,            \* "paired" (zMeet's calls) or "bursts" (two threads)
  step,           \* where the call is: "idle", "render" or "capture"
  subFrame,       \* 0 and 1: that sub-frame is next; 2: what remains
  queued,         \* far-end frames left in the transfer queue
  warm,           \* calls so far, up to 3
  renderFill,     \* render_blocker_'s buffer
  captureFill,    \* capture_blocker_'s buffer
  outputFill,     \* output_framer_'s buffer
  buffer,         \* render_buffer_
  renderEvent,    \* render_event_ is kRenderOverrun
  renderStarted,  \* render_properly_started_
  captureStarted, \* capture_properly_started_
  controller,     \* delay_controller_
  crowded,        \* history: blocks in a row that found too much queued
  trouble         \* history: "none", or what the last block of the call met

framing == <<renderFill, captureFill, outputFill>>
processor == <<buffer, renderEvent, renderStarted, captureStarted,
               controller, crowded, trouble>>
calls == <<step, subFrame, queued, warm>>
vars == <<use, calls, framing, processor>>

Quality == {"coarse", "refined"}

TypeOK ==
  /\ use \in {"paired", "bursts"}
  /\ step \in {"idle", "render", "capture"}
  /\ subFrame \in 0 .. 2
  /\ queued \in 0 .. MaxBurst
  /\ warm \in 0 .. 3
  /\ renderFill \in 0 .. BlockLength
  /\ captureFill \in 0 .. BlockLength
  /\ outputFill \in 0 .. BlockLength
  /\ buffer \in Buffer
  /\ renderEvent \in BOOLEAN
  /\ renderStarted \in BOOLEAN
  /\ captureStarted \in BOOLEAN
  /\ controller.delay \in {NoDelay} \cup Delays
  /\ controller.sample \in {NoDelay} \cup Delays
  /\ controller.sampleQuality \in Quality
  /\ controller.lastQuality \in Quality
  /\ controller.significant \in BOOLEAN
  /\ crowded \in Nat
  /\ trouble \in {"none", "underrun", "flush"}

NewController ==
  [delay |-> NoDelay, sample |-> NoDelay, sampleQuality |-> "coarse",
   lastQuality |-> "coarse", significant |-> FALSE]

\* The framer starts with a block of silence: what the output lags behind.
Init ==
  /\ use \in {"paired", "bursts"}
  /\ step = "idle"
  /\ subFrame = 0
  /\ queued = 0
  /\ warm = 0
  /\ renderFill = 0
  /\ captureFill = 0
  /\ outputFill = BlockLength
  /\ buffer = NewBuffer
  /\ renderEvent = FALSE
  /\ renderStarted = FALSE
  /\ captureStarted = FALSE
  /\ controller = NewController
  /\ crowded = 0
  /\ trouble = "none"

-----------------------------------------------------------------------------
(* render_delay_controller.cc                                               *)

\* A reset that keeps the confidence keeps what says how sure it was.
ResetController(c, confidence) ==
  [c EXCEPT !.delay = NoDelay, !.sample = NoDelay,
            !.lastQuality = IF confidence THEN "coarse" ELSE @,
            !.significant = IF confidence THEN FALSE ELSE @]

\* MatchedFilterLagAggregator::Aggregate: a peak above the higher threshold
\* is significant, and from then on the lower one is not enough.
Estimate == [found : {"nothing"}, delay : {0}]
              \cup [found : {"initial", "converged"}, delay : Delays]
CanEstimate(c, e) == e.found = "initial" => ~c.significant

\* Follow an increase only when it is more than the hysteresis.
ComputeBufferDelay(current, limit, delay) ==
  IF current # NoDelay /\ delay > current /\ delay <= current + limit
  THEN current ELSE delay

GetDelay(c, e) ==
  LET found == e.found # "nothing"
      quality == IF e.found = "converged" THEN "refined" ELSE "coarse"
      heard == [c EXCEPT
                  !.significant = @ \/ e.found = "converged",
                  !.sample = IF found THEN e.delay ELSE @,
                  !.sampleQuality = IF found THEN quality ELSE @]
      limit == IF heard.lastQuality = "refined"
                    /\ heard.sampleQuality = "refined"
               THEN Hysteresis ELSE 0
  IN  IF heard.sample = NoDelay THEN heard
      ELSE [heard EXCEPT
              !.delay = ComputeBufferDelay(@, limit, heard.sample),
              !.lastQuality = heard.sampleQuality]

-----------------------------------------------------------------------------
(* block_processor.cc                                                       *)

\* render_event_ is that of the latest block: a block that fits wipes out an
\* overrun before it.
BufferRender ==
  /\ renderEvent' = InsertOverruns(buffer)
  /\ buffer' = Insert(buffer)
  /\ renderStarted' = TRUE
  /\ crowded' = IF InsertOverruns(buffer) THEN 0 ELSE crowded
  /\ UNCHANGED <<captureStarted, controller, trouble>>

ProcessBlock(e) ==
  LET started == IF captureStarted THEN buffer ELSE Reset(buffer)
      prepared == PrepareCaptureProcessing(started)
      restarted == IF ~captureStarted \/ renderEvent
                   THEN ResetController(controller, TRUE) ELSE controller
      kept == IF PrepareUnderruns(started)
              THEN ResetController(restarted, FALSE) ELSE restarted
      heard == GetDelay(kept, e)
  IN  /\ renderStarted
      /\ CanEstimate(kept, e)
      /\ captureStarted' = TRUE
      /\ renderEvent' = FALSE
      /\ controller' = heard
      /\ buffer' = IF heard.delay = NoDelay THEN prepared
                   ELSE AlignFromDelay(prepared, heard.delay)
      /\ crowded' = IF BufferLatency(started) > MaxExcess
                         /\ ~DetectExcessRenderBlocks(started)
                    THEN crowded + 1 ELSE 0
      /\ trouble' = IF DetectExcessRenderBlocks(started) \/ renderEvent
                    THEN "flush"
                    ELSE IF PrepareUnderruns(started) THEN "underrun"
                    ELSE "none"
      /\ UNCHANGED renderStarted

\* Without far-end signal the mic block passes as it is.
SkipBlock == ~renderStarted /\ UNCHANGED processor

ProcessCaptureBlock == (\E e \in Estimate : ProcessBlock(e)) \/ SkipBlock

-----------------------------------------------------------------------------
(* echo_canceller3.cc.                                                      *)

\* With one queue each mic frame follows one far-end frame; the first one was
\* lost with the canceller the first mic frame replaced.
NextBurst == IF use = "bursts" THEN 0 .. MaxBurst
             ELSE IF warm = 0 THEN {0} ELSE {1}

ProcessCapture(k) ==
  /\ step = "idle"
  /\ queued' = k
  /\ step' = IF k = 0 THEN "capture" ELSE "render"
  /\ subFrame' = 0
  /\ warm' = Smaller(warm + 1, 3)
  /\ trouble' = "none"
  /\ UNCHANGED <<use, framing, buffer, renderEvent, renderStarted,
                 captureStarted, controller, crowded>>

\* zm_apm_set_stream_delay_ms, which zMeet does not use.
StreamDelay(ms) ==
  /\ step = "idle" /\ use = "bursts" /\ buffer.external = NoDelay
  /\ buffer' = SetAudioBufferDelay(buffer, ms)
  /\ UNCHANGED <<use, calls, framing, renderEvent, renderStarted,
                 captureStarted, controller, crowded, trouble>>

\* Mutant: the block that is left after every second frame is overlooked.
IsBlockNeverAvailable(fill) == FALSE

IsBlockAvailable(fill) == fill = BlockLength

RenderSubFrame ==
  /\ step = "render" /\ subFrame < 2
  /\ renderFill' = renderFill + SubFrame - BlockLength
  /\ BufferRender
  /\ subFrame' = subFrame + 1
  /\ UNCHANGED <<use, step, queued, warm, captureFill, outputFill>>

RenderFrameEnds ==
  /\ queued' = queued - 1
  /\ subFrame' = 0
  /\ step' = IF queued = 1 THEN "capture" ELSE "render"
  /\ UNCHANGED <<use, warm, captureFill, outputFill>>

\* Mutant: the remaining block is taken out but not passed on.
RenderRemainderDropped ==
  /\ step = "render" /\ subFrame = 2
  /\ IsBlockAvailable(renderFill)
  /\ renderFill' = 0
  /\ RenderFrameEnds
  /\ UNCHANGED processor

RenderRemainder ==
  /\ step = "render" /\ subFrame = 2
  /\ IsBlockAvailable(renderFill)
  /\ renderFill' = 0
  /\ BufferRender
  /\ RenderFrameEnds

NoRenderRemainder ==
  /\ step = "render" /\ subFrame = 2
  /\ ~IsBlockAvailable(renderFill)
  /\ RenderFrameEnds
  /\ UNCHANGED <<renderFill, processor>>

CaptureSubFrame ==
  /\ step = "capture" /\ subFrame < 2
  /\ captureFill' = captureFill + SubFrame - BlockLength
  /\ outputFill' = outputFill + BlockLength - SubFrame
  /\ ProcessCaptureBlock
  /\ subFrame' = subFrame + 1
  /\ UNCHANGED <<use, step, queued, warm, renderFill>>

CaptureFrameEnds ==
  /\ step' = "idle"
  /\ subFrame' = 0
  /\ UNCHANGED <<use, queued, warm, renderFill>>

CaptureRemainder ==
  /\ step = "capture" /\ subFrame = 2
  /\ IsBlockAvailable(captureFill)
  /\ captureFill' = 0
  /\ outputFill' = outputFill + BlockLength
  /\ ProcessCaptureBlock
  /\ CaptureFrameEnds

NoCaptureRemainder ==
  /\ step = "capture" /\ subFrame = 2
  /\ ~IsBlockAvailable(captureFill)
  /\ CaptureFrameEnds
  /\ UNCHANGED <<captureFill, outputFill, processor>>

Next ==
  \/ \E k \in NextBurst : ProcessCapture(k)
  \/ \E ms \in ExternalMs : StreamDelay(ms)
  \/ RenderSubFrame \/ RenderRemainder \/ NoRenderRemainder
  \/ CaptureSubFrame \/ CaptureRemainder \/ NoCaptureRemainder

Spec == Init /\ [][Next]_vars

-----------------------------------------------------------------------------
(* Properties                                                               *)

(* The delay on record is the one the buffers apply, jitter taken off: the *)
(* two are kept up by different lines (Insert, the underrun branch of      *)
(* PrepareCaptureProcessing, AlignFromDelay), and once they differ         *)
(* AlignFromDelay no longer corrects them.  Only after a burst, when the   *)
(* delay asked for does not fit, is less applied than recorded.            *)
DelayIsApplied ==
  buffer.delay # NoDelay =>
    /\ ComputeDelay(buffer) <= buffer.delay
    /\ use = "paired" => ComputeDelay(buffer) = buffer.delay

(* Delay() is never negative, though ComputeDelay subtracts two ring       *)
(* distances that wrap at different sizes and hands the result out as a    *)
(* size_t (render_delay_buffer.cc, BlockProcessorImpl::ProcessCapture).    *)
DelayIsNotNegative == ComputeDelay(buffer) >= 0

(* The delay on record is a delay, and the one that is applied.             *)
DelayIsTrue == TypeOK /\ DelayIsApplied /\ DelayIsNotNegative

(* With zMeet's calls the filter's FilterLength blocks behind the read     *)
(* index are still the far end's past: no block of them was overwritten by *)
(* newer ones.  (Bursts of two threads can overwrite some of them.)        *)
FilterHistoryIntact ==
  use = "paired" => InternalDelay(buffer) + FilterLength <= BlocksSize

(* The cleaned mic comes out exactly one block of 64 samples late, and     *)
(* every precondition of FrameBlocker and BlockFramer holds on the way     *)
(* (EchoCanceller.swift, captureLatencySamples: a fixed amount "whatever   *)
(* the signal or the reference").                                          *)
CaptureIsOneBlockLate ==
  /\ step = "idle" => captureFill + outputFill = BlockLength
  /\ step = "capture" /\ subFrame < 2 =>
       captureFill < BlockLength /\ outputFill >= 1
  /\ step = "capture" /\ subFrame = 2 /\ IsBlockAvailable(captureFill) =>
       outputFill = 0

(* A surplus of far-end blocks is thrown away before two detection         *)
(* intervals have passed (DetectExcessRenderBlocks), whatever overruns and *)
(* underruns restart its counting.                                         *)
ExcessIsNoticed == crowded < 2 * ExcessInterval

(* With one far-end frame before each mic frame, and the first one lost,   *)
(* the uneven blocks of the two sides settle within two calls: from then   *)
(* on no underrun and no flush disturbs the filter ("AEC3 needs these      *)
(* calls strictly paired", EchoCanceller.swift).                           *)
PairedUseIsSmooth == use = "paired" /\ warm = 3 => trouble = "none"

(* The render buffer's own alarms: a surplus is never overlooked, and      *)
(* zMeet's calls raise none of the others.                                 *)
AlarmsAreRight == ExcessIsNoticed /\ PairedUseIsSmooth
=============================================================================
