---------------------------- MODULE EchoAligner -----------------------------
(***************************************************************************)
(* ZMeetCore/EchoAligner.swift as ZMeetApp/EchoCapture.swift drives it:    *)
(* the pairing of the microphone with the system audio before the echo     *)
(* canceller.  Both streams carry host times; the microphone is taken as   *)
(* contiguous, the system audio is placed against the latest microphone    *)
(* time into a ring, and a microphone frame waits for its reference until  *)
(* the hold runs out.                                                      *)
(*                                                                         *)
(* One unit of time is one sample.  A reference sample is represented by   *)
(* the host time it was played at, so where it lies says whether it lies   *)
(* right; microphone samples are only counted.  A frame's arrival is kept  *)
(* as the time it has waited, up to the hold.                              *)
(***************************************************************************)
EXTENDS Integers, Sequences

CONSTANTS
  FrameSize,       \* EchoCanceller.frameSize, 10 ms
  Capacity,        \* renderCapacityMs
  Tolerance,       \* placementToleranceMs
  MaxHold,         \* maxHoldMs
  InitialLead,     \* initialLeadMs
  LeadRange,       \* leadRangeMs, a set of consecutive integers
  WorkingWindow,   \* workingWindowMs
  RetargetDelay,   \* retargetDelayMs
  Locks,           \* delays the tracker may lock on
  Times,           \* host times a buffer may carry
  Lengths,         \* buffer lengths
  MaxMic,          \* bound: microphone samples in a recording
  MaxIndex,        \* bound: how far the reference may grow
  None,            \* Swift's nil
  Silence,         \* a reference sample that is silence
  Untimed          \* a reference sample that came without a usable host time

ASSUME SizesAssumption ==
  /\ FrameSize \in Nat \ {0} /\ Capacity \in Nat /\ Capacity >= FrameSize
  /\ Tolerance \in Nat /\ MaxHold \in Nat /\ InitialLead \in LeadRange
  /\ LeadRange \subseteq Int /\ WorkingWindow \subseteq Int
  /\ RetargetDelay \in Int /\ Locks \subseteq Int
  /\ Times \subseteq Int /\ Lengths \subseteq Nat \ {0}
ASSUME ValuesAssumption ==
  /\ None \notin Int /\ Silence \notin Int /\ Untimed \notin Int
  /\ None \notin [pts : Int, index : Int]

VARIABLES
  origin,         \* the first host time either stream showed
  micAnchor,      \* the latest microphone buffer with a host time
  micStarted,
  pending,        \* microphone samples not released, a count
  pendingStart,   \* the index of the first
  arrivals,       \* how long each complete pending frame has waited
  reference,      \* ring, renderEnd, renderCount and ringOffset
  lead,
  failed,         \* stats.failed
  phase,          \* the capture queue is in a release loop, or not
  fedEnd,         \* history: where the reference fed last ended
  staleEnd        \* history: reference before it was placed by a host time
                  \* of the microphone that a later one contradicted

mic == <<origin, micAnchor, micStarted, pending, pendingStart, arrivals>>
vars == <<mic, reference, lead, failed, phase, fedEnd, staleEnd>>

Content == {t + k : t \in Times, k \in UNION {0 .. l - 1 : l \in Lengths}}
             \cup {Silence, Untimed}

Ref == [ring : [0 .. Capacity - 1 -> Content], end : Int \cup {None},
        count : 0 .. Capacity, offset : 0 .. Capacity - 1]

TypeOK ==
  /\ origin \in Times \cup {None}
  /\ micAnchor = None \/ micAnchor \in [pts : Times, index : Int]
  /\ micStarted \in BOOLEAN
  /\ pending \in Nat
  /\ pendingStart \in Int
  /\ arrivals \in Seq(0 .. MaxHold)
  /\ Len(arrivals) = pending \div FrameSize
  /\ reference \in Ref
  /\ lead \in LeadRange
  /\ failed \in BOOLEAN
  /\ phase \in {"idle", "draining", "flushing", "finished"}
  /\ fedEnd \in Int \cup {None}
  /\ staleEnd \in Int \cup {None}

Init ==
  /\ origin = None
  /\ micAnchor = None
  /\ micStarted = FALSE
  /\ pending = 0
  /\ pendingStart = 0
  /\ arrivals = << >>
  /\ reference = [ring |-> [s \in 0 .. Capacity - 1 |-> Silence],
                  end |-> None, count |-> 0, offset |-> 0]
  /\ lead = InitialLead
  /\ failed = FALSE
  /\ phase = "idle"
  /\ fedEnd = None
  /\ staleEnd = None

Abs(n) == IF n < 0 THEN -n ELSE n

-----------------------------------------------------------------------------
(* The reference timeline.                                                  *)

Slot(r, index) == (index + r.offset) % Capacity

\* The samples from index r.end on, the newest Capacity kept.  Of the samples
\* that fall in one slot the last one stays.
WriteRender(r, samples) ==
  LET at(s) == {k \in DOMAIN samples : Slot(r, r.end + k - 1) = s}
      last(s) == CHOOSE k \in at(s) : \A j \in at(s) : j <= k
      count == r.count + Len(samples)
  IN  [r EXCEPT !.ring = [s \in DOMAIN @ |->
                            IF at(s) = {} THEN @[s] ELSE samples[last(s)]],
                !.end = @ + Len(samples),
                !.count = IF count > Capacity THEN Capacity ELSE count]

\* Silence that fills the ring by itself is not stored.
WriteSilence(r, count) ==
  IF count >= Capacity
    THEN [r EXCEPT !.end = @ + count, !.count = 0]
    ELSE WriteRender(r, [k \in 1 .. count |-> Silence])

\* Mutant: the ring offset moves the wrong way.
MovedBackwards(r, shift) ==
  IF r.end = None
    THEN r
    ELSE [r EXCEPT !.end = @ + shift, !.offset = (@ + shift) % Capacity]

Moved(r, shift) ==
  IF r.end = None
    THEN r
    ELSE [r EXCEPT !.end = @ + shift, !.offset = (@ - shift) % Capacity]

\* Where a buffer of system audio belongs (renderTarget): by the latest host
\* time of the microphone, or by the origin before there is one.
Anchor == IF micAnchor # None THEN micAnchor
            ELSE [pts |-> origin, index |-> 0]
RenderTarget(pts) ==
  IF micAnchor = None /\ origin = None
    THEN 0
    ELSE Anchor.index + pts - Anchor.pts

\* A gap past the tolerance is filled, an overlap past it is trimmed.
Placed(r, start, samples) ==
  CASE start > r.end + Tolerance ->
         WriteRender(WriteSilence(r, start - r.end), samples)
    [] start < r.end - Tolerance ->
         LET skip == r.end - start
         IN  WriteRender(r, SubSeq(samples, skip + 1, Len(samples)))
    [] OTHER -> WriteRender(r, samples)

\* The hold ran out: the reference up to index counts as silence.
Owed(r, index) ==
  CASE r.end = None -> [r EXCEPT !.end = index]
    [] r.end # None /\ index > r.end -> WriteSilence(r, index - r.end)
    [] OTHER -> r

-----------------------------------------------------------------------------
(* EchoCapture's inputs: each feeds the aligner and then drains it.         *)

\* appendRender
System(length, pts) ==
  LET samples == [k \in 1 .. length |->
                    IF pts = None THEN Untimed ELSE pts + k - 1]
      end == reference.end
      start == IF pts # None THEN RenderTarget(pts)
                 ELSE IF end = None THEN 0 ELSE end
  IN  /\ phase = "idle"
      /\ IF end = None THEN TRUE ELSE end < MaxIndex
      /\ origin' = IF pts # None /\ origin = None THEN pts ELSE origin
      /\ reference' = IF end = None
                        THEN WriteRender([reference EXCEPT !.end = start],
                                         samples)
                        ELSE Placed(reference, start, samples)
      /\ phase' = "draining"
      /\ UNCHANGED <<micAnchor, micStarted, pending, pendingStart, arrivals,
                     lead, failed, fedEnd, staleEnd>>

\* Mutant: the reference moves although frames from before the jump wait.
MicJumpAlways(first, pts) ==
  LET expected == micAnchor.index + pts - micAnchor.pts
  IN  IF pts # None /\ micAnchor # None
           /\ micStarted /\ Abs(expected - first) > Tolerance
        THEN first - expected
        ELSE 0

\* The microphone's host time jumped and no complete frame from before the
\* jump is waiting: how far the reference goes with it.
MicJump(first, pts) ==
  LET expected == micAnchor.index + pts - micAnchor.pts
  IN  IF pts # None /\ micAnchor # None /\ arrivals = << >>
           /\ micStarted /\ Abs(expected - first) > Tolerance
        THEN first - expected
        ELSE 0

\* appendCapture
Microphone(length, pts) ==
  LET started == IF pts # None /\ origin = None THEN pts ELSE origin
      first == CASE micStarted -> pendingStart + pending
                 [] ~micStarted /\ pts # None -> pts - started
                 [] OTHER -> 0
      shift == MicJump(first, pts)
      kept == IF pts = None THEN micAnchor
                ELSE [pts |-> pts, index |-> first]
      \* the microphone's host times and its sample count disagree, and the
      \* reference already placed did not move
      contradicted == /\ pts # None /\ origin # None
                      /\ first - pts # Anchor.index - Anchor.pts + shift
      moved == Moved(reference, shift)
      complete == (pending + length) \div FrameSize - pending \div FrameSize
  IN  /\ phase = "idle"
      /\ pendingStart + pending + length <= MaxMic
      /\ origin' = started
      /\ micAnchor' = kept
      /\ micStarted' = TRUE
      /\ pendingStart' = IF micStarted THEN pendingStart ELSE first
      /\ pending' = pending + length
      /\ arrivals' = arrivals \o [k \in 1 .. complete |-> 0]
      /\ reference' = moved
      /\ fedEnd' = IF fedEnd = None THEN None ELSE fedEnd + shift
      /\ staleEnd' = CASE contradicted -> moved.end
                       [] ~contradicted /\ staleEnd # None -> staleEnd + shift
                       [] OTHER -> None
      /\ phase' = "draining"
      /\ UNCHANGED <<lead, failed>>

\* The recorder's 10 ms poll.
Poll ==
  /\ phase = "idle"
  /\ phase' = "draining"
  /\ UNCHANGED <<mic, reference, lead, failed, fedEnd, staleEnd>>

Tick ==
  /\ phase = "idle"
  /\ \E k \in DOMAIN arrivals : arrivals[k] < MaxHold
  /\ arrivals' = [k \in DOMAIN arrivals |->
                    IF arrivals[k] < MaxHold THEN arrivals[k] + 1
                                             ELSE MaxHold]
  /\ UNCHANGED <<origin, micAnchor, micStarted, pending, pendingStart,
                 reference, lead, failed, phase, fedEnd, staleEnd>>

-----------------------------------------------------------------------------
(* One frame through the processor and the tracker (process, retarget).     *)

Retargeted(lock) ==
  LET wanted == lead + RetargetDelay - lock
  IN  IF lock = None \/ lock \in WorkingWindow
        THEN lead
        ELSE CHOOSE l \in LeadRange :
               \A k \in LeadRange : Abs(l - wanted) <= Abs(k - wanted)

\* The processor takes the frame, or fails and never gets another.
Process(start) ==
  \/ /\ failed
     /\ UNCHANGED <<lead, failed, fedEnd>>
  \/ /\ ~failed
     /\ fedEnd' = start + lead + FrameSize
     /\ \/ \E lock \in Locks \cup {None} :
             /\ lead' = Retargeted(lock)
             /\ UNCHANGED failed
        \/ /\ failed' = TRUE
           /\ UNCHANGED lead

Release ==
  /\ pending' = pending - FrameSize
  /\ pendingStart' = pendingStart + FrameSize
  /\ arrivals' = Tail(arrivals)
  /\ Process(pendingStart)
  /\ UNCHANGED <<origin, micAnchor, micStarted, staleEnd>>

Needed == pendingStart + lead + FrameSize
Arrived == reference.end # None /\ reference.end >= Needed

\* Mutant: a processor that failed still waits for the reference.
DrainFrameWaitingForEver ==
  /\ phase = "draining"
  /\ arrivals # << >>
  /\ Arrived
  /\ Release
  /\ UNCHANGED <<reference, phase>>

\* One turn of drainReady's loop.
DrainFrame ==
  /\ phase = "draining"
  /\ arrivals # << >>
  /\ failed \/ Arrived \/ Head(arrivals) >= MaxHold
  /\ reference' = IF failed \/ Arrived THEN reference
                    ELSE Owed(reference, Needed)
  /\ Release
  /\ UNCHANGED phase

\* The first frame has to keep waiting, or there is none.
DrainEnd ==
  /\ phase = "draining"
  /\ ~ (/\ arrivals # << >>
        /\ failed \/ Arrived \/ Head(arrivals) >= MaxHold)
  /\ phase' = "idle"
  /\ UNCHANGED <<mic, reference, lead, failed, fedEnd, staleEnd>>

\* EchoCapture.finish: flush, with whatever reference there is.
Finish ==
  /\ phase = "idle"
  /\ phase' = "flushing"
  /\ UNCHANGED <<mic, reference, lead, failed, fedEnd, staleEnd>>

FlushFrame ==
  /\ phase = "flushing"
  /\ arrivals # << >>
  /\ Release
  /\ UNCHANGED <<reference, phase>>

\* The partial last frame goes in padded with zeros.
FlushEnd ==
  /\ phase = "flushing"
  /\ arrivals = << >>
  /\ IF pending > 0 THEN Process(pendingStart)
                    ELSE UNCHANGED <<lead, failed, fedEnd>>
  /\ pending' = 0
  /\ pendingStart' = pendingStart + pending
  /\ phase' = "finished"
  /\ UNCHANGED <<origin, micAnchor, micStarted, arrivals, reference,
                 staleEnd>>

Input == \E length \in Lengths, pts \in Times \cup {None} :
           System(length, pts) \/ Microphone(length, pts)
Drain == DrainFrame \/ DrainEnd
Flush == FlushFrame \/ FlushEnd

Next == Input \/ Poll \/ Tick \/ Drain \/ Finish \/ Flush

(* Time passes however many inputs there are, so its fairness is strong;    *)
(* the recorder polls every 10 ms while the pipeline runs, and a loop that  *)
(* was started runs to its end.  No input has to arrive and the recording   *)
(* need not finish.                                                         *)
Fairness == SF_vars(Tick) /\ WF_vars(Poll) /\ WF_vars(Drain)
              /\ WF_vars(Flush)

Spec == Init /\ [][Next]_vars /\ Fairness

-----------------------------------------------------------------------------
(* The reference a frame may be paired with: what the ring still holds.     *)
Retained(r) == IF r.end = None THEN {} ELSE r.end - r.count .. r.end - 1
RefAt(r, i) == r.ring[Slot(r, i)]

(* System audio lies where its echo is: its index differs from the index   *)
(* the microphone's host times give it by no more than the tolerance,      *)
(* through gaps, overlaps, lost buffers, moves of the whole reference and  *)
(* a ring that wrapped (EchoAligner.swift:180-201, 319-330, 369-396).      *)
(* Excepted is what was placed before the microphone's host times          *)
(* contradicted themselves while a complete frame waited, or by no more    *)
(* than the tolerance.                                                     *)
ReferenceKeepsTime ==
  \A i \in Retained(reference) :
    LET t == RefAt(reference, i)
    IN  t \notin {Silence, Untimed} /\ (staleEnd = None \/ i >= staleEnd)
          => Abs(i - (Anchor.index + t - Anchor.pts)) <= Tolerance

(* What a waiting frame will be paired with is settled: as long as a        *)
(* complete frame waits, no reference sample that is still held changes     *)
(* (the arrivals.isEmpty guard of appendCapture, and the ring arithmetic).  *)
WaitingFramesKeepTheirReference ==
  [][arrivals # << >> =>
       \A i \in Retained(reference) \cap Retained(reference') :
         RefAt(reference', i) = RefAt(reference, i)]_vars

(* The processor never has to unhear: reference that was fed, as silence if *)
(* the hold ran out, is behind the end of the reference, so system audio    *)
(* that arrives for it later is trimmed (oweRender, appendRender).          *)
FedIsSettled ==
  phase \in {"idle", "draining"} /\ fedEnd # None
    => reference.end # None /\ reference.end >= fedEnd

(* The reference is where it belongs, and stays there once it was used.     *)
ReferenceIsRight == TypeOK /\ ReferenceKeepsTime /\ FedIsSettled

(* No microphone frame waits for ever: with the 10 ms poll it goes out      *)
(* although neither stream delivers, and whether or not the processor       *)
(* works.  A recording has at most MaxMic samples here, so a frame that     *)
(* stays is the only way for arrivals never to be empty again.              *)
HeldMicIsReleased == []<>(arrivals = << >>)
=============================================================================
