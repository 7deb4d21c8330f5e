----------------------- MODULE AudioProcessingProofs ------------------------
(***************************************************************************)
(* The audio processing module, for any number of frames and any size of   *)
(* its transfer queue.                                                     *)
(*                                                                         *)
(* Its two threads decide under one lock what they do under two, so the    *)
(* invariant says what each place in a call implies for the locks          *)
(* (LocksAreHeld) and which formats were set by when (FormatsAreSet): a    *)
(* thread that is about to initialize is the first of its direction to do  *)
(* so, however long ago it decided it.                                     *)
(*                                                                         *)
(* The transfer queue between them is proved first, by itself.  That its   *)
(* two threads never swap the same slot, and that together they implement  *)
(* BoundedQueue, is not inductive alone: what carries both is that the two *)
(* private indices, read as if the one that still has to move had moved,   *)
(* are always num_elements_ slots apart (IndicesAgree), and that a thread  *)
(* past its load may rely on what it loaded although the other one goes on *)
(* (LoadsHold).  In the module the queue is only replaced while neither    *)
(* thread is inside of it.                                                 *)
(***************************************************************************)
EXTENDS AudioProcessing, SequenceTheorems, TLAPS

\* The queue's two private indices, read as if the one that still has to move
\* had moved, are as far apart as what is counted.
IndicesAgree == Queue!Back = Queue!Wrap(Queue!Front + numElements)

\* The other thread only makes more room, or more to take.
LoadsHold ==
  /\ producer \in {"swap", "add"} => numElements < TransferSize
  /\ consumer \in {"swap", "subtract"} => numElements > 0

\* What the producer puts is a message, in its buffer or in its slot.
PutIsMessage ==
  /\ producer = "swap" => input \in Frame
  /\ producer = "add" => slots[nextWrite] \in Frame

QueueInv == Queue!TypeOK /\ IndicesAgree /\ LoadsHold /\ PutIsMessage

\* The types of what is not in the queue.
ModuleType ==
  /\ users \in {"oneQueue", "twoThreads"}
  /\ mutexRender \in {"free", "render", "capture"}
  /\ mutexCapture \in {"free", "render", "capture"}
  /\ apiFormat \in Streams
  /\ echoStateKnown \in BOOLEAN
  /\ renderPc \in {"idle", "initialize", "insert", "inserting"}
  /\ capturePc \in {"idle", "lockRender", "initialize", "process", "drain", "stats"}
  /\ processingConfig \in Streams
  /\ rendered \in 0 .. MaxFrames
  /\ captured \in 0 .. MaxFrames
  /\ cachedStats \in Frame \cup {NoFrame}
  /\ stats \in Frame \cup {NoFrame}

\* Who holds which lock follows from where the threads are, and so does who
\* may be inside of the queue.
LocksAreHeld ==
  /\ mutexRender = "render" <=> renderPc # "idle"
  /\ mutexRender = "capture" <=> capturePc = "initialize"
  /\ mutexCapture = "capture" <=> capturePc = "drain"
  /\ producer # "idle" => renderPc = "inserting"
  /\ consumer # "idle" => capturePc = "drain"

\* Each direction's format is set once, by its own thread on its first frame;
\* the first of the two also brings submodule_states_ up to date.
FormatsAreSet ==
  /\ apiFormat.render = StreamFormat <=> renderPc \in {"insert", "inserting"} \/ rendered > 0
  /\ apiFormat.capture = StreamFormat <=> capturePc \in {"process", "drain", "stats"} \/ captured > 0
  /\ renderPc = "initialize" => rendered = 0
  /\ capturePc \in {"lockRender", "initialize"} => captured = 0
  /\ apiFormat.render = StreamFormat \/ capturePc # "idle" \/ captured > 0 => echoStateKnown
  /\ canceller = 1 + (IF apiFormat.render = StreamFormat THEN 1 ELSE 0)
                   + (IF apiFormat.capture = StreamFormat THEN 1 ELSE 0)

\* A call is about a frame that there is.
FramesLeft ==
  /\ renderPc # "idle" => rendered < MaxFrames
  /\ capturePc # "idle" => captured < MaxFrames

\* The one-slot queue of the statistics is emptied in the call that filled it.
StatsFollow ==
  /\ statsQueue = IF capturePc = "stats" THEN <<captured + 1>> ELSE << >>
  /\ StatsAreLatest

OwnInv == ModuleType /\ LocksAreHeld /\ FormatsAreSet /\ FramesLeft /\ StatsFollow
IInv == OwnInv /\ QueueInv

-----------------------------------------------------------------------------
(* The queue between the two threads, by itself: swap_queue.h for any       *)
(* capacity.                                                                *)

\* Going on from an index that was wrapped is going on from the index.
LEMMA WrapAdds ==
  ASSUME NEW s \in Queue!Slot, NEW k \in Nat, NEW j \in Nat, k + j <= TransferSize
  PROVE  Queue!Wrap(Queue!Wrap(s + k) + j) = Queue!Wrap(s + k + j)
BY SizesAssumption DEF Queue!Wrap, Queue!Slot

\* The index the consumer reads next, moved or not, is a slot.
LEMMA FrontIsSlot ==
  ASSUME Queue!TypeOK
  PROVE  Queue!Front \in Queue!Slot
BY SizesAssumption DEF Queue!TypeOK, Queue!Front, Queue!Wrap, Queue!Slot

-----------------------------------------------------------------------------
\* Before anything is put, the two indices are at the same slot.
LEMMA QueueStarts ==
  ASSUME Queue!Init
  PROVE  QueueInv
BY SizesAssumption DEF Queue!Init, QueueInv, Queue!TypeOK, IndicesAgree, LoadsHold,
   PutIsMessage, Queue!Front, Queue!Back, Queue!Wrap, Queue!Slot, Queue!Content

\* No two threads meet in a slot, because of where the indices are.
LEMMA SlotsAreApart ==
  ASSUME QueueInv
  PROVE  Queue!SlotsAreNotShared
<1> SUFFICES ASSUME producer \in {"swap", "add"}, consumer \in {"swap", "subtract"}
             PROVE  nextWrite # nextRead
  BY DEF Queue!SlotsAreNotShared
<1>1. nextWrite = Queue!Wrap(nextRead + numElements)
  BY DEF QueueInv, IndicesAgree, Queue!Front, Queue!Back
<1>2. numElements \in 1 .. TransferSize - 1 /\ nextRead \in Queue!Slot
  BY SizesAssumption DEF QueueInv, LoadsHold, Queue!TypeOK
<1> QED  BY <1>1, <1>2, SizesAssumption DEF Queue!Wrap, Queue!Slot

\* Every step of either thread keeps the invariant.
LEMMA QueueStays ==
  ASSUME QueueInv, [Queue!Next]_(Queue!vars)
  PROVE  QueueInv'
<1> USE SizesAssumption DEF Queue!producerVars, Queue!consumerVars
<1>1. ASSUME NEW m \in Frame, Queue!InsertLoad(m) PROVE QueueInv'
  BY <1>1 DEF Queue!InsertLoad, QueueInv, Queue!TypeOK, IndicesAgree, LoadsHold, PutIsMessage,
              Queue!Front, Queue!Back, Queue!Content
<1>2. CASE Queue!InsertSwap
  <2>1. Queue!TypeOK'  BY <1>2 DEF Queue!InsertSwap, QueueInv, Queue!TypeOK
  <2>2. IndicesAgree'
    BY <1>2 DEF Queue!InsertSwap, QueueInv, IndicesAgree, Queue!Front, Queue!Back
  <2>3. LoadsHold' /\ PutIsMessage'
    BY <1>2 DEF Queue!InsertSwap, QueueInv, Queue!TypeOK, LoadsHold, PutIsMessage
  <2> QED  BY <2>1, <2>2, <2>3 DEF QueueInv
<1>3. CASE Queue!InsertAdd
  <2>1. Queue!TypeOK'  BY <1>3 DEF Queue!InsertAdd, QueueInv, Queue!TypeOK, LoadsHold
  <2>2. IndicesAgree'
    <3>1. /\ Queue!Front \in Queue!Slot /\ Queue!Front' = Queue!Front
          /\ Queue!Back' = Queue!Wrap(nextWrite + 1) /\ nextWrite = Queue!Wrap(Queue!Front
             + numElements)
      BY <1>3, FrontIsSlot DEF Queue!InsertAdd, QueueInv, IndicesAgree, Queue!Front, Queue!Back
    <3>2. numElements' = numElements + 1 /\ numElements \in 0 .. TransferSize - 1
      BY <1>3 DEF Queue!InsertAdd, QueueInv, Queue!TypeOK, LoadsHold
    <3>3. Queue!Wrap(Queue!Wrap(Queue!Front + numElements) + 1)
          = Queue!Wrap(Queue!Front + numElements + 1)
      BY <3>1, <3>2, WrapAdds
    <3> QED  BY <3>1, <3>2, <3>3 DEF IndicesAgree, Queue!Slot
  <2>3. LoadsHold' /\ PutIsMessage'
    BY <1>3 DEF Queue!InsertAdd, QueueInv, Queue!TypeOK, LoadsHold, PutIsMessage
  <2> QED  BY <2>1, <2>2, <2>3 DEF QueueInv
<1>4. CASE Queue!InsertAdvance
  <2>1. Queue!TypeOK'
    BY <1>4 DEF Queue!InsertAdvance, QueueInv, Queue!TypeOK, Queue!Wrap, Queue!Slot
  <2>2. IndicesAgree'
    BY <1>4 DEF Queue!InsertAdvance, QueueInv, IndicesAgree, Queue!Front, Queue!Back
  <2>3. LoadsHold' /\ PutIsMessage'
    BY <1>4 DEF Queue!InsertAdvance, QueueInv, LoadsHold, PutIsMessage
  <2> QED  BY <2>1, <2>2, <2>3 DEF QueueInv
<1>5. CASE Queue!RemoveLoad
  BY <1>5 DEF Queue!RemoveLoad, QueueInv, Queue!TypeOK, IndicesAgree, LoadsHold, PutIsMessage,
              Queue!Front, Queue!Back
<1>6. CASE Queue!RemoveSwap
  <2>1. Queue!TypeOK'  BY <1>6 DEF Queue!RemoveSwap, QueueInv, Queue!TypeOK
  <2>2. IndicesAgree'
    BY <1>6 DEF Queue!RemoveSwap, QueueInv, IndicesAgree, Queue!Front, Queue!Back
  <2>3. LoadsHold'  BY <1>6 DEF Queue!RemoveSwap, QueueInv, LoadsHold
  <2>4. PutIsMessage'
    BY <1>6, SlotsAreApart
    DEF Queue!RemoveSwap, QueueInv, Queue!TypeOK, PutIsMessage, Queue!SlotsAreNotShared
  <2> QED  BY <2>1, <2>2, <2>3, <2>4 DEF QueueInv
<1>7. CASE Queue!RemoveSubtract
  <2>1. Queue!TypeOK'  BY <1>7 DEF Queue!RemoveSubtract, QueueInv, Queue!TypeOK, LoadsHold
  <2>2. IndicesAgree'
    <3>1. /\ Queue!Back' = Queue!Back /\ Queue!Back = Queue!Wrap(nextRead + numElements)
          /\ Queue!Front' = Queue!Wrap(nextRead + 1) /\ nextRead \in Queue!Slot
      BY <1>7 DEF Queue!RemoveSubtract, QueueInv, Queue!TypeOK, IndicesAgree, Queue!Front,
         Queue!Back
    <3>2. numElements' = numElements - 1 /\ numElements \in 1 .. TransferSize
      BY <1>7 DEF Queue!RemoveSubtract, QueueInv, Queue!TypeOK, LoadsHold
    <3>3. Queue!Wrap(Queue!Wrap(nextRead + 1) + (numElements - 1))
          = Queue!Wrap(nextRead + numElements)
      BY <3>1, <3>2 DEF Queue!Wrap, Queue!Slot
    <3> QED  BY <3>1, <3>2, <3>3 DEF IndicesAgree
  <2>3. LoadsHold' /\ PutIsMessage'
    BY <1>7 DEF Queue!RemoveSubtract, QueueInv, Queue!TypeOK, LoadsHold, PutIsMessage
  <2> QED  BY <2>1, <2>2, <2>3 DEF QueueInv
<1>8. CASE Queue!RemoveAdvance
  <2>1. Queue!TypeOK'
    BY <1>8 DEF Queue!RemoveAdvance, QueueInv, Queue!TypeOK, Queue!Wrap, Queue!Slot
  <2>2. IndicesAgree'
    BY <1>8 DEF Queue!RemoveAdvance, QueueInv, IndicesAgree, Queue!Front, Queue!Back
  <2>3. LoadsHold' /\ PutIsMessage'
    BY <1>8 DEF Queue!RemoveAdvance, QueueInv, LoadsHold, PutIsMessage
  <2> QED  BY <2>1, <2>2, <2>3 DEF QueueInv
<1>9. CASE Queue!Clear
  <2>1. Queue!TypeOK'  BY <1>9 DEF Queue!Clear, QueueInv, Queue!TypeOK, Queue!Wrap, Queue!Slot
  <2>2. IndicesAgree'
    <3>1. /\ Queue!Back' = Queue!Back /\ Queue!Back = Queue!Wrap(nextRead + numElements)
          /\ Queue!Front' = Queue!Wrap(nextRead + numElements) /\ numElements' = 0
          /\ nextRead \in Queue!Slot /\ numElements \in 0 .. TransferSize
      BY <1>9 DEF Queue!Clear, QueueInv, Queue!TypeOK, IndicesAgree, Queue!Front, Queue!Back
    <3>2. Queue!Wrap(Queue!Wrap(nextRead + numElements) + 0)
          = Queue!Wrap(nextRead + numElements)
      BY <3>1 DEF Queue!Wrap, Queue!Slot
    <3> QED  BY <3>1, <3>2 DEF IndicesAgree
  <2>3. LoadsHold' /\ PutIsMessage'
    BY <1>9 DEF Queue!Clear, QueueInv, LoadsHold, PutIsMessage
  <2> QED  BY <2>1, <2>2, <2>3 DEF QueueInv
<1>10. CASE UNCHANGED Queue!vars
  BY <1>10 DEF Queue!vars, QueueInv, Queue!TypeOK, IndicesAgree, LoadsHold, PutIsMessage,
               Queue!Front, Queue!Back
<1> QED
  BY <1>1, <1>2, <1>3, <1>4, <1>5, <1>6, <1>7, <1>8, <1>9, <1>10
  DEF Queue!Next, Queue!Produce, Queue!Consume

-----------------------------------------------------------------------------
(* The queue the two threads share.                                         *)

\* What the counter, the slots and the consumer make of it is a sequence, one
\* message for each one counted.
LEMMA CountedIsSeq ==
  ASSUME NEW n \in Nat, NEW q \in [1 .. n -> Queue!Content]
  PROVE  q \in Seq(Queue!Content) /\ Len(q) = n
BY SeqDef

\* The queue is a sequence before a step ...
LEMMA QueuedIsSeq ==
  ASSUME Queue!TypeOK
  PROVE  Queue!Queued \in Seq(Queue!Content) /\ Len(Queue!Queued) = numElements
<1>1. Queue!Front \in Queue!Slot  BY FrontIsSlot
<1>2. /\ numElements \in Nat /\ numElements \in 0 .. TransferSize /\ output \in Queue!Content
      /\ slots \in [Queue!Slot -> Queue!Content]
  BY SizesAssumption DEF Queue!TypeOK
<1>3. ASSUME NEW i \in 1 .. numElements PROVE Queue!Wrap(Queue!Front + i - 1) \in Queue!Slot
  BY <1>1, <1>2, SizesAssumption DEF Queue!Wrap, Queue!Slot
<1>4. Queue!Queued \in [1 .. numElements -> Queue!Content]  BY <1>2, <1>3 DEF Queue!Queued
<1> QED  BY <1>2, <1>4, CountedIsSeq

\* ... and after it.
LEMMA QueuedIsSeqNext ==
  ASSUME Queue!TypeOK'
  PROVE  Queue!Queued' \in Seq(Queue!Content) /\ Len(Queue!Queued') = numElements'
<1>1. /\ numElements' \in Nat /\ numElements' \in 0 .. TransferSize
      /\ output' \in Queue!Content /\ slots' \in [Queue!Slot -> Queue!Content]
      /\ nextRead' \in Queue!Slot
  BY SizesAssumption DEF Queue!TypeOK
<1>2. Queue!Front' = nextRead' \/ Queue!Front' = Queue!Wrap(nextRead' + 1)  BY DEF Queue!Front
<1>3. \A s \in Queue!Slot : \A k \in 1 .. TransferSize : Queue!Wrap(s + k - 1) \in Queue!Slot
  BY SizesAssumption DEF Queue!Wrap, Queue!Slot
<1>4. \A s \in Queue!Slot : Queue!Wrap(s + 1) \in Queue!Slot
  BY SizesAssumption DEF Queue!Wrap, Queue!Slot
<1>5. Queue!Front' \in Queue!Slot  BY <1>1, <1>2, <1>4
<1>6. ASSUME NEW i \in 1 .. numElements' PROVE Queue!Wrap(Queue!Front' + i - 1) \in Queue!Slot
  <2>1. i \in 1 .. TransferSize  BY <1>1, SizesAssumption
  <2> QED  BY <1>3, <1>5, <2>1
<1>7. Queue!Queued' \in [1 .. numElements' -> Queue!Content]  BY <1>1, <1>6 DEF Queue!Queued
<1> QED  BY <1>1, <1>7, CountedIsSeq

\* As many messages, the same at each place: the same queue.
LEMMA SameQueue ==
  ASSUME Queue!TypeOK, Queue!TypeOK', numElements' = numElements,
         \A i \in 1 .. numElements : Queue!Queued'[i] = Queue!Queued[i]
  PROVE  Queue!Queued' = Queue!Queued
BY QueuedIsSeq, QueuedIsSeqNext, SeqEqual

\* A swap by the producer is out of sight: the slot it writes is not counted.
LEMMA ProducerSwaps ==
  ASSUME QueueInv, QueueInv', Queue!InsertSwap
  PROVE  Queue!Queued' = Queue!Queued
<1> USE SizesAssumption DEF Queue!consumerVars
<1>1. /\ numElements' = numElements /\ Queue!Front' = Queue!Front /\ output' = output
      /\ consumer' = consumer /\ Queue!Front \in Queue!Slot
      /\ numElements \in 0 .. TransferSize - 1
      /\ slots' = [slots EXCEPT ![Queue!Wrap(Queue!Front + numElements)] = input]
      /\ slots \in [Queue!Slot -> Queue!Content]
  BY FrontIsSlot
  DEF Queue!InsertSwap, QueueInv, Queue!TypeOK, LoadsHold, IndicesAgree, Queue!Front,
     Queue!Back
<1>2. ASSUME NEW i \in 1 .. numElements PROVE Queue!Queued'[i] = Queue!Queued[i]
  <2>1. /\ Queue!Wrap(Queue!Front + (i - 1)) # Queue!Wrap(Queue!Front + numElements)
        /\ Queue!Wrap(Queue!Front + (i - 1)) \in Queue!Slot
    BY <1>1 DEF Queue!Wrap, Queue!Slot
  <2>2. Queue!Front + i - 1 = Queue!Front + (i - 1)  BY <1>1 DEF Queue!Slot
  <2> QED  BY <1>1, <2>1, <2>2 DEF Queue!Queued
<1> QED  BY <1>1, <1>2, SameQueue DEF QueueInv

\* A swap by the consumer is out of sight: what it takes out of the first slot
\* is counted still, in its buffer.
LEMMA ConsumerSwaps ==
  ASSUME QueueInv, QueueInv', Queue!RemoveSwap
  PROVE  Queue!Queued' = Queue!Queued
<1> USE SizesAssumption DEF Queue!producerVars
<1>1. /\ numElements' = numElements /\ Queue!Front = nextRead /\ Queue!Front' = Queue!Front
      /\ output' = slots[Queue!Front] /\ consumer = "swap" /\ consumer' = "subtract"
      /\ Queue!Front \in Queue!Slot /\ numElements \in 1 .. TransferSize
      /\ slots' = [slots EXCEPT ![Queue!Front] = output]
      /\ slots \in [Queue!Slot -> Queue!Content]
  BY DEF Queue!RemoveSwap, QueueInv, Queue!TypeOK, LoadsHold, Queue!Front
<1>2. ASSUME NEW i \in 1 .. numElements PROVE Queue!Queued'[i] = Queue!Queued[i]
  <2>1. CASE i = 1
    <3>1. Queue!Wrap(Queue!Front + 1 - 1) = Queue!Front  BY <1>1 DEF Queue!Wrap, Queue!Slot
    <3> QED  BY <1>1, <2>1, <3>1 DEF Queue!Queued
  <2>2. CASE i # 1
    <3>1. Queue!Wrap(Queue!Front + i - 1) # Queue!Front /\ Queue!Wrap(Queue!Front + i - 1)
       \in Queue!Slot
      BY <1>1, <2>2 DEF Queue!Wrap, Queue!Slot
    <3> QED  BY <1>1, <2>2, <3>1 DEF Queue!Queued
  <2> QED  BY <2>1, <2>2
<1> QED  BY <1>1, <1>2, SameQueue DEF QueueInv

\* Counting the message in is putting it, at the end of the queue.
LEMMA AddPuts ==
  ASSUME QueueInv, QueueInv', Queue!InsertAdd
  PROVE  \E m \in Frame : Queue!Abstract!Put(m)
<1> USE SizesAssumption DEF Queue!consumerVars
<1>1. /\ numElements' = numElements + 1 /\ Queue!Front' = Queue!Front /\ output' = output
      /\ consumer' = consumer /\ Queue!Front \in Queue!Slot
      /\ numElements \in 0 .. TransferSize - 1
      /\ slots' = slots /\ nextWrite = Queue!Wrap(Queue!Front + numElements)
      /\ slots[nextWrite] \in Frame /\ received' = received
      /\ consumer = "subtract" => numElements > 0
  BY FrontIsSlot
  DEF Queue!InsertAdd, QueueInv, Queue!TypeOK, LoadsHold, IndicesAgree, PutIsMessage,
     Queue!Front, Queue!Back
<1>2. /\ Queue!Queued \in Seq(Queue!Content) /\ Len(Queue!Queued) = numElements
      /\ Queue!Queued' \in Seq(Queue!Content) /\ Len(Queue!Queued') = numElements + 1
  BY <1>1, QueuedIsSeq, QueuedIsSeqNext DEF QueueInv
<1> DEFINE m == slots[nextWrite]
           longer == Append(Queue!Queued, m)
<1>3. /\ longer \in Seq(Queue!Content) /\ Len(longer) = numElements + 1
      /\ \A i \in 1 .. numElements : longer[i] = Queue!Queued[i]
      /\ longer[numElements + 1] = m
  BY <1>1, <1>2, AppendProperties DEF Queue!Content
<1>4. ASSUME NEW i \in 1 .. numElements + 1 PROVE Queue!Queued'[i] = longer[i]
  <2>1. CASE i \in 1 .. numElements
    BY <1>1, <1>3, <2>1 DEF Queue!Queued
  <2>2. CASE i = numElements + 1
    <3>1. Queue!Front + i - 1 = Queue!Front + numElements  BY <1>1, <2>2 DEF Queue!Slot
    <3>2. ~(i = 1 /\ consumer = "subtract")  BY <1>1, <2>2
    <3> QED  BY <1>1, <1>3, <2>2, <3>1, <3>2 DEF Queue!Queued
  <2>3. i \in 1 .. numElements \/ i = numElements + 1  BY <1>1
  <2> HIDE DEF longer, m
  <2> QED  BY <2>1, <2>2, <2>3
<1>5. Queue!Queued' = longer
  <2> HIDE DEF longer
  <2> QED  BY <1>2, <1>3, <1>4, SeqEqual
<1> QED  BY <1>1, <1>2, <1>5 DEF Queue!Abstract!Put

\* Counting a message out is taking the first one.
LEMMA SubtractTakes ==
  ASSUME QueueInv, QueueInv', Queue!RemoveSubtract
  PROVE  Queue!Abstract!Take
<1> USE SizesAssumption DEF Queue!producerVars
<1>1. /\ numElements' = numElements - 1 /\ Queue!Front = nextRead
      /\ Queue!Front' = Queue!Wrap(Queue!Front + 1) /\ consumer = "subtract"
      /\ consumer' = "advance" /\ Queue!Front \in Queue!Slot
      /\ numElements \in 1 .. TransferSize
      /\ slots' = slots /\ received' = output
  BY DEF Queue!RemoveSubtract, QueueInv, Queue!TypeOK, LoadsHold, Queue!Front
<1>2. /\ Queue!Queued \in Seq(Queue!Content) /\ Len(Queue!Queued) = numElements
      /\ Queue!Queued' \in Seq(Queue!Content) /\ Len(Queue!Queued') = numElements - 1
  BY <1>1, QueuedIsSeq, QueuedIsSeqNext DEF QueueInv
<1>3. Queue!Queued # << >>  BY <1>1, <1>2, EmptySeq
<1> DEFINE rest == Tail(Queue!Queued)
<1>4. /\ rest \in Seq(Queue!Content) /\ Len(rest) = numElements - 1
      /\ \A i \in 1 .. numElements - 1 : rest[i] = Queue!Queued[i + 1]
  BY <1>2, <1>3, HeadTailProperties
<1>5. Head(Queue!Queued) = output  BY <1>1 DEF Queue!Queued
<1>6. ASSUME NEW i \in 1 .. numElements - 1 PROVE Queue!Queued'[i] = rest[i]
  <2>1. Queue!Wrap(Queue!Wrap(Queue!Front + 1) + i - 1) = Queue!Wrap(Queue!Front + (i + 1) - 1)
    BY <1>1 DEF Queue!Wrap, Queue!Slot
  <2>2. i + 1 \in 1 .. numElements /\ i + 1 # 1  BY <1>1
  <2> QED  BY <1>1, <1>4, <2>1, <2>2 DEF Queue!Queued
<1>7. Queue!Queued' = rest
  <2> HIDE DEF rest
  <2> QED  BY <1>2, <1>4, <1>6, SeqEqual
<1> QED  BY <1>1, <1>3, <1>5, <1>7 DEF Queue!Abstract!Take

\* The other half-steps leave what is counted, and where it is read, alone.
LEMMA OthersStutter ==
  ASSUME QueueInv, QueueInv',
         \/ \E m \in Frame : Queue!InsertLoad(m)
         \/ Queue!InsertAdvance \/ Queue!RemoveLoad \/ Queue!RemoveAdvance
  PROVE  Queue!Queued' = Queue!Queued
<1> USE DEF Queue!consumerVars, Queue!producerVars
<1>1. /\ numElements' = numElements /\ slots' = slots /\ output' = output
      /\ Queue!Front' = Queue!Front
      /\ consumer' = "subtract" <=> consumer = "subtract"
  BY DEF Queue!InsertLoad, Queue!InsertAdvance, Queue!RemoveLoad, Queue!RemoveAdvance,
     Queue!Front
<1>2. ASSUME NEW i \in 1 .. numElements PROVE Queue!Queued'[i] = Queue!Queued[i]
  BY <1>1 DEF Queue!Queued
<1> QED  BY <1>1, <1>2, SameQueue DEF QueueInv

\* Clear throws away what is counted.
LEMMA ClearDrops ==
  ASSUME QueueInv, QueueInv', Queue!Clear
  PROVE  Queue!Abstract!Drop
<1>1. Len(Queue!Queued') = 0 /\ Queue!Queued' \in Seq(Queue!Content)
  BY QueuedIsSeqNext DEF QueueInv, Queue!Clear
<1>2. Queue!Queued' = << >>  BY <1>1, EmptySeq
<1> QED  BY <1>2 DEF Queue!Clear, Queue!Abstract!Drop

-----------------------------------------------------------------------------
(* The refinement.                                                          *)

LEMMA QueueStartsEmpty ==
  ASSUME Queue!Init
  PROVE  Queue!Abstract!Init
<1>1. Queue!TypeOK  BY QueueStarts DEF QueueInv
<1>2. Queue!Queued \in Seq(Queue!Content) /\ Len(Queue!Queued) = 0
  BY <1>1, QueuedIsSeq DEF Queue!Init
<1>3. Queue!Queued = << >>  BY <1>2, EmptySeq
<1> QED  BY <1>3 DEF Queue!Init, Queue!Abstract!Init

LEMMA QueueStepRefines ==
  ASSUME QueueInv, QueueInv', [Queue!Next]_(Queue!vars)
  PROVE  [Queue!Abstract!Next]_(Queue!Abstract!vars)
<1>1. CASE \/ \E m \in Frame : Queue!InsertLoad(m)
           \/ Queue!InsertAdvance \/ Queue!RemoveLoad \/ Queue!RemoveAdvance
  <2>1. Queue!Queued' = Queue!Queued  BY <1>1, OthersStutter
  <2>2. received' = received
    BY <1>1 DEF Queue!InsertLoad, Queue!InsertAdvance, Queue!RemoveLoad, Queue!RemoveAdvance,
                Queue!consumerVars
  <2> QED  BY <2>1, <2>2 DEF Queue!Abstract!vars
<1>2. CASE Queue!InsertSwap
  <2>1. Queue!Queued' = Queue!Queued  BY <1>2, ProducerSwaps
  <2> QED  BY <1>2, <2>1 DEF Queue!InsertSwap, Queue!consumerVars, Queue!Abstract!vars
<1>3. CASE Queue!RemoveSwap
  <2>1. Queue!Queued' = Queue!Queued  BY <1>3, ConsumerSwaps
  <2> QED  BY <1>3, <2>1 DEF Queue!RemoveSwap, Queue!Abstract!vars
<1>4. CASE Queue!InsertAdd  BY <1>4, AddPuts DEF Queue!Abstract!Next
<1>5. CASE Queue!RemoveSubtract  BY <1>5, SubtractTakes DEF Queue!Abstract!Next
<1>6. CASE Queue!Clear  BY <1>6, ClearDrops DEF Queue!Abstract!Next
<1>7. CASE UNCHANGED Queue!vars
  <2>1. Queue!Queued' = Queue!Queued  BY <1>7 DEF Queue!vars, Queue!Queued, Queue!Front
  <2> QED  BY <1>7, <2>1 DEF Queue!vars, Queue!Abstract!vars
<1> QED
  BY <1>1, <1>2, <1>3, <1>4, <1>5, <1>6, <1>7 DEF Queue!Next, Queue!Produce, Queue!Consume

-----------------------------------------------------------------------------
(* What the queue promises.                                                 *)

(* The strengthened invariant holds in every reachable state.              *)
THEOREM QueueInvariance == Queue!Spec => []QueueInv
<1>1. Queue!Init => QueueInv  BY QueueStarts
<1>2. QueueInv /\ [Queue!Next]_(Queue!vars) => QueueInv'  BY QueueStays
<1> QED  BY <1>1, <1>2, PTL DEF Queue!Spec

(* num_elements_ stays between 0 and the capacity and both indices stay    *)
(* inside queue_, with any interleaving of the two threads.                *)
THEOREM QueueTypeCorrect == Queue!Spec => []Queue!TypeOK
<1>1. QueueInv => Queue!TypeOK  BY DEF QueueInv
<1> QED  BY <1>1, QueueInvariance, PTL

(* The two threads are never in the middle of swapping the same slot.      *)
THEOREM QueueSeparated == Queue!Spec => []Queue!SlotsAreNotShared
<1>1. QueueInv => Queue!SlotsAreNotShared  BY SlotsAreApart
<1> QED  BY <1>1, QueueInvariance, PTL

(* Insert, Remove and Clear, split where the other thread may run, are a   *)
(* bounded first-in first-out queue: no message is lost, duplicated or     *)
(* overtaken, whatever the two threads interleave.                         *)
THEOREM QueueRefinement == Queue!Spec => Queue!ImplementsBoundedQueue
<1>1. Queue!Init => Queue!Abstract!Init  BY QueueStartsEmpty
<1>2. QueueInv /\ QueueInv' /\ [Queue!Next]_(Queue!vars)
        => [Queue!Abstract!Next]_(Queue!Abstract!vars)
  BY QueueStepRefines
<1> QED
  BY <1>1, <1>2, QueueInvariance, PTL DEF Queue!Spec, Queue!ImplementsBoundedQueue,
     Queue!Abstract!Spec

-----------------------------------------------------------------------------
(* The queue in the module.                                                 *)

\* The steps of the two threads inside of the queue are the queue's steps.
LEMMA QueueSteps ==
  ASSUME QueueInv,
         \/ \E m \in Frame : Queue!InsertLoad(m)
         \/ Queue!InsertSwap \/ Queue!InsertAdd \/ Queue!InsertAdvance
         \/ Queue!RemoveLoad \/ Queue!RemoveSwap
         \/ Queue!RemoveSubtract \/ Queue!RemoveAdvance
         \/ UNCHANGED transferVars
  PROVE  QueueInv' /\ [Queue!Abstract!Next]_(Queue!Abstract!vars)
<1>1. [Queue!Next]_(Queue!vars)
  BY DEF Queue!Next, Queue!Produce, Queue!Consume, transferVars, Queue!vars
<1>2. QueueInv'  BY <1>1, QueueStays
<1> QED  BY <1>1, <1>2, QueueStepRefines

\* A new canceller's queue is empty, and nobody was inside of the old one.
LEMMA NewQueue ==
  ASSUME QueueInv, InitializeEchoController, producer = "idle", consumer = "idle"
  PROVE  QueueInv' /\ Queue!Abstract!Drop
<1>1. QueueInv'
  BY SizesAssumption DEF InitializeEchoController, QueueInv, Queue!TypeOK, IndicesAgree,
     LoadsHold, PutIsMessage, Queue!Front, Queue!Back, Queue!Wrap, Queue!Slot,
     Queue!Content
<1>2. (Queue!Queued)' = << >>
  BY DEF InitializeEchoController, Queue!Queued
<1> QED  BY <1>1, <1>2 DEF Queue!Abstract!Drop, InitializeEchoController

-----------------------------------------------------------------------------
(* The locks, the formats and the statistics.                               *)

\* zm_apm_create leaves both locks free and both formats at their default.
LEMMA InitOwn ==
  ASSUME Init PROVE OwnInv
<1>1. /\ users \in {"oneQueue", "twoThreads"} /\ mutexRender = "free" /\ mutexCapture = "free"
      /\ echoStateKnown = FALSE /\ canceller = 1 /\ renderPc = "idle" /\ capturePc = "idle"
      /\ rendered = 0 /\ captured = 0 /\ cachedStats = NoFrame /\ stats = NoFrame
      /\ producer = "idle" /\ consumer = "idle" /\ statsQueue = << >>
      /\ apiFormat \in Streams /\ processingConfig \in Streams
      /\ apiFormat.render = DefaultFormat /\ apiFormat.capture = DefaultFormat
  BY DEF Init, Queue!Init, Streams, Format
<1>2. rendered \in 0 .. MaxFrames /\ captured \in 0 .. MaxFrames
  BY <1>1, SizesAssumption
<1>3. ModuleType  BY <1>1, <1>2 DEF ModuleType
<1>4. LocksAreHeld  BY <1>1 DEF LocksAreHeld
<1>5. FormatsAreSet  BY <1>1, FormatAssumption DEF FormatsAreSet
<1>6. FramesLeft /\ StatsFollow  BY <1>1 DEF FramesLeft, StatsFollow, StatsAreLatest
<1> QED  BY <1>3, <1>4, <1>5, <1>6 DEF OwnInv

\* The two steps that replace the canceller: each is the first of its
\* direction to initialize, with both mutexes in hand.
LEMMA RenderInitializes ==
  ASSUME OwnInv, MaybeInitializeRender
  PROVE  OwnInv' /\ producer = "idle" /\ consumer = "idle" /\ rendered = 0
<1>1. /\ renderPc = "initialize" /\ renderPc' = "insert" /\ mutexCapture = "free"
      /\ apiFormat' = [apiFormat EXCEPT !.render = StreamFormat]
      /\ echoStateKnown' = TRUE /\ canceller' = canceller + 1
      /\ UNCHANGED <<users, mutexRender, mutexCapture, rendered, capturePc, processingConfig,
                     captured, statsQueue, cachedStats, stats, producer, consumer>>
  BY DEF MaybeInitializeRender, InitializeLocked, InitializeEchoController,
     UpdateActiveSubmoduleStates, captureVars, statsVars
<1>2. producer = "idle" /\ consumer = "idle" /\ capturePc # "initialize"
  BY <1>1 DEF OwnInv, LocksAreHeld
<1>3. apiFormat.render # StreamFormat /\ rendered = 0
  BY <1>1 DEF OwnInv, FormatsAreSet
<1>4. /\ apiFormat' \in Streams /\ apiFormat'.render = StreamFormat
      /\ apiFormat'.capture = apiFormat.capture
  BY <1>1 DEF OwnInv, ModuleType, Streams, Format
<1>5. ModuleType'  BY <1>1, <1>4 DEF OwnInv, ModuleType
<1>6. LocksAreHeld'  BY <1>1, <1>2 DEF OwnInv, LocksAreHeld
<1>7. FormatsAreSet'  BY <1>1, <1>3, <1>4 DEF OwnInv, FormatsAreSet
<1>8. FramesLeft' /\ StatsFollow'
  BY <1>1 DEF OwnInv, FramesLeft, StatsFollow, StatsAreLatest
<1> QED  BY <1>2, <1>3, <1>5, <1>6, <1>7, <1>8 DEF OwnInv

\* The same on the capture side, where mutex_render_ is held from before.
LEMMA CaptureInitializes ==
  ASSUME OwnInv, ReinitializeCapture
  PROVE  OwnInv' /\ producer = "idle" /\ consumer = "idle" /\ captured = 0
<1>1. /\ capturePc = "initialize" /\ capturePc' = "process" /\ mutexCapture = "free"
      /\ apiFormat' = [apiFormat EXCEPT !.capture = StreamFormat]
      /\ processingConfig' = apiFormat' /\ mutexRender' = "free"
      /\ echoStateKnown' = TRUE /\ canceller' = canceller + 1
      /\ UNCHANGED <<users, mutexCapture, rendered, renderPc, captured, statsQueue,
                     cachedStats, stats, producer, consumer>>
  BY DEF ReinitializeCapture, InitializeLocked, InitializeEchoController,
     UpdateActiveSubmoduleStates, renderVars, statsVars
<1>2. producer = "idle" /\ consumer = "idle" /\ renderPc = "idle"
  BY <1>1 DEF OwnInv, LocksAreHeld
<1>3. apiFormat.capture # StreamFormat /\ captured = 0
  BY <1>1 DEF OwnInv, FormatsAreSet
<1>4. /\ apiFormat' \in Streams /\ apiFormat'.capture = StreamFormat
      /\ apiFormat'.render = apiFormat.render
  BY <1>1 DEF OwnInv, ModuleType, Streams, Format
<1>5. ModuleType'  BY <1>1, <1>4 DEF OwnInv, ModuleType
<1>6. LocksAreHeld'  BY <1>1, <1>2 DEF OwnInv, LocksAreHeld
<1>7. FormatsAreSet'  BY <1>1, <1>2, <1>3, <1>4 DEF OwnInv, FormatsAreSet
<1>8. FramesLeft' /\ StatsFollow'
  BY <1>1 DEF OwnInv, FramesLeft, StatsFollow, StatsAreLatest
<1> QED  BY <1>2, <1>3, <1>5, <1>6, <1>7, <1>8 DEF OwnInv

\* A capture call that finds its format set and the states known does not
\* initialize; one that does not is the first.
LEMMA CaptureDecides ==
  ASSUME OwnInv, MaybeInitializeCapture
  PROVE  OwnInv'
<1>1. /\ capturePc = "idle" /\ captured < MaxFrames /\ mutexCapture = "free"
      /\ processingConfig' = apiFormat /\ echoStateKnown' = TRUE
      /\ UNCHANGED <<users, mutexRender, mutexCapture, apiFormat, canceller, rendered,
                     renderPc, captured, statsQueue, cachedStats, stats, producer, consumer>>
      /\ \/ capturePc' = "process" /\ echoStateKnown /\ apiFormat.capture = StreamFormat
         \/ capturePc' = "lockRender"
            /\ (~echoStateKnown \/ apiFormat.capture # StreamFormat)
  BY DEF MaybeInitializeCapture, UpdateActiveSubmoduleStates, SubmodulesChanged, renderVars,
     statsVars, transferVars
<1>2. /\ captured \in Nat
      /\ capturePc' = "lockRender" => captured = 0 /\ apiFormat.capture # StreamFormat
  BY <1>1, SizesAssumption DEF OwnInv, FormatsAreSet, ModuleType
<1>3. ModuleType'  BY <1>1 DEF OwnInv, ModuleType
<1>4. LocksAreHeld'  BY <1>1 DEF OwnInv, LocksAreHeld
<1>5. FormatsAreSet'  BY <1>1, <1>2 DEF OwnInv, FormatsAreSet
<1>6. FramesLeft' /\ StatsFollow'
  BY <1>1, <1>2 DEF OwnInv, FramesLeft, StatsFollow, StatsAreLatest
<1> QED  BY <1>3, <1>4, <1>5, <1>6 DEF OwnInv

\* The steps that leave formats, states and canceller alone.
LEMMA OtherSteps ==
  ASSUME OwnInv,
         \/ ProcessReverseStream \/ AnalyzeRender \/ RenderWriterInsert
         \/ ReverseReturns \/ ReinitializationLocksRender \/ ProcessStream
         \/ EmptyRenderQueue \/ UpdateStatistics \/ GetStatistics \/ UNCHANGED vars
  PROVE  OwnInv'
<1> USE DEF moduleVars, renderVars, captureVars, statsVars, transferVars
<1>1. CASE ProcessReverseStream
  <2>1. /\ renderPc = "idle" /\ rendered < MaxFrames /\ mutexRender = "free"
        /\ mutexRender' = "render"
        /\ \/ apiFormat.render = StreamFormat /\ renderPc' = "insert"
           \/ apiFormat.render # StreamFormat /\ renderPc' = "initialize"
        /\ UNCHANGED <<users, mutexCapture, apiFormat, echoStateKnown, canceller, rendered,
                       capturePc, processingConfig, captured, statsQueue, cachedStats, stats,
                       producer, consumer>>
    BY <1>1 DEF ProcessReverseStream
  <2>2. rendered \in Nat  BY SizesAssumption DEF OwnInv, ModuleType
  <2>3. ModuleType'  BY <2>1 DEF OwnInv, ModuleType
  <2>4. LocksAreHeld'  BY <2>1 DEF OwnInv, LocksAreHeld
  <2>5. FormatsAreSet'  BY <2>1, <2>2 DEF OwnInv, FormatsAreSet
  <2>6. FramesLeft' /\ StatsFollow'
    BY <2>1 DEF OwnInv, FramesLeft, StatsFollow, StatsAreLatest
  <2> QED  BY <2>3, <2>4, <2>5, <2>6 DEF OwnInv
<1>2. CASE \/ AnalyzeRender \/ RenderWriterInsert \/ EmptyRenderQueue \/ UNCHANGED vars
  <2>1. /\ renderPc' = renderPc \/ (renderPc = "insert" /\ renderPc' = "inserting")
        /\ producer' # "idle" /\ producer' # producer => renderPc' = "inserting"
        /\ consumer' # "idle" /\ consumer' # consumer => capturePc = "drain"
        /\ UNCHANGED <<users, mutexRender, mutexCapture, apiFormat, echoStateKnown, canceller,
                       rendered, capturePc, processingConfig, captured, statsQueue,
                       cachedStats, stats>>
    BY <1>2 DEF AnalyzeRender, RenderWriterInsert, EmptyRenderQueue, vars,
       Queue!InsertLoad, Queue!InsertSwap,
       Queue!InsertAdd, Queue!InsertAdvance,
       Queue!consumerVars, Queue!RemoveLoad,
       Queue!RemoveSwap, Queue!RemoveSubtract,
       Queue!RemoveAdvance, Queue!producerVars
  <2>3. ModuleType'  BY <2>1 DEF OwnInv, ModuleType
  <2>4. LocksAreHeld'  BY <2>1 DEF OwnInv, LocksAreHeld
  <2>5. FormatsAreSet'  BY <2>1 DEF OwnInv, FormatsAreSet
  <2>6. FramesLeft' /\ StatsFollow'
    BY <2>1 DEF OwnInv, FramesLeft, StatsFollow, StatsAreLatest
  <2> QED  BY <2>3, <2>4, <2>5, <2>6 DEF OwnInv
<1>3. CASE ReverseReturns
  <2>1. /\ renderPc = "inserting" /\ producer = "idle" /\ mutexRender' = "free"
        /\ renderPc' = "idle" /\ rendered' = rendered + 1
        /\ UNCHANGED <<users, mutexCapture, apiFormat, echoStateKnown, canceller,
                       capturePc, processingConfig, captured, statsQueue, cachedStats, stats,
                       producer, consumer>>
    BY <1>3 DEF ReverseReturns
  <2>2. rendered \in Nat /\ rendered < MaxFrames /\ MaxFrames \in Nat
    BY <2>1, SizesAssumption DEF OwnInv, ModuleType, FramesLeft
  <2>3. ModuleType'  BY <2>1, <2>2 DEF OwnInv, ModuleType
  <2>4. LocksAreHeld'  BY <2>1 DEF OwnInv, LocksAreHeld
  <2>5. FormatsAreSet'  BY <2>1, <2>2 DEF OwnInv, FormatsAreSet
  <2>6. FramesLeft' /\ StatsFollow'
    BY <2>1 DEF OwnInv, FramesLeft, StatsFollow, StatsAreLatest
  <2> QED  BY <2>3, <2>4, <2>5, <2>6 DEF OwnInv
<1>4. CASE ReinitializationLocksRender
  <2>1. /\ capturePc = "lockRender" /\ mutexRender = "free" /\ mutexRender' = "capture"
        /\ capturePc' = "initialize"
        /\ UNCHANGED <<users, mutexCapture, apiFormat, echoStateKnown, canceller, rendered,
                       renderPc, processingConfig, captured, statsQueue, cachedStats, stats,
                       producer, consumer>>
    BY <1>4 DEF ReinitializationLocksRender
  <2>3. ModuleType'  BY <2>1 DEF OwnInv, ModuleType
  <2>4. LocksAreHeld'  BY <2>1 DEF OwnInv, LocksAreHeld
  <2>5. FormatsAreSet'  BY <2>1 DEF OwnInv, FormatsAreSet
  <2>6. FramesLeft' /\ StatsFollow'
    BY <2>1 DEF OwnInv, FramesLeft, StatsFollow, StatsAreLatest
  <2> QED  BY <2>3, <2>4, <2>5, <2>6 DEF OwnInv
<1>5. CASE ProcessStream
  <2>1. /\ capturePc = "process" /\ mutexCapture = "free" /\ mutexCapture' = "capture"
        /\ capturePc' = "drain"
        /\ UNCHANGED <<users, mutexRender, apiFormat, echoStateKnown, canceller, rendered,
                       renderPc, processingConfig, captured, statsQueue, cachedStats, stats,
                       producer, consumer>>
    BY <1>5 DEF ProcessStream
  <2>3. ModuleType'  BY <2>1 DEF OwnInv, ModuleType
  <2>4. LocksAreHeld'  BY <2>1 DEF OwnInv, LocksAreHeld
  <2>5. FormatsAreSet'  BY <2>1 DEF OwnInv, FormatsAreSet
  <2>6. FramesLeft' /\ StatsFollow'
    BY <2>1 DEF OwnInv, FramesLeft, StatsFollow, StatsAreLatest
  <2> QED  BY <2>3, <2>4, <2>5, <2>6 DEF OwnInv
<1>6. CASE UpdateStatistics
  <2>1. /\ capturePc = "drain" /\ consumer = "idle" /\ mutexCapture' = "free"
        /\ statsQueue' = IF statsQueue = << >> THEN <<captured + 1>> ELSE statsQueue
        /\ capturePc' = "stats"
        /\ UNCHANGED <<users, mutexRender, apiFormat, echoStateKnown, canceller, rendered,
                       renderPc, processingConfig, captured, cachedStats, stats,
                       producer, consumer>>
    BY <1>6 DEF UpdateStatistics
  <2>2. statsQueue' = <<captured + 1>>  BY <2>1 DEF OwnInv, StatsFollow
  <2>3. ModuleType'  BY <2>1 DEF OwnInv, ModuleType
  <2>4. LocksAreHeld'  BY <2>1 DEF OwnInv, LocksAreHeld
  <2>5. FormatsAreSet'  BY <2>1 DEF OwnInv, FormatsAreSet
  <2>6. FramesLeft' /\ StatsFollow'
    BY <2>1, <2>2 DEF OwnInv, FramesLeft, StatsFollow, StatsAreLatest
  <2> QED  BY <2>3, <2>4, <2>5, <2>6 DEF OwnInv
<1>7. CASE GetStatistics
  <2>1. /\ capturePc = "stats" /\ capturePc' = "idle" /\ captured' = captured + 1
        /\ statsQueue' = << >> /\ stats' = cachedStats'
        /\ cachedStats' = IF statsQueue = << >> THEN cachedStats ELSE Head(statsQueue)
        /\ UNCHANGED <<users, mutexRender, mutexCapture, apiFormat, echoStateKnown, canceller,
                       rendered, renderPc, processingConfig, producer, consumer>>
    BY <1>7 DEF GetStatistics
  <2>2. /\ captured \in Nat /\ captured < MaxFrames /\ MaxFrames \in Nat
        /\ captured + 1 \in Frame
    BY <2>1, SizesAssumption DEF OwnInv, ModuleType, FramesLeft, Frame
  <2>3. cachedStats' = captured + 1
    BY <2>1 DEF OwnInv, StatsFollow
  <2>4. ModuleType'  BY <2>1, <2>2, <2>3 DEF OwnInv, ModuleType
  <2>5. LocksAreHeld'  BY <2>1 DEF OwnInv, LocksAreHeld
  <2>6. FormatsAreSet'  BY <2>1, <2>2 DEF OwnInv, FormatsAreSet
  <2>7. FramesLeft' /\ StatsFollow'
    BY <2>1, <2>3 DEF OwnInv, FramesLeft, StatsFollow, StatsAreLatest
  <2> QED  BY <2>4, <2>5, <2>6, <2>7 DEF OwnInv
<1> QED  BY <1>1, <1>2, <1>3, <1>4, <1>5, <1>6, <1>7

-----------------------------------------------------------------------------
(* Module and queue together.                                               *)

\* The module and its queue as zm_apm_create leaves them.
LEMMA InitIInv ==
  ASSUME Init PROVE IInv
<1>1. Queue!Init  BY DEF Init
<1> QED  BY <1>1, QueueStarts, InitOwn DEF IInv

\* Every step keeps the queue in order, by being one of the queue's or by
\* putting a new queue in its place, and keeps what the bounded queue says.
LEMMA NextQueue ==
  ASSUME IInv, [Next]_vars
  PROVE  QueueInv' /\ [Queue!Abstract!Next]_(Queue!Abstract!vars)
<1>1. CASE MaybeInitializeRender
  <2>1. InitializeEchoController /\ producer = "idle" /\ consumer = "idle"
    BY <1>1, RenderInitializes DEF IInv, MaybeInitializeRender, InitializeLocked
  <2> QED  BY <2>1, NewQueue DEF IInv, Queue!Abstract!Next
<1>2. CASE ReinitializeCapture
  <2>1. InitializeEchoController /\ producer = "idle" /\ consumer = "idle"
    BY <1>2, CaptureInitializes DEF IInv, ReinitializeCapture, InitializeLocked
  <2> QED  BY <2>1, NewQueue DEF IInv, Queue!Abstract!Next
<1>3. CASE AnalyzeRender
  <2>1. rendered + 1 \in Frame
    BY <1>3, SizesAssumption DEF AnalyzeRender, IInv, OwnInv, ModuleType, FramesLeft, Frame
  <2>2. Queue!InsertLoad(rendered + 1)  BY <1>3 DEF AnalyzeRender
  <2> QED  BY <2>1, <2>2, QueueSteps DEF IInv
<1>4. CASE RenderWriterInsert \/ EmptyRenderQueue
  BY <1>4, QueueSteps DEF IInv, RenderWriterInsert, EmptyRenderQueue
<1>5. CASE \/ ProcessReverseStream \/ ReverseReturns \/ MaybeInitializeCapture
           \/ ReinitializationLocksRender \/ ProcessStream \/ UpdateStatistics
           \/ GetStatistics \/ UNCHANGED vars
  <2>1. UNCHANGED transferVars
    BY <1>5 DEF ProcessReverseStream, ReverseReturns, MaybeInitializeCapture,
       ReinitializationLocksRender, ProcessStream, UpdateStatistics, GetStatistics, vars
  <2> QED  BY <2>1, QueueSteps DEF IInv
<1> QED  BY <1>1, <1>2, <1>3, <1>4, <1>5 DEF Next, RenderStep, CaptureStep

\* Locks, formats and statistics need no fact about the queue.
LEMMA NextIInv ==
  ASSUME IInv, [Next]_vars PROVE IInv'
<1>1. OwnInv'
  BY RenderInitializes, CaptureInitializes, CaptureDecides, OtherSteps
     DEF IInv, Next, RenderStep, CaptureStep
<1> QED  BY <1>1, NextQueue DEF IInv

\* The locks, the formats, the statistics and the queue, in every state.
THEOREM Invariance == Spec => []IInv
<1>1. Init => IInv  BY InitIInv
<1>2. IInv /\ [Next]_vars => IInv'  BY NextIInv
<1> QED  BY <1>1, <1>2, PTL DEF Spec

\* Far-end frames reach the canceller through a bounded first-in first-out
\* queue, whatever the two threads do and however often the canceller and its
\* queue are replaced under them (swap_queue.h under AnalyzeRender,
\* EmptyRenderQueue and InitializeEchoController).
THEOREM FramesCrossInOrder == Spec => ImplementsRenderTransfer
<1>1. Init => Queue!Abstract!Init
  BY QueueStartsEmpty DEF Init
<1>2. IInv /\ [Next]_vars => [Queue!Abstract!Next]_(Queue!Abstract!vars)  BY NextQueue
<1> QED
  BY <1>1, <1>2, Invariance, PTL DEF Spec, ImplementsRenderTransfer,
     Queue!ImplementsBoundedQueue, Queue!Abstract!Spec

\* Only the two initializations replace the canceller, and each is the first
\* of its direction: none is left once a call of each direction returned
\* (MaybeInitializeRender, MaybeInitializeCapture).
THEOREM CancellerIsKept == Spec => CancellerSurvives
<1>1. ASSUME IInv, [Next]_vars, rendered > 0, captured > 0 PROVE canceller' = canceller
  <2>1. ~MaybeInitializeRender  BY <1>1, RenderInitializes DEF IInv
  <2>2. ~ReinitializeCapture  BY <1>1, CaptureInitializes DEF IInv
  <2> QED
    BY <1>1, <2>1, <2>2 DEF Next, RenderStep, CaptureStep, ProcessReverseStream, AnalyzeRender,
       RenderWriterInsert, ReverseReturns, MaybeInitializeCapture,
       ReinitializationLocksRender, ProcessStream, EmptyRenderQueue, UpdateStatistics,
       GetStatistics, vars, moduleVars
<1>2. IInv /\ [Next]_vars
        => [rendered > 0 /\ captured > 0 => canceller' = canceller]_vars  BY <1>1
<1> QED  BY <1>2, Invariance, PTL DEF Spec, CancellerSurvives

\* What ProcessRenderStreamLocked reads under mutex_render_ alone is not
\* written under mutex_capture_ while it runs: a render call that is past its
\* initialization has found, or made, the states known.
THEOREM StatesAreStable == Spec => SubmoduleStatesAreStable
<1>1. ASSUME IInv, [Next]_vars, echoStateKnown' # echoStateKnown
      PROVE  renderPc \notin {"insert", "inserting"}
  <2>1. echoStateKnown' = TRUE \/ echoStateKnown' = echoStateKnown
    BY <1>1 DEF Next, RenderStep, CaptureStep, ProcessReverseStream, AnalyzeRender,
       RenderWriterInsert, ReverseReturns, MaybeInitializeCapture,
       ReinitializationLocksRender, ProcessStream, EmptyRenderQueue, UpdateStatistics,
       GetStatistics, vars, moduleVars, MaybeInitializeRender, ReinitializeCapture,
       InitializeLocked, UpdateActiveSubmoduleStates
  <2>2. ~echoStateKnown  BY <1>1, <2>1 DEF IInv, OwnInv, ModuleType
  <2> QED  BY <1>1, <2>2 DEF IInv, OwnInv, FormatsAreSet
<1>2. IInv /\ [Next]_vars
        => [echoStateKnown' # echoStateKnown
              => renderPc \notin {"insert", "inserting"}]_vars  BY <1>1
<1> QED  BY <1>2, Invariance, PTL DEF Spec, SubmoduleStatesAreStable

-----------------------------------------------------------------------------
(* One far-end frame for each capture frame, when both calls are made from  *)
(* one queue.                                                               *)

\* The message at the front, in its slot or in the consumer's own buffer.
First == IF consumer = "subtract" THEN output ELSE slots[Queue!Front]
Holds(f) == numElements = 1 /\ First = f
Taken == numElements = 0 /\ received = IF captured = 0 THEN NoFrame ELSE captured + 1

\* The calls alternate, a render call first.
Turns ==
  /\ rendered \in {captured, captured + 1}
  /\ renderPc # "idle" => capturePc = "idle" /\ rendered = captured
  /\ capturePc # "idle" => rendered = captured + 1

\* The render call finds the queue empty and leaves its own frame in it.
FrameIsPut ==
  /\ rendered = captured /\ (renderPc # "inserting" \/ producer \in {"swap", "add"})
       => numElements = 0
  /\ renderPc = "inserting" /\ producer = "swap" => input = rendered + 1
  /\ renderPc = "inserting" /\ producer = "add" => slots[nextWrite] = rendered + 1
  /\ renderPc = "inserting" /\ producer \in {"idle", "advance"} => Holds(rendered + 1)

\* The capture call finds that frame in it and takes it; the first capture
\* call throws it away.
FrameIsTaken ==
  /\ captured = 0 => received = NoFrame
  /\ rendered = captured + 1 /\ capturePc = "idle" => Holds(rendered)
  /\ capturePc = "process" => IF captured = 0 THEN Taken ELSE Holds(rendered)
  /\ capturePc = "drain" => Taken \/ (captured # 0 /\ Holds(rendered))
  /\ capturePc = "stats" => Taken

Paired == Turns /\ FrameIsPut /\ FrameIsTaken
PairedInv == users = "oneQueue" => Paired

\* Before the first frame nothing is queued and nothing was received.
LEMMA InitPaired ==
  ASSUME Init PROVE Paired
BY DEF Init, Queue!Init, Paired, Turns, FrameIsPut, FrameIsTaken

\* The steps outside of the queue.
LEMMA CallsKeepPairs ==
  ASSUME IInv, users = "oneQueue", Paired,
         \/ ProcessReverseStream \/ ReverseReturns \/ MaybeInitializeCapture
         \/ ReinitializationLocksRender \/ ProcessStream \/ UpdateStatistics
         \/ GetStatistics \/ UNCHANGED vars
  PROVE  Paired'
<1>1. /\ rendered \in Nat /\ captured \in Nat /\ numElements \in Nat
      /\ producer # "idle" => renderPc = "inserting"
  BY SizesAssumption DEF IInv, OwnInv, ModuleType, LocksAreHeld, QueueInv, Queue!TypeOK
<1>2. /\ UNCHANGED <<numElements, producer, input, slots, nextWrite, received, users>>
      /\ First' = First
  BY DEF ProcessReverseStream, ReverseReturns, MaybeInitializeCapture,
     ReinitializationLocksRender, ProcessStream, UpdateStatistics, GetStatistics, vars,
     transferVars, First, Queue!Front, Queue!Wrap
<1> USE DEF Paired, Turns, FrameIsPut, FrameIsTaken, Holds, Taken, renderVars, captureVars
<1>3. CASE ProcessReverseStream
  BY <1>1, <1>2, <1>3 DEF ProcessReverseStream, MayRender
<1>4. CASE ReverseReturns
  BY <1>1, <1>2, <1>4 DEF ReverseReturns
<1>5. CASE MaybeInitializeCapture
  <2>1. capturePc' = "process" => captured # 0
    BY <1>5 DEF MaybeInitializeCapture, IInv, OwnInv, FormatsAreSet
  <2> QED  BY <1>1, <1>2, <1>5, <2>1 DEF MaybeInitializeCapture, MayCapture
<1>6. CASE ReinitializationLocksRender
  BY <1>1, <1>2, <1>6 DEF ReinitializationLocksRender
<1>7. CASE ProcessStream
  BY <1>1, <1>2, <1>7 DEF ProcessStream
<1>8. CASE UpdateStatistics
  BY <1>1, <1>2, <1>8 DEF UpdateStatistics
<1>9. CASE GetStatistics
  BY <1>1, <1>2, <1>9 DEF GetStatistics
<1>10. CASE UNCHANGED vars
  BY <1>1, <1>2, <1>10 DEF vars
<1> QED  BY <1>3, <1>4, <1>5, <1>6, <1>7, <1>8, <1>9, <1>10

\* A replaced canceller has nothing queued, before the first frame of either
\* direction and after the first far-end frame alike.
LEMMA NewCancellerKeepsPairs ==
  ASSUME IInv, users = "oneQueue", Paired, MaybeInitializeRender \/ ReinitializeCapture
  PROVE  Paired'
<1>1. /\ rendered \in Nat /\ captured \in Nat
      /\ numElements' = 0 /\ received' = received /\ producer' = producer
      /\ rendered' = rendered /\ captured' = captured
  BY SizesAssumption
     DEF IInv, OwnInv, ModuleType, MaybeInitializeRender, ReinitializeCapture,
         InitializeLocked, InitializeEchoController, renderVars, captureVars
<1> USE DEF Paired, Turns, FrameIsPut, FrameIsTaken, Holds, Taken
<1>2. CASE MaybeInitializeRender
  <2>1. /\ renderPc = "initialize" /\ renderPc' = "insert" /\ capturePc' = capturePc
        /\ rendered = 0
    BY <1>2, RenderInitializes DEF MaybeInitializeRender, captureVars, IInv
  <2> QED  BY <1>1, <2>1
<1>3. CASE ReinitializeCapture
  <2>1. /\ capturePc = "initialize" /\ capturePc' = "process" /\ renderPc' = renderPc
        /\ captured = 0
    BY <1>3, CaptureInitializes DEF ReinitializeCapture, renderVars, IInv
  <2> QED  BY <1>1, <2>1
<1> QED  BY <1>2, <1>3

\* The render call puts its frame where the capture side looks first.
LEMMA PuttingKeepsPairs ==
  ASSUME IInv, users = "oneQueue", Paired, AnalyzeRender \/ RenderWriterInsert
  PROVE  Paired'
<1>1. /\ rendered \in Nat /\ captured \in Nat /\ numElements \in Nat
      /\ nextWrite \in DOMAIN slots
      /\ Queue!Front \in Queue!Slot /\ TransferSize \in Nat \ {0}
  BY SizesAssumption, FrontIsSlot
     DEF IInv, OwnInv, ModuleType, QueueInv, Queue!TypeOK
<1>2. /\ renderPc \in {"insert", "inserting"} /\ capturePc = "idle" /\ rendered = captured
      /\ consumer = "idle"
  BY DEF AnalyzeRender, RenderWriterInsert, Paired, Turns, IInv, OwnInv, LocksAreHeld
<1>3. /\ rendered' = rendered /\ captured' = captured /\ capturePc' = capturePc
      /\ renderPc' = "inserting"
  BY DEF AnalyzeRender, RenderWriterInsert, renderVars, captureVars
<1>4. Turns'  BY <1>2, <1>3 DEF Paired, Turns
<1>5. received' = received /\ consumer' = consumer /\ nextRead' = nextRead /\ output' = output
  BY DEF AnalyzeRender, RenderWriterInsert, Queue!InsertLoad,
     Queue!InsertSwap, Queue!InsertAdd,
     Queue!InsertAdvance, Queue!consumerVars
<1>6. FrameIsTaken'
  BY <1>1, <1>2, <1>3, <1>5 DEF Paired, FrameIsTaken
<1>7. (Queue!Front)' = Queue!Front  BY <1>5 DEF Queue!Front, Queue!Wrap
<1>8. First = slots[Queue!Front] /\ First' = slots'[Queue!Front]
  BY <1>2, <1>5, <1>7 DEF First
<1>9. CASE AnalyzeRender
  <2>1. /\ renderPc = "insert" /\ producer = "idle" /\ numElements' = numElements
        /\ input' = rendered + 1
        /\ producer' = IF numElements = TransferSize THEN "idle" ELSE "swap"
    BY <1>9 DEF AnalyzeRender, Queue!InsertLoad, IInv, OwnInv, LocksAreHeld
  <2>2. numElements = 0  BY <1>2, <2>1 DEF Paired, FrameIsPut
  <2>3. producer' = "swap"  BY <2>1, <2>2, SizesAssumption
  <2>4. FrameIsPut'  BY <1>3, <2>1, <2>2, <2>3 DEF FrameIsPut
  <2> QED  BY <1>4, <1>6, <2>4 DEF Paired
<1>10. CASE renderPc = "inserting" /\ Queue!InsertSwap
  <2>1. /\ producer = "swap" /\ producer' = "add" /\ numElements' = numElements
        /\ slots'[nextWrite] = input /\ nextWrite' = nextWrite
    BY <1>1, <1>10 DEF Queue!InsertSwap
  <2>2. numElements = 0 /\ input = rendered + 1
    BY <1>2, <1>10, <2>1 DEF Paired, FrameIsPut
  <2>3. FrameIsPut'  BY <1>3, <2>1, <2>2 DEF FrameIsPut
  <2> QED  BY <1>4, <1>6, <2>3 DEF Paired
<1>11. CASE renderPc = "inserting" /\ Queue!InsertAdd
  <2>1. /\ producer = "add" /\ producer' = "advance" /\ numElements' = numElements + 1
        /\ slots' = slots
    BY <1>11 DEF Queue!InsertAdd
  <2>2. numElements = 0 /\ slots[nextWrite] = rendered + 1
    BY <1>2, <1>11, <2>1 DEF Paired, FrameIsPut
  <2>3. nextWrite = Queue!Front
    <3>1. nextWrite = Queue!Wrap(Queue!Front + numElements)
      BY <2>1 DEF IInv, QueueInv, IndicesAgree, Queue!Back
    <3> QED  BY <1>1, <2>2, <3>1 DEF Queue!Wrap, Queue!Slot
  <2>4. Holds(rendered + 1)'  BY <1>3, <1>8, <2>1, <2>2, <2>3 DEF Holds
  <2>5. FrameIsPut'  BY <1>3, <2>1, <2>4 DEF FrameIsPut
  <2> QED  BY <1>4, <1>6, <2>5 DEF Paired
<1>12. CASE renderPc = "inserting" /\ Queue!InsertAdvance
  <2>1. /\ producer = "advance" /\ producer' = "idle" /\ numElements' = numElements
        /\ slots' = slots
    BY <1>12 DEF Queue!InsertAdvance
  <2>2. Holds(rendered + 1)  BY <1>12, <2>1 DEF Paired, FrameIsPut
  <2>3. Holds(rendered + 1)'  BY <1>3, <1>8, <2>1, <2>2 DEF Holds
  <2>4. FrameIsPut'  BY <1>3, <2>1, <2>3 DEF FrameIsPut
  <2> QED  BY <1>4, <1>6, <2>4 DEF Paired
<1> QED  BY <1>9, <1>10, <1>11, <1>12 DEF RenderWriterInsert

\* The capture call takes the one frame that is there.
LEMMA TakingKeepsPairs ==
  ASSUME IInv, users = "oneQueue", Paired, EmptyRenderQueue
  PROVE  Paired'
<1>1. /\ rendered \in Nat /\ captured \in Nat /\ numElements \in Nat
  BY SizesAssumption DEF IInv, OwnInv, ModuleType, QueueInv, Queue!TypeOK
<1>2. /\ capturePc = "drain" /\ renderPc = "idle" /\ rendered = captured + 1
      /\ Taken \/ (captured # 0 /\ Holds(rendered))
  BY DEF EmptyRenderQueue, Paired, Turns, FrameIsTaken
<1>3. /\ rendered' = rendered /\ captured' = captured /\ capturePc' = capturePc
      /\ renderPc' = renderPc
  BY DEF EmptyRenderQueue, renderVars, captureVars
<1>4. Turns' /\ FrameIsPut'
  BY <1>1, <1>2, <1>3 DEF Paired, Turns, FrameIsPut
<1>5. consumer \in {"swap", "subtract"} => numElements # 0
  BY <1>1 DEF IInv, QueueInv, LoadsHold
<1>6. CASE Queue!RemoveLoad
  <2>1. /\ consumer = "idle" /\ consumer' = "swap" /\ numElements' = numElements
        /\ received' = received /\ slots' = slots /\ nextRead' = nextRead
    BY <1>6 DEF Queue!RemoveLoad
  <2>2. First' = First  BY <2>1 DEF First, Queue!Front, Queue!Wrap
  <2>3. FrameIsTaken'
    BY <1>1, <1>2, <1>3, <2>1, <2>2 DEF Paired, FrameIsTaken, Holds, Taken
  <2> QED  BY <1>4, <2>3 DEF Paired
<1>7. CASE Queue!RemoveSwap
  <2>1. /\ consumer = "swap" /\ consumer' = "subtract" /\ numElements' = numElements
        /\ received' = received /\ output' = slots[nextRead]
    BY <1>7 DEF Queue!RemoveSwap
  <2>2. First' = First  BY <2>1 DEF First, Queue!Front
  <2>3. FrameIsTaken'
    BY <1>1, <1>2, <1>3, <2>1, <2>2 DEF Paired, FrameIsTaken, Holds, Taken
  <2> QED  BY <1>4, <2>3 DEF Paired
<1>8. CASE Queue!RemoveSubtract
  <2>1. consumer = "subtract" /\ numElements' = numElements - 1 /\ received' = output
    BY <1>8 DEF Queue!RemoveSubtract
  <2>2. captured # 0 /\ numElements = 1 /\ output = rendered
    BY <1>2, <1>5, <2>1 DEF Taken, Holds, First
  <2>3. Taken'  BY <1>2, <1>3, <2>1, <2>2 DEF Taken
  <2>4. FrameIsTaken'  BY <1>1, <1>2, <1>3, <2>2, <2>3 DEF FrameIsTaken
  <2> QED  BY <1>4, <2>4 DEF Paired
<1>9. CASE Queue!RemoveAdvance
  <2>1. /\ consumer = "advance" /\ consumer' = "idle" /\ numElements' = numElements
        /\ received' = received /\ slots' = slots /\ nextRead' = Queue!Wrap(nextRead + 1)
    BY <1>9 DEF Queue!RemoveAdvance, Queue!Wrap
  <2>2. First' = First  BY <2>1 DEF First, Queue!Front
  <2>3. FrameIsTaken'
    BY <1>1, <1>2, <1>3, <2>1, <2>2 DEF Paired, FrameIsTaken, Holds, Taken
  <2> QED  BY <1>4, <2>3 DEF Paired
<1> QED  BY <1>6, <1>7, <1>8, <1>9 DEF EmptyRenderQueue

\* Whichever call runs, the calls keep to their turns and the frames to them.
LEMMA NextPaired ==
  ASSUME IInv, PairedInv, [Next]_vars PROVE PairedInv'
<1>1. users' = users
  BY DEF Next, RenderStep, CaptureStep, ProcessReverseStream, AnalyzeRender,
     RenderWriterInsert, ReverseReturns, MaybeInitializeCapture, ReinitializationLocksRender,
     ProcessStream, EmptyRenderQueue, UpdateStatistics, GetStatistics, vars,
     MaybeInitializeRender, ReinitializeCapture
<1> SUFFICES ASSUME users = "oneQueue" PROVE Paired'  BY <1>1 DEF PairedInv
<1> QED
  BY CallsKeepPairs, NewCancellerKeepsPairs, PuttingKeepsPairs, TakingKeepsPairs
     DEF PairedInv, Next, RenderStep, CaptureStep

\* What the capture side hands on belongs to the frame it is handed on with:
\* the latest statistics, and, used as zMeet uses it, the far-end frame of the
\* same number ("AEC3 needs these calls strictly paired",
\* EchoCanceller.swift), from a slot nobody is writing.
THEOREM HandedOnInTime == Spec => []CaptureIsUpToDate
<1>1. Init => PairedInv  BY InitPaired DEF PairedInv
<1>2. IInv /\ PairedInv /\ [Next]_vars => PairedInv'  BY NextPaired
<1>3. ASSUME IInv, PairedInv PROVE CaptureIsUpToDate
  <2>1. TypeOK
    <3>1. Queue!TypeOK  BY <1>3 DEF IInv, QueueInv
    <3>2. canceller \in 1 .. 3  BY <1>3 DEF IInv, OwnInv, FormatsAreSet
    <3>3. statsQueue \in {<< >>} \cup {<<f>> : f \in Frame}
      <4>1. capturePc = "stats" => captured + 1 \in Frame
        BY <1>3, SizesAssumption DEF IInv, OwnInv, ModuleType, FramesLeft, Frame
      <4> QED  BY <1>3, <4>1 DEF IInv, OwnInv, StatsFollow
    <3> QED  BY <1>3, <3>1, <3>2, <3>3 DEF TypeOK, IInv, OwnInv, ModuleType
  <2>2. StatsAreLatest  BY <1>3 DEF IInv, OwnInv, StatsFollow
  <2>3. FramesArePaired
    BY <1>3 DEF FramesArePaired, PairedInv, Paired, FrameIsTaken, Taken
  <2>4. Queue!SlotsAreNotShared  BY <1>3, SlotsAreApart DEF IInv
  <2> QED  BY <2>1, <2>2, <2>3, <2>4 DEF CaptureIsUpToDate
<1> QED  BY <1>1, <1>2, <1>3, Invariance, PTL DEF Spec

=============================================================================
