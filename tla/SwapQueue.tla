----------------------------- MODULE SwapQueue ------------------------------
(***************************************************************************)
(* rtc_base/swap_queue.h, the queue that takes far-end frames from the     *)
(* render thread to the capture thread and statistics back.  One producer  *)
(* and one consumer, no lock: the only shared counter is num_elements_,    *)
(* and messages move by swapping a full buffer for an empty one, so a      *)
(* message is in exactly one place at a time.                              *)
(*                                                                         *)
(* A call is split where the other thread may run in between: the load of  *)
(* num_elements_, the swap, the atomic add or subtract, and the private    *)
(* index that moves last.                                                  *)
(***************************************************************************)
EXTENDS Naturals, Sequences

CONSTANTS Message,   \* what the producer may put
          Size,      \* queue_.size()
          Nothing    \* the contents of a buffer with no message in it

VARIABLES
  slots,         \* queue_: what each slot holds
  numElements,   \* num_elements_, the atomic both threads use
  nextWrite,     \* next_write_index_, the producer's
  nextRead,      \* next_read_index_, the consumer's
  input,         \* what the producer's own buffer holds
  output,        \* what the consumer's own buffer holds
  producer,      \* where the producer is in Insert
  consumer,      \* where the consumer is in Remove
  received       \* the message the last finished Remove took

vars == <<slots, numElements, nextWrite, nextRead, input, output, producer,
          consumer, received>>
producerVars == <<nextWrite, input, producer>>
consumerVars == <<nextRead, output, consumer, received>>

Slot == 0 .. Size - 1
Content == Message \cup {Nothing}

TypeOK ==
  /\ slots \in [Slot -> Content]
  /\ numElements \in 0 .. Size
  /\ nextWrite \in Slot
  /\ nextRead \in Slot
  /\ input \in Content
  /\ output \in Content
  /\ producer \in {"idle", "swap", "add", "advance"}
  /\ consumer \in {"idle", "swap", "subtract", "advance"}
  /\ received \in Content

\* The code never divides: an index that reaches the size starts again at 0.
Wrap(i) == IF i >= Size THEN i - Size ELSE i

Init ==
  /\ slots = [s \in Slot |-> Nothing]
  /\ numElements = 0
  /\ nextWrite = 0
  /\ nextRead = 0
  /\ input = Nothing
  /\ output = Nothing
  /\ producer = "idle"
  /\ consumer = "idle"
  /\ received = Nothing

-----------------------------------------------------------------------------
(* The producer.  Insert returns false on a full queue; the caller's buffer *)
(* is then still the caller's.                                              *)

InsertLoad(m) ==
  /\ producer = "idle"
  /\ input' = m
  /\ producer' = IF numElements = Size THEN "idle" ELSE "swap"
  /\ UNCHANGED <<slots, numElements, nextWrite>>
  /\ UNCHANGED consumerVars

InsertSwap ==
  /\ producer = "swap"
  /\ slots' = [slots EXCEPT ![nextWrite] = input]
  /\ input' = slots[nextWrite]
  /\ producer' = "add"
  /\ UNCHANGED <<numElements, nextWrite>>
  /\ UNCHANGED consumerVars

InsertAdd ==
  /\ producer = "add"
  /\ numElements' = numElements + 1
  /\ producer' = "advance"
  /\ UNCHANGED <<slots, nextWrite, input>>
  /\ UNCHANGED consumerVars

InsertAdvance ==
  /\ producer = "advance"
  /\ nextWrite' = Wrap(nextWrite + 1)
  /\ producer' = "idle"
  /\ UNCHANGED <<slots, numElements, input>>
  /\ UNCHANGED consumerVars

-----------------------------------------------------------------------------
(* The consumer.  Remove returns false on an empty queue.                   *)

RemoveLoad ==
  /\ consumer = "idle"
  /\ numElements # 0
  /\ consumer' = "swap"
  /\ UNCHANGED <<slots, numElements, nextRead, output, received>>
  /\ UNCHANGED producerVars

RemoveSwap ==
  /\ consumer = "swap"
  /\ slots' = [slots EXCEPT ![nextRead] = output]
  /\ output' = slots[nextRead]
  /\ consumer' = "subtract"
  /\ UNCHANGED <<numElements, nextRead, received>>
  /\ UNCHANGED producerVars

RemoveSubtract ==
  /\ consumer = "subtract"
  /\ numElements' = numElements - 1
  /\ received' = output
  /\ consumer' = "advance"
  /\ UNCHANGED <<slots, nextRead, output>>
  /\ UNCHANGED producerVars

RemoveAdvance ==
  /\ consumer = "advance"
  /\ nextRead' = Wrap(nextRead + 1)
  /\ consumer' = "idle"
  /\ UNCHANGED <<slots, numElements, output, received>>
  /\ UNCHANGED producerVars

\* Clear skips what is counted; a message being inserted survives it.
Clear ==
  /\ consumer = "idle"
  /\ nextRead' = Wrap(nextRead + numElements)
  /\ numElements' = 0
  /\ UNCHANGED <<slots, output, consumer, received>>
  /\ UNCHANGED producerVars

Produce == (\E m \in Message : InsertLoad(m)) \/ InsertSwap \/ InsertAdd
             \/ InsertAdvance
Consume == RemoveLoad \/ RemoveSwap \/ RemoveSubtract \/ RemoveAdvance
             \/ Clear

Next == Produce \/ Consume

Spec == Init /\ [][Next]_vars

-----------------------------------------------------------------------------
\* The slots as the counter sees them: an index that has not moved yet is
\* read as if it had.
Front == IF consumer = "advance" THEN Wrap(nextRead + 1) ELSE nextRead
Back == IF producer = "advance" THEN Wrap(nextWrite + 1) ELSE nextWrite

\* The queue the two threads share: its first message is already in the
\* consumer's buffer between the swap and the subtraction.
Queued ==
  [i \in 1 .. numElements |->
     IF i = 1 /\ consumer = "subtract" THEN output
     ELSE slots[Wrap(Front + i - 1)]]

(* The two threads are never in the middle of swapping the same slot.  The *)
(* code has only num_elements_ to keep them apart (Insert's and Remove's   *)
(* comments on the acquire load).                                          *)
SlotsAreNotShared ==
  producer \in {"swap", "add"} /\ consumer \in {"swap", "subtract"}
    => nextWrite # nextRead

Abstract == INSTANCE BoundedQueue WITH queue <- Queued

(* Split into these steps, Insert, Remove and Clear are a bounded first-in *)
(* first-out queue: nothing is lost, duplicated or reordered.              *)
ImplementsBoundedQueue == Abstract!Spec
=============================================================================
