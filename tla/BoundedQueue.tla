---------------------------- MODULE BoundedQueue ----------------------------
(***************************************************************************)
(* What rtc_base/swap_queue.h promises its two users: a first-in first-out *)
(* queue that holds at most Size messages.  A put on a full queue and a    *)
(* take from an empty one are refused and change nothing; the consumer may *)
(* throw away everything that is queued.                                   *)
(***************************************************************************)
EXTENDS Naturals, Sequences

CONSTANTS Message,   \* what the producer may put
          Size,      \* the capacity
          Nothing    \* received before the first take

VARIABLES queue,     \* the messages put and not yet taken, oldest first
          received   \* the message taken last

vars == <<queue, received>>

Init == queue = << >> /\ received = Nothing

Put(m) == /\ Len(queue) < Size
          /\ queue' = Append(queue, m)
          /\ UNCHANGED received

Take == /\ queue # << >>
        /\ received' = Head(queue)
        /\ queue' = Tail(queue)

Drop == /\ queue' = << >>
        /\ UNCHANGED received

Next == (\E m \in Message : Put(m)) \/ Take \/ Drop

Spec == Init /\ [][Next]_vars
=============================================================================
