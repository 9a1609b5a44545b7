----------------------------- MODULE BoundedFifo -----------------------------
(***************************************************************************)
(* What sinew's single-producer single-consumer rings promise: a queue of  *)
(* at most Capacity messages.  The producer appends messages.  The         *)
(* consumer looks at the oldest one as often as it likes (every look shows *)
(* the same message), and removes exactly that one when it is done.        *)
(***************************************************************************)
EXTENDS Integers, Sequences

CONSTANTS
  Capacity,  \* the most messages the queue holds
  Payload,   \* the messages
  NoItem     \* the consumer looks at no message

VARIABLES
  queue,     \* the messages appended and not removed, oldest first
  item       \* the message the consumer looks at, or NoItem

vars == <<queue, item>>

Init == queue = <<>> /\ item = NoItem

Put(v) ==
  /\ Len(queue) < Capacity
  /\ queue' = Append(queue, v)
  /\ UNCHANGED item

Look ==
  /\ queue # <<>>
  /\ item' = queue[1]
  /\ UNCHANGED queue

LookAway == item' = NoItem /\ UNCHANGED queue

Remove ==
  /\ queue # <<>>
  /\ queue' = Tail(queue)
  /\ item' = NoItem

\* The queue is emptied; not a step of Next, but of rings that are re-created.
Clear == queue' = <<>> /\ item' = NoItem

Next == (\E v \in Payload : Put(v)) \/ Look \/ LookAway \/ Remove

Spec == Init /\ [][Next]_vars

=============================================================================
