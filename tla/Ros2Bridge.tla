------------------------------ MODULE Ros2Bridge ------------------------------
(***************************************************************************)
(* The ROS 2 adaptors (ros2_bridge.hpp) at the two ends of a ring:         *)
(* BridgeSubscriber turns ROS messages into messages of the ring,          *)
(* BridgePublisher polls the ring and hands each message, converted, to a  *)
(* callback that publishes it.  The ring is the queue that the rings are   *)
(* shown to implement, BoundedFifo.  The other end of either adaptor may   *)
(* as well be native code, which calls push, or peek_read and commit_read. *)
(*                                                                         *)
(* Converters are the application's.  As in tests/test_ros2_bridge.cpp,    *)
(* every field of the native message has a field in the ROS message, whose *)
(* other fields (orientation, covariances) the converter leaves alone.     *)
(***************************************************************************)
EXTENDS Integers, Sequences

CONSTANTS
  Capacity,     \* slots of the ring
  Mapped,       \* the fields of the native message
  RosField,     \* the fields of the ROS message
  Value,        \* what a field may hold
  Default,      \* the value of a field in RosMsg{}
  Limits,       \* the values of max_messages that callers use
  MaxAccepted,  \* a bound on the messages sent
  MaxFaults,    \* a bound on the calls of spin_some that do not return
  NoItem        \* the publisher looks at no message

ASSUME BridgeAssumption ==
  /\ Capacity \in Nat /\ MaxAccepted \in Nat /\ MaxFaults \in Nat
  /\ Mapped \subseteq RosField /\ Default \in Value /\ Limits \subseteq Nat
  /\ NoItem \notin [Mapped -> Value]

VARIABLES
  queue, item,   \* the ring, and the message that the publisher looks at
  publish_cb,    \* publish_cb_ holds a function
  bpc,           \* where spin_some is
  ros_msg,       \* its local RosMsg
  processed,     \* how many messages it has committed
  max_messages,  \* how many it may
  faults,        \* how many calls of it ended with an exception or a crash
  accepted,      \* history: the messages committed to the ring
  calls          \* history: the calls of the callback, with the message's number

SinewMsg == [Mapped -> Value]
RosMsg == [RosField -> Value]

fifo == <<queue, item>>
local == <<bpc, ros_msg, processed, max_messages>>
vars == <<fifo, local, publish_cb, faults, accepted, calls>>

Ring == INSTANCE BoundedFifo WITH Payload <- SinewMsg

-----------------------------------------------------------------------------
RosMsgInit == [f \in RosField |-> Default]

\* Mutation: a field is converted only when it is set.
mut_to_ros_set_only(in, out) ==
  [f \in RosField |-> IF f \in Mapped /\ in[f] # Default THEN in[f] ELSE out[f]]

\* The converters.
to_ros(in, out) == [f \in RosField |-> IF f \in Mapped THEN in[f] ELSE out[f]]
from_ros(in) == [f \in Mapped |-> in[f]]

\* How many messages have left the ring.
Removed == Len(accepted) - Len(queue)

-----------------------------------------------------------------------------
\* handle_ros_message(r): prepare_write, from_ros into the slot, commit_write.
\* When the ring looks full it returns false and nothing changes; nor is
\* anything committed when the converter throws.
handle_ros_message(r) ==
  /\ Len(accepted) < MaxAccepted
  /\ Ring!Put(from_ros(r))
  /\ accepted' = Append(accepted, from_ros(r))
  /\ UNCHANGED <<local, publish_cb, faults, calls>>

\* spin_some(max) is called.
spin_some(max) ==
  /\ bpc = "idle" /\ bpc' = "polling"
  /\ processed' = 0 /\ max_messages' = max /\ ros_msg' = RosMsgInit
  /\ UNCHANGED <<fifo, publish_cb, faults, accepted, calls>>

\* The condition of the loop, and mutations that stop it a message early or late.
mut_below_limit_early == processed + 1 < max_messages
mut_below_limit_late == processed <= max_messages
below_limit == processed < max_messages

\* The loop goes on, and peek_read returns a message.
peek_read ==
  /\ bpc = "polling" /\ bpc' = "peeked"
  /\ below_limit /\ Ring!Look
  /\ UNCHANGED <<ros_msg, processed, max_messages, publish_cb, faults, accepted, calls>>

\* The message is converted and the callback, if there is one, called.
publish ==
  /\ bpc = "peeked" /\ bpc' = "published"
  /\ ros_msg' = to_ros(item, ros_msg)
  /\ calls' = IF publish_cb THEN Append(calls, [n |-> Removed + 1, msg |-> ros_msg'])
                            ELSE calls
  /\ UNCHANGED <<fifo, processed, max_messages, publish_cb, faults, accepted>>

\* When the message may be committed; the mutation swaps commit and callback.
mut_handled_early == bpc \in {"peeked", "published"}
handled == bpc = "published"

\* The message is committed and counted.
commit_read ==
  /\ handled /\ bpc' = "polling"
  /\ Ring!Remove
  /\ processed' = processed + 1
  /\ UNCHANGED <<ros_msg, max_messages, publish_cb, faults, accepted, calls>>

\* When the loop may end; the mutation leaves the last message uncommitted.
mut_loop_ends_early ==
  \/ bpc = "polling"
  \/ bpc = "published" /\ processed + 1 = max_messages
loop_ends == bpc = "polling"

\* spin_some returns: the limit is reached or the ring looks empty, which it
\* may when it is not, since the counters of a ring may be read late.
return_processed ==
  /\ loop_ends /\ bpc' = "idle"
  /\ Ring!LookAway
  /\ UNCHANGED <<ros_msg, processed, max_messages, publish_cb, faults, accepted, calls>>

\* The converter or the callback throws, or the process dies and another one
\* takes over the ring: the message is not committed.
abort ==
  /\ bpc \in {"peeked", "published"} /\ bpc' = "idle"
  /\ faults < MaxFaults /\ faults' = faults + 1
  /\ Ring!LookAway
  /\ UNCHANGED <<ros_msg, processed, max_messages, publish_cb, accepted, calls>>

-----------------------------------------------------------------------------
Init ==
  /\ Ring!Init /\ publish_cb \in BOOLEAN
  /\ bpc = "idle" /\ ros_msg = RosMsgInit /\ processed = 0 /\ max_messages = 0
  /\ faults = 0 /\ accepted = <<>> /\ calls = <<>>

Next ==
  \/ \E r \in RosMsg : handle_ros_message(r)
  \/ \E max \in Limits : spin_some(max)
  \/ peek_read \/ publish \/ commit_read \/ return_processed \/ abort

Spec == Init /\ [][Next]_vars

(***************************************************************************)
(* The application spins the bridge again and again, now and then with a   *)
(* limit above 0.  A ring that is not empty shows its oldest message       *)
(* sooner or later, and a call of spin_some runs on.                       *)
(***************************************************************************)
FairSpec ==
  /\ Spec
  /\ SF_vars(\E max \in Limits \ {0} : spin_some(max))
  /\ SF_vars(peek_read) /\ WF_vars(publish) /\ WF_vars(commit_read)
  /\ WF_vars(return_processed)

-----------------------------------------------------------------------------
(***************************************************************************)
(* Properties.                                                             *)
(***************************************************************************)

\* The variables keep to their types, and a call commits no more messages
\* than it was allowed to.
TypeOK ==
  /\ queue \in Seq(SinewMsg) /\ item \in SinewMsg \cup {NoItem}
  /\ publish_cb \in BOOLEAN
  /\ bpc \in {"idle", "polling", "peeked", "published"} /\ ros_msg \in RosMsg
  /\ max_messages \in Nat /\ processed \in 0 .. max_messages
  /\ faults \in Nat
  /\ accepted \in Seq(SinewMsg) /\ calls \in Seq([n : Nat, msg : RosMsg])

\* The number of the message that the callback was last called with.
LastCalled == IF calls = <<>> THEN 0 ELSE calls[Len(calls)].n

\* Messages are published in the order they were sent, none is skipped, and
\* none leaves the ring before the callback was called with it, whatever
\* exceptions and crashes interrupt spin_some.
PublishedInOrder ==
  /\ \A i \in 1 .. Len(calls) :
       LET before == IF i = 1 THEN 0 ELSE calls[i - 1].n
       IN  calls[i].n \in {before, before + 1}
  /\ publish_cb => Removed <= LastCalled

\* What is published is the message sent, converted into a fresh RosMsg:
\* nothing of an earlier message shows, although spin_some uses one RosMsg
\* for a whole call.
PublishesWhatWasSent ==
  \A i \in 1 .. Len(calls) :
    /\ calls[i].n \in 1 .. Len(accepted)
    /\ calls[i].msg = to_ros(accepted[calls[i].n], RosMsgInit)

\* A message is published again only after a call that did not return, once
\* for each such call.
PublishedOnceUnlessAborted ==
  Len(calls) <= Removed + faults + (IF bpc = "published" THEN 1 ELSE 0)

\* Every message sent leaves the ring, hence is published if there is a
\* callback.
EveryMessageBridged ==
  \A k \in 1 .. MaxAccepted : Len(accepted) >= k ~> Removed >= k

=============================================================================
