-------------------------- MODULE Ros2BridgeProofs --------------------------
(***************************************************************************)
(* Proofs about the bridge, for every set of fields and values, every      *)
(* capacity and limit, and any number of faults.                           *)
(***************************************************************************)
EXTENDS Ros2Bridge, SequenceTheorems, TLAPS

-----------------------------------------------------------------------------
(***************************************************************************)
(* The inductive invariant.                                                *)
(***************************************************************************)

\* The ring holds the last messages sent, in their order.
QueueHoldsTheRest ==
  /\ Len(queue) <= Len(accepted)
  /\ \A i \in 1 .. Len(queue) : queue[i] = accepted[Removed + i]

\* In the loop's body, the message at hand is the oldest one.
OldestAtHand ==
  bpc \in {"peeked", "published"} =>
    queue # <<>> /\ item = queue[1] /\ processed < max_messages

\* The callback was last called with the oldest message or the one before it.
CalledUpToHere ==
  /\ publish_cb => LastCalled \in {Removed, Removed + 1}
  /\ publish_cb /\ bpc = "published" => LastCalled = Removed + 1
  /\ ~publish_cb => calls = <<>>

CalledInOrder ==
  \A i \in 1 .. Len(calls) :
    calls[i].n \in {IF i = 1 THEN 0 ELSE calls[i - 1].n,
                    (IF i = 1 THEN 0 ELSE calls[i - 1].n) + 1}

\* Fields without a counterpart keep their default.
UnmappedFresh == \A f \in RosField \ Mapped : ros_msg[f] = Default

IInv ==
  /\ TypeOK /\ QueueHoldsTheRest /\ OldestAtHand /\ CalledUpToHere /\ CalledInOrder
  /\ UnmappedFresh /\ PublishesWhatWasSent /\ PublishedOnceUnlessAborted

-----------------------------------------------------------------------------
\* What the converters return.
LEMMA Converters ==
  /\ RosMsgInit \in RosMsg
  /\ \A r \in RosMsg : from_ros(r) \in SinewMsg
  /\ \A in \in SinewMsg, out \in RosMsg :
       /\ to_ros(in, out) \in RosMsg
       /\ \A f \in RosField \ Mapped : to_ros(in, out)[f] = out[f]
       /\ (\A f \in RosField \ Mapped : out[f] = Default)
            => to_ros(in, out) = to_ros(in, RosMsgInit)
<1>1. RosMsgInit \in RosMsg
  BY BridgeAssumption DEF RosMsgInit, RosMsg
<1>2. ASSUME NEW r \in RosMsg PROVE from_ros(r) \in SinewMsg
  BY BridgeAssumption DEF from_ros, RosMsg, SinewMsg
<1>3. ASSUME NEW in \in SinewMsg, NEW out \in RosMsg
      PROVE  /\ to_ros(in, out) \in RosMsg
             /\ \A f \in RosField \ Mapped : to_ros(in, out)[f] = out[f]
  BY BridgeAssumption DEF to_ros, RosMsg, SinewMsg
<1>4. ASSUME NEW in \in SinewMsg, NEW out \in RosMsg,
             \A f \in RosField \ Mapped : out[f] = Default
      PROVE  to_ros(in, out) = to_ros(in, RosMsgInit)
  <2>1. \A f \in RosField :
          (IF f \in Mapped THEN in[f] ELSE out[f])
            = IF f \in Mapped THEN in[f] ELSE RosMsgInit[f]
    BY <1>4 DEF RosMsgInit
  <2> QED
    BY <2>1 DEF to_ros
<1> QED
  BY <1>1, <1>2, <1>3, <1>4

LEMMA InvInit == Init => IInv
<1> SUFFICES ASSUME Init PROVE IInv
  OBVIOUS
<1> USE DEF Init, Ring!Init
<1>1. TypeOK
  BY Converters DEF TypeOK
<1>2. Len(queue) = 0 /\ Len(accepted) = 0 /\ Len(calls) = 0 /\ Removed = 0 /\ LastCalled = 0
  BY DEF Removed, LastCalled
<1>3. QueueHoldsTheRest /\ OldestAtHand /\ CalledUpToHere /\ CalledInOrder
  BY <1>2 DEF QueueHoldsTheRest, OldestAtHand, CalledUpToHere, CalledInOrder
<1>4. UnmappedFresh
  BY BridgeAssumption DEF UnmappedFresh, RosMsgInit
<1>5. PublishesWhatWasSent /\ PublishedOnceUnlessAborted
  BY <1>2 DEF PublishesWhatWasSent, PublishedOnceUnlessAborted
<1> QED
  BY <1>1, <1>3, <1>4, <1>5 DEF IInv

-----------------------------------------------------------------------------
\* What of the invariant holds of a step that leaves the ring and the calls
\* alone, and ends outside the loop's body.
LEMMA QuietStep ==
  ASSUME IInv, TypeOK', UnmappedFresh',
         UNCHANGED <<queue, accepted, calls, publish_cb>>,
         bpc' \notin {"peeked", "published"},
         bpc = "published" => faults' = faults + 1,
         bpc # "published" => faults' >= faults
  PROVE  IInv'
<1> USE DEF IInv
<1>1. Removed' = Removed /\ LastCalled' = LastCalled /\ RosMsgInit' = RosMsgInit
  BY DEF Removed, LastCalled, RosMsgInit
<1>2. QueueHoldsTheRest' /\ OldestAtHand' /\ CalledUpToHere' /\ CalledInOrder'
  BY <1>1 DEF QueueHoldsTheRest, OldestAtHand, CalledUpToHere, CalledInOrder
<1>3. PublishesWhatWasSent'
  BY <1>1 DEF PublishesWhatWasSent, to_ros, RosMsgInit
<1>4. PublishedOnceUnlessAborted'
  <2>1. Len(calls) \in Nat /\ Removed \in Int /\ faults \in Nat /\ faults' \in Nat
    BY DEF TypeOK, Removed
  <2> QED
    BY <1>1, <2>1 DEF PublishedOnceUnlessAborted
<1> QED
  BY <1>2, <1>3, <1>4

LEMMA PutStep ==
  ASSUME IInv, NEW r \in RosMsg, handle_ros_message(r)
  PROVE  IInv'
<1> USE DEF IInv
<1> DEFINE v == from_ros(r)
<1>1. /\ queue' = Append(queue, v) /\ accepted' = Append(accepted, v)
      /\ UNCHANGED <<item, local, publish_cb, faults, calls>>
  BY DEF handle_ros_message, Ring!Put
<1>2. v \in SinewMsg /\ queue \in Seq(SinewMsg) /\ accepted \in Seq(SinewMsg)
  BY Converters DEF TypeOK
<1> HIDE DEF v
<1>3. /\ queue' \in Seq(SinewMsg) /\ Len(queue') = Len(queue) + 1 /\ queue' # <<>>
      /\ \A i \in 1 .. Len(queue) : queue'[i] = queue[i]
      /\ queue'[Len(queue) + 1] = v
  BY <1>1, <1>2, AppendProperties
<1>4. /\ accepted' \in Seq(SinewMsg) /\ Len(accepted') = Len(accepted) + 1
      /\ \A i \in 1 .. Len(accepted) : accepted'[i] = accepted[i]
      /\ accepted'[Len(accepted) + 1] = v
  BY <1>1, <1>2, AppendProperties
<1>5. Len(queue) \in Nat /\ Len(accepted) \in Nat
  BY <1>2
<1>6. Removed' = Removed /\ LastCalled' = LastCalled
  BY <1>1, <1>3, <1>4, <1>5 DEF Removed, LastCalled
<1>7. TypeOK'
  BY <1>1, <1>3, <1>4 DEF TypeOK, local
<1>8. QueueHoldsTheRest'
  <2>1. Len(queue') <= Len(accepted')
    BY <1>3, <1>4, <1>5 DEF QueueHoldsTheRest
  <2>2. ASSUME NEW i \in 1 .. Len(queue') PROVE queue'[i] = accepted'[Removed + i]
    <3>1. CASE i <= Len(queue)
      <4>1. i \in 1 .. Len(queue) /\ Removed + i \in 1 .. Len(accepted)
        BY <3>1, <1>3, <1>5 DEF QueueHoldsTheRest, Removed
      <4> QED
        BY <4>1, <1>3, <1>4 DEF QueueHoldsTheRest
    <3>2. CASE i = Len(queue) + 1
      <4>1. Removed + i = Len(accepted) + 1
        BY <3>2, <1>5 DEF Removed
      <4> QED
        BY <3>2, <4>1, <1>3, <1>4
    <3> QED
      BY <3>1, <3>2, <1>3, <1>5
  <2> QED
    BY <2>1, <2>2, <1>6 DEF QueueHoldsTheRest
<1>9. OldestAtHand'
  <2>1. queue # <<>> => 1 \in 1 .. Len(queue)
    BY <1>2
  <2> QED
    BY <1>1, <1>3, <2>1 DEF OldestAtHand, local
<1>10. CalledUpToHere' /\ CalledInOrder' /\ UnmappedFresh'
  BY <1>1, <1>6 DEF CalledUpToHere, CalledInOrder, UnmappedFresh, local
<1>11. PublishesWhatWasSent'
  <2>1. \A i \in 1 .. Len(calls) :
          calls[i].n \in 1 .. Len(accepted') /\ accepted'[calls[i].n] = accepted[calls[i].n]
    BY <1>4, <1>5 DEF PublishesWhatWasSent
  <2> QED
    BY <1>1, <2>1 DEF PublishesWhatWasSent, to_ros, RosMsgInit
<1>12. PublishedOnceUnlessAborted'
  BY <1>1, <1>6 DEF PublishedOnceUnlessAborted, local
<1> QED
  BY <1>7, <1>8, <1>9, <1>10, <1>11, <1>12

LEMMA PeekStep ==
  ASSUME IInv, peek_read
  PROVE  IInv'
<1> USE DEF IInv
<1>1. /\ queue # <<>> /\ item' = queue[1] /\ bpc = "polling" /\ bpc' = "peeked"
      /\ processed < max_messages
      /\ UNCHANGED <<queue, ros_msg, processed, max_messages, publish_cb, faults,
                     accepted, calls>>
  BY DEF peek_read, Ring!Look, below_limit
<1>2. item' \in SinewMsg
  BY <1>1 DEF TypeOK
<1>3. TypeOK'
  BY <1>1, <1>2 DEF TypeOK
<1>4. Removed' = Removed /\ LastCalled' = LastCalled
  BY <1>1 DEF Removed, LastCalled
<1>5. QueueHoldsTheRest' /\ OldestAtHand' /\ CalledUpToHere' /\ CalledInOrder'
  BY <1>1, <1>4 DEF QueueHoldsTheRest, OldestAtHand, CalledUpToHere, CalledInOrder
<1>6. UnmappedFresh' /\ PublishesWhatWasSent' /\ PublishedOnceUnlessAborted'
  BY <1>1, <1>4
     DEF UnmappedFresh, PublishesWhatWasSent, PublishedOnceUnlessAborted, to_ros, RosMsgInit
<1> QED
  BY <1>3, <1>5, <1>6

LEMMA PublishStep ==
  ASSUME IInv, publish
  PROVE  IInv'
<1> USE DEF IInv
<1> DEFINE call == [n |-> Removed + 1, msg |-> ros_msg']
<1>1. /\ bpc = "peeked" /\ bpc' = "published" /\ ros_msg' = to_ros(item, ros_msg)
      /\ calls' = IF publish_cb THEN Append(calls, call) ELSE calls
      /\ UNCHANGED <<queue, item, processed, max_messages, publish_cb, faults, accepted>>
  BY DEF publish, fifo
<1>2. /\ queue # <<>> /\ item = queue[1] /\ processed < max_messages
      /\ queue \in Seq(SinewMsg) /\ accepted \in Seq(SinewMsg)
      /\ Len(queue) \in Nat \ {0} /\ Len(accepted) \in Nat /\ item \in SinewMsg
  BY <1>1 DEF OldestAtHand, TypeOK
<1>3. Removed + 1 \in 1 .. Len(accepted) /\ item = accepted[Removed + 1]
  BY <1>2 DEF QueueHoldsTheRest, Removed
<1>4. /\ ros_msg' \in RosMsg /\ UnmappedFresh'
      /\ ros_msg' = to_ros(item, RosMsgInit)
  BY <1>1, <1>2, Converters DEF TypeOK, UnmappedFresh
<1>5. call \in [n : Nat, msg : RosMsg] /\ calls \in Seq([n : Nat, msg : RosMsg])
  BY <1>3, <1>4 DEF TypeOK
<1>6. call.n = Removed + 1 /\ call.msg = to_ros(accepted[Removed + 1], RosMsgInit)
  BY <1>3, <1>4
<1> HIDE DEF call
<1>7. publish_cb => /\ calls' \in Seq([n : Nat, msg : RosMsg]) /\ calls' # <<>>
                    /\ Len(calls') = Len(calls) + 1
                    /\ \A i \in 1 .. Len(calls) : calls'[i] = calls[i]
                    /\ calls'[Len(calls) + 1] = call
  BY <1>1, <1>5, AppendProperties
<1>8. ~publish_cb => calls' = <<>> /\ calls = <<>>
  BY <1>1 DEF CalledUpToHere
<1>9. Len(calls) \in Nat
  BY <1>5
<1>10. TypeOK'
  BY <1>1, <1>4, <1>5, <1>7 DEF TypeOK
<1>11. Removed' = Removed
  BY <1>1 DEF Removed
<1>12. QueueHoldsTheRest' /\ OldestAtHand'
  BY <1>1, <1>2, <1>11 DEF QueueHoldsTheRest, OldestAtHand
<1>13. CalledUpToHere'
  BY <1>1, <1>6, <1>7, <1>8, <1>9, <1>11 DEF CalledUpToHere, LastCalled
<1>14. CalledInOrder'
  <2>1. CASE publish_cb
    <3>1. ASSUME NEW i \in 1 .. Len(calls')
          PROVE  LET before == IF i = 1 THEN 0 ELSE calls'[i - 1].n
                 IN  calls'[i].n \in {before, before + 1}
      <4>1. CASE i \in 1 .. Len(calls)
        <5>1. i = 1 \/ i - 1 \in 1 .. Len(calls)
          BY <4>1, <1>9
        <5> QED
          BY <2>1, <4>1, <5>1, <1>7 DEF CalledInOrder
      <4>2. CASE i = Len(calls) + 1
        <5>1. CASE calls = <<>>
          BY <2>1, <4>2, <5>1, <1>6, <1>7, <1>9 DEF CalledUpToHere, LastCalled
        <5>2. CASE calls # <<>>
          <6>1. Len(calls) \in 1 .. Len(calls) /\ i # 1 /\ i - 1 = Len(calls)
            BY <4>2, <5>2, <1>5
          <6>2. calls'[i - 1].n = LastCalled
            BY <2>1, <5>2, <6>1, <1>7 DEF LastCalled
          <6>3. LastCalled \in {Removed, Removed + 1} /\ calls'[i].n = Removed + 1
            BY <2>1, <4>2, <1>6, <1>7 DEF CalledUpToHere
          <6> QED
            BY <6>1, <6>2, <6>3
        <5> QED
          BY <5>1, <5>2
      <4> QED
        BY <2>1, <4>1, <4>2, <1>7, <1>9
    <3> QED
      BY <3>1 DEF CalledInOrder
  <2>2. CASE ~publish_cb
    BY <2>2, <1>8 DEF CalledInOrder
  <2> QED
    BY <2>1, <2>2
<1>15. PublishesWhatWasSent'
  <2>1. ASSUME NEW i \in 1 .. Len(calls')
        PROVE  /\ calls'[i].n \in 1 .. Len(accepted)
               /\ calls'[i].msg = to_ros(accepted[calls'[i].n], RosMsgInit)
    <3>1. publish_cb
      BY <1>8
    <3>2. CASE i \in 1 .. Len(calls)
      BY <3>1, <3>2, <1>7 DEF PublishesWhatWasSent
    <3>3. CASE i = Len(calls) + 1
      BY <3>1, <3>3, <1>3, <1>6, <1>7
    <3> QED
      BY <3>1, <3>2, <3>3, <1>7, <1>9
  <2> QED
    BY <1>1, <2>1 DEF PublishesWhatWasSent, to_ros, RosMsgInit
<1>16. PublishedOnceUnlessAborted'
  <2>1. Len(calls') <= Len(calls) + 1
    BY <1>7, <1>8, <1>9
  <2>2. Len(calls') \in Nat /\ Removed \in Int /\ faults \in Nat
    BY <1>2, <1>7, <1>8, <1>9 DEF TypeOK, Removed
  <2> QED
    BY <1>1, <1>9, <1>11, <2>1, <2>2 DEF PublishedOnceUnlessAborted
<1> QED
  BY <1>4, <1>10, <1>12, <1>13, <1>14, <1>15, <1>16

LEMMA CommitStep ==
  ASSUME IInv, commit_read
  PROVE  IInv'
<1> USE DEF IInv
<1>1. /\ bpc = "published" /\ bpc' = "polling" /\ queue # <<>> /\ processed < max_messages
      /\ queue' = Tail(queue) /\ item' = NoItem /\ processed' = processed + 1
      /\ UNCHANGED <<ros_msg, max_messages, publish_cb, faults, accepted, calls>>
  BY DEF commit_read, handled, Ring!Remove, OldestAtHand
<1>2. queue \in Seq(SinewMsg) /\ Len(queue) \in Nat /\ Len(accepted) \in Nat
  BY DEF TypeOK
<1>3. /\ queue' \in Seq(SinewMsg) /\ Len(queue') = Len(queue) - 1
      /\ \A i \in 1 .. Len(queue') : queue'[i] = queue[i + 1]
  BY <1>1, <1>2, HeadTailProperties
<1>4. Removed' = Removed + 1 /\ LastCalled' = LastCalled /\ Removed \in Int
  BY <1>1, <1>2, <1>3 DEF Removed, LastCalled
<1>5. TypeOK'
  BY <1>1, <1>3 DEF TypeOK
<1>6. QueueHoldsTheRest'
  <2>1. Len(queue') <= Len(accepted)
    BY <1>2, <1>3 DEF QueueHoldsTheRest
  <2>2. ASSUME NEW i \in 1 .. Len(queue') PROVE queue'[i] = accepted[Removed + 1 + i]
    <3>1. i + 1 \in 1 .. Len(queue)
      BY <1>2, <1>3
    <3>2. queue[i + 1] = accepted[Removed + (i + 1)]
      BY <3>1 DEF QueueHoldsTheRest
    <3> QED
      BY <3>2, <1>3, <1>4
  <2> QED
    BY <1>1, <1>4, <2>1, <2>2 DEF QueueHoldsTheRest
<1>7. OldestAtHand' /\ CalledInOrder' /\ UnmappedFresh'
  BY <1>1 DEF OldestAtHand, CalledInOrder, UnmappedFresh
<1>8. CalledUpToHere'
  BY <1>1, <1>4 DEF CalledUpToHere
<1>9. PublishesWhatWasSent'
  BY <1>1 DEF PublishesWhatWasSent, to_ros, RosMsgInit
<1>10. PublishedOnceUnlessAborted'
  <2>1. Len(calls) \in Nat /\ faults \in Nat
    BY DEF TypeOK
  <2> QED
    BY <1>1, <1>4, <2>1 DEF PublishedOnceUnlessAborted
<1> QED
  BY <1>5, <1>6, <1>7, <1>8, <1>9, <1>10

LEMMA InvStep == IInv /\ [Next]_vars => IInv'
<1> SUFFICES ASSUME IInv, [Next]_vars PROVE IInv'
  OBVIOUS
<1> USE DEF IInv
<1>1. ASSUME NEW r \in RosMsg, handle_ros_message(r) PROVE IInv'
  BY <1>1, PutStep
<1>2. ASSUME NEW max \in Limits, spin_some(max) PROVE IInv'
  <2>1. max \in Nat
    BY BridgeAssumption
  <2>2. TypeOK'
    BY <1>2, <2>1, Converters DEF spin_some, TypeOK, fifo
  <2>3. UnmappedFresh'
    BY <1>2, BridgeAssumption DEF spin_some, UnmappedFresh, RosMsgInit
  <2>4. faults' >= faults
    BY <1>2 DEF spin_some, TypeOK
  <2> QED
    BY <1>2, <2>2, <2>3, <2>4, QuietStep DEF spin_some, fifo
<1>3. CASE peek_read
  BY <1>3, PeekStep
<1>4. CASE publish
  BY <1>4, PublishStep
<1>5. CASE commit_read
  BY <1>5, CommitStep
<1>6. CASE return_processed
  <2>1. TypeOK'
    BY <1>6 DEF return_processed, loop_ends, Ring!LookAway, TypeOK
  <2>2. UnmappedFresh'
    BY <1>6 DEF return_processed, UnmappedFresh
  <2>3. faults' >= faults
    BY <1>6 DEF return_processed, TypeOK
  <2> QED
    BY <1>6, <2>1, <2>2, <2>3, QuietStep DEF return_processed, loop_ends, Ring!LookAway
<1>7. CASE abort
  <2>1. TypeOK'
    BY <1>7 DEF abort, Ring!LookAway, TypeOK
  <2>2. UnmappedFresh'
    BY <1>7 DEF abort, UnmappedFresh
  <2>3. faults' = faults + 1 /\ faults' >= faults
    BY <1>7 DEF abort, TypeOK
  <2> QED
    BY <1>7, <2>1, <2>2, <2>3, QuietStep DEF abort, Ring!LookAway
<1>8. CASE UNCHANGED vars
  <2>1. UNCHANGED <<queue, item, bpc, ros_msg, processed, max_messages, publish_cb,
                    faults, accepted, calls>>
    BY <1>8 DEF vars, fifo, local
  <2>2. TypeOK' /\ QueueHoldsTheRest' /\ OldestAtHand' /\ CalledInOrder'
    BY <2>1 DEF TypeOK, QueueHoldsTheRest, OldestAtHand, CalledInOrder, Removed
  <2>3. CalledUpToHere' /\ UnmappedFresh'
    BY <2>1 DEF CalledUpToHere, UnmappedFresh, Removed, LastCalled
  <2>4. PublishesWhatWasSent' /\ PublishedOnceUnlessAborted'
    BY <2>1 DEF PublishesWhatWasSent, PublishedOnceUnlessAborted, Removed, to_ros, RosMsgInit
  <2> QED
    BY <2>2, <2>3, <2>4
<1> QED
  BY <1>1, <1>2, <1>3, <1>4, <1>5, <1>6, <1>7, <1>8 DEF Next

-----------------------------------------------------------------------------
\* Type correctness, and no call of spin_some commits more messages than it
\* was allowed to.
THEOREM TypeCorrect == Spec => []TypeOK
<1>1. IInv => TypeOK
  BY DEF IInv
<1> QED
  BY <1>1, InvInit, InvStep, PTL DEF Spec

\* The callback is called with the messages in the order they were sent, skips
\* none, and no message leaves the ring before its call, with any number of
\* exceptions and crashes.
THEOREM PublicationIsOrdered == Spec => []PublishedInOrder
<1>1. IInv => PublishedInOrder
  <2> SUFFICES ASSUME IInv PROVE PublishedInOrder
    OBVIOUS
  <2>1. publish_cb => Removed <= LastCalled
    BY DEF IInv, TypeOK, CalledUpToHere, Removed
  <2> QED
    BY <2>1 DEF IInv, CalledInOrder, PublishedInOrder
<1> QED
  BY <1>1, InvInit, InvStep, PTL DEF Spec

\* Every call shows the converted message of its number, and nothing of the
\* messages that the same call of spin_some converted before it.
THEOREM PublicationIsFaithful == Spec => []PublishesWhatWasSent
<1>1. IInv => PublishesWhatWasSent
  BY DEF IInv
<1> QED
  BY <1>1, InvInit, InvStep, PTL DEF Spec

\* Messages are published again only after faults, once for each of them.
THEOREM PublicationRepeatsForFaults == Spec => []PublishedOnceUnlessAborted
<1>1. IInv => PublishedOnceUnlessAborted
  BY DEF IInv
<1> QED
  BY <1>1, InvInit, InvStep, PTL DEF Spec

=============================================================================
