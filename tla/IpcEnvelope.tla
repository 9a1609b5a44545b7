----------------------------- MODULE IpcEnvelope -----------------------------
(***************************************************************************)
(* IpcEnvelopeRingBuffer<MaxPayloadSize, Capacity> (ipc_envelope.hpp): a   *)
(* bus, that is an IpcRingBuffer whose slots hold messages of any type up  *)
(* to MaxPayloadSize.  The producer chooses a type for each message.  The  *)
(* consumer was compiled with a list of types it handles; it dispatches    *)
(* the oldest packet to the handler of its type, takes it with consume, or *)
(* looks at the bare packet and drops it.                                  *)
(*                                                                         *)
(* The segment is created once and the producer stays; the consumer may    *)
(* leave or die at any step, and the next one may handle other types.      *)
(* (How segments come and go is the subject of IpcRingBuffer, whose create *)
(* and open differ from these in the magic and the sizes; loads of the     *)
(* counters that lag behind are the subject of SpscRingBuffer.)            *)
(***************************************************************************)
EXTENDS Dispatch, Sequences

CONSTANTS
  Capacity,        \* slots of the bus
  MaxPayloadSize,  \* the longest message, in bytes
  MaxHead,         \* a bound on the messages sent; the counters have 64 bits
  Handled,         \* the lists of types that consumers are compiled with
  NoItem           \* the consumer's handler has seen no message

ASSUME BusAssumption ==
  /\ Capacity \in Nat /\ Capacity >= 2 /\ MaxHead \in Nat
  /\ MaxPayloadSize \in Nat
  /\ \A T \in Types : Traits[T].size > 0 /\ Traits[T].size <= MaxPayloadSize
  /\ \A Ts \in Handled : Ts \subseteq Types /\ NoDuplicateIds(Ts)

VARIABLES
  head,      \* how many messages were committed
  tail,      \* how many messages were removed
  slots,     \* the slots
  ppc,       \* where the producer is
  cpc,       \* where the consumer is
  handlers,  \* the types the consumer handles
  tried,     \* the types its current call accepts
  handler,   \* the types whose handler runs: none or one
  pv,        \* the PacketView it holds, or NoPacket
  item       \* what the handler has seen, or NoItem

cvars == <<cpc, handlers, tried, handler, pv, item>>
vars  == <<head, tail, slots, ppc, cvars>>

-----------------------------------------------------------------------------
Index == 0 .. Capacity - 1

\* p & kIndexMask
idx(p) == p % Capacity

\* Header and payload, rounded up to cache lines.
SlotSize == ((HeaderSize + MaxPayloadSize + 63) \div 64) * 64

\* Slots follow the 192 bytes of IpcRingHeader.
SlotAddr(i) == 192 + i * SlotSize

\* The memory of a new segment.
ZeroSlot == [magic |-> 0, msg_id |-> 0, version |-> 0, crc |-> 0,
             payload_len |-> 0, payload |-> Fresh]

\* Mutation: the room test is off by one.
mut_is_full_late == head - tail > Capacity
\* (head - tail) >= Capacity
is_full == head - tail >= Capacity

\* Mutation: the checksum covers all the bytes that the slot has for payloads.
mut_seal_whole_slot(buf, compute_crc) ==
  [buf EXCEPT !.crc = IF compute_crc THEN Crc(buf.payload, MaxPayloadSize) ELSE 0]

\* commit_write on the header it finds in the slot: the checksum covers the
\* bytes that the message prepared last has.
seal(buf, compute_crc) ==
  [buf EXCEPT !.crc = IF compute_crc /\ buf.payload_len > 0
                      THEN Crc(buf.payload, buf.payload_len) ELSE 0]

-----------------------------------------------------------------------------
(***************************************************************************)
(* The producer.                                                           *)
(***************************************************************************)

\* prepare_write<T> up to the room test.  An application that changes its
\* mind prepares again, for the same type or another.
prepare_write_load ==
  /\ ppc \in {"idle", "refused", "prepared"}
  /\ ppc' = IF is_full THEN "refused" ELSE "claimed"
  /\ UNCHANGED <<head, tail, slots, cvars>>

\* prepare_write<T> after it.
prepare_write_stamp(T) ==
  LET ok == prepare_error(T, SlotSize, SlotAddr(idx(head))) = "Ok"
  IN  /\ ppc = "claimed"
      /\ slots' = IF ok THEN [slots EXCEPT ![idx(head)] = prepare(T, @)] ELSE slots
      /\ ppc' = IF ok THEN "prepared" ELSE "refused"
      /\ UNCHANGED <<head, tail, cvars>>

\* The application fills the message in place (push: *slot = value).
write_payload(v) ==
  /\ ppc = "prepared"
  /\ slots' = [slots EXCEPT ![idx(head)].payload = v]
  /\ UNCHANGED <<head, tail, ppc, cvars>>

\* commit_write up to the checksum.
commit_write_seal(compute_crc) ==
  /\ ppc = "prepared" /\ head < MaxHead
  /\ slots' = [slots EXCEPT ![idx(head)] = seal(@, compute_crc)]
  /\ ppc' = "sealed"
  /\ UNCHANGED <<head, tail, cvars>>

\* commit_write's last statement.
commit_write_store ==
  /\ ppc = "sealed"
  /\ head' = head + 1 /\ ppc' = "idle"
  /\ UNCHANGED <<tail, slots, cvars>>

-----------------------------------------------------------------------------
(***************************************************************************)
(* The consumer.                                                           *)
(***************************************************************************)

\* A consumer opens the bus; the one before it is gone.
open(Ts) ==
  /\ cpc' = "idle" /\ handlers' = Ts
  /\ tried' = {} /\ handler' = {} /\ pv' = NoPacket /\ item' = NoItem
  /\ UNCHANGED <<head, tail, slots, ppc>>

\* The consumer may call into the bus.
Ready == cpc \in {"idle", "unmatched"}

oldest == slots[idx(tail)]
oldest_addr == SlotAddr(idx(tail))

\* dispatch<handlers...>, or peek_msg<T> for one of them (consume), up to the
\* emptiness test.
dispatch_load(Ts) ==
  /\ Ready
  /\ IF head = tail
     THEN cpc' = "idle" /\ tried' = {}
     ELSE cpc' = "matching" /\ tried' = Ts
  /\ UNCHANGED <<head, tail, slots, ppc, handlers, handler, pv, item>>

\* The call ends with a match, and the handler starts, or without one.
matched(Ts) ==
  /\ handler' = Ts
  /\ cpc' = IF Ts = {} THEN "unmatched" ELSE "handling"

\* dispatch or peek_msg after it, on the slot.
dispatch_match(verify_crc) ==
  /\ cpc = "matching"
  /\ matched(dispatch(tried, oldest, SlotSize, oldest_addr, verify_crc))
  /\ UNCHANGED <<head, tail, slots, ppc, handlers, tried, pv, item>>

\* dispatch<handlers...> on the PacketView the consumer holds.
dispatch_packet(verify_crc) ==
  /\ Ready /\ pv # NoPacket
  /\ tried' = handlers
  /\ matched(dispatch(handlers, oldest, packet_size(pv), oldest_addr, verify_crc))
  /\ UNCHANGED <<head, tail, slots, ppc, handlers, pv, item>>

\* The handler reads its argument, which is in the slot.
visit ==
  /\ cpc = "handling"
  /\ \E T \in handler : item' = [type |-> T, payload |-> oldest.payload]
  /\ UNCHANGED <<head, tail, slots, ppc, cpc, handlers, tried, handler, pv>>

\* The handler throws, or the call does not commit.
not_committed ==
  /\ cpc = "handling"
  /\ cpc' = "idle" /\ handler' = {} /\ tried' = {} /\ item' = NoItem
  /\ UNCHANGED <<head, tail, slots, ppc, handlers, pv>>

\* commit_read; a PacketView held until now must not be used any more.
commit_read ==
  /\ tail' = tail + 1
  /\ cpc' = "idle" /\ handler' = {} /\ tried' = {} /\ item' = NoItem
  /\ pv' = NoPacket
  /\ UNCHANGED <<head, slots, ppc, handlers>>

\* The last step of dispatch_and_commit and of consume.
commit_handled == cpc = "handling" /\ commit_read

\* peek_packet up to the emptiness test.
peek_packet_load ==
  /\ Ready
  /\ cpc' = IF head = tail THEN "idle" ELSE "inspecting"
  /\ pv' = NoPacket /\ tried' = {}
  /\ UNCHANGED <<head, tail, slots, ppc, handlers, handler, item>>

\* peek_packet after it.
peek_packet_inspect(verify_crc) ==
  /\ cpc = "inspecting" /\ cpc' = "idle"
  /\ pv' = IF /\ inspect_error(oldest, SlotSize) = "Ok"
              /\ checksum_ok(oldest, oldest.payload_len, verify_crc)
           THEN packet_view(oldest) ELSE NoPacket
  /\ UNCHANGED <<head, tail, slots, ppc, handlers, tried, handler, item>>

\* The consumer drops the packet it has looked at.
commit_packet == Ready /\ pv # NoPacket /\ commit_read

-----------------------------------------------------------------------------
\* create, and the first open.
Init ==
  /\ head = 0 /\ tail = 0 /\ slots = [i \in Index |-> ZeroSlot]
  /\ ppc = "idle"
  /\ cpc = "idle" /\ handlers \in Handled
  /\ tried = {} /\ handler = {} /\ pv = NoPacket /\ item = NoItem

Producer ==
  \/ prepare_write_load
  \/ \E T \in Types : prepare_write_stamp(T)
  \/ \E v \in Payload : write_payload(v)
  \/ \E c \in BOOLEAN : commit_write_seal(c)
  \/ commit_write_store

Consumer ==
  \/ \E Ts \in {handlers} \cup {{T} : T \in handlers} : dispatch_load(Ts)
  \/ \E c \in BOOLEAN : dispatch_match(c) \/ dispatch_packet(c) \/ peek_packet_inspect(c)
  \/ visit \/ not_committed \/ commit_handled
  \/ peek_packet_load \/ commit_packet

Next == Producer \/ Consumer \/ \E Ts \in Handled : open(Ts)

Spec == Init /\ [][Next]_vars

(***************************************************************************)
(* The consumer polls with dispatch_and_commit, as the tests do.  When the *)
(* oldest packet is of a type it has no handler for, it looks at it with   *)
(* peek_packet and drops it.  A call runs to its end, and a call or a      *)
(* commit that is possible again and again is not put off for ever.  (How  *)
(* often consumers are replaced is a matter of the property.)              *)
(***************************************************************************)
Unknown == \A T \in handlers : Traits[T].id # oldest.msg_id

Polling ==
  /\ SF_vars(dispatch_load(handlers))
  /\ WF_vars(\E c \in BOOLEAN : dispatch_match(c))
  /\ SF_vars(commit_handled)
  /\ SF_vars(Unknown /\ peek_packet_load)
  /\ WF_vars(\E c \in BOOLEAN : peek_packet_inspect(c))
  /\ SF_vars(Unknown /\ commit_packet)

FairSpec == Spec /\ Polling

-----------------------------------------------------------------------------
(***************************************************************************)
(* Properties.                                                             *)
(***************************************************************************)

\* The variables keep to their types, and the bus never holds more messages
\* than it has slots.
TypeOK ==
  /\ head \in 0 .. MaxHead /\ tail \in 0 .. head /\ head - tail <= Capacity
  /\ slots \in [Index -> Buffer]
  /\ ppc \in {"idle", "refused", "claimed", "prepared", "sealed"}
  /\ cpc \in {"idle", "matching", "unmatched", "handling", "inspecting"}
  /\ handlers \in Handled /\ tried \subseteq handlers
  /\ handler \subseteq tried /\ (handler # {} <=> cpc = "handling")
  /\ pv \in PacketHeader \cup {NoPacket}
  /\ item \in [type : Types, payload : Payload] \cup {NoItem}

\* A PacketView copies the header and points to the payload: until the
\* consumer commits, the two belong together, whatever the producer does.
PacketViewHolds ==
  pv # NoPacket => pv = packet_view(oldest) /\ tail < head

\* dispatch, consume and dispatch on a PacketView return false only when the
\* bus is empty or its oldest packet is of a type they were not asked for: a
\* committed message of a type in the list is never refused, whichever side
\* asks for a checksum, whatever message the slot held or was prepared for
\* before.
RefusesOnlyUnknown ==
  cpc = "unmatched" =>
    \A T \in tried : \/ Traits[T].id # oldest.msg_id
                     \/ Traits[T].version # oldest.version

\* The type whose message a slot holds, and the packets of the bus.
sent_as(buf) ==
  CHOOSE T \in Types : /\ Traits[T].id = buf.msg_id
                      /\ Traits[T].version = buf.version
                      /\ Traits[T].size = buf.payload_len
queue == [i \in 1 .. head - tail |->
           LET buf == slots[idx(tail + i - 1)]
           IN  [type |-> sent_as(buf), payload |-> buf.payload]]

Bus == INSTANCE BoundedFifo WITH Payload <- [type : Types, payload : Payload]

\* The bus is a bounded queue of typed messages: packets leave in the order
\* they were committed in, once each, and a handler is only ever called with
\* the oldest one, with its contents and its own type, over any number of
\* consumers with different handlers.
ImplementsFifo == Bus!Spec

\* Nothing blocks the bus: once consumers are not replaced any more, every
\* message is handled or, if the consumer has no handler for its type,
\* dropped.  dispatch_and_commit alone would stand still before a packet it
\* does not know, with everything else behind it.
NothingBlocks ==
  <>[][Producer \/ Consumer]_vars =>
    \A n \in 1 .. MaxHead : head >= n ~> tail >= n

=============================================================================
