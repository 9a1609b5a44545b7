-------------------------- MODULE IpcEnvelopeProofs --------------------------
(***************************************************************************)
(* Proofs about IpcEnvelope, for every number and size of slots, every set *)
(* of message types and any number of consumers: the bus implements        *)
(* BoundedFifo, what a consumer looks at does not change, and no message   *)
(* of a type that it asks for is refused.                                  *)
(***************************************************************************)
EXTENDS IpcEnvelope, SequenceTheorems, TLAPS

Packet == [type : Types, payload : Payload]

\* What a packet's header says tells the types of a program apart; and its id
\* and version alone do, because the version changes when the struct does.
TraitsDiffer ==
  \A T, U \in Types : /\ Traits[T].id = Traits[U].id
                      /\ Traits[T].version = Traits[U].version
                      /\ Traits[T].size = Traits[U].size
                      => T = U
VersionsDiffer ==
  \A T, U \in Types : /\ Traits[T].id = Traits[U].id
                      /\ Traits[T].version = Traits[U].version
                      => T = U

-----------------------------------------------------------------------------
(***************************************************************************)
(* The inductive invariant.                                                *)
(***************************************************************************)

\* A producer at work has a free slot, a consumer at work a packet.
RoomHeld ==
  /\ ppc \in {"claimed", "prepared", "sealed"} => head - tail < Capacity
  /\ ppc = "sealed" => head < MaxHead
PacketHeld ==
  cpc \in {"matching", "handling", "inspecting", "unmatched"} \/ pv # NoPacket
    => tail < head

\* The header is the one that prepare stamped for the type, and the checksum
\* one of the two that commit_write stores.
HeaderOf(b, T) ==
  /\ b.magic = SINEW_MAGIC /\ b.msg_id = Traits[T].id
  /\ b.version = Traits[T].version /\ b.payload_len = Traits[T].size
PreparedFor(i, T) ==
  HeaderOf(slots[i], T) /\ prepare_error(T, SlotSize, SlotAddr(i)) = "Ok"
Prepared(i) == \E T \in Types : PreparedFor(i, T)
Sealed(i) == Prepared(i) /\ slots[i].crc \in {0, Crc(slots[i].payload, slots[i].payload_len)}

SlotsDescribed ==
  /\ ppc \in {"prepared", "sealed"} => Prepared(idx(head))
  /\ ppc = "sealed" => Sealed(idx(head))
  /\ \A k \in tail .. head - 1 : Sealed(idx(k))

\* A handler that runs is one for the oldest packet, and only it reads it.
HandlerFits == \A T \in handler : HeaderOf(oldest, T)
ItemHeld == item # NoItem => cpc = "handling"

IInv ==
  /\ TypeOK /\ RoomHeld /\ PacketHeld /\ SlotsDescribed
  /\ PacketViewHolds /\ HandlerFits /\ ItemHeld

-----------------------------------------------------------------------------
(***************************************************************************)
(* Types.                                                                  *)
(***************************************************************************)
LEMMA BufferTypes ==
  /\ ZeroSlot \in Buffer
  /\ \A T \in Types, b \in Buffer : prepare(T, b) \in Buffer
  /\ \A T \in Types, c \in BOOLEAN, b \in Buffer : HeaderOf(b, T) => seal(b, c) \in Buffer
  /\ \A v \in Payload, b \in Buffer : [b EXCEPT !.payload = v] \in Buffer
  /\ \A b \in Buffer : packet_view(b) \in PacketHeader
<1>1. SINEW_MAGIC \in Nat
  BY SMT DEF SINEW_MAGIC
<1>2. ZeroSlot \in Buffer
  BY PayloadAssumption DEF ZeroSlot, Buffer
<1>3. \A T \in Types : Traits[T].id \in Nat /\ Traits[T].version \in Nat /\ Traits[T].size \in Nat
  BY TraitsAssumption
<1>4. \A T \in Types, b \in Buffer : prepare(T, b) \in Buffer
  BY <1>1, <1>3, PayloadAssumption DEF prepare, Buffer
<1>5. \A T \in Types, b \in Buffer : HeaderOf(b, T) => Crc(b.payload, b.payload_len) \in Nat
  BY PayloadAssumption DEF Buffer, HeaderOf
<1>6. \A T \in Types, c \in BOOLEAN, b \in Buffer : HeaderOf(b, T) => seal(b, c) \in Buffer
  BY <1>5 DEF seal, Buffer
<1>7. \A v \in Payload, b \in Buffer : [b EXCEPT !.payload = v] \in Buffer
  BY DEF Buffer
<1>8. \A b \in Buffer : packet_view(b) \in PacketHeader
  BY DEF packet_view, PacketHeader, Buffer
<1> QED
  BY <1>2, <1>4, <1>6, <1>7, <1>8

LEMMA Bounds ==
  ASSUME TypeOK
  PROVE  /\ head \in Nat /\ tail \in Nat /\ tail <= head /\ head - tail <= Capacity
         /\ Capacity \in Nat /\ Capacity >= 2 /\ MaxHead \in Nat /\ head <= MaxHead
         /\ slots \in [Index -> Buffer]
         /\ handlers \subseteq Types /\ handler \subseteq Types /\ tried \subseteq Types
BY BusAssumption DEF TypeOK

LEMMA IdxType == \A n \in Nat : idx(n) \in Index
BY BusAssumption DEF idx, Index

\* Two packets less than Capacity apart are in different slots.
LEMMA IdxDiffers ==
  ASSUME NEW m \in Nat, NEW n \in Nat, m < n, n - m < Capacity
  PROVE  idx(m) # idx(n)
<1> SUFFICES ASSUME idx(m) = idx(n) PROVE FALSE
  OBVIOUS
<1>1. Capacity \in Nat /\ Capacity >= 2
  BY BusAssumption
<1> DEFINE p == m \div Capacity
           q == n \div Capacity
           r == n % Capacity
<1>2. /\ p \in Nat /\ q \in Nat /\ r \in Nat
      /\ m = p * Capacity + r /\ n = q * Capacity + r
  BY <1>1 DEF idx
<1> HIDE DEF p, q, r
<1>3. n - m = (q - p) * Capacity
  BY <1>1, <1>2
<1>4. \A d \in Int : (d >= 1 => d * Capacity >= Capacity) /\ (d <= 0 => d * Capacity <= 0)
  BY <1>1
<1>5. q - p \in Int
  BY <1>2
<1> QED
  BY <1>1, <1>3, <1>4, <1>5

LEMMA InvInit == Init => IInv
<1> SUFFICES ASSUME Init PROVE IInv
  OBVIOUS
<1>1. TypeOK
  BY BufferTypes, BusAssumption DEF Init, TypeOK
<1>2. \A k \in tail .. head - 1 : FALSE
  BY DEF Init
<1> QED
  BY <1>1, <1>2
  DEF Init, IInv, RoomHeld, PacketHeld, SlotsDescribed, PacketViewHolds, HandlerFits, ItemHeld

-----------------------------------------------------------------------------
(***************************************************************************)
(* What dispatch and inspect_packet do with a packet of the bus.           *)
(***************************************************************************)

\* A handler is called only with a message of its type.
LEMMA DispatchFits ==
  ASSUME NEW Ts, NEW b, NEW size, NEW addr, NEW verify,
         NEW T \in dispatch(Ts, b, size, addr, verify)
  PROVE  T \in Ts /\ HeaderOf(b, T)
<1>1. T \in Ts /\ validate(T, b, size, addr, verify) = "Ok"
  BY DEF dispatch, try_dispatch_single
<1> QED
  BY <1>1 DEF validate, HeaderOf

\* A message in the bus whose length is at least told is not refused by a
\* handler of its type.
LEMMA DispatchFinds ==
  ASSUME VersionsDiffer, NEW i, Sealed(i), NEW Ts \in SUBSET Types, NEW verify \in BOOLEAN,
         NEW size, size = SlotSize \/ size = HeaderSize + slots[i].payload_len,
         dispatch(Ts, slots[i], size, SlotAddr(i), verify) = {},
         NEW T \in Ts
  PROVE  Traits[T].id # slots[i].msg_id \/ Traits[T].version # slots[i].version
<1> SUFFICES ASSUME Traits[T].id = slots[i].msg_id, Traits[T].version = slots[i].version
             PROVE  FALSE
  OBVIOUS
<1>1. PICK U \in Types : PreparedFor(i, U)
  BY DEF Sealed, Prepared
<1>2. U = T
  BY <1>1 DEF VersionsDiffer, PreparedFor, HeaderOf
<1>3. HeaderOf(slots[i], T) /\ prepare_error(T, SlotSize, SlotAddr(i)) = "Ok"
  BY <1>1, <1>2 DEF PreparedFor
<1>4. ~(SlotSize < message_size(T)) /\ ~misaligned(T, SlotAddr(i))
  BY <1>3 DEF prepare_error
<1>5. Traits[T].size \in Nat
  BY TraitsAssumption
<1>6. ~(HeaderSize + slots[i].payload_len < message_size(T))
  BY <1>3, <1>5 DEF HeaderOf, message_size, HeaderSize
<1>7. ~(size < message_size(T))
  BY <1>4, <1>6
<1>8. checksum_ok(slots[i], Traits[T].size, verify)
  BY <1>3 DEF Sealed, checksum_ok, HeaderOf
<1>9. validate(T, slots[i], size, SlotAddr(i), verify) = "Ok"
  BY <1>3, <1>4, <1>7, <1>8 DEF validate, HeaderOf
<1>10. SlotSize \in Int /\ size \in Int
  <2>1. SlotSize \in Int
    BY BusAssumption DEF SlotSize, HeaderSize
  <2>2. HeaderSize + slots[i].payload_len \in Int
    BY <1>3, <1>5 DEF HeaderOf, HeaderSize
  <2> QED
    BY <2>1, <2>2
<1>11. ~(size < HeaderSize)
  BY <1>5, <1>7, <1>10 DEF message_size, HeaderSize
<1>12. T \in dispatch(Ts, slots[i], size, SlotAddr(i), verify)
  BY <1>3, <1>9, <1>11 DEF dispatch, try_dispatch_single, HeaderOf
<1> QED
  BY <1>12

-----------------------------------------------------------------------------
(***************************************************************************)
(* The steps.                                                              *)
(***************************************************************************)

\* The packets in the bus, at least the oldest, survive every step.
LEMMA PacketKept ==
  ASSUME IInv, [Next]_vars, NEW k \in tail .. head - 1
  PROVE  slots'[idx(k)] = slots[idx(k)]
<1>1. /\ k \in Nat /\ k < head /\ head \in Nat /\ head - k <= head - tail /\ tail \in Nat
      /\ Capacity \in Nat /\ slots \in [Index -> Buffer]
      /\ idx(k) \in Index /\ idx(head) \in Index
  BY Bounds, IdxType DEF IInv
<1>2. ppc \in {"claimed", "prepared"} => idx(k) # idx(head)
  <2> SUFFICES ASSUME ppc \in {"claimed", "prepared"} PROVE idx(k) # idx(head)
    OBVIOUS
  <2>1. head - k < Capacity
    BY <1>1 DEF IInv, RoomHeld
  <2> QED
    BY <1>1, <2>1, IdxDiffers
<1>3. ASSUME NEW T \in Types, prepare_write_stamp(T) PROVE slots'[idx(k)] = slots[idx(k)]
  BY <1>1, <1>2, <1>3 DEF prepare_write_stamp
<1>4. ASSUME NEW v \in Payload, write_payload(v) PROVE slots'[idx(k)] = slots[idx(k)]
  BY <1>1, <1>2, <1>4 DEF write_payload
<1>5. ASSUME NEW c \in BOOLEAN, commit_write_seal(c) PROVE slots'[idx(k)] = slots[idx(k)]
  BY <1>1, <1>2, <1>5 DEF commit_write_seal
<1>6. CASE UNCHANGED slots
  BY <1>6
<1> QED
  BY <1>3, <1>4, <1>5, <1>6
  DEF Next, Producer, Consumer, vars, cvars, prepare_write_load, commit_write_store, open,
      dispatch_load, dispatch_match, dispatch_packet, visit, not_committed, commit_read,
      commit_handled, peek_packet_load, peek_packet_inspect, commit_packet

\* A step of the producer leaves what the consumer knows.
LEMMA ConsumerKept ==
  ASSUME IInv, UNCHANGED <<tail, cvars>>, head' \in {head, head + 1},
         tail < head => slots'[idx(tail)] = slots[idx(tail)]
  PROVE  PacketHeld' /\ PacketViewHolds' /\ HandlerFits' /\ ItemHeld'
<1>1. head \in Nat /\ tail \in Nat /\ (tail < head => tail < head')
  BY Bounds DEF IInv
<1>2. UNCHANGED <<cpc, handlers, tried, handler, pv, item>>
  BY DEF cvars
<1>3. tail < head => oldest' = oldest
  BY DEF oldest, idx
<1>4. handler # {} => tail < head
  BY DEF IInv, TypeOK, PacketHeld
<1>5. PacketHeld' /\ ItemHeld'
  BY <1>1, <1>2 DEF IInv, PacketHeld, ItemHeld
<1>6. PacketViewHolds'
  BY <1>1, <1>2, <1>3 DEF IInv, PacketHeld, PacketViewHolds
<1>7. HandlerFits'
  BY <1>2, <1>3, <1>4 DEF IInv, HandlerFits, HeaderOf
<1> QED
  BY <1>5, <1>6, <1>7

LEMMA SealedKept ==
  ASSUME IInv, [Next]_vars, NEW k \in tail .. head - 1
  PROVE  Sealed(idx(k))'
<1>1. Sealed(idx(k)) /\ slots'[idx(k)] = slots[idx(k)]
  BY PacketKept DEF IInv, SlotsDescribed
<1> QED
  BY <1>1 DEF Sealed, Prepared, PreparedFor

LEMMA ProducerStep ==
  ASSUME IInv, Producer
  PROVE  IInv'
<1> USE DEF IInv
<1>b. /\ head \in Nat /\ tail \in Nat /\ tail <= head /\ head - tail <= Capacity
      /\ Capacity \in Nat /\ MaxHead \in Nat /\ head <= MaxHead
      /\ slots \in [Index -> Buffer] /\ idx(head) \in Index /\ slots[idx(head)] \in Buffer
  BY Bounds, IdxType
<1>n. [Next]_vars
  BY DEF Next
<1>o. tail < head => slots'[idx(tail)] = slots[idx(tail)]
  <2>1. tail < head => tail \in tail .. head - 1
    BY <1>b
  <2> QED
    BY <1>n, <2>1, PacketKept
<1>k. \A k \in tail .. head - 1 : Sealed(idx(k))'
  BY <1>n, SealedKept
<1>1. CASE prepare_write_load
  <2>1. /\ UNCHANGED <<head, tail, slots, cvars>>
        /\ ppc' = "refused" \/ (ppc' = "claimed" /\ head - tail < Capacity)
    BY <1>1, <1>b DEF prepare_write_load, is_full
  <2>2. TypeOK' /\ RoomHeld'
    BY <2>1 DEF TypeOK, RoomHeld, cvars
  <2>3. SlotsDescribed'
    BY <1>k, <2>1 DEF SlotsDescribed
  <2> QED
    BY <1>o, <2>1, <2>2, <2>3, ConsumerKept
<1>2. ASSUME NEW T \in Types, prepare_write_stamp(T) PROVE IInv'
  <2>1. UNCHANGED <<head, tail, cvars>> /\ ppc = "claimed"
    BY <1>2 DEF prepare_write_stamp
  <2>2. CASE prepare_error(T, SlotSize, SlotAddr(idx(head))) = "Ok"
    <3>1. slots' = [slots EXCEPT ![idx(head)] = prepare(T, @)] /\ ppc' = "prepared"
      BY <1>2, <2>2 DEF prepare_write_stamp
    <3>2. slots' \in [Index -> Buffer] /\ slots'[idx(head)] = prepare(T, slots[idx(head)])
      BY <1>b, <3>1, BufferTypes
    <3>3. HeaderOf(slots'[idx(head)], T)
      BY <3>2 DEF HeaderOf, prepare
    <3>4. Prepared(idx(head))'
      BY <2>1, <2>2, <3>3 DEF Prepared, PreparedFor, idx
    <3>5. SlotsDescribed'
      BY <1>k, <2>1, <3>1, <3>4 DEF SlotsDescribed
    <3>6. TypeOK' /\ RoomHeld'
      BY <2>1, <3>1, <3>2 DEF TypeOK, RoomHeld, cvars
    <3> QED
      BY <1>o, <2>1, <3>5, <3>6, ConsumerKept
  <2>3. CASE prepare_error(T, SlotSize, SlotAddr(idx(head))) # "Ok"
    <3>1. slots' = slots /\ ppc' = "refused"
      BY <1>2, <2>3 DEF prepare_write_stamp
    <3>2. TypeOK' /\ RoomHeld'
      BY <2>1, <3>1 DEF TypeOK, RoomHeld, cvars
    <3>3. SlotsDescribed'
      BY <1>k, <2>1, <3>1 DEF SlotsDescribed
    <3> QED
      BY <1>o, <2>1, <3>2, <3>3, ConsumerKept
  <2> QED
    BY <2>2, <2>3
<1>3. ASSUME NEW v \in Payload, write_payload(v) PROVE IInv'
  <2>1. /\ UNCHANGED <<head, tail, ppc, cvars>> /\ ppc = "prepared"
        /\ slots' = [slots EXCEPT ![idx(head)].payload = v]
    BY <1>3 DEF write_payload
  <2>2. /\ slots' \in [Index -> Buffer]
        /\ slots'[idx(head)] = [slots[idx(head)] EXCEPT !.payload = v]
    BY <1>b, <2>1, BufferTypes
  <2>3. \A T \in Types : PreparedFor(idx(head), T) => HeaderOf(slots'[idx(head)], T)
    BY <1>b, <2>2 DEF PreparedFor, HeaderOf, Buffer
  <2>4. Prepared(idx(head))'
    BY <2>1, <2>3 DEF SlotsDescribed, Prepared, PreparedFor, idx
  <2>5. TypeOK' /\ RoomHeld'
    BY <2>1, <2>2 DEF TypeOK, RoomHeld, cvars
  <2>6. SlotsDescribed'
    BY <1>k, <2>1, <2>4 DEF SlotsDescribed
  <2> QED
    BY <1>o, <2>1, <2>5, <2>6, ConsumerKept
<1>4. ASSUME NEW c \in BOOLEAN, commit_write_seal(c) PROVE IInv'
  <2>1. /\ UNCHANGED <<head, tail, cvars>> /\ ppc = "prepared" /\ ppc' = "sealed"
        /\ head < MaxHead /\ slots' = [slots EXCEPT ![idx(head)] = seal(@, c)]
    BY <1>4 DEF commit_write_seal
  <2>2. slots' \in [Index -> Buffer] /\ slots'[idx(head)] = seal(slots[idx(head)], c)
    <3>1. \E T \in Types : HeaderOf(slots[idx(head)], T)
      BY <2>1 DEF SlotsDescribed, Prepared, PreparedFor
    <3>2. seal(slots[idx(head)], c) \in Buffer
      BY <1>b, <3>1, BufferTypes
    <3> QED
      BY <1>b, <2>1, <3>2
  <2>3. /\ \A T \in Types : PreparedFor(idx(head), T) => HeaderOf(slots'[idx(head)], T)
        /\ slots'[idx(head)].crc
             \in {0, Crc(slots'[idx(head)].payload, slots'[idx(head)].payload_len)}
    BY <1>b, <2>2 DEF PreparedFor, HeaderOf, Buffer, seal
  <2>4. Prepared(idx(head))'
    BY <2>1, <2>3 DEF SlotsDescribed, Prepared, PreparedFor, idx
  <2>5. Sealed(idx(head))'
    BY <2>1, <2>3, <2>4 DEF Sealed, idx
  <2>6. TypeOK' /\ RoomHeld'
    BY <2>1, <2>2 DEF TypeOK, RoomHeld, cvars
  <2>7. SlotsDescribed'
    BY <1>k, <2>1, <2>4, <2>5 DEF SlotsDescribed
  <2> QED
    BY <1>o, <2>1, <2>6, <2>7, ConsumerKept
<1>5. CASE commit_write_store
  <2>1. /\ UNCHANGED <<tail, slots, cvars>> /\ ppc = "sealed" /\ ppc' = "idle"
        /\ head' = head + 1
    BY <1>5 DEF commit_write_store
  <2>2. head - tail < Capacity /\ head < MaxHead
    BY <2>1 DEF RoomHeld
  <2>3. TypeOK' /\ RoomHeld'
    <3>1. head' \in 0 .. MaxHead /\ tail \in 0 .. head' /\ head' - tail <= Capacity
      BY <1>b, <2>1, <2>2
    <3> QED
      BY <2>1, <3>1 DEF TypeOK, RoomHeld, cvars
  <2>4. Sealed(idx(head))
    BY <2>1 DEF SlotsDescribed
  <2>5. \A k \in tail .. head : k \in tail .. head - 1 \/ k = head
    BY <1>b
  <2>6. \A k \in tail .. head : Sealed(idx(k))
    BY <2>4, <2>5 DEF SlotsDescribed
  <2>7. head' - 1 = head
    BY <1>b, <2>1
  <2>8. SlotsDescribed'
    BY <2>1, <2>6, <2>7 DEF SlotsDescribed, Sealed, Prepared, PreparedFor
  <2> QED
    BY <1>o, <2>1, <2>3, <2>8, ConsumerKept
<1> QED
  BY <1>1, <1>2, <1>3, <1>4, <1>5 DEF Producer

\* The producer's part of the invariant is not disturbed by the consumer.
LEMMA ConsumerStep ==
  ASSUME IInv, Consumer \/ \E Ts \in Handled : open(Ts)
  PROVE  IInv'
<1> USE DEF IInv
<1>b. /\ head \in Nat /\ tail \in Nat /\ tail <= head /\ head - tail <= Capacity
      /\ Capacity \in Nat /\ MaxHead \in Nat
      /\ slots \in [Index -> Buffer] /\ idx(tail) \in Index /\ oldest \in Buffer
      /\ handlers \subseteq Types
  BY Bounds, IdxType DEF oldest
<1>k. ASSUME UNCHANGED <<head, slots, ppc>>, tail' \in {tail, tail + 1}
      PROVE  RoomHeld' /\ SlotsDescribed'
  <2>1. head' = head /\ ppc' = ppc /\ (tail' = tail \/ tail' = tail + 1)
    BY <1>k, Zenon
  <2>2. head - tail < Capacity => head' - tail' < Capacity
    BY <1>b, <2>1
  <2>3. RoomHeld'
    BY <2>1, <2>2 DEF RoomHeld
  <2>4. \A k \in tail' .. head - 1 : k \in tail .. head - 1
    BY <1>b, <1>k
  <2> QED
    BY <1>k, <2>3, <2>4 DEF SlotsDescribed, Sealed, Prepared, PreparedFor
<1>c. ASSUME commit_read, tail < head PROVE IInv'
  <2>1. /\ UNCHANGED <<head, slots, ppc, handlers>> /\ tail' = tail + 1
        /\ cpc' = "idle" /\ handler' = {} /\ tried' = {} /\ item' = NoItem /\ pv' = NoPacket
    BY <1>c DEF commit_read
  <2>2. tail' \in 0 .. head /\ head - tail' <= Capacity
    BY <1>b, <1>c, <2>1
  <2>3. TypeOK'
    BY <2>1, <2>2 DEF TypeOK
  <2> QED
    BY <1>k, <2>1, <2>3 DEF PacketHeld, PacketViewHolds, HandlerFits, ItemHeld
<1>1. ASSUME NEW Ts \in Handled, open(Ts) PROVE IInv'
  <2>1. /\ UNCHANGED <<head, tail, slots, ppc>> /\ handlers' = Ts
        /\ cpc' = "idle" /\ handler' = {} /\ tried' = {} /\ item' = NoItem /\ pv' = NoPacket
    BY <1>1 DEF open
  <2>2. TypeOK'
    BY <2>1 DEF TypeOK
  <2> QED
    BY <1>k, <2>1, <2>2 DEF PacketHeld, PacketViewHolds, HandlerFits, ItemHeld
<1>2. ASSUME NEW Ts \in {handlers} \cup {{T} : T \in handlers}, dispatch_load(Ts) PROVE IInv'
  <2>1. /\ UNCHANGED <<head, tail, slots, ppc, handlers, handler, pv, item>>
        /\ cpc \in {"idle", "unmatched"} /\ Ts \subseteq handlers
        /\ \/ cpc' = "idle" /\ tried' = {}
           \/ cpc' = "matching" /\ tried' = Ts /\ head # tail
    BY <1>2 DEF dispatch_load, Ready
  <2>2. handler = {} /\ item = NoItem
    BY <2>1 DEF TypeOK, ItemHeld
  <2>3. TypeOK'
    BY <2>1, <2>2 DEF TypeOK
  <2>4. head # tail => tail < head
    BY <1>b
  <2> QED
    BY <1>k, <2>1, <2>2, <2>3, <2>4
    DEF PacketHeld, PacketViewHolds, HandlerFits, ItemHeld, oldest, HeaderOf
<1>3. ASSUME NEW Ts \in SUBSET tried', matched(Ts), tail < head,
             UNCHANGED <<head, tail, slots, ppc, handlers, pv, item>>,
             item = NoItem, tried' \in SUBSET handlers,
             \A T \in Ts : HeaderOf(oldest, T)
      PROVE  IInv'
  <2>1. handler' = Ts /\ cpc' \in {"unmatched", "handling"} /\ (Ts # {} <=> cpc' = "handling")
    BY <1>3 DEF matched
  <2>2. TypeOK'
    BY <1>3, <2>1 DEF TypeOK
  <2> QED
    BY <1>k, <1>3, <2>1, <2>2
    DEF PacketHeld, PacketViewHolds, HandlerFits, ItemHeld, oldest
<1>4. ASSUME NEW c \in BOOLEAN, dispatch_match(c) PROVE IInv'
  <2> DEFINE Ts == dispatch(tried, oldest, SlotSize, oldest_addr, c)
  <2>1. /\ cpc = "matching" /\ matched(Ts)
        /\ UNCHANGED <<head, tail, slots, ppc, handlers, tried, pv, item>>
    BY <1>4 DEF dispatch_match
  <2>2. \A T \in Ts : T \in tried /\ HeaderOf(oldest, T)
    BY DispatchFits
  <2> HIDE DEF Ts
  <2>3. tail < head /\ item = NoItem /\ tried \subseteq handlers
    BY <2>1 DEF PacketHeld, ItemHeld, TypeOK
  <2> QED
    BY <1>3, <2>1, <2>2, <2>3
<1>5. ASSUME NEW c \in BOOLEAN, dispatch_packet(c) PROVE IInv'
  <2> DEFINE Ts == dispatch(handlers, oldest, packet_size(pv), oldest_addr, c)
  <2>1. /\ cpc \in {"idle", "unmatched"} /\ pv # NoPacket /\ matched(Ts) /\ tried' = handlers
        /\ UNCHANGED <<head, tail, slots, ppc, handlers, pv, item>>
    BY <1>5 DEF dispatch_packet, Ready
  <2>2. \A T \in Ts : T \in handlers /\ HeaderOf(oldest, T)
    BY DispatchFits
  <2> HIDE DEF Ts
  <2>3. tail < head /\ item = NoItem
    BY <2>1 DEF PacketHeld, ItemHeld
  <2> QED
    BY <1>3, <2>1, <2>2, <2>3
<1>6. CASE visit
  <2>1. /\ UNCHANGED <<head, tail, slots, ppc, cpc, handlers, tried, handler, pv>>
        /\ cpc = "handling"
    BY <1>6 DEF visit
  <2>2. PICK T \in handler : item' = [type |-> T, payload |-> oldest.payload]
    BY <1>6 DEF visit
  <2>3. T \in Types /\ oldest.payload \in Payload
    BY <1>b DEF TypeOK, Buffer
  <2>4. TypeOK'
    BY <2>1, <2>2, <2>3 DEF TypeOK
  <2> QED
    BY <1>k, <2>1, <2>4 DEF PacketHeld, PacketViewHolds, HandlerFits, ItemHeld, oldest, HeaderOf
<1>7. CASE not_committed
  <2>1. /\ UNCHANGED <<head, tail, slots, ppc, handlers, pv>>
        /\ cpc' = "idle" /\ handler' = {} /\ tried' = {} /\ item' = NoItem
    BY <1>7 DEF not_committed
  <2>2. TypeOK'
    BY <2>1 DEF TypeOK
  <2> QED
    BY <1>k, <2>1, <2>2 DEF PacketHeld, PacketViewHolds, HandlerFits, ItemHeld, oldest
<1>8. CASE commit_handled \/ commit_packet
  <2>1. commit_read /\ tail < head
    BY <1>8 DEF commit_handled, commit_packet, PacketHeld
  <2> QED
    BY <1>c, <2>1
<1>9. CASE peek_packet_load
  <2>1. /\ UNCHANGED <<head, tail, slots, ppc, handlers, handler, item>>
        /\ cpc \in {"idle", "unmatched"} /\ pv' = NoPacket /\ tried' = {}
        /\ cpc' = "idle" \/ (cpc' = "inspecting" /\ head # tail)
    BY <1>9 DEF peek_packet_load, Ready
  <2>2. handler = {} /\ item = NoItem
    BY <2>1 DEF TypeOK, ItemHeld
  <2>3. TypeOK'
    BY <2>1, <2>2 DEF TypeOK
  <2>4. head # tail => tail < head
    BY <1>b
  <2> QED
    BY <1>k, <2>1, <2>2, <2>3, <2>4 DEF PacketHeld, PacketViewHolds, HandlerFits, ItemHeld
<1>10. ASSUME NEW c \in BOOLEAN, peek_packet_inspect(c) PROVE IInv'
  <2>1. /\ UNCHANGED <<head, tail, slots, ppc, handlers, tried, handler, item>>
        /\ cpc = "inspecting" /\ cpc' = "idle" /\ pv' \in {packet_view(oldest), NoPacket}
    BY <1>10 DEF peek_packet_inspect
  <2>2. handler = {} /\ item = NoItem /\ tail < head
    BY <2>1 DEF TypeOK, ItemHeld, PacketHeld
  <2>3. TypeOK'
    BY <1>b, <2>1, <2>2, BufferTypes DEF TypeOK
  <2> QED
    BY <1>k, <2>1, <2>2, <2>3 DEF PacketHeld, PacketViewHolds, HandlerFits, ItemHeld, oldest
<1> QED
  BY <1>1, <1>2, <1>4, <1>5, <1>6, <1>7, <1>8, <1>9, <1>10 DEF Consumer

LEMMA InvStep == IInv /\ [Next]_vars => IInv'
<1>1. ASSUME IInv, UNCHANGED vars PROVE IInv'
  BY <1>1
  DEF IInv, vars, cvars, TypeOK, RoomHeld, PacketHeld, SlotsDescribed, Sealed, Prepared,
      PreparedFor, PacketViewHolds, HandlerFits, ItemHeld, oldest
<1> QED
  BY <1>1, ProducerStep, ConsumerStep DEF Next

LEMMA InvHolds == Spec => []IInv
BY InvInit, InvStep, PTL DEF Spec

-----------------------------------------------------------------------------
(***************************************************************************)
(* The queue of packets.                                                   *)
(***************************************************************************)
packet(b) == [type |-> sent_as(b), payload |-> b.payload]

\* A sequence is its elements.
LEMMA SequenceIs ==
  ASSUME NEW S, NEW n \in Nat, NEW f, f = [i \in 1 .. n |-> f[i]],
         \A i \in 1 .. n : f[i] \in S
  PROVE  f \in Seq(S) /\ Len(f) = n
<1>1. f \in [1 .. n -> S]
  OBVIOUS
<1> QED
  BY <1>1, IsASeq, LenProperties

\* The type that a message is taken for is the one it was prepared for.
LEMMA SentAs ==
  ASSUME NEW b, NEW T \in Types, HeaderOf(b, T)
  PROVE  /\ sent_as(b) \in Types
         /\ TraitsDiffer => sent_as(b) = T
<1> DEFINE Fits(U) == /\ Traits[U].id = b.msg_id
                      /\ Traits[U].version = b.version
                      /\ Traits[U].size = b.payload_len
<1>1. Fits(T)
  BY DEF HeaderOf
<1>2. sent_as(b) = CHOOSE U \in Types : Fits(U)
  BY DEF sent_as
<1>3. sent_as(b) \in Types /\ Fits(sent_as(b))
  BY <1>1, <1>2
<1>4. TraitsDiffer => sent_as(b) = T
  BY <1>1, <1>3 DEF TraitsDiffer
<1> QED
  BY <1>3, <1>4

QueueOK ==
  /\ queue \in Seq(Packet) /\ Len(queue) = head - tail
  /\ \A i \in 1 .. head - tail : queue[i] = packet(slots[idx(tail + i - 1)])

LEMMA QueueIs == IInv => QueueOK
<1> SUFFICES ASSUME IInv PROVE QueueOK
  OBVIOUS
<1> DEFINE n == head - tail
<1>1. head \in Nat /\ tail \in Nat /\ n \in Nat /\ slots \in [Index -> Buffer]
  BY Bounds DEF IInv
<1>2. ASSUME NEW i \in 1 .. n PROVE packet(slots[idx(tail + i - 1)]) \in Packet
  <2>1. tail + i - 1 \in tail .. head - 1 /\ tail + i - 1 \in Nat
    BY <1>1
  <2>2. PICK T \in Types : HeaderOf(slots[idx(tail + i - 1)], T)
    BY <2>1 DEF IInv, SlotsDescribed, Sealed, Prepared, PreparedFor
  <2>3. slots[idx(tail + i - 1)] \in Buffer
    BY <1>1, <2>1, IdxType
  <2> QED
    BY <2>2, <2>3, SentAs DEF packet, Packet, Buffer
<1>3. queue = [i \in 1 .. n |-> packet(slots[idx(tail + i - 1)])]
  BY DEF queue, packet
<1> HIDE DEF n
<1>4. queue \in Seq(Packet) /\ Len(queue) = n
  BY <1>1, <1>2, <1>3, SequenceIs
<1> QED
  BY <1>1, <1>3, <1>4 DEF n, QueueOK

\* A step that keeps the counters keeps the queue.
LEMMA QueueKept ==
  ASSUME IInv, [Next]_vars, head' = head, tail' = tail
  PROVE  queue' = queue
<1>1. head \in Nat /\ tail \in Nat
  BY Bounds DEF IInv
<1>2. ASSUME NEW i \in 1 .. head - tail PROVE slots'[idx(tail + i - 1)] = slots[idx(tail + i - 1)]
  <2>1. tail + i - 1 \in tail .. head - 1
    BY <1>1
  <2> QED
    BY <2>1, PacketKept
<1> QED
  BY <1>2 DEF queue, idx

QueueStep == [Bus!Next]_(Bus!vars)

LEMMA CommitStep ==
  ASSUME IInv, IInv', commit_write_store
  PROVE  QueueStep
<1> DEFINE n == head - tail
           v == packet(slots[idx(head)])
<1>1. /\ head' = head + 1 /\ ppc = "sealed" /\ UNCHANGED <<tail, slots, item>>
  BY DEF commit_write_store, cvars
<1>2. /\ head \in Nat /\ tail \in Nat /\ n \in Nat /\ n < Capacity
      /\ slots[idx(head)] \in Buffer
      /\ queue \in Seq(Packet) /\ Len(queue) = n
      /\ \A i \in 1 .. n : queue[i] = packet(slots[idx(tail + i - 1)])
  BY <1>1, Bounds, IdxType, QueueIs DEF IInv, RoomHeld, QueueOK
<1>3. v \in Packet
  <2>1. PICK T \in Types : HeaderOf(slots[idx(head)], T)
    BY <1>1 DEF IInv, SlotsDescribed, Prepared, PreparedFor
  <2> QED
    BY <1>2, <2>1, SentAs DEF packet, Packet, Buffer
<1>4. QueueOK'
  BY QueueIs, PTL
<1>5. /\ queue' \in Seq(Packet) /\ Len(queue') = head' - tail'
      /\ \A i \in 1 .. head' - tail' : queue'[i] = packet(slots'[idx(tail' + i - 1)])
  BY <1>4 DEF QueueOK, idx
<1>6. head' - tail' = n + 1 /\ tail + (n + 1) - 1 = head
  BY <1>1, <1>2
<1>8. /\ queue' \in Seq(Packet) /\ Len(queue') = n + 1
      /\ \A i \in 1 .. n + 1 : queue'[i] = packet(slots[idx(tail + i - 1)])
  BY <1>1, <1>5, <1>6
<1> HIDE DEF n
<1>9. queue'[n + 1] = v
  BY <1>2, <1>6, <1>8
<1> HIDE DEF v
<1>10. queue' = Append(queue, v)
  <2>1. /\ Append(queue, v) \in Seq(Packet) /\ Len(Append(queue, v)) = n + 1
        /\ \A i \in 1 .. n : Append(queue, v)[i] = queue[i]
        /\ Append(queue, v)[n + 1] = v
    BY <1>2, <1>3, AppendProperties
  <2>2. \A i \in 1 .. n + 1 : i \in 1 .. n \/ i = n + 1
    BY <1>2
  <2>3. \A i \in 1 .. n + 1 : queue'[i] = Append(queue, v)[i]
    BY <1>2, <1>8, <1>9, <2>1, <2>2
  <2> QED
    BY <1>8, <2>1, <2>3, SeqEqual
<1> QED
  BY <1>1, <1>2, <1>3, <1>10 DEF QueueStep, Bus!Next, Bus!Put, Packet

LEMMA RemovalStep ==
  ASSUME IInv, IInv', commit_read, tail < head
  PROVE  QueueStep
<1> DEFINE n == head - tail
<1>1. tail' = tail + 1 /\ item' = NoItem /\ UNCHANGED <<head, slots>>
  BY DEF commit_read
<1>2. /\ head \in Nat /\ tail \in Nat /\ n \in Nat /\ n >= 1
      /\ queue \in Seq(Packet) /\ Len(queue) = n
      /\ \A i \in 1 .. n : queue[i] = packet(slots[idx(tail + i - 1)])
  BY Bounds, QueueIs DEF IInv, QueueOK
<1>3. QueueOK'
  BY QueueIs, PTL
<1>4. /\ queue' \in Seq(Packet) /\ Len(queue') = head' - tail'
      /\ \A i \in 1 .. head' - tail' : queue'[i] = packet(slots'[idx(tail' + i - 1)])
  BY <1>3 DEF QueueOK, idx
<1>5. /\ head' - tail' = n - 1
      /\ \A i \in 1 .. n - 1 : tail' + i - 1 = tail + (i + 1) - 1
  BY <1>1, <1>2
<1>7. /\ queue' \in Seq(Packet) /\ Len(queue') = n - 1
      /\ \A i \in 1 .. n - 1 : queue'[i] = packet(slots[idx(tail + (i + 1) - 1)])
  BY <1>1, <1>4, <1>5
<1> HIDE DEF n
<1>8. queue # <<>>
  BY <1>2
<1>9. queue' = Tail(queue)
  <2>1. /\ Tail(queue) \in Seq(Packet) /\ Len(Tail(queue)) = n - 1
        /\ \A i \in 1 .. n - 1 : Tail(queue)[i] = queue[i + 1]
    BY <1>2, <1>8, HeadTailProperties
  <2>2. \A i \in 1 .. n - 1 : i + 1 \in 1 .. n
    BY <1>2
  <2>3. \A i \in 1 .. n - 1 : queue'[i] = Tail(queue)[i]
    BY <1>2, <1>7, <2>1, <2>2
  <2> QED
    BY <1>7, <2>1, <2>3, SeqEqual
<1> QED
  BY <1>1, <1>8, <1>9 DEF QueueStep, Bus!Next, Bus!Remove

LEMMA FifoStep ==
  ASSUME TraitsDiffer, IInv, IInv', [Next]_vars
  PROVE  QueueStep
<1>1. ASSUME head' = head, tail' = tail, item' = item \/ item' = NoItem PROVE QueueStep
  BY <1>1, QueueKept DEF QueueStep, Bus!Next, Bus!LookAway, Bus!vars
<1>2. CASE commit_write_store
  BY <1>2, CommitStep
<1>3. CASE commit_handled \/ commit_packet
  <2>1. commit_read /\ tail < head
    BY <1>3 DEF commit_handled, commit_packet, IInv, PacketHeld
  <2> QED
    BY <2>1, RemovalStep
<1>4. CASE visit
  <2>1. UNCHANGED <<head, tail>> /\ cpc = "handling"
    BY <1>4 DEF visit
  <2>2. PICK T \in handler : item' = [type |-> T, payload |-> oldest.payload]
    BY <1>4 DEF visit
  <2>3. T \in Types /\ HeaderOf(oldest, T)
    BY Bounds DEF IInv, HandlerFits
  <2>4. item' = packet(oldest)
    BY <2>2, <2>3, SentAs DEF packet, oldest
  <2>5. head \in Nat /\ tail \in Nat /\ tail < head
    BY <2>1, Bounds DEF IInv, PacketHeld
  <2>6. 1 \in 1 .. head - tail /\ tail + 1 - 1 = tail /\ head - tail # 0
    BY <2>5
  <2>7. queue[1] = packet(oldest) /\ Len(queue) # 0
    BY <2>6, QueueIs DEF QueueOK, oldest
  <2>8. queue # <<>>
    BY <2>7
  <2>9. queue' = queue
    BY <2>1, QueueKept
  <2> QED
    BY <2>4, <2>7, <2>8, <2>9 DEF QueueStep, Bus!Next, Bus!Look
<1>5. CASE \/ prepare_write_load
           \/ \E T \in Types : prepare_write_stamp(T)
           \/ \E v \in Payload : write_payload(v)
           \/ \E c \in BOOLEAN : commit_write_seal(c)
  <2>1. UNCHANGED <<head, tail, item>>
    BY <1>5 DEF prepare_write_load, prepare_write_stamp, write_payload, commit_write_seal, cvars
  <2> QED
    BY <1>1, <2>1
<1>6. CASE \/ \E Ts \in {handlers} \cup {{T} : T \in handlers} : dispatch_load(Ts)
           \/ \E c \in BOOLEAN : dispatch_match(c) \/ dispatch_packet(c) \/ peek_packet_inspect(c)
           \/ not_committed \/ peek_packet_load \/ \E Ts \in Handled : open(Ts)
           \/ UNCHANGED vars
  <2>1. UNCHANGED <<head, tail>> /\ (item' = item \/ item' = NoItem)
    BY <1>6 DEF dispatch_load, dispatch_match, dispatch_packet, peek_packet_inspect,
                not_committed, peek_packet_load, open, vars, cvars
  <2> QED
    BY <1>1, <2>1
<1> QED
  BY <1>2, <1>3, <1>4, <1>5, <1>6 DEF Next, Producer, Consumer

\* A refusal is about the packet that is still the oldest.
LEMMA RefusalStep ==
  ASSUME VersionsDiffer, IInv, RefusesOnlyUnknown, [Next]_vars
  PROVE  RefusesOnlyUnknown'
<1>b. /\ head \in Nat /\ tail \in Nat /\ tried \subseteq Types /\ handlers \subseteq Types
  BY Bounds DEF IInv
<1>1. ASSUME cpc = "unmatched" \/ pv # NoPacket \/ cpc = "matching"
      PROVE  Sealed(idx(tail)) /\ slots'[idx(tail)] = slots[idx(tail)]
  <2>1. tail < head
    BY <1>1 DEF IInv, PacketHeld
  <2>2. tail \in tail .. head - 1
    BY <1>b, <2>1
  <2> QED
    BY <2>2, PacketKept DEF IInv, SlotsDescribed
<1>2. ASSUME NEW c \in BOOLEAN, dispatch_match(c) PROVE RefusesOnlyUnknown'
  <2> SUFFICES ASSUME cpc' = "unmatched", NEW T \in tried'
               PROVE  Traits[T].id # oldest'.msg_id \/ Traits[T].version # oldest'.version
    BY DEF RefusesOnlyUnknown
  <2>1. /\ dispatch(tried, slots[idx(tail)], SlotSize, SlotAddr(idx(tail)), c) = {}
        /\ UNCHANGED <<tail, slots, tried>> /\ cpc = "matching"
    BY <1>2 DEF dispatch_match, matched, oldest, oldest_addr
  <2>2. \/ Traits[T].id # slots[idx(tail)].msg_id
        \/ Traits[T].version # slots[idx(tail)].version
    BY <1>1, <1>b, <2>1, DispatchFinds
  <2> QED
    BY <2>1, <2>2 DEF oldest, idx
<1>3. ASSUME NEW c \in BOOLEAN, dispatch_packet(c) PROVE RefusesOnlyUnknown'
  <2> SUFFICES ASSUME cpc' = "unmatched", NEW T \in tried'
               PROVE  Traits[T].id # oldest'.msg_id \/ Traits[T].version # oldest'.version
    BY DEF RefusesOnlyUnknown
  <2>1. /\ dispatch(handlers, slots[idx(tail)], packet_size(pv), SlotAddr(idx(tail)), c) = {}
        /\ UNCHANGED <<tail, slots>> /\ tried' = handlers /\ pv # NoPacket
    BY <1>3 DEF dispatch_packet, matched, oldest, oldest_addr
  <2>2. packet_size(pv) = HeaderSize + slots[idx(tail)].payload_len
    BY <2>1 DEF IInv, PacketViewHolds, packet_view, packet_size, oldest
  <2>3. \/ Traits[T].id # slots[idx(tail)].msg_id
        \/ Traits[T].version # slots[idx(tail)].version
    BY <1>1, <1>b, <2>1, <2>2, DispatchFinds
  <2> QED
    BY <2>1, <2>3 DEF oldest, idx
<1>4. CASE UNCHANGED <<tail, tried>> /\ cpc' = cpc
  <2>1. cpc = "unmatched" => oldest' = oldest
    BY <1>1, <1>4 DEF oldest, idx
  <2> QED
    BY <1>4, <2>1 DEF RefusesOnlyUnknown
<1>5. CASE cpc' # "unmatched"
  BY <1>5 DEF RefusesOnlyUnknown
<1> QED
  BY <1>2, <1>3, <1>4, <1>5
  DEF Next, Producer, Consumer, vars, cvars, prepare_write_load, prepare_write_stamp,
      write_payload, commit_write_seal, commit_write_store, open, dispatch_load, visit,
      not_committed, commit_read, commit_handled, peek_packet_load, peek_packet_inspect,
      commit_packet

-----------------------------------------------------------------------------
\* The types, and that the bus never holds more messages than it has slots.
THEOREM TypeCorrect == Spec => []TypeOK
<1>1. IInv => TypeOK
  BY DEF IInv
<1> QED
  BY <1>1, InvHolds, PTL

\* A PacketView shows one message, header and payload, until the consumer
\* commits or leaves, whatever the producer prepares meanwhile.
THEOREM PacketViewsHold == Spec => []PacketViewHolds
<1>1. IInv => PacketViewHolds
  BY DEF IInv
<1> QED
  BY <1>1, InvHolds, PTL

\* The bus is a bounded queue of typed messages: dispatch, consume and
\* dispatch_and_commit show each message to the handler of its own type, in
\* the order of the commits, over any number of consumers.
THEOREM BusIsFifo ==
  ASSUME TraitsDiffer
  PROVE  Spec => ImplementsFifo
<1>1. Init => Bus!Init
  <2> SUFFICES ASSUME Init PROVE queue = <<>> /\ item = NoItem
    BY DEF Bus!Init
  <2>1. QueueOK /\ head = 0 /\ tail = 0 /\ item = NoItem
    BY InvInit, QueueIs DEF Init
  <2>2. queue \in Seq(Packet) /\ Len(queue) = 0
    BY <2>1 DEF QueueOK
  <2> QED
    BY <2>1, <2>2
<1>2. IInv /\ IInv' /\ [Next]_vars => [Bus!Next]_(Bus!vars)
  BY FifoStep DEF QueueStep
<1> QED
  BY <1>1, <1>2, InvHolds, PTL DEF Spec, ImplementsFifo, Bus!Spec

\* dispatch, consume and dispatch on a PacketView refuse no message of a type
\* they were asked for, if a type's version changes whenever its size does.
THEOREM RefusalsAreOfOtherTypes ==
  ASSUME VersionsDiffer
  PROVE  Spec => []RefusesOnlyUnknown
<1>1. Init => RefusesOnlyUnknown
  BY DEF Init, RefusesOnlyUnknown
<1>2. IInv /\ RefusesOnlyUnknown /\ [Next]_vars => RefusesOnlyUnknown'
  BY RefusalStep
<1> QED
  BY <1>1, <1>2, InvHolds, PTL DEF Spec

=============================================================================
