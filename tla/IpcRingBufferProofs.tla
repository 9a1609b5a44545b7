------------------------ MODULE IpcRingBufferProofs ------------------------
(***************************************************************************)
(* Proofs about IpcRingBuffer, for every capacity, every set of types and  *)
(* any number of segments, whenever the processes come, go and die: the    *)
(* counters stay in order and the message in view does not change; the     *)
(* ring implements BoundedFifo; a consumer that open let in finds the      *)
(* slots where the producer put them; and peek_read refuses only messages  *)
(* of other types.                                                         *)
(***************************************************************************)
EXTENDS IpcRingBuffer, SequenceTheorems, TLAPS

Fields == {"magic", "capacity", "slot_size", "payload_len", "head", "tail"}

-----------------------------------------------------------------------------
(***************************************************************************)
(* Types.                                                                  *)
(***************************************************************************)
LEMMA SizeTypes ==
  ASSUME NEW T \in Types
  PROVE  /\ SlotSize(T) \in Nat /\ TotalShmSize(T, Capacity) \in Nat
         /\ Traits[T].size \in Nat
<1> DEFINE a == SlotAlign(T)
           k == (message_size(T) + a - 1) \div a
<1>1. Traits[T].size \in Nat /\ Traits[T].align \in Nat
  BY TraitsAssumption
<1>2. a \in Nat /\ a >= 16
  BY <1>1 DEF SlotAlign
<1>3. message_size(T) \in Nat
  BY <1>1 DEF message_size, HeaderSize
<1> HIDE DEF a
<1>4. k \in Nat
  BY <1>2, <1>3
<1>5. SlotSize(T) = k * a
  BY DEF SlotSize, a
<1> HIDE DEF k
<1>6. SlotSize(T) \in Nat
  BY <1>2, <1>4, <1>5, SMT
<1>7. Capacity * SlotSize(T) \in Nat
  BY <1>6, IpcRingAssumption, SMT
<1>8. TotalShmSize(T, Capacity) \in Nat
  BY <1>7 DEF TotalShmSize, IpcHeaderSize
<1> QED
  BY <1>1, <1>6, <1>8

LEMMA HeaderTypes ==
  /\ DOMAIN ZeroHeader = Fields
  /\ ZeroHeader \in [Fields -> Nat] /\ \A f \in Fields : ZeroHeader[f] = 0
  /\ \A T \in Types : /\ NewHeader(T) \in [Fields -> Nat]
                      /\ NewHeader(T)["head"] = 0 /\ NewHeader(T)["tail"] = 0
                      /\ NewHeader(T)["capacity"] = Capacity
<1>1. Checked \cup {"head", "tail"} = Fields
  BY DEF Checked, Fields
<1>2. ZeroHeader = [f \in Fields |-> 0]
  BY <1>1 DEF ZeroHeader
<1>3. ASSUME NEW T \in Types
      PROVE  /\ NewHeader(T) \in [Fields -> Nat]
             /\ NewHeader(T)["head"] = 0 /\ NewHeader(T)["tail"] = 0
             /\ NewHeader(T)["capacity"] = Capacity
  <2>1. NewHeader(T) = [f \in Fields |-> IF f \in Checked THEN Geometry(T, Capacity)[f] ELSE 0]
    BY <1>1 DEF NewHeader
  <2>2. IPC_RING_MAGIC \in Nat
    BY SMT DEF IPC_RING_MAGIC
  <2>3. /\ Geometry(T, Capacity)["magic"] \in Nat
        /\ Geometry(T, Capacity)["capacity"] = Capacity
        /\ Geometry(T, Capacity)["slot_size"] \in Nat
        /\ Geometry(T, Capacity)["payload_len"] \in Nat
    BY <2>2, SizeTypes, IpcRingAssumption DEF Geometry
  <2>4. \A f \in Checked : Geometry(T, Capacity)[f] \in Nat
    BY <2>3, IpcRingAssumption DEF Checked
  <2>5. /\ "head" \in Fields /\ "tail" \in Fields /\ "capacity" \in Fields
        /\ "head" \notin Checked /\ "tail" \notin Checked /\ "capacity" \in Checked
    BY DEF Fields, Checked
  <2> QED
    BY <2>1, <2>3, <2>4, <2>5
<1> QED
  BY <1>2, <1>3

LEMMA BufferTypes ==
  /\ ZeroSlots \in [Index -> Buffer]
  /\ \A T \in Types, b \in Buffer : prepare(T, b) \in Buffer
  /\ \A T \in Types, c \in BOOLEAN, b \in Buffer : finalize(T, b, c) \in Buffer
  /\ \A v \in Payload, b \in Buffer : [b EXCEPT !.payload = v] \in Buffer
<1>1. SINEW_MAGIC \in Nat
  BY SMT DEF SINEW_MAGIC
<1>2. ZeroSlot \in Buffer
  BY PayloadAssumption DEF ZeroSlot, Buffer
<1>3. \A T \in Types : Traits[T].id \in Nat /\ Traits[T].version \in Nat /\ Traits[T].size \in Nat
  BY TraitsAssumption
<1>4. \A T \in Types, b \in Buffer : prepare(T, b) \in Buffer
  BY <1>1, <1>3, PayloadAssumption DEF prepare, Buffer
<1>5. \A b \in Buffer, T \in Types : Crc(b.payload, Traits[T].size) \in Nat
  BY PayloadAssumption DEF Buffer
<1>6. \A T \in Types, c \in BOOLEAN, b \in Buffer : finalize(T, b, c) \in Buffer
  BY <1>5 DEF finalize, Buffer
<1>7. \A v \in Payload, b \in Buffer : [b EXCEPT !.payload = v] \in Buffer
  BY DEF Buffer
<1> QED
  BY <1>2, <1>4, <1>6, <1>7 DEF ZeroSlots

\* p & kIndexMask is the index of a slot.
LEMMA IdxType == \A n \in Nat : idx(n) \in Index /\ n % Capacity \in Index
BY IpcRingAssumption DEF idx, Index

LEMMA Chosen == NoType \in Created /\ NoReader \in Opened
BY IpcRingAssumption DEF NoType, NoReader

\* What FreeUnused leaves of a segment.
LEMMA FreedTypes ==
  ASSUME TypeOK, FreeUnused
  PROVE  /\ length' \in [Segment -> Nat]
         /\ header' \in [Segment -> [DOMAIN ZeroHeader -> Nat]]
         /\ slots' \in [Segment -> [Index -> Buffer]]
BY HeaderTypes, BufferTypes DEF TypeOK, FreeUnused

LEMMA TypeInit == Init => TypeOK
BY HeaderTypes, BufferTypes, Chosen DEF Init, TypeOK

\* Every producer has the same capacity, so a consumer that compared the field
\* has it too: a header that is not stored yet holds 0 there.
CapacityKnown == \A s \in Segment : header[s]["capacity"] \in {0, Capacity}
CapacityChecked ==
  cpc \notin {"closed", "opening"} /\ "capacity" \notin toCheck => reader.capacity = Capacity

LEMMA SlotIndex ==
  ASSUME TypeOK, CapacityChecked, cpc \in {"viewing?", "viewing", "invalid", "idle"}
  PROVE  /\ cSeg \in Segment /\ view_slot = idx(tail(cSeg)) /\ view_slot \in Index
         /\ reader.capacity = Capacity /\ tail(cSeg) \in Nat /\ head(cSeg) \in Nat
<1>1. cSeg \in Segment /\ toCheck = {}
  BY DEF TypeOK
<1>2. reader.capacity = Capacity
  BY <1>1 DEF CapacityChecked
<1>3. header[cSeg] \in [Fields -> Nat] /\ "head" \in Fields /\ "tail" \in Fields
  BY <1>1, HeaderTypes DEF TypeOK, Fields
<1>4. tail(cSeg) \in Nat /\ head(cSeg) \in Nat
  BY <1>3 DEF tail, head
<1>5. view_slot = idx(tail(cSeg))
  BY <1>2 DEF view_slot, idx
<1> QED
  BY <1>1, <1>2, <1>4, <1>5, IdxType

LEMMA ProducerTypes ==
  ASSUME TypeOK, Producer
  PROVE  TypeOK'
<1> USE DEF TypeOK, cvars, pvars
<1>h. header \in [Segment -> [Fields -> Nat]] /\ DOMAIN ZeroHeader = Fields
  BY HeaderTypes
<1>i. ppc # "closed" => pSeg \in Segment /\ idx(head(pSeg)) \in Index
  BY <1>h, IdxType DEF head, Fields
<1>1. ASSUME NEW T \in Created, create_shm(T) PROVE TypeOK'
  BY <1>1, HeaderTypes, BufferTypes, IpcRingAssumption DEF create_shm
<1>2. CASE create_size
  <2>1. TotalShmSize(pType, Capacity) \in Nat
    BY SizeTypes, IpcRingAssumption
  <2>2. DOMAIN ZeroHeader # {}
    BY <1>h DEF Fields
  <2> QED
    BY <1>2, <2>1, <2>2 DEF create_size
<1>3. ASSUME drop_ring, name' \in Segment \cup {NoSegment} PROVE TypeOK'
  BY <1>3, FreedTypes, Chosen DEF drop_ring
<1>4. ASSUME NEW f \in todo, create_store(f) PROVE TypeOK'
  <2>1. f \in Fields /\ NewHeader(pType) \in [Fields -> Nat]
    BY <1>h, HeaderTypes, IpcRingAssumption
  <2>2. header' \in [Segment -> [Fields -> Nat]]
    BY <1>4, <1>h, <2>1 DEF create_store
  <2> QED
    BY <1>4, <1>h, <2>2 DEF create_store
<1>5. CASE prepare_write_load
  BY <1>5 DEF prepare_write_load
<1>6. CASE prepare_write_stamp
  BY <1>6, <1>i, BufferTypes, IpcRingAssumption DEF prepare_write_stamp
<1>7. ASSUME NEW v \in Payload, write_payload(v) PROVE TypeOK'
  BY <1>7, <1>i, BufferTypes DEF write_payload
<1>8. ASSUME NEW c \in BOOLEAN, commit_write_finalize(c) PROVE TypeOK'
  BY <1>8, <1>i, BufferTypes, IpcRingAssumption DEF commit_write_finalize
<1>9. CASE commit_write_store
  <2>1. header' \in [Segment -> [Fields -> Nat]]
    BY <1>9, <1>h, <1>i DEF commit_write_store, Fields
  <2> QED
    BY <1>9, <1>h, <2>1 DEF commit_write_store
<1>10. CASE create_fails \/ destroy \/ producer_crash
  BY <1>3, <1>10 DEF create_fails, destroy, producer_crash
<1> QED
  BY <1>1, <1>2, <1>4, <1>5, <1>6, <1>7, <1>8, <1>9, <1>10 DEF Producer

LEMMA ConsumerTypes ==
  ASSUME TypeOK, CapacityChecked, Consumer
  PROVE  TypeOK'
<1> USE DEF TypeOK, cvars, pvars
<1>h. header \in [Segment -> [Fields -> Nat]] /\ DOMAIN ZeroHeader = Fields
  BY HeaderTypes
<1>1. ASSUME NEW r \in Opened, open_shm(r) PROVE TypeOK'
  BY <1>1 DEF open_shm
<1>2. CASE open_map
  BY <1>2 DEF open_map, Checked
<1>3. ASSUME NEW f \in toCheck, open_check(f) PROVE TypeOK'
  BY <1>3 DEF open_check
<1>4. CASE release
  BY <1>4, FreedTypes, Chosen DEF release
<1>5. CASE peek_read_load
  BY <1>5 DEF peek_read_load
<1>6. ASSUME NEW c \in BOOLEAN, peek_read_view(c) PROVE TypeOK'
  BY <1>6 DEF peek_read_view
<1>7. CASE read_item
  BY <1>7, SlotIndex DEF read_item, Buffer
<1>8. CASE commit_read
  <2>1. header' \in [Segment -> [Fields -> Nat]]
    BY <1>8, <1>h DEF commit_read, Fields
  <2> QED
    BY <1>8, <1>h, <2>1 DEF commit_read
<1>9. CASE open_fails \/ leave
  BY <1>4, <1>9 DEF open_fails, leave
<1> QED
  BY <1>1, <1>2, <1>3, <1>5, <1>6, <1>7, <1>8, <1>9 DEF Consumer

-----------------------------------------------------------------------------
(***************************************************************************)
(* The inductive invariant.                                                *)
(***************************************************************************)

\* A producer at work has a free slot, a consumer at work a message, and a
\* ring that is being created is empty although consumers may open it.
RoomHeld ==
  ppc \in {"claimed", "prepared", "finalized"} => head(pSeg) - tail(pSeg) < Capacity
MessageHeld == cpc \in {"viewing?", "viewing"} => tail(cSeg) < head(cSeg)
EmptyAtFirst ==
  ppc \in {"sizing", "initializing"} => head(pSeg) = 0 /\ tail(pSeg) = 0

Counters == CountersOrdered /\ RoomHeld /\ MessageHeld /\ EmptyAtFirst

IInv == TypeOK /\ CapacityKnown /\ CapacityChecked /\ Counters

LEMMA HeaderFields ==
  ASSUME TypeOK
  PROVE  /\ header \in [Segment -> [Fields -> Nat]]
         /\ \A s \in Segment : head(s) \in Nat /\ tail(s) \in Nat
         /\ Capacity \in Nat /\ Capacity >= 2
BY HeaderTypes, IpcRingAssumption DEF TypeOK, head, tail, Fields

LEMMA InvInit == Init => IInv
<1> SUFFICES ASSUME Init PROVE IInv
  OBVIOUS
<1>1. \A s \in Segment : header[s] = ZeroHeader
  BY DEF Init
<1>2. CapacityKnown /\ CountersOrdered
  BY <1>1, HeaderTypes, IpcRingAssumption DEF CapacityKnown, CountersOrdered, head, tail, Fields
<1> QED
  BY <1>2, TypeInit
  DEF Init, IInv, CapacityChecked, Counters, RoomHeld, MessageHeld, EmptyAtFirst

\* A step that leaves the headers, the places and the mappings alone.
LEMMA QuietStep ==
  ASSUME Counters, UNCHANGED <<header, pSeg, cSeg>>,
         ppc' = ppc \/ (ppc' \in {"prepared", "finalized"}
                       /\ ppc \in {"claimed", "prepared", "finalized"})
           \/ ppc' = "idle" \/ (ppc = "sizing" /\ ppc' = "initializing")
           \/ (ppc' = "claimed" /\ head(pSeg) - tail(pSeg) < Capacity),
         cpc' = cpc \/ cpc' \notin {"viewing?", "viewing"}
           \/ (cpc' = "viewing" /\ cpc = "viewing?")
           \/ (cpc' = "viewing?" /\ tail(cSeg) < head(cSeg))
  PROVE  Counters'
BY DEF Counters, CountersOrdered, RoomHeld, MessageHeld, EmptyAtFirst, head, tail

\* The segments in use keep their headers when the others are freed.
LEMMA Freed ==
  ASSUME IInv, TypeOK', FreeUnused, cSeg' \in {cSeg, NoSegment}, pSeg' \in {pSeg, NoSegment}
  PROVE  /\ \A s \in Segment : header'[s] = header[s] \/ header'[s] = ZeroHeader
         /\ cSeg' \in Segment => header'[cSeg'] = header[cSeg] /\ slots'[cSeg'] = slots[cSeg]
         /\ pSeg' \in Segment => header'[pSeg'] = header[pSeg]
         /\ CapacityKnown' /\ CountersOrdered'
<1>1. NoSegment \notin Segment
  BY IpcRingAssumption
<1>2. \A s \in Segment : header'[s] = IF s \in InUse' THEN header[s] ELSE ZeroHeader
  BY DEF FreeUnused
<1>3. \A s \in Segment : slots'[s] = IF s \in InUse' THEN slots[s] ELSE ZeroSlots
  BY DEF FreeUnused
<1>4. /\ cSeg' \in Segment => cSeg' \in InUse' /\ cSeg' = cSeg
      /\ pSeg' \in Segment => pSeg' \in InUse' /\ pSeg' = pSeg
  BY <1>1 DEF InUse
<1>5. CapacityKnown' /\ CountersOrdered'
  BY <1>2, HeaderTypes, IpcRingAssumption
  DEF IInv, Counters, CapacityKnown, CountersOrdered, head, tail, Fields
<1> QED
  BY <1>2, <1>3, <1>4, <1>5

LEMMA DropCounters ==
  ASSUME IInv, TypeOK', drop_ring
  PROVE  CapacityKnown' /\ CapacityChecked' /\ Counters'
<1>1. /\ pSeg' = NoSegment /\ ppc' = "closed" /\ FreeUnused
      /\ UNCHANGED <<cpc, cSeg, reader, toCheck, item>>
  BY DEF drop_ring, cvars
<1>2. MessageHeld'
  <2> SUFFICES ASSUME cpc \in {"viewing?", "viewing"} PROVE (tail(cSeg) < head(cSeg))'
    BY <1>1 DEF MessageHeld
  <2>1. cSeg' \in Segment /\ tail(cSeg) < head(cSeg)
    BY <1>1 DEF IInv, TypeOK, Counters, MessageHeld
  <2>2. header'[cSeg'] = header[cSeg]
    BY <1>1, <2>1, Freed
  <2> QED
    BY <2>1, <2>2 DEF head, tail
<1> QED
  BY <1>1, <1>2, Freed DEF IInv, Counters, RoomHeld, EmptyAtFirst, CapacityChecked

LEMMA ReleaseCounters ==
  ASSUME IInv, TypeOK', release
  PROVE  CapacityKnown' /\ CapacityChecked' /\ Counters'
<1>1. /\ cSeg' = NoSegment /\ cpc' = "closed" /\ FreeUnused
      /\ UNCHANGED <<ppc, pSeg, pType, todo>>
  BY DEF release, pvars
<1>2. pSeg' \in Segment => header'[pSeg'] = header[pSeg]
  BY <1>1, Freed
<1>3. ppc # "closed" => pSeg' \in Segment
  BY <1>1 DEF IInv, TypeOK
<1>4. RoomHeld' /\ EmptyAtFirst'
  BY <1>1, <1>2, <1>3 DEF IInv, Counters, RoomHeld, EmptyAtFirst, head, tail
<1> QED
  BY <1>1, <1>4, Freed DEF IInv, Counters, MessageHeld, CapacityChecked

LEMMA InvStep == IInv /\ [Next]_vars => IInv'
<1> SUFFICES ASSUME IInv, [Next]_vars PROVE IInv'
  OBVIOUS
<1>t. TypeOK'
  BY ProducerTypes, ConsumerTypes DEF IInv, Next, TypeOK, vars, pvars, cvars
<1>h. /\ header \in [Segment -> [Fields -> Nat]]
      /\ \A s \in Segment : head(s) \in Nat /\ tail(s) \in Nat
      /\ Capacity \in Nat /\ Capacity >= 2
      /\ ppc # "closed" => pSeg \in Segment
      /\ cpc # "closed" => cSeg \in Segment
      /\ NoSegment \notin Segment
  BY HeaderFields, IpcRingAssumption DEF IInv, TypeOK
<1>i. /\ CapacityKnown /\ CapacityChecked /\ Counters
      /\ CountersOrdered /\ RoomHeld /\ MessageHeld /\ EmptyAtFirst
  BY DEF IInv, Counters
<1>1. ASSUME NEW T \in Created, create_shm(T) PROVE IInv'
  <2>1. /\ UNCHANGED <<cpc, cSeg, reader, toCheck, item>> /\ ppc' = "sizing"
        /\ pSeg' \in Segment /\ header' = [header EXCEPT ![pSeg'] = ZeroHeader]
        /\ cSeg # pSeg'
    BY <1>1, <1>h DEF create_shm, cvars, Quiet, InUse
  <2>2. /\ \A s \in Segment : header'[s] = IF s = pSeg' THEN ZeroHeader ELSE header[s]
    BY <1>h, <2>1
  <2>3. CapacityKnown' /\ CountersOrdered' /\ EmptyAtFirst'
    BY <1>h, <1>i, <2>1, <2>2, HeaderTypes
    DEF CapacityKnown, CountersOrdered, EmptyAtFirst, head, tail, Fields
  <2>4. MessageHeld'
    BY <1>h, <1>i, <2>1, <2>2 DEF MessageHeld, head, tail
  <2> QED
    BY <1>t, <1>i, <2>1, <2>3, <2>4 DEF IInv, Counters, RoomHeld, CapacityChecked
<1>2. CASE create_size
  <2>1. /\ UNCHANGED <<header, pSeg, cpc, cSeg, reader, toCheck, item>>
        /\ ppc = "sizing" /\ ppc' = "initializing"
    BY <1>2 DEF create_size, cvars
  <2> QED
    BY <1>t, <1>i, <2>1, QuietStep DEF IInv, CapacityKnown, CapacityChecked
<1>3. CASE create_fails \/ destroy \/ producer_crash
  BY <1>t, <1>3, DropCounters DEF IInv, create_fails, destroy, producer_crash
<1>4. ASSUME NEW f \in todo, create_store(f) PROVE IInv'
  <2>1. /\ UNCHANGED <<pSeg, cpc, cSeg, reader, toCheck, item>> /\ ppc = "initializing"
        /\ ppc' \in {"idle", "initializing"}
        /\ header' = [header EXCEPT ![pSeg][f] = NewHeader(pType)[f]]
        /\ f \in Fields /\ pSeg \in Segment /\ pType \in Types
    BY <1>4, <1>h, HeaderTypes, IpcRingAssumption DEF create_store, cvars, IInv, TypeOK
  <2>2. \A s \in Segment, g \in Fields :
          header'[s][g] = IF s = pSeg /\ g = f THEN NewHeader(pType)[g] ELSE header[s][g]
    BY <1>h, <2>1
  <2>3. /\ header[pSeg]["head"] = 0 /\ header[pSeg]["tail"] = 0
    BY <1>i, <2>1 DEF EmptyAtFirst, head, tail
  <2>4. /\ NewHeader(pType)["head"] = 0 /\ NewHeader(pType)["tail"] = 0
        /\ NewHeader(pType)["capacity"] = Capacity
        /\ "head" \in Fields /\ "tail" \in Fields /\ "capacity" \in Fields
    BY <2>1, HeaderTypes DEF Fields
  <2>5. \A s \in Segment : /\ header'[s]["head"] = header[s]["head"]
                           /\ header'[s]["tail"] = header[s]["tail"]
    BY <2>2, <2>3, <2>4
  <2>6. CapacityKnown'
    BY <1>i, <2>2, <2>4 DEF CapacityKnown
  <2>7. CountersOrdered' /\ EmptyAtFirst' /\ MessageHeld'
    BY <1>h, <1>i, <2>1, <2>5
    DEF CountersOrdered, EmptyAtFirst, MessageHeld, head, tail
  <2> QED
    BY <1>t, <1>i, <2>1, <2>6, <2>7 DEF IInv, Counters, RoomHeld, CapacityChecked
<1>5. CASE prepare_write_load
  <2>1. /\ UNCHANGED <<header, pSeg, cpc, cSeg, reader, toCheck, item>>
        /\ ppc' = "idle" \/ (ppc' = "claimed" /\ ~is_full(pSeg))
        /\ pSeg \in Segment
    BY <1>5, <1>h DEF prepare_write_load, cvars
  <2>2. ~is_full(pSeg) => head(pSeg) - tail(pSeg) < Capacity
    BY <1>h, <2>1 DEF is_full
  <2> QED
    BY <1>t, <1>i, <2>1, <2>2, QuietStep DEF IInv, CapacityKnown, CapacityChecked
<1>6. CASE prepare_write_stamp \/ (\E v \in Payload : write_payload(v))
           \/ (\E c \in BOOLEAN : commit_write_finalize(c))
  <2>1. /\ UNCHANGED <<header, pSeg, cpc, cSeg, reader, toCheck, item>>
        /\ ppc \in {"claimed", "prepared"} /\ ppc' \in {"idle", "prepared", "finalized"}
    BY <1>6 DEF prepare_write_stamp, write_payload, commit_write_finalize, pvars, cvars
  <2> QED
    BY <1>t, <1>i, <2>1, QuietStep DEF IInv, CapacityKnown, CapacityChecked
<1>7. CASE commit_write_store
  <2>1. /\ UNCHANGED <<pSeg, cpc, cSeg, reader, toCheck, item>> /\ ppc = "finalized"
        /\ ppc' = "idle" /\ pSeg \in Segment
        /\ header' = [header EXCEPT ![pSeg]["head"] = @ + 1]
    BY <1>7, <1>h DEF commit_write_store, cvars
  <2>2. \A s \in Segment :
          /\ header'[s]["head"] = IF s = pSeg THEN header[s]["head"] + 1 ELSE header[s]["head"]
          /\ header'[s]["tail"] = header[s]["tail"]
          /\ header'[s]["capacity"] = header[s]["capacity"]
    BY <1>h, <2>1 DEF Fields
  <2>3. CapacityKnown' /\ CountersOrdered' /\ MessageHeld'
    BY <1>h, <1>i, <2>1, <2>2
    DEF CapacityKnown, CountersOrdered, MessageHeld, RoomHeld, head, tail
  <2> QED
    BY <1>t, <1>i, <2>1, <2>3 DEF IInv, Counters, RoomHeld, EmptyAtFirst, CapacityChecked
<1>8. ASSUME NEW r \in Opened, open_shm(r) PROVE IInv'
  <2>1. UNCHANGED <<header, ppc, pSeg>> /\ cpc' = "opening" /\ cpc = "closed"
    BY <1>8 DEF open_shm, pvars
  <2> QED
    BY <1>t, <1>i, <2>1
    DEF IInv, Counters, CapacityKnown, CapacityChecked, CountersOrdered, RoomHeld,
        MessageHeld, EmptyAtFirst, head, tail
<1>9. CASE open_map
  <2>1. UNCHANGED <<header, ppc, pSeg, cSeg>> /\ cpc' = "checking" /\ toCheck' = Checked
    BY <1>9 DEF open_map, pvars
  <2> QED
    BY <1>t, <1>i, <2>1, QuietStep DEF IInv, CapacityKnown, CapacityChecked, Checked
<1>10. ASSUME NEW f \in toCheck, open_check(f) PROVE IInv'
  <2>1. /\ UNCHANGED <<header, ppc, pSeg, cSeg, reader>> /\ cpc = "checking"
        /\ cpc' \in {"checking", "idle"} /\ toCheck' = toCheck \ {f} /\ field_ok(f)
        /\ reader \in Opened /\ cSeg \in Segment
    BY <1>10, <1>h DEF open_check, pvars, IInv, TypeOK
  <2>2. f = "capacity" => reader.capacity = Capacity
    <3>1. reader.capacity \in Nat /\ reader.capacity >= 2
      BY <2>1, IpcRingAssumption
    <3>2. f = "capacity" => header[cSeg]["capacity"] = reader.capacity
      BY <2>1 DEF field_ok, Geometry
    <3> QED
      BY <1>i, <2>1, <3>1, <3>2 DEF CapacityKnown
  <2>3. CapacityChecked'
    BY <1>i, <2>1, <2>2 DEF CapacityChecked
  <2> QED
    BY <1>t, <1>i, <2>1, <2>3, QuietStep DEF IInv, CapacityKnown
<1>11. CASE open_fails \/ leave
  BY <1>t, <1>11, ReleaseCounters DEF IInv, open_fails, leave
<1>12. CASE peek_read_load
  <2>1. /\ UNCHANGED <<header, ppc, pSeg, cSeg, reader, toCheck>> /\ cSeg \in Segment
        /\ cpc \notin {"closed", "opening"}
        /\ cpc' = "idle" \/ (cpc' = "viewing?" /\ tail(cSeg) # head(cSeg))
    BY <1>12, <1>h DEF peek_read_load, pvars
  <2>2. tail(cSeg) # head(cSeg) => tail(cSeg) < head(cSeg)
    BY <1>h, <1>i, <2>1 DEF CountersOrdered
  <2> QED
    BY <1>t, <1>i, <2>1, <2>2, QuietStep DEF IInv, CapacityKnown, CapacityChecked
<1>13. CASE (\E c \in BOOLEAN : peek_read_view(c)) \/ read_item
  <2>1. /\ UNCHANGED <<header, ppc, pSeg, cSeg, reader, toCheck>>
        /\ cpc \in {"viewing?", "viewing"}
        /\ cpc' = cpc \/ (cpc = "viewing?" /\ cpc' \in {"viewing", "invalid"})
    BY <1>13 DEF peek_read_view, read_item, pvars
  <2> QED
    BY <1>t, <1>i, <2>1, QuietStep DEF IInv, CapacityKnown, CapacityChecked
<1>14. CASE commit_read
  <2>1. /\ UNCHANGED <<ppc, pSeg, cSeg, reader, toCheck>> /\ cpc = "viewing" /\ cpc' = "idle"
        /\ cSeg \in Segment /\ header' = [header EXCEPT ![cSeg]["tail"] = @ + 1]
    BY <1>14, <1>h DEF commit_read, pvars
  <2>2. \A s \in Segment :
          /\ header'[s]["tail"] = IF s = cSeg THEN header[s]["tail"] + 1 ELSE header[s]["tail"]
          /\ header'[s]["head"] = header[s]["head"]
          /\ header'[s]["capacity"] = header[s]["capacity"]
    BY <1>h, <2>1 DEF Fields
  <2>3. tail(cSeg) < head(cSeg)
    BY <1>i, <2>1 DEF MessageHeld
  <2>4. CapacityKnown' /\ CountersOrdered' /\ RoomHeld' /\ EmptyAtFirst'
    BY <1>h, <1>i, <2>1, <2>2, <2>3
    DEF CapacityKnown, CountersOrdered, RoomHeld, EmptyAtFirst, head, tail
  <2> QED
    BY <1>t, <1>i, <2>1, <2>4 DEF IInv, Counters, MessageHeld, CapacityChecked
<1>15. CASE UNCHANGED vars
  <2>1. UNCHANGED <<header, ppc, pSeg, cpc, cSeg, reader, toCheck>>
    BY <1>15 DEF vars, pvars, cvars
  <2> QED
    BY <1>t, <1>i, <2>1, QuietStep DEF IInv, CapacityKnown, CapacityChecked
<1> QED
  BY <1>1, <1>2, <1>3, <1>4, <1>5, <1>6, <1>7, <1>8, <1>9, <1>10, <1>11, <1>12, <1>13,
     <1>14, <1>15
  DEF Next, Producer, Consumer

-----------------------------------------------------------------------------
(***************************************************************************)
(* The message in view.                                                    *)
(***************************************************************************)

\* Counters less than Capacity apart select different slots.
LEMMA IdxDiffers ==
  ASSUME NEW x \in Nat, NEW y \in Nat, y < x, x - y < Capacity
  PROVE  idx(x) # idx(y)
<1> SUFFICES ASSUME idx(x) = idx(y) PROVE FALSE
  OBVIOUS
<1>1. Capacity \in Nat /\ Capacity >= 2
  BY IpcRingAssumption
<1> DEFINE p == x \div Capacity
           q == y \div Capacity
           r == x % Capacity
<1>2. /\ p \in Nat /\ q \in Nat /\ r \in Nat
      /\ x = p * Capacity + r /\ y = q * Capacity + r
  BY <1>1 DEF idx
<1> HIDE DEF p, q, r
<1>3. x - y = (p - q) * Capacity
  BY <1>1, <1>2
<1>4. \A d \in Int : (d >= 1 => d * Capacity >= Capacity) /\ (d <= 0 => d * Capacity <= 0)
  BY <1>1
<1>5. p - q \in Int
  BY <1>2
<1> QED
  BY <1>1, <1>3, <1>4, <1>5

\* The producer writes the slot of head, in its segment, and no other.
LEMMA ProducerWrites ==
  ASSUME IInv, TypeOK', Producer, cSeg \in Segment, NEW i \in Index,
         slots'[cSeg][i] # slots[cSeg][i]
  PROVE  /\ cSeg = pSeg /\ i = idx(head(pSeg))
         /\ ppc \in {"claimed", "prepared", "finalized"}
<1>t. slots \in [Segment -> [Index -> Buffer]] /\ NoSegment \notin Segment
  BY IpcRingAssumption DEF IInv, TypeOK
<1>1. ASSUME NEW T \in Created, create_shm(T) PROVE slots'[cSeg] = slots[cSeg]
  BY <1>1, <1>t DEF create_shm, Quiet, InUse
<1>2. CASE drop_ring
  <2>1. cSeg' = cSeg /\ FreeUnused /\ pSeg' = NoSegment
    BY <1>2 DEF drop_ring, cvars
  <2> QED
    BY <2>1, Freed
<1>3. CASE prepare_write_stamp
  BY <1>3, <1>t DEF prepare_write_stamp
<1>4. ASSUME NEW v \in Payload, write_payload(v)
      PROVE  cSeg = pSeg /\ i = idx(head(pSeg)) /\ ppc = "prepared"
  BY <1>4, <1>t DEF write_payload
<1>5. ASSUME NEW c \in BOOLEAN, commit_write_finalize(c)
      PROVE  cSeg = pSeg /\ i = idx(head(pSeg)) /\ ppc = "prepared"
  BY <1>5, <1>t DEF commit_write_finalize
<1>6. CASE UNCHANGED slots
  BY <1>6
<1> QED
  BY <1>1, <1>2, <1>3, <1>4, <1>5, <1>6
  DEF Producer, create_size, create_fails, create_store, prepare_write_load,
      commit_write_store, destroy, producer_crash

LEMMA ViewKept ==
  ASSUME IInv, TypeOK', [Next]_vars, cpc = "viewing", cpc' = "viewing"
  PROVE  slots'[cSeg][view_slot] = slots[cSeg][view_slot]
<1>1. /\ cSeg \in Segment /\ view_slot = idx(tail(cSeg)) /\ view_slot \in Index
      /\ tail(cSeg) \in Nat /\ head(cSeg) \in Nat /\ tail(cSeg) < head(cSeg)
  BY SlotIndex DEF IInv, Counters, MessageHeld
<1>2. CASE Producer
  <2> SUFFICES ASSUME slots'[cSeg][view_slot] # slots[cSeg][view_slot] PROVE FALSE
    OBVIOUS
  <2>1. /\ cSeg = pSeg /\ view_slot = idx(head(pSeg))
        /\ ppc \in {"claimed", "prepared", "finalized"}
    BY <1>1, <1>2, ProducerWrites
  <2>2. head(pSeg) - tail(pSeg) < Capacity
    BY <2>1 DEF IInv, Counters, RoomHeld
  <2> QED
    BY <1>1, <2>1, <2>2, IdxDiffers
<1>3. CASE Consumer
  BY <1>3
  DEF Consumer, open_shm, open_map, open_check, open_fails, release, peek_read_load,
      peek_read_view, read_item, commit_read, leave
<1>4. CASE UNCHANGED vars
  BY <1>4 DEF vars
<1> QED
  BY <1>2, <1>3, <1>4 DEF Next

-----------------------------------------------------------------------------
LEMMA InvHolds == Spec => []IInv
  BY InvInit, InvStep, PTL DEF Spec

\* Type correctness: a process has a segment exactly while it has a ring or is
\* making one, and what it copies out of a slot is a payload.
THEOREM TypeCorrect == Spec => []TypeOK
<1>1. IInv => TypeOK
  BY DEF IInv
<1> QED
  BY <1>1, InvHolds, PTL

\* In every segment, at every moment, also after either process died between
\* two stores of create or of a commit and was started again, tail is not
\* ahead of head and not more than Capacity behind.
THEOREM CountersInOrder == Spec => []CountersOrdered
<1>1. IInv => CountersOrdered
  BY DEF IInv, Counters
<1> QED
  BY <1>1, InvHolds, PTL

\* The message that peek_read returned does not change until commit_read or
\* the end of the consumer's ring, whatever the producer process does: write,
\* die, unlink the name, and create again.
THEOREM ViewsAreStable == Spec => ViewStable
<1>1. IInv /\ TypeOK' /\ [Next]_vars
        => [cpc = "viewing" /\ cpc' = "viewing" =>
              slots'[cSeg][view_slot] = slots[cSeg][view_slot]]_vars
  BY ViewKept
<1> QED
  BY <1>1, InvHolds, TypeCorrect, PTL DEF Spec, ViewStable

-----------------------------------------------------------------------------
\* The consumer holds a copy of a message only while it views the message.
ItemHeld == item # NoItem => cpc = "viewing"

FifoInv == IInv /\ ItemHeld

LEMMA ItemStep == ItemHeld /\ [Next]_vars => ItemHeld'
<1> SUFFICES ASSUME ItemHeld, [Next]_vars PROVE ItemHeld'
  OBVIOUS
<1>1. CASE Producer
  <2>1. UNCHANGED <<cpc, item>>
    BY <1>1 DEF Producer, create_shm, create_size, create_fails, create_store,
                prepare_write_load, prepare_write_stamp, write_payload,
                commit_write_finalize, commit_write_store, destroy, producer_crash,
                drop_ring, cvars
  <2> QED
    BY <2>1 DEF ItemHeld
<1>2. CASE Consumer
  BY <1>2 DEF Consumer, ItemHeld, open_shm, open_map, open_check, open_fails, release,
              peek_read_load, peek_read_view, read_item, commit_read, leave
<1>3. CASE UNCHANGED vars
  BY <1>3 DEF vars, cvars, ItemHeld
<1> QED
  BY <1>1, <1>2, <1>3 DEF Next

LEMMA FifoInvHolds == Spec => []FifoInv
<1>1. Init => ItemHeld
  BY DEF Init, ItemHeld
<1> QED
  BY <1>1, ItemStep, InvHolds, PTL DEF Spec, FifoInv

-----------------------------------------------------------------------------
(***************************************************************************)
(* The messages of a segment.                                              *)
(***************************************************************************)

\* A sequence is its elements.
LEMMA SequenceIs ==
  ASSUME NEW S, NEW n \in Nat, NEW f, f = [i \in 1 .. n |-> f[i]],
         \A i \in 1 .. n : f[i] \in S
  PROVE  f \in Seq(S) /\ Len(f) = n
<1>1. f \in [1 .. n -> S]
  OBVIOUS
<1> QED
  BY <1>1, IsASeq, LenProperties

QueueOK(s) ==
  /\ head(s) \in Nat /\ tail(s) \in Nat /\ tail(s) <= head(s) /\ head(s) - tail(s) <= Capacity
  /\ Committed(s) \in Seq(Payload) /\ Len(Committed(s)) = head(s) - tail(s)
  /\ \A i \in 1 .. head(s) - tail(s) :
       Committed(s)[i] = slots[s][idx(tail(s) + i - 1)].payload

QueuesOK == \A s \in Segment : QueueOK(s)

LEMMA QueueIs == IInv => QueuesOK
<1> SUFFICES ASSUME IInv, NEW s \in Segment PROVE QueueOK(s)
  BY DEF QueuesOK
<1> DEFINE n == head(s) - tail(s)
<1>1. /\ head(s) \in Nat /\ tail(s) \in Nat /\ tail(s) <= head(s) /\ n <= Capacity /\ n \in Nat
  BY HeaderFields DEF IInv, Counters, CountersOrdered
<1>2. ASSUME NEW i \in 1 .. n PROVE slots[s][idx(tail(s) + i - 1)].payload \in Payload
  <2>1. tail(s) + i - 1 \in Nat
    BY <1>1
  <2>2. idx(tail(s) + i - 1) \in Index
    BY <2>1, IdxType
  <2> QED
    BY <2>2 DEF IInv, TypeOK, Buffer
<1>3. Committed(s) = [i \in 1 .. n |-> slots[s][idx(tail(s) + i - 1)].payload]
  BY DEF Committed
<1> HIDE DEF n
<1>4. Committed(s) \in Seq(Payload) /\ Len(Committed(s)) = n
  BY <1>1, <1>2, <1>3, SequenceIs
<1> QED
  BY <1>1, <1>3, <1>4 DEF n, QueueOK

\* The same counters and the same slots between them are the same messages.
LEMMA QueueKept ==
  ASSUME NEW s \in Segment, head(s)' = head(s), tail(s)' = tail(s),
         \A i \in 1 .. head(s) - tail(s) :
           slots'[s][idx(tail(s) + i - 1)].payload = slots[s][idx(tail(s) + i - 1)].payload
  PROVE  Committed(s)' = Committed(s)
BY DEF Committed

\* A segment that was emptied has none.
EmptiedOK == \A s \in Segment : header[s] = ZeroHeader => Committed(s) = <<>>

LEMMA QueueEmpty == IInv => EmptiedOK
<1> SUFFICES ASSUME NEW s \in Segment, IInv, header[s] = ZeroHeader PROVE Committed(s) = <<>>
  BY DEF EmptiedOK
<1>1. head(s) = 0 /\ tail(s) = 0
  BY HeaderTypes DEF head, tail, Fields
<1>2. QueueOK(s)
  BY QueueIs DEF QueuesOK
<1>3. Committed(s) \in Seq(Payload) /\ Len(Committed(s)) = 0
  BY <1>1, <1>2 DEF QueueOK
<1> QED
  BY <1>3

\* Writing the slot of head changes none of them.
LEMMA QueueSpared ==
  ASSUME IInv, NEW s \in Segment, NEW i \in 1 .. head(s) - tail(s),
         s = pSeg => ppc \in {"claimed", "prepared", "finalized"}
  PROVE  s = pSeg => idx(tail(s) + i - 1) # idx(head(s))
<1>1. QueueOK(s)
  BY QueueIs DEF QueuesOK
<1>2. /\ tail(s) + i - 1 \in Nat /\ head(s) \in Nat /\ tail(s) + i - 1 < head(s)
      /\ head(s) - (tail(s) + i - 1) <= head(s) - tail(s)
  BY <1>1 DEF QueueOK
<1>3. s = pSeg => head(s) - tail(s) < Capacity
  BY DEF IInv, Counters, RoomHeld
<1>4. s = pSeg => head(s) - (tail(s) + i - 1) < Capacity
  BY <1>1, <1>2, <1>3, IpcRingAssumption DEF QueueOK
<1> QED
  BY <1>2, <1>4, IdxDiffers

-----------------------------------------------------------------------------
(***************************************************************************)
(* The steps of the queue.                                                 *)
(***************************************************************************)

\* What the queue of a segment shows the consumer.
seen(s) == IF s = cSeg THEN item ELSE NoItem

QueueStep(s) == [Ring(s)!Next \/ RingCleared(s)]_(Ring(s)!vars)

LEMMA StayOrLookAway ==
  ASSUME NEW s \in Segment, Committed(s)' = Committed(s),
         seen(s)' = seen(s) \/ seen(s)' = NoItem
  PROVE  QueueStep(s)
BY DEF QueueStep, seen, Ring!vars, Ring!Next, Ring!LookAway

LEMMA Looks ==
  ASSUME NEW s \in Segment, Committed(s)' = Committed(s), Committed(s) # <<>>,
         seen(s)' = Committed(s)[1]
  PROVE  QueueStep(s)
BY DEF QueueStep, seen, Ring!Next, Ring!Look

LEMMA Puts ==
  ASSUME NEW s \in Segment, NEW v \in Payload, Len(Committed(s)) < Capacity,
         Committed(s)' = Append(Committed(s), v), seen(s)' = seen(s)
  PROVE  QueueStep(s)
BY DEF QueueStep, seen, Ring!Next, Ring!Put

LEMMA Removes ==
  ASSUME NEW s \in Segment, Committed(s) # <<>>,
         Committed(s)' = Tail(Committed(s)), seen(s)' = NoItem
  PROVE  QueueStep(s)
BY DEF QueueStep, seen, Ring!Next, Ring!Remove

LEMMA Clears ==
  ASSUME NEW s \in Segment, Committed(s)' = <<>>, seen(s)' = NoItem, cSeg' # s,
         ppc' = "sizing" \/ s \notin InUse'
  PROVE  QueueStep(s)
BY DEF QueueStep, seen, RingCleared, Ring!Clear

\* Whatever leaves the memory of a segment alone leaves its messages.
LEMMA SameMemory ==
  ASSUME NEW s \in Segment, header'[s] = header[s], slots'[s] = slots[s]
  PROVE  Committed(s)' = Committed(s)
BY DEF Committed, head, tail

\* A process that goes away frees the segments that nobody uses any more.
LEMMA FreeingStep ==
  ASSUME FifoInv, IInv', FreeUnused, NEW s \in Segment,
         cSeg' \in {cSeg, NoSegment}, seen(s)' \in {seen(s), NoItem}
  PROVE  QueueStep(s)
<1>1. /\ header'[s] = IF s \in InUse' THEN header[s] ELSE ZeroHeader
      /\ slots'[s] = IF s \in InUse' THEN slots[s] ELSE ZeroSlots
  BY DEF FreeUnused
<1>2. CASE s \in InUse'
  BY <1>1, <1>2, SameMemory, StayOrLookAway
<1>3. CASE s \notin InUse'
  <2>1. EmptiedOK'
    BY QueueEmpty, PTL
  <2>2. Committed(s)' = <<>>
    BY <1>1, <1>3, <2>1 DEF EmptiedOK
  <2>3. cSeg' # s
    BY <1>3, IpcRingAssumption DEF InUse
  <2>4. seen(s)' = NoItem
    BY <2>3 DEF seen
  <2> QED
    BY <1>3, <2>2, <2>3, <2>4, Clears
<1> QED
  BY <1>2, <1>3

\* The producer fills the slot of head.
LEMMA WritingStep ==
  ASSUME FifoInv, NEW s \in Segment,
         \/ prepare_write_stamp
         \/ \E v \in Payload : write_payload(v)
         \/ \E c \in BOOLEAN : commit_write_finalize(c)
  PROVE  QueueStep(s)
<1>t. /\ slots \in [Segment -> [Index -> Buffer]] /\ IInv
      /\ \A n \in Nat : idx(n) \in Index
  BY IdxType DEF FifoInv, IInv, TypeOK
<1>1. UNCHANGED <<header, cSeg, item>> /\ ppc \in {"claimed", "prepared", "finalized"}
  BY DEF prepare_write_stamp, write_payload, commit_write_finalize, cvars
<1>2. ASSUME NEW j \in Index, s = pSeg => j # idx(head(s))
      PROVE  slots'[s][j] = slots[s][j]
  <2>1. CASE prepare_write_stamp
    BY <1>2, <1>t, <2>1 DEF prepare_write_stamp
  <2>2. ASSUME NEW v \in Payload, write_payload(v) PROVE slots'[s][j] = slots[s][j]
    BY <1>2, <1>t, <2>2 DEF write_payload
  <2>3. ASSUME NEW c \in BOOLEAN, commit_write_finalize(c) PROVE slots'[s][j] = slots[s][j]
    BY <1>2, <1>t, <2>3 DEF commit_write_finalize
  <2> QED
    BY <2>1, <2>2, <2>3
<1>3. head(s)' = head(s) /\ tail(s)' = tail(s)
  BY <1>1 DEF head, tail
<1>4. ASSUME NEW i \in 1 .. head(s) - tail(s)
      PROVE  slots'[s][idx(tail(s) + i - 1)].payload = slots[s][idx(tail(s) + i - 1)].payload
  <2>1. QueueOK(s)
    BY <1>t, QueueIs DEF QueuesOK
  <2>2. tail(s) + i - 1 \in Nat
    BY <2>1 DEF QueueOK
  <2>3. s = pSeg => idx(tail(s) + i - 1) # idx(head(s))
    BY <1>1, <1>t, QueueSpared
  <2> QED
    BY <1>2, <1>t, <2>2, <2>3
<1>5. Committed(s)' = Committed(s)
  BY <1>3, <1>4, QueueKept
<1> QED
  BY <1>1, <1>5, StayOrLookAway DEF seen

\* commit_write appends the message of the slot it publishes.
LEMMA CommitStep ==
  ASSUME FifoInv, IInv', commit_write_store, NEW s \in Segment
  PROVE  QueueStep(s)
<1>h. header \in [Segment -> [Fields -> Nat]] /\ IInv
  BY HeaderFields DEF FifoInv, IInv
<1>1. /\ header' = [header EXCEPT ![pSeg]["head"] = @ + 1] /\ ppc = "finalized"
      /\ UNCHANGED <<slots, pSeg, cSeg, item>>
  BY DEF commit_write_store, cvars
<1>2. seen(s)' = seen(s)
  BY <1>1 DEF seen
<1>3. CASE s # pSeg
  <2>1. header'[s] = header[s] /\ slots'[s] = slots[s]
    BY <1>h, <1>1, <1>3
  <2> QED
    BY <1>2, <2>1, SameMemory, StayOrLookAway
<1>4. CASE s = pSeg
  <2> DEFINE n == head(s) - tail(s)
             v == slots[s][idx(head(s))].payload
  <2>1. head(s)' = head(s) + 1 /\ tail(s)' = tail(s)
    BY <1>h, <1>1, <1>4 DEF head, tail, Fields
  <2>2. /\ head(s) \in Nat /\ tail(s) \in Nat /\ n \in Nat /\ n < Capacity
        /\ Committed(s) \in Seq(Payload) /\ Len(Committed(s)) = n
        /\ \A i \in 1 .. n : Committed(s)[i] = slots[s][idx(tail(s) + i - 1)].payload
    BY <1>h, <1>1, <1>4, QueueIs DEF QueuesOK, QueueOK, IInv, Counters, RoomHeld
  <2>3. v \in Payload
    <3>1. slots \in [Segment -> [Index -> Buffer]] /\ idx(head(s)) \in Index
      BY <1>h, <2>2, IdxType DEF IInv, TypeOK
    <3> QED
      BY <3>1 DEF Buffer
  <2>4. QueuesOK'
    BY QueueIs, PTL
  <2>5. /\ Committed(s)' \in Seq(Payload) /\ Len(Committed(s)') = head(s)' - tail(s)'
        /\ \A i \in 1 .. head(s)' - tail(s)' :
             Committed(s)'[i] = slots'[s][idx(tail(s)' + i - 1)].payload
    BY <2>4 DEF QueuesOK, QueueOK, idx
  <2>6. head(s)' - tail(s)' = n + 1
    BY <2>1, <2>2
  <2>7. /\ Committed(s)' \in Seq(Payload) /\ Len(Committed(s)') = n + 1
        /\ \A i \in 1 .. n + 1 : Committed(s)'[i] = slots[s][idx(tail(s) + i - 1)].payload
    BY <1>1, <2>1, <2>5, <2>6
  <2>8. tail(s) + (n + 1) - 1 = head(s)
    BY <2>2
  <2> HIDE DEF n
  <2>9. Committed(s)'[n + 1] = v
    BY <2>2, <2>7, <2>8
  <2> HIDE DEF v
  <2>10. Committed(s)' = Append(Committed(s), v)
    <3>1. /\ Append(Committed(s), v) \in Seq(Payload)
          /\ Len(Append(Committed(s), v)) = n + 1
          /\ \A i \in 1 .. n : Append(Committed(s), v)[i] = Committed(s)[i]
          /\ Append(Committed(s), v)[n + 1] = v
      BY <2>2, <2>3, AppendProperties
    <3>2. \A i \in 1 .. n : i \in 1 .. n + 1
      BY <2>2
    <3>3. \A i \in 1 .. n : Committed(s)'[i] = Append(Committed(s), v)[i]
      BY <2>2, <2>7, <3>1, <3>2
    <3>4. \A i \in 1 .. n + 1 : i \in 1 .. n \/ i = n + 1
      BY <2>2
    <3>5. \A i \in 1 .. n + 1 : Committed(s)'[i] = Append(Committed(s), v)[i]
      BY <2>9, <3>1, <3>3, <3>4
    <3> QED
      BY <2>7, <3>1, <3>5, SeqEqual
  <2> QED
    BY <1>2, <2>2, <2>3, <2>10, Puts
<1> QED
  BY <1>3, <1>4

\* commit_read removes the oldest message.
LEMMA RemovalStep ==
  ASSUME FifoInv, IInv', commit_read, NEW s \in Segment
  PROVE  QueueStep(s)
<1>h. /\ header \in [Segment -> [Fields -> Nat]] /\ IInv /\ cSeg \in Segment
  BY HeaderFields DEF FifoInv, IInv, TypeOK, commit_read
<1>1. /\ header' = [header EXCEPT ![cSeg]["tail"] = @ + 1] /\ cpc = "viewing"
      /\ item' = NoItem /\ UNCHANGED <<slots, cSeg>>
  BY DEF commit_read
<1>2. seen(s)' = NoItem
  BY <1>1 DEF seen
<1>3. CASE s # cSeg
  <2>1. header'[s] = header[s] /\ slots'[s] = slots[s]
    BY <1>h, <1>1, <1>3
  <2> QED
    BY <1>2, <2>1, SameMemory, StayOrLookAway
<1>4. CASE s = cSeg
  <2> DEFINE n == head(s) - tail(s)
  <2>1. tail(s)' = tail(s) + 1 /\ head(s)' = head(s)
    BY <1>h, <1>1, <1>4 DEF head, tail, Fields
  <2>2. /\ head(s) \in Nat /\ tail(s) \in Nat /\ n \in Nat /\ n >= 1
        /\ Committed(s) \in Seq(Payload) /\ Len(Committed(s)) = n
        /\ \A i \in 1 .. n : Committed(s)[i] = slots[s][idx(tail(s) + i - 1)].payload
    BY <1>h, <1>1, <1>4, QueueIs DEF QueuesOK, QueueOK, IInv, Counters, MessageHeld
  <2>3. QueuesOK'
    BY QueueIs, PTL
  <2>4. /\ Committed(s)' \in Seq(Payload) /\ Len(Committed(s)') = head(s)' - tail(s)'
        /\ \A i \in 1 .. head(s)' - tail(s)' :
             Committed(s)'[i] = slots'[s][idx(tail(s)' + i - 1)].payload
    BY <2>3 DEF QueuesOK, QueueOK, idx
  <2>5. /\ head(s)' - tail(s)' = n - 1
        /\ \A i \in 1 .. n - 1 : tail(s)' + i - 1 = tail(s) + (i + 1) - 1
    BY <2>1, <2>2
  <2>6. /\ Committed(s)' \in Seq(Payload) /\ Len(Committed(s)') = n - 1
        /\ \A i \in 1 .. n - 1 : Committed(s)'[i] = slots[s][idx(tail(s) + (i + 1) - 1)].payload
    BY <1>1, <2>4, <2>5
  <2> HIDE DEF n
  <2>7. Committed(s) # <<>>
    BY <2>2
  <2>8. Committed(s)' = Tail(Committed(s))
    <3>1. /\ Tail(Committed(s)) \in Seq(Payload) /\ Len(Tail(Committed(s))) = n - 1
          /\ \A i \in 1 .. n - 1 : Tail(Committed(s))[i] = Committed(s)[i + 1]
      BY <2>2, <2>7, HeadTailProperties
    <3>2. \A i \in 1 .. n - 1 : i + 1 \in 1 .. n
      BY <2>2
    <3>3. \A i \in 1 .. n - 1 : Committed(s)'[i] = Tail(Committed(s))[i]
      BY <2>2, <2>6, <3>1, <3>2
    <3> QED
      BY <2>6, <3>1, <3>3, SeqEqual
  <2> QED
    BY <1>2, <2>7, <2>8, Removes
<1> QED
  BY <1>3, <1>4

LEMMA FifoStep ==
  ASSUME FifoInv, IInv', [Next]_vars, NEW s \in Segment
  PROVE  QueueStep(s)
<1>h. /\ IInv /\ header \in [Segment -> [Fields -> Nat]]
      /\ slots \in [Segment -> [Index -> Buffer]]
      /\ NoSegment \notin Segment /\ (cpc = "closed" => cSeg = NoSegment)
      /\ cpc # "closed" => cSeg \in Segment
  BY HeaderFields, IpcRingAssumption DEF FifoInv, IInv, TypeOK
<1>1. ASSUME NEW T \in Created, create_shm(T) PROVE QueueStep(s)
  <2>1. /\ UNCHANGED <<cSeg, item>> /\ ppc' = "sizing" /\ pSeg' \in Segment
        /\ header' = [header EXCEPT ![pSeg'] = ZeroHeader]
        /\ slots' = [slots EXCEPT ![pSeg'] = ZeroSlots] /\ cSeg # pSeg'
    BY <1>1, <1>h DEF create_shm, cvars, Quiet, InUse
  <2>2. seen(s)' = seen(s)
    BY <2>1 DEF seen
  <2>3. CASE s # pSeg'
    <3>1. header'[s] = header[s] /\ slots'[s] = slots[s]
      BY <1>h, <2>1, <2>3
    <3> QED
      BY <2>2, <3>1, SameMemory, StayOrLookAway
  <2>4. CASE s = pSeg'
    <3>1. EmptiedOK'
      BY QueueEmpty, PTL
    <3>2. header'[s] = ZeroHeader
      BY <1>h, <2>1, <2>4
    <3>3. Committed(s)' = <<>>
      BY <3>1, <3>2 DEF EmptiedOK
    <3>4. cSeg' # s /\ seen(s)' = NoItem
      BY <2>1, <2>4 DEF seen
    <3> QED
      BY <2>1, <3>3, <3>4, Clears
  <2> QED
    BY <2>3, <2>4
<1>2. ASSUME UNCHANGED <<header, slots>>,
             seen(s)' = seen(s) \/ seen(s)' = NoItem
      PROVE  QueueStep(s)
  BY <1>2, SameMemory, StayOrLookAway
<1>3. CASE create_size \/ prepare_write_load
  <2>1. UNCHANGED <<header, slots, cSeg, item>>
    BY <1>3 DEF create_size, prepare_write_load, cvars
  <2> QED
    BY <1>2, <2>1 DEF seen
<1>4. CASE create_fails \/ destroy \/ producer_crash
  <2>1. FreeUnused /\ UNCHANGED <<cSeg, item>>
    BY <1>4 DEF create_fails, destroy, producer_crash, drop_ring, cvars
  <2> QED
    BY <2>1, FreeingStep DEF seen
<1>5. ASSUME NEW f \in todo, create_store(f) PROVE QueueStep(s)
  <2>1. /\ UNCHANGED <<slots, cSeg, item>> /\ ppc = "initializing"
        /\ header' = [header EXCEPT ![pSeg][f] = NewHeader(pType)[f]]
        /\ f \in Fields /\ pSeg \in Segment /\ pType \in Types
    BY <1>5, <1>h, HeaderTypes, IpcRingAssumption DEF create_store, cvars, IInv, TypeOK
  <2>2. header[pSeg]["head"] = 0 /\ header[pSeg]["tail"] = 0
    BY <1>h, <2>1 DEF IInv, Counters, EmptyAtFirst, head, tail
  <2>3. NewHeader(pType)["head"] = 0 /\ NewHeader(pType)["tail"] = 0
    BY <2>1, HeaderTypes
  <2>4. \A g \in Fields :
          header'[s][g] = IF s = pSeg /\ g = f THEN NewHeader(pType)[g] ELSE header[s][g]
    BY <1>h, <2>1
  <2>5. header'[s]["head"] = header[s]["head"] /\ header'[s]["tail"] = header[s]["tail"]
    BY <2>2, <2>3, <2>4 DEF Fields
  <2>6. Committed(s)' = Committed(s)
    BY <2>1, <2>5, QueueKept DEF head, tail
  <2> QED
    BY <2>1, <2>6, StayOrLookAway DEF seen
<1>6. CASE prepare_write_stamp \/ (\E v \in Payload : write_payload(v))
           \/ (\E c \in BOOLEAN : commit_write_finalize(c))
  BY <1>6, WritingStep
<1>7. CASE commit_write_store
  BY <1>7, CommitStep
<1>8. ASSUME NEW r \in Opened, open_shm(r) PROVE QueueStep(s)
  <2>1. UNCHANGED <<header, slots, item>> /\ cpc = "closed"
    BY <1>8 DEF open_shm
  <2>2. item = NoItem
    BY <2>1 DEF FifoInv, ItemHeld
  <2> QED
    BY <1>2, <2>1, <2>2 DEF seen
<1>9. CASE open_map \/ (\E f \in toCheck : open_check(f))
           \/ (\E c \in BOOLEAN : peek_read_view(c))
  <2>1. UNCHANGED <<header, slots, cSeg, item>>
    BY <1>9 DEF open_map, open_check, peek_read_view
  <2> QED
    BY <1>2, <2>1 DEF seen
<1>10. CASE open_fails \/ leave
  <2>1. FreeUnused /\ cSeg' = NoSegment /\ item' = NoItem
    BY <1>10 DEF open_fails, leave, release
  <2> QED
    BY <2>1, FreeingStep DEF seen
<1>11. CASE peek_read_load
  <2>1. UNCHANGED <<header, slots, cSeg>> /\ item' = NoItem
    BY <1>11 DEF peek_read_load
  <2> QED
    BY <1>2, <2>1 DEF seen
<1>12. CASE read_item
  <2>1. /\ UNCHANGED <<header, slots, cSeg>> /\ cpc = "viewing"
        /\ item' = slots[cSeg][view_slot].payload
    BY <1>12 DEF read_item
  <2>2. CASE s # cSeg
    BY <1>2, <2>1, <2>2 DEF seen
  <2>3. CASE s = cSeg
    <3>1. view_slot = idx(tail(s)) /\ tail(s) < head(s) /\ tail(s) \in Nat /\ head(s) \in Nat
      BY <1>h, <2>1, <2>3, SlotIndex DEF IInv, Counters, MessageHeld
    <3>2. 1 \in 1 .. head(s) - tail(s) /\ tail(s) + 1 - 1 = tail(s)
      BY <3>1
    <3>3. QueueOK(s)
      BY <1>h, QueueIs DEF QueuesOK
    <3>4. Committed(s)[1] = slots[s][idx(tail(s))].payload
      BY <3>2, <3>3 DEF QueueOK
    <3>5. Committed(s) # <<>>
      BY <3>1, <3>3 DEF QueueOK
    <3>6. Committed(s)' = Committed(s)
      BY <2>1, SameMemory
    <3>7. seen(s)' = Committed(s)[1]
      BY <2>1, <2>3, <3>1, <3>4 DEF seen
    <3> QED
      BY <3>5, <3>6, <3>7, Looks
  <2> QED
    BY <2>2, <2>3
<1>13. CASE commit_read
  BY <1>13, RemovalStep
<1>14. CASE UNCHANGED vars
  <2>1. UNCHANGED <<header, slots, cSeg, item>>
    BY <1>14 DEF vars, cvars
  <2> QED
    BY <1>2, <2>1 DEF seen
<1> QED
  BY <1>1, <1>3, <1>4, <1>5, <1>6, <1>7, <1>8, <1>9, <1>10, <1>11, <1>12, <1>13, <1>14
  DEF Next, Producer, Consumer

-----------------------------------------------------------------------------
(***************************************************************************)
(* The layout of the segment.                                              *)
(***************************************************************************)

\* The header of a ring that is being created holds 0 in the fields that are
\* not stored yet, and create's values in the others.
HeaderStored ==
  ppc # "closed" =>
    \A f \in Checked :
      header[pSeg][f] = IF ppc = "sizing" \/ f \in todo THEN 0
                        ELSE Geometry(pType, Capacity)[f]

\* A segment has no bytes before ftruncate.
EmptyUntilSized == ppc = "sizing" => length[pSeg] = 0

\* What open has checked still holds.
ChecksHold ==
  cpc \notin {"closed", "opening"} =>
    /\ length[cSeg] >= TotalShmSize(reader.type, reader.capacity)
    /\ \A f \in Checked \ toCheck : field_ok(f)

LayoutInv == HeaderStored /\ EmptyUntilSized /\ ChecksHold

\* An instantiation's values are never those of a header that is not stored.
LEMMA GeometryPositive ==
  ASSUME NEW r \in Opened
  PROVE  /\ TotalShmSize(r.type, r.capacity) > 0 /\ TotalShmSize(r.type, r.capacity) \in Nat
         /\ \A f \in Checked : Geometry(r.type, r.capacity)[f] # 0
<1> DEFINE T == r.type
           a == SlotAlign(T)
           k == (message_size(T) + a - 1) \div a
<1>1. /\ T \in Types /\ Traits[T].size \in Nat /\ Traits[T].size # 0
      /\ Traits[T].align \in Nat /\ r.capacity \in Nat /\ r.capacity >= 2
  BY TraitsAssumption, IpcRingAssumption
<1>2. a \in Nat /\ a >= 16
  BY <1>1 DEF SlotAlign
<1>3. message_size(T) \in Nat /\ message_size(T) >= 16
  BY <1>1 DEF message_size, HeaderSize
<1> HIDE DEF a
<1>4. k \in Nat /\ k >= 1
  <2>1. message_size(T) + a - 1 >= a /\ message_size(T) + a - 1 \in Nat
    BY <1>2, <1>3
  <2> DEFINE x == message_size(T) + a - 1
  <2> HIDE DEF x
  <2>2. x \in Nat /\ x >= a => x \div a \in Nat /\ x \div a >= 1
    BY <1>2
  <2> QED
    BY <2>1, <2>2 DEF x
<1>5. SlotSize(T) = k * a
  BY DEF SlotSize, a
<1> HIDE DEF k
<1>6. SlotSize(T) \in Nat /\ SlotSize(T) >= 16
  BY <1>2, <1>4, <1>5
<1>7. r.capacity * SlotSize(T) \in Nat
  BY <1>1, <1>6
<1>8. TotalShmSize(T, r.capacity) > 0 /\ TotalShmSize(T, r.capacity) \in Nat
  BY <1>7 DEF TotalShmSize, IpcHeaderSize
<1>9. IPC_RING_MAGIC # 0
  BY DEF IPC_RING_MAGIC
<1> QED
  BY <1>1, <1>6, <1>8, <1>9 DEF Geometry, Checked

\* A ring that a consumer was let into is not one that is being sized.
LEMMA NotSizing ==
  ASSUME IInv, LayoutInv, cpc \notin {"closed", "opening"}, ppc = "sizing"
  PROVE  cSeg # pSeg
<1>1. reader \in Opened
  BY DEF IInv, TypeOK
<1> QED
  BY <1>1, GeometryPositive DEF LayoutInv, ChecksHold, EmptyUntilSized

\* The fields and the length that open has checked do not change.
LEMMA ChecksKept ==
  ASSUME ChecksHold, UNCHANGED <<cpc, cSeg, reader, toCheck>>,
         cpc \notin {"closed", "opening"} =>
           /\ length'[cSeg] = length[cSeg]
           /\ \A f \in Checked \ toCheck : header'[cSeg][f] = header[cSeg][f]
  PROVE  ChecksHold'
BY DEF ChecksHold, field_ok, Checked

LEMMA LayoutStep ==
  ASSUME IInv, TypeOK', LayoutInv, [Next]_vars
  PROVE  LayoutInv'
<1>h. /\ header \in [Segment -> [Fields -> Nat]] /\ length \in [Segment -> Nat]
      /\ NoSegment \notin Segment /\ Checked \subseteq Fields
      /\ DOMAIN ZeroHeader = Fields /\ \A f \in Checked : ZeroHeader[f] = 0
      /\ ppc # "closed" => pSeg \in Segment
      /\ cpc # "closed" => cSeg \in Segment
      /\ HeaderStored /\ EmptyUntilSized /\ ChecksHold
  BY HeaderFields, HeaderTypes, IpcRingAssumption
  DEF IInv, TypeOK, LayoutInv, Checked, Fields
<1>1. ASSUME NEW T \in Created, create_shm(T) PROVE LayoutInv'
  <2>1. /\ UNCHANGED <<cpc, cSeg, reader, toCheck>> /\ ppc' = "sizing"
        /\ pSeg' \in Segment /\ cSeg # pSeg'
        /\ header' = [header EXCEPT ![pSeg'] = ZeroHeader]
        /\ length' = [length EXCEPT ![pSeg'] = 0]
    BY <1>1, <1>h DEF create_shm, cvars, Quiet, InUse
  <2>2. HeaderStored' /\ EmptyUntilSized'
    BY <1>h, <2>1 DEF HeaderStored, EmptyUntilSized
  <2>3. cpc # "closed" => length'[cSeg] = length[cSeg] /\ header'[cSeg] = header[cSeg]
    BY <1>h, <2>1
  <2>4. ChecksHold'
    BY <1>h, <2>1, <2>3, ChecksKept
  <2> QED
    BY <2>2, <2>4 DEF LayoutInv
<1>2. CASE create_size
  <2>1. /\ UNCHANGED <<header, pSeg, pType, cpc, cSeg, reader, toCheck>>
        /\ ppc = "sizing" /\ ppc' = "initializing" /\ todo' = Fields
        /\ length' = [length EXCEPT ![pSeg] = TotalShmSize(pType, Capacity)]
    BY <1>2, <1>h DEF create_size, cvars
  <2>2. HeaderStored' /\ EmptyUntilSized'
    BY <1>h, <2>1 DEF HeaderStored, EmptyUntilSized
  <2>3. cpc \notin {"closed", "opening"} => length'[cSeg] = length[cSeg]
    BY <1>h, <2>1, NotSizing
  <2>4. ChecksHold'
    BY <1>h, <2>1, <2>3, ChecksKept
  <2> QED
    BY <2>2, <2>4 DEF LayoutInv
<1>3. CASE drop_ring
  <2>1. /\ UNCHANGED <<cpc, cSeg, reader, toCheck>> /\ ppc' = "closed"
        /\ pSeg' = NoSegment /\ FreeUnused
    BY <1>3 DEF drop_ring, cvars
  <2>2. cpc # "closed" => length'[cSeg] = length[cSeg] /\ header'[cSeg] = header[cSeg]
    <3>1. cpc # "closed" => cSeg \in Segment /\ cSeg \in InUse'
      BY <1>h, <2>1 DEF InUse
    <3> QED
      BY <2>1, <3>1 DEF FreeUnused
  <2>3. ChecksHold'
    BY <1>h, <2>1, <2>2, ChecksKept
  <2> QED
    BY <2>1, <2>3 DEF LayoutInv, HeaderStored, EmptyUntilSized
<1>4. ASSUME NEW f \in todo, create_store(f) PROVE LayoutInv'
  <2>1. /\ UNCHANGED <<length, pSeg, pType, cpc, cSeg, reader, toCheck>>
        /\ ppc = "initializing" /\ ppc' \in {"idle", "initializing"}
        /\ header' = [header EXCEPT ![pSeg][f] = NewHeader(pType)[f]]
        /\ f \in Fields /\ pSeg \in Segment /\ todo' = todo \ {f}
    BY <1>4, <1>h, HeaderTypes DEF create_store, cvars, IInv, TypeOK
  <2>2. \A s \in Segment, g \in Fields :
          header'[s][g] = IF s = pSeg /\ g = f THEN NewHeader(pType)[g] ELSE header[s][g]
    BY <1>h, <2>1
  <2>3. \A g \in Checked : NewHeader(pType)[g] = Geometry(pType, Capacity)[g]
    BY DEF NewHeader
  <2>4. HeaderStored'
    <3> SUFFICES ASSUME NEW g \in Checked
                 PROVE  header'[pSeg][g] = IF g \in todo' THEN 0 ELSE Geometry(pType, Capacity)[g]
      BY <2>1 DEF HeaderStored
    <3>1. header[pSeg][g] = IF g \in todo THEN 0 ELSE Geometry(pType, Capacity)[g]
      BY <1>h, <2>1 DEF HeaderStored
    <3> QED
      BY <1>h, <2>1, <2>2, <2>3, <3>1
  <2>5. ASSUME cpc \notin {"closed", "opening"}, NEW g \in Checked \ toCheck
        PROVE  header'[cSeg][g] = header[cSeg][g]
    <3>1. cSeg \in Segment /\ reader \in Opened
      BY <1>h, <2>5 DEF IInv, TypeOK
    <3>2. header[cSeg][g] # 0
      BY <1>h, <2>5, <3>1, GeometryPositive DEF ChecksHold, field_ok
    <3>3. f \in Checked => header[pSeg][f] = 0
      BY <1>h, <2>1 DEF HeaderStored
    <3> QED
      BY <1>h, <2>2, <2>5, <3>1, <3>2, <3>3
  <2>6. ChecksHold'
    BY <1>h, <2>1, <2>5, ChecksKept
  <2> QED
    BY <2>1, <2>4, <2>6 DEF LayoutInv, EmptyUntilSized
<1>5. ASSUME UNCHANGED <<length, pSeg, pType, todo, cSeg, reader, toCheck, cpc>>,
             UNCHANGED ppc \/ (ppc \notin {"sizing", "closed"} /\ ppc' \notin {"sizing", "closed"}),
             \A s \in Segment, g \in Checked : header'[s][g] = header[s][g]
      PROVE  LayoutInv'
  <2>1. HeaderStored' /\ EmptyUntilSized'
    BY <1>h, <1>5 DEF HeaderStored, EmptyUntilSized
  <2>2. ChecksHold'
    BY <1>h, <1>5, ChecksKept
  <2> QED
    BY <2>1, <2>2 DEF LayoutInv
<1>6. CASE \/ prepare_write_load \/ prepare_write_stamp
           \/ \E v \in Payload : write_payload(v)
           \/ \E c \in BOOLEAN : commit_write_finalize(c)
  <2>1. /\ UNCHANGED <<length, header, pSeg, pType, todo, cSeg, reader, toCheck, cpc>>
        /\ ppc \notin {"sizing", "closed"} /\ ppc' \notin {"sizing", "closed"}
    BY <1>6 DEF prepare_write_load, prepare_write_stamp, write_payload,
                commit_write_finalize, pvars, cvars
  <2> QED
    BY <1>5, <2>1
<1>7. CASE commit_write_store
  <2>1. /\ UNCHANGED <<length, pSeg, pType, todo, cSeg, reader, toCheck, cpc>>
        /\ ppc = "finalized" /\ ppc' = "idle"
        /\ header' = [header EXCEPT ![pSeg]["head"] = @ + 1]
    BY <1>7 DEF commit_write_store, cvars
  <2>2. \A s \in Segment, g \in Checked : header'[s][g] = header[s][g]
    BY <1>h, <2>1 DEF Checked, Fields
  <2> QED
    BY <1>5, <2>1, <2>2
<1>8. ASSUME UNCHANGED <<length, header, pSeg, pType, todo, ppc>>, ChecksHold' PROVE LayoutInv'
  BY <1>h, <1>8 DEF LayoutInv, HeaderStored, EmptyUntilSized
<1>9. ASSUME NEW r \in Opened, open_shm(r) PROVE LayoutInv'
  BY <1>8, <1>9 DEF open_shm, pvars, ChecksHold
<1>10. CASE open_map
  BY <1>8, <1>10 DEF open_map, pvars, ChecksHold, large_enough
<1>11. ASSUME NEW f \in toCheck, open_check(f) PROVE LayoutInv'
  BY <1>h, <1>8, <1>11 DEF open_check, pvars, ChecksHold, field_ok
<1>12. CASE release
  <2>1. /\ UNCHANGED <<ppc, pSeg, pType, todo>> /\ cpc' = "closed" /\ FreeUnused
    BY <1>12 DEF release, pvars
  <2>2. ppc # "closed" => length'[pSeg] = length[pSeg] /\ header'[pSeg] = header[pSeg]
    <3>1. ppc # "closed" => pSeg \in Segment /\ pSeg \in InUse'
      BY <1>h, <2>1 DEF InUse
    <3> QED
      BY <2>1, <3>1 DEF FreeUnused
  <2> QED
    BY <1>h, <2>1, <2>2 DEF LayoutInv, HeaderStored, EmptyUntilSized, ChecksHold
<1>13. CASE peek_read_load \/ (\E c \in BOOLEAN : peek_read_view(c)) \/ read_item
  <2>1. /\ UNCHANGED <<length, header, pSeg, pType, todo, ppc, cSeg, reader, toCheck>>
        /\ cpc \notin {"closed", "opening"}
    BY <1>13 DEF peek_read_load, peek_read_view, read_item, pvars
  <2>2. ChecksHold'
    BY <1>h, <2>1 DEF ChecksHold, field_ok
  <2> QED
    BY <1>8, <2>1, <2>2
<1>14. CASE commit_read
  <2>1. /\ UNCHANGED <<length, pSeg, pType, todo, ppc, cSeg, reader, toCheck>>
        /\ cpc = "viewing" /\ cpc' = "idle" /\ cSeg \in Segment
        /\ header' = [header EXCEPT ![cSeg]["tail"] = @ + 1]
    BY <1>14, <1>h DEF commit_read, pvars
  <2>2. \A s \in Segment, g \in Checked : header'[s][g] = header[s][g]
    BY <1>h, <2>1 DEF Checked, Fields
  <2>3. ChecksHold'
    BY <1>h, <2>1, <2>2 DEF ChecksHold, field_ok
  <2>4. HeaderStored' /\ EmptyUntilSized'
    BY <1>h, <2>1, <2>2 DEF HeaderStored, EmptyUntilSized
  <2> QED
    BY <2>3, <2>4 DEF LayoutInv
<1>15. CASE UNCHANGED vars
  BY <1>5, <1>15 DEF vars, pvars, cvars
<1> QED
  BY <1>1, <1>2, <1>3, <1>4, <1>6, <1>7, <1>9, <1>10, <1>11, <1>12, <1>13, <1>14, <1>15
  DEF Next, Producer, Consumer, create_fails, destroy, producer_crash, open_fails, leave

\* A consumer that got through open computes addresses like the producer.
LEMMA LayoutFits ==
  ASSUME IInv, LayoutInv
  PROVE  SameLayout
<1> SUFFICES ASSUME Attached PROVE
      /\ reader.capacity = Capacity
      /\ length[cSeg] >= TotalShmSize(reader.type, Capacity)
      /\ cSeg = pSeg => SlotSize(reader.type) = SlotSize(pType)
                        /\ Traits[reader.type].size = Traits[pType].size
  BY DEF SameLayout
<1>1. /\ cpc \notin {"closed", "opening", "checking"} /\ toCheck = {} /\ reader \in Opened
      /\ cSeg # NoSegment /\ (ppc = "closed" => pSeg = NoSegment)
  BY IpcRingAssumption DEF Attached, IInv, TypeOK
<1>2. reader.capacity = Capacity
  BY <1>1 DEF IInv, CapacityChecked
<1>3. /\ length[cSeg] >= TotalShmSize(reader.type, reader.capacity)
      /\ \A f \in Checked : header[cSeg][f] = Geometry(reader.type, reader.capacity)[f]
  BY <1>1 DEF LayoutInv, ChecksHold, field_ok
<1>4. ASSUME cSeg = pSeg, NEW f \in Checked
      PROVE  Geometry(reader.type, reader.capacity)[f] = Geometry(pType, Capacity)[f]
  BY <1>1, <1>3, <1>4, GeometryPositive DEF LayoutInv, HeaderStored
<1>5. "slot_size" \in Checked /\ "payload_len" \in Checked
  BY DEF Checked
<1>6. cSeg = pSeg => SlotSize(reader.type) = SlotSize(pType)
                     /\ Traits[reader.type].size = Traits[pType].size
  BY <1>4, <1>5 DEF Geometry
<1> QED
  BY <1>2, <1>3, <1>6

-----------------------------------------------------------------------------
(***************************************************************************)
(* The messages that peek_read refuses.                                    *)
(***************************************************************************)

\* Types that agree in id, version and size also agree in alignment.
AlignmentsAgree ==
  \A T, U \in Types :
    /\ Traits[T].id = Traits[U].id /\ Traits[T].version = Traits[U].version
    /\ Traits[T].size = Traits[U].size
    => Traits[T].align = Traits[U].align

\* A slot was prepared, without an error, for the type the header tells the
\* size of.
PreparedFor(T, s, i) ==
  /\ slots[s][i].magic = SINEW_MAGIC
  /\ slots[s][i].msg_id = Traits[T].id /\ slots[s][i].version = Traits[T].version
  /\ slots[s][i].payload_len = Traits[T].size
  /\ prepare_error(T, SlotSize(T), SlotAddr(T, i)) = "Ok"
  /\ header[s]["payload_len"] = Traits[T].size

SealedFor(T, s, i) ==
  PreparedFor(T, s, i) /\ checksum_ok(slots[s][i], Traits[T].size, TRUE)

\* Every message of a ring was prepared and finalized.
SegmentSealed(s) ==
  \A k \in tail(s) .. head(s) - 1 : \E T \in Types : SealedFor(T, s, idx(k))
SlotsSealed == \A s \in Segment : SegmentSealed(s)

\* The message the producer is at.
SlotInWork ==
  /\ ppc = "prepared" => PreparedFor(pType, pSeg, idx(head(pSeg)))
  /\ ppc = "finalized" => SealedFor(pType, pSeg, idx(head(pSeg)))

SealInv == SlotsSealed /\ SlotInWork

\* Equal slots under an equal payload_len are as they were.
LEMMA SealKept ==
  ASSUME NEW s, NEW i, NEW T, slots'[s][i] = slots[s][i],
         header'[s]["payload_len"] = header[s]["payload_len"]
  PROVE  /\ PreparedFor(T, s, i) => PreparedFor(T, s, i)'
         /\ SealedFor(T, s, i) => SealedFor(T, s, i)'
BY DEF PreparedFor, SealedFor

\* So is a ring without a new message whose slots stay as they are.
LEMMA SegmentKept ==
  ASSUME NEW s \in Segment, SegmentSealed(s),
         head(s) \in Nat, tail(s) \in Nat, tail(s)' \in Nat,
         tail(s) <= tail(s)', head(s)' = head(s),
         header'[s]["payload_len"] = header[s]["payload_len"],
         \A k \in tail(s) .. head(s) - 1 : slots'[s][idx(k)] = slots[s][idx(k)]
  PROVE  SegmentSealed(s)'
<1> SUFFICES ASSUME NEW k \in tail(s)' .. head(s)' - 1
             PROVE  \E T \in Types : SealedFor(T, s, idx(k))'
  BY DEF SegmentSealed, idx
<1>1. k \in tail(s) .. head(s) - 1
  OBVIOUS
<1>2. PICK T \in Types : SealedFor(T, s, idx(k))
  BY <1>1 DEF SegmentSealed
<1>3. SealedFor(T, s, idx(k))'
  BY <1>1, <1>2, SealKept DEF idx
<1> QED
  BY <1>3

\* The producer does not write in the slots of messages.
LEMMA MessagesSpared ==
  ASSUME IInv, NEW s \in Segment, NEW k \in tail(s) .. head(s) - 1,
         s = pSeg => ppc \in {"claimed", "prepared", "finalized"}
  PROVE  k \in Nat /\ idx(k) \in Index /\ (s = pSeg => idx(k) # idx(head(s)))
<1>1. head(s) \in Nat /\ tail(s) \in Nat
  BY HeaderFields DEF IInv
<1>2. k - tail(s) + 1 \in 1 .. head(s) - tail(s) /\ tail(s) + (k - tail(s) + 1) - 1 = k
  BY <1>1
<1>3. s = pSeg => idx(tail(s) + (k - tail(s) + 1) - 1) # idx(head(s))
  BY <1>2, QueueSpared
<1> QED
  BY <1>1, <1>2, <1>3, IdxType

\* finalize makes the checksum right or absent, and changes nothing else.
LEMMA FinalizeSeals ==
  ASSUME NEW T \in Types, NEW b \in Buffer, NEW c \in BOOLEAN
  PROVE  /\ checksum_ok(finalize(T, b, c), Traits[T].size, TRUE)
         /\ finalize(T, b, c).magic = b.magic /\ finalize(T, b, c).msg_id = b.msg_id
         /\ finalize(T, b, c).version = b.version
         /\ finalize(T, b, c).payload_len = b.payload_len
BY DEF finalize, checksum_ok, Buffer

\* Segments are freed or stay as they are.
LEMMA FreeingSeals ==
  ASSUME IInv, SlotsSealed, FreeUnused
  PROVE  SlotsSealed'
<1> SUFFICES ASSUME NEW s \in Segment PROVE SegmentSealed(s)'
  BY DEF SlotsSealed
<1>1. /\ header'[s] = IF s \in InUse' THEN header[s] ELSE ZeroHeader
      /\ slots'[s] = IF s \in InUse' THEN slots[s] ELSE ZeroSlots
  BY DEF FreeUnused
<1>2. CASE s \in InUse'
  BY <1>1, <1>2, SegmentKept, HeaderFields DEF IInv, SlotsSealed, head, tail
<1>3. CASE s \notin InUse'
  <2>1. header'[s]["head"] = 0 /\ header'[s]["tail"] = 0
    BY <1>1, <1>3, HeaderTypes DEF Fields
  <2> QED
    BY <2>1 DEF SegmentSealed, head, tail
<1> QED
  BY <1>2, <1>3

LEMMA ProducerSeals ==
  ASSUME IInv, TypeOK', LayoutInv, SealInv, Producer
  PROVE  SealInv'
<1>h. /\ header \in [Segment -> [Fields -> Nat]] /\ slots \in [Segment -> [Index -> Buffer]]
      /\ \A s \in Segment : head(s) \in Nat /\ tail(s) \in Nat /\ SegmentSealed(s)
      /\ ppc # "closed" => pSeg \in Segment /\ idx(head(pSeg)) \in Index
      /\ pType \in Types /\ NoSegment \notin Segment /\ SlotInWork
  BY HeaderFields, IdxType, IpcRingAssumption DEF IInv, TypeOK, SealInv, SlotsSealed
<1>1. ASSUME NEW T \in Created, create_shm(T) PROVE SealInv'
  <2>1. /\ ppc' = "sizing" /\ pSeg' \in Segment
        /\ header' = [header EXCEPT ![pSeg'] = ZeroHeader]
        /\ slots' = [slots EXCEPT ![pSeg'] = ZeroSlots]
    BY <1>1, <1>h DEF create_shm
  <2>2. ASSUME NEW s \in Segment, s # pSeg' PROVE SegmentSealed(s)'
    BY <1>h, <2>1, <2>2, SegmentKept DEF head, tail
  <2>3. header'[pSeg']["head"] = 0 /\ header'[pSeg']["tail"] = 0
    BY <1>h, <2>1, HeaderTypes DEF Fields
  <2>4. ASSUME NEW s \in Segment, s = pSeg' PROVE SegmentSealed(s)'
    <3>1. header'[s]["head"] = 0 /\ header'[s]["tail"] = 0
      BY <2>3, <2>4
    <3> QED
      BY <3>1 DEF SegmentSealed, head, tail
  <2> QED
    BY <2>1, <2>2, <2>4 DEF SealInv, SlotsSealed, SlotInWork
<1>2. CASE create_size \/ prepare_write_load
  <2>1. UNCHANGED <<header, slots>> /\ ppc' \notin {"prepared", "finalized"}
    BY <1>2 DEF create_size, prepare_write_load
  <2>2. ASSUME NEW s \in Segment PROVE SegmentSealed(s)'
    BY <1>h, <2>1, SegmentKept DEF head, tail
  <2> QED
    BY <2>1, <2>2 DEF SealInv, SlotsSealed, SlotInWork
<1>3. CASE drop_ring
  BY <1>3, FreeingSeals DEF drop_ring, SealInv, SlotInWork
<1>4. ASSUME NEW f \in todo, create_store(f) PROVE SealInv'
  <2>1. /\ UNCHANGED slots /\ ppc = "initializing" /\ ppc' \in {"idle", "initializing"}
        /\ header' = [header EXCEPT ![pSeg][f] = NewHeader(pType)[f]]
        /\ f \in Fields /\ pSeg \in Segment
    BY <1>4, <1>h, HeaderTypes DEF create_store, IInv, TypeOK
  <2>2. ASSUME NEW s \in Segment, s # pSeg PROVE SegmentSealed(s)'
    BY <1>h, <2>1, <2>2, SegmentKept DEF head, tail
  <2>3. header[pSeg]["head"] = 0 /\ header[pSeg]["tail"] = 0
    BY <2>1 DEF IInv, Counters, EmptyAtFirst, head, tail
  <2>4. NewHeader(pType)["head"] = 0 /\ NewHeader(pType)["tail"] = 0
    BY <1>h, HeaderTypes
  <2>5. header'[pSeg]["head"] = 0 /\ header'[pSeg]["tail"] = 0
    BY <1>h, <2>1, <2>3, <2>4 DEF Fields
  <2>6. ASSUME NEW s \in Segment, s = pSeg PROVE SegmentSealed(s)'
    <3>1. header'[s]["head"] = 0 /\ header'[s]["tail"] = 0
      BY <2>5, <2>6
    <3> QED
      BY <3>1 DEF SegmentSealed, head, tail
  <2> QED
    BY <2>1, <2>2, <2>6 DEF SealInv, SlotsSealed, SlotInWork
<1>5. ASSUME UNCHANGED header, ppc \in {"claimed", "prepared"},
             \A s \in Segment, i \in Index :
               ~(s = pSeg /\ i = idx(head(pSeg))) => slots'[s][i] = slots[s][i]
      PROVE  SlotsSealed'
  <2> SUFFICES ASSUME NEW s \in Segment PROVE SegmentSealed(s)'
    BY DEF SlotsSealed
  <2>1. \A k \in tail(s) .. head(s) - 1 : slots'[s][idx(k)] = slots[s][idx(k)]
    BY <1>5, MessagesSpared
  <2> QED
    BY <1>h, <1>5, <2>1, SegmentKept DEF head, tail
<1>6. CASE prepare_write_stamp
  <2> DEFINE i == idx(head(pSeg))
             ok == prepare_error(pType, SlotSize(pType), SlotAddr(pType, i)) = "Ok"
  <2>1. /\ UNCHANGED <<header, pSeg, pType>> /\ ppc = "claimed"
        /\ slots' = IF ok THEN [slots EXCEPT ![pSeg][i] = prepare(pType, @)] ELSE slots
        /\ ppc' = IF ok THEN "prepared" ELSE "idle"
    BY <1>6 DEF prepare_write_stamp
  <2>2. pSeg \in Segment /\ i \in Index /\ i' = i
    BY <1>h, <2>1 DEF head, idx
  <2> HIDE DEF i
  <2>3. SlotsSealed'
    BY <1>5, <1>h, <2>1, <2>2 DEF i
  <2>4. header[pSeg]["payload_len"] = Traits[pType].size
    <3>1. todo = {} /\ "payload_len" \in Checked
      BY <2>1 DEF IInv, TypeOK, Checked
    <3> QED
      BY <2>1, <3>1 DEF LayoutInv, HeaderStored, Geometry
  <2>5. ok => slots'[pSeg][i] = prepare(pType, slots[pSeg][i])
    BY <1>h, <2>1, <2>2
  <2>6. ok => PreparedFor(pType, pSeg, i)'
    BY <2>1, <2>2, <2>4, <2>5 DEF PreparedFor, prepare
  <2>7. SlotInWork'
    BY <2>1, <2>2, <2>6 DEF SlotInWork, i
  <2> QED
    BY <2>3, <2>7 DEF SealInv
<1>7. ASSUME NEW v \in Payload, write_payload(v) PROVE SealInv'
  <2> DEFINE i == idx(head(pSeg))
  <2>1. /\ UNCHANGED <<header, pSeg, pType, ppc>> /\ ppc = "prepared"
        /\ slots' = [slots EXCEPT ![pSeg][i].payload = v]
    BY <1>7 DEF write_payload, pvars
  <2>2. pSeg \in Segment /\ i \in Index /\ i' = i
    BY <1>h, <2>1 DEF head, idx
  <2> HIDE DEF i
  <2>3. SlotsSealed'
    BY <1>5, <1>h, <2>1, <2>2 DEF i
  <2>4. slots'[pSeg][i] = [slots[pSeg][i] EXCEPT !.payload = v] /\ slots[pSeg][i] \in Buffer
    BY <1>h, <2>1, <2>2
  <2>5. /\ slots'[pSeg][i].magic = slots[pSeg][i].magic
        /\ slots'[pSeg][i].msg_id = slots[pSeg][i].msg_id
        /\ slots'[pSeg][i].version = slots[pSeg][i].version
        /\ slots'[pSeg][i].payload_len = slots[pSeg][i].payload_len
    BY <2>4 DEF Buffer
  <2>6. PreparedFor(pType, pSeg, i)
    BY <1>h, <2>1 DEF SlotInWork, i
  <2>7. PreparedFor(pType, pSeg, i)'
    BY <2>1, <2>2, <2>5, <2>6 DEF PreparedFor
  <2>8. SlotInWork'
    BY <2>1, <2>2, <2>7 DEF SlotInWork, i
  <2> QED
    BY <2>3, <2>8 DEF SealInv
<1>8. ASSUME NEW c \in BOOLEAN, commit_write_finalize(c) PROVE SealInv'
  <2> DEFINE i == idx(head(pSeg))
  <2>1. /\ UNCHANGED <<header, pSeg, pType>> /\ ppc = "prepared" /\ ppc' = "finalized"
        /\ slots' = [slots EXCEPT ![pSeg][i] = finalize(pType, @, c)]
    BY <1>8 DEF commit_write_finalize
  <2>2. pSeg \in Segment /\ i \in Index /\ i' = i
    BY <1>h, <2>1 DEF head, idx
  <2> HIDE DEF i
  <2>3. SlotsSealed'
    BY <1>5, <1>h, <2>1, <2>2 DEF i
  <2>4. slots'[pSeg][i] = finalize(pType, slots[pSeg][i], c) /\ slots[pSeg][i] \in Buffer
    BY <1>h, <2>1, <2>2
  <2>5. PreparedFor(pType, pSeg, i)
    BY <1>h, <2>1 DEF SlotInWork, i
  <2>6. SealedFor(pType, pSeg, i)'
    <3>1. /\ checksum_ok(slots'[pSeg][i], Traits[pType].size, TRUE)
          /\ slots'[pSeg][i].magic = slots[pSeg][i].magic
          /\ slots'[pSeg][i].msg_id = slots[pSeg][i].msg_id
          /\ slots'[pSeg][i].version = slots[pSeg][i].version
          /\ slots'[pSeg][i].payload_len = slots[pSeg][i].payload_len
      <4> DEFINE b == slots[pSeg][i]
                 d == slots'[pSeg][i]
      <4>1. d = finalize(pType, b, c) /\ b \in Buffer /\ pType \in Types
        BY <2>4, IpcRingAssumption DEF IInv, TypeOK
      <4> HIDE DEF b, d
      <4>2. checksum_ok(finalize(pType, b, c), Traits[pType].size, TRUE)
        BY <4>1, FinalizeSeals
      <4>3. /\ d.magic = b.magic /\ d.msg_id = b.msg_id
            /\ d.version = b.version /\ d.payload_len = b.payload_len
        BY <4>1, FinalizeSeals
      <4> QED
        BY <4>1, <4>2, <4>3 DEF b, d
    <3>2. PreparedFor(pType, pSeg, i)'
      BY <2>1, <2>2, <2>5, <3>1 DEF PreparedFor
    <3> QED
      BY <2>1, <2>2, <3>1, <3>2 DEF SealedFor
  <2>7. SlotInWork'
    BY <2>1, <2>2, <2>6 DEF SlotInWork, i
  <2> QED
    BY <2>3, <2>7 DEF SealInv
<1>9. CASE commit_write_store
  <2>1. /\ UNCHANGED <<slots, pSeg>> /\ ppc = "finalized" /\ ppc' = "idle"
        /\ header' = [header EXCEPT ![pSeg]["head"] = @ + 1]
    BY <1>9 DEF commit_write_store
  <2>2. ASSUME NEW s \in Segment
        PROVE  /\ tail(s)' = tail(s)
               /\ head(s)' = IF s = pSeg THEN head(s) + 1 ELSE head(s)
               /\ header'[s]["payload_len"] = header[s]["payload_len"]
    BY <1>h, <2>1 DEF head, tail, Fields
  <2>3. ASSUME NEW s \in Segment, NEW k \in tail(s)' .. head(s)' - 1
        PROVE  \E T \in Types : SealedFor(T, s, idx(k))'
    <3>h. /\ tail(s)' = tail(s) /\ tail(s) \in Nat /\ head(s) \in Nat
          /\ head(s)' = IF s = pSeg THEN head(s) + 1 ELSE head(s)
      BY <1>h, <2>2
    <3>1. k \in tail(s) .. head(s) - 1 \/ (s = pSeg /\ k = head(s))
      <4>1. k \in tail(s) .. (IF s = pSeg THEN head(s) + 1 ELSE head(s)) - 1
        BY <3>h
      <4> QED
        BY <3>h, <4>1
    <3>2. PICK T \in Types : SealedFor(T, s, idx(k))
      BY <1>h, <2>1, <3>1 DEF SegmentSealed, SlotInWork
    <3>3. SealedFor(T, s, idx(k))'
      BY <2>1, <2>2, <3>2, SealKept DEF idx
    <3> QED
      BY <3>3
  <2> QED
    BY <2>1, <2>3 DEF SealInv, SlotsSealed, SegmentSealed, SlotInWork, idx
<1> QED
  BY <1>1, <1>2, <1>3, <1>4, <1>6, <1>7, <1>8, <1>9
  DEF Producer, create_fails, destroy, producer_crash

LEMMA ConsumerSeals ==
  ASSUME IInv, TypeOK', SealInv, Consumer \/ UNCHANGED vars
  PROVE  SealInv'
<1>h. /\ header \in [Segment -> [Fields -> Nat]] /\ NoSegment \notin Segment
      /\ \A s \in Segment : head(s) \in Nat /\ tail(s) \in Nat /\ SegmentSealed(s)
      /\ ppc # "closed" => pSeg \in Segment
      /\ cpc # "closed" => cSeg \in Segment
      /\ SlotInWork
  BY HeaderFields, IpcRingAssumption DEF IInv, TypeOK, SealInv, SlotsSealed
<1>1. UNCHANGED <<ppc, pSeg, pType>>
  BY DEF Consumer, open_shm, open_map, open_check, open_fails, release, peek_read_load,
         peek_read_view, read_item, commit_read, leave, pvars, vars
<1>2. CASE release
  <2>1. FreeUnused
    BY <1>2 DEF release
  <2>2. SlotsSealed'
    BY <2>1, FreeingSeals DEF SealInv
  <2>3. ppc # "closed" => header'[pSeg] = header[pSeg] /\ slots'[pSeg] = slots[pSeg]
    <3>1. ppc # "closed" => pSeg \in Segment /\ pSeg \in InUse'
      BY <1>h, <1>1 DEF InUse
    <3> QED
      BY <2>1, <3>1 DEF FreeUnused
  <2>4. SlotInWork'
    BY <1>h, <1>1, <2>3 DEF SlotInWork, PreparedFor, SealedFor, head, idx
  <2> QED
    BY <2>2, <2>4 DEF SealInv
<1>3. CASE commit_read
  <2>1. /\ UNCHANGED slots /\ cSeg \in Segment
        /\ header' = [header EXCEPT ![cSeg]["tail"] = @ + 1]
    BY <1>3, <1>h DEF commit_read
  <2>2. ASSUME NEW s \in Segment
        PROVE  /\ head(s)' = head(s) /\ tail(s) <= tail(s)' /\ tail(s)' \in Nat
               /\ header'[s]["payload_len"] = header[s]["payload_len"]
    BY <1>h, <2>1 DEF head, tail, Fields
  <2>3. ASSUME NEW s \in Segment PROVE SegmentSealed(s)'
    BY <1>h, <2>1, <2>2, SegmentKept
  <2>4. SlotInWork'
    BY <1>h, <1>1, <2>1, <2>2 DEF SlotInWork, PreparedFor, SealedFor, idx
  <2> QED
    BY <2>3, <2>4 DEF SealInv, SlotsSealed
<1>4. CASE UNCHANGED <<header, slots>>
  <2>1. ASSUME NEW s \in Segment PROVE SegmentSealed(s)'
    BY <1>h, <1>4, SegmentKept DEF head, tail
  <2>2. SlotInWork'
    BY <1>h, <1>1, <1>4 DEF SlotInWork, PreparedFor, SealedFor, head, idx
  <2> QED
    BY <2>1, <2>2 DEF SealInv, SlotsSealed
<1> QED
  BY <1>2, <1>3, <1>4
  DEF Consumer, open_shm, open_map, open_check, open_fails, peek_read_load,
      peek_read_view, read_item, leave, vars

\* A refused message is still in the ring.
RefusalHeld == cpc = "invalid" => tail(cSeg) < head(cSeg)

RefusalInv == RefusalHeld /\ RefusesOnlyOtherTypes

\* The producer never takes a message away from the consumer.
LEMMA MessagesStay ==
  ASSUME IInv, TypeOK', Producer, cSeg \in Segment
  PROVE  tail(cSeg)' = tail(cSeg) /\ head(cSeg) <= head(cSeg)'
<1>h. /\ header \in [Segment -> [Fields -> Nat]] /\ NoSegment \notin Segment
      /\ \A s \in Segment : head(s) \in Nat /\ tail(s) \in Nat
      /\ ppc # "closed" => pSeg \in Segment
  BY HeaderFields, IpcRingAssumption DEF IInv, TypeOK
<1>c. cSeg' = cSeg
  BY DEF Producer, create_shm, create_size, create_fails, create_store, prepare_write_load,
         prepare_write_stamp, write_payload, commit_write_finalize, commit_write_store,
         destroy, producer_crash, drop_ring, cvars
<1>1. ASSUME NEW T \in Created, create_shm(T) PROVE header'[cSeg] = header[cSeg]
  BY <1>1, <1>h DEF create_shm, Quiet, InUse
<1>2. CASE drop_ring
  BY <1>c, <1>2, <1>h, Freed DEF drop_ring, head, tail
<1>3. ASSUME NEW f \in todo, create_store(f)
      PROVE  /\ header'[cSeg]["tail"] = header[cSeg]["tail"]
             /\ header'[cSeg]["head"] = header[cSeg]["head"]
  <2>1. /\ header' = [header EXCEPT ![pSeg][f] = NewHeader(pType)[f]]
        /\ pSeg \in Segment /\ pType \in Types
        /\ header[pSeg]["head"] = 0 /\ header[pSeg]["tail"] = 0
    BY <1>3, <1>h, IpcRingAssumption
    DEF create_store, IInv, TypeOK, Counters, EmptyAtFirst, head, tail
  <2>2. NewHeader(pType)["head"] = 0 /\ NewHeader(pType)["tail"] = 0
    BY <2>1, HeaderTypes
  <2> QED
    BY <1>h, <2>1, <2>2 DEF Fields
<1>4. CASE commit_write_store
  <2>1. header' = [header EXCEPT ![pSeg]["head"] = @ + 1] /\ pSeg \in Segment
    BY <1>4, <1>h DEF commit_write_store
  <2> QED
    BY <1>c, <1>h, <2>1 DEF head, tail, Fields
<1>5. CASE UNCHANGED header
  BY <1>c, <1>h, <1>5 DEF head, tail
<1>6. CASE \/ \E T \in Created : create_shm(T)
           \/ \E f \in todo : create_store(f)
  <2>1. head(cSeg)' = head(cSeg) /\ tail(cSeg)' = tail(cSeg)
    BY <1>c, <1>1, <1>3, <1>6 DEF head, tail
  <2> QED
    BY <1>h, <2>1
<1> QED
  BY <1>2, <1>4, <1>5, <1>6
  DEF Producer, create_size, create_fails, prepare_write_load, prepare_write_stamp,
      write_payload, commit_write_finalize, destroy, producer_crash

\* What peek_read refused stays as it is while the consumer does nothing.
LEMMA RefusedKept ==
  ASSUME IInv, TypeOK', RefusalInv, Producer \/ UNCHANGED vars
  PROVE  RefusalInv'
<1> SUFFICES ASSUME cpc' = "invalid" PROVE RefusalInv'
  BY DEF RefusalInv, RefusalHeld, RefusesOnlyOtherTypes
<1>1. UNCHANGED <<cpc, cSeg, reader>>
  BY DEF vars, cvars, Producer, create_shm, create_size, create_fails, create_store,
         prepare_write_load, prepare_write_stamp, write_payload, commit_write_finalize,
         commit_write_store, destroy, producer_crash, drop_ring
<1>2. /\ cSeg \in Segment /\ view_slot = idx(tail(cSeg)) /\ view_slot \in Index
      /\ tail(cSeg) \in Nat /\ head(cSeg) \in Nat /\ tail(cSeg) < head(cSeg)
  BY <1>1, SlotIndex DEF IInv, RefusalInv, RefusalHeld
<1>3. CASE Producer
  <2>1. tail(cSeg)' = tail(cSeg) /\ head(cSeg) <= head(cSeg)'
    BY <1>2, <1>3, MessagesStay
  <2>2. slots'[cSeg][view_slot] = slots[cSeg][view_slot]
    <3> SUFFICES ASSUME slots'[cSeg][view_slot] # slots[cSeg][view_slot] PROVE FALSE
      OBVIOUS
    <3>1. /\ cSeg = pSeg /\ view_slot = idx(head(pSeg))
          /\ ppc \in {"claimed", "prepared", "finalized"}
      BY <1>2, <1>3, ProducerWrites
    <3>2. head(pSeg) - tail(pSeg) < Capacity
      BY <3>1 DEF IInv, Counters, RoomHeld
    <3> QED
      BY <1>2, <3>1, <3>2, IdxDiffers
  <2>3. view_slot' = view_slot
    BY <1>1, <2>1 DEF view_slot
  <2>4. (tail(cSeg) < head(cSeg))'
    <3>1. head(cSeg)' \in Nat
      BY <1>1, <1>2, HeaderTypes DEF TypeOK, head, Fields
    <3> QED
      BY <1>2, <2>1, <3>1
  <2> QED
    BY <1>1, <2>2, <2>3, <2>4 DEF RefusalInv, RefusalHeld, RefusesOnlyOtherTypes
<1>4. CASE UNCHANGED vars
  BY <1>4 DEF vars, cvars, RefusalInv, RefusalHeld, RefusesOnlyOtherTypes, view_slot, head, tail
<1> QED
  BY <1>3, <1>4

\* validate has no other reason to refuse a message of the ring.
LEMMA ViewRefuses ==
  ASSUME AlignmentsAgree, IInv, LayoutInv, SealInv, NEW c \in BOOLEAN, peek_read_view(c)
  PROVE  RefusalInv'
<1> SUFFICES ASSUME cpc' = "invalid" PROVE RefusalInv'
  BY DEF RefusalInv, RefusalHeld, RefusesOnlyOtherTypes
<1> DEFINE R == reader.type
           b == slots[cSeg][view_slot]
<1>1. /\ UNCHANGED <<header, slots, cSeg, reader>> /\ cpc = "viewing?"
      /\ validate(R, b, SlotSize(R), SlotAddr(R, view_slot), c) # "Ok"
  BY DEF peek_read_view
<1>2. /\ cSeg \in Segment /\ view_slot = idx(tail(cSeg)) /\ tail(cSeg) < head(cSeg)
      /\ tail(cSeg) \in Nat /\ head(cSeg) \in Nat /\ R \in Types
  BY <1>1, SlotIndex, IpcRingAssumption DEF IInv, TypeOK, Counters, MessageHeld
<1>3. RefusalHeld' /\ view_slot' = view_slot
  BY <1>1, <1>2 DEF RefusalHeld, view_slot, head, tail
<1>4. PICK T \in Types : SealedFor(T, cSeg, view_slot)
  <2>1. tail(cSeg) \in tail(cSeg) .. head(cSeg) - 1
    BY <1>2
  <2> QED
    BY <1>2, <2>1 DEF SealInv, SlotsSealed, SegmentSealed
<1>5. header[cSeg]["payload_len"] = Traits[R].size
  <2>1. "payload_len" \in Checked \ toCheck
    BY <1>1 DEF IInv, TypeOK, Checked
  <2> QED
    BY <1>1, <2>1 DEF LayoutInv, ChecksHold, field_ok, Geometry
<1>6. ASSUME b.msg_id = Traits[R].id, b.version = Traits[R].version PROVE FALSE
  <2>1. /\ b.magic = SINEW_MAGIC /\ b.payload_len = Traits[R].size
        /\ checksum_ok(b, Traits[R].size, TRUE) /\ prepare_error(T, SlotSize(T), SlotAddr(T, view_slot)) = "Ok"
        /\ Traits[T].size = Traits[R].size
    BY <1>4, <1>5 DEF SealedFor, PreparedFor
  <2>2. Traits[T].align = Traits[R].align
    BY <1>2, <1>4, <1>6, <2>1 DEF AlignmentsAgree, SealedFor, PreparedFor
  <2>3. /\ message_size(T) = message_size(R) /\ SlotSize(T) = SlotSize(R)
        /\ SlotAddr(T, view_slot) = SlotAddr(R, view_slot)
    BY <2>1, <2>2 DEF message_size, SlotSize, SlotAlign, SlotAddr
  <2>4. ~(SlotSize(R) < message_size(R)) /\ ~misaligned(R, SlotAddr(R, view_slot))
    BY <2>1, <2>2, <2>3 DEF prepare_error, misaligned
  <2>5. checksum_ok(b, Traits[R].size, c)
    BY <2>1 DEF checksum_ok
  <2> HIDE DEF b, R
  <2> QED
    BY <1>1, <1>6, <2>1, <2>4, <2>5 DEF validate
<1> QED
  BY <1>1, <1>3, <1>6 DEF RefusalInv, RefusesOnlyOtherTypes

LEMMA RefusalStep ==
  ASSUME AlignmentsAgree, IInv, TypeOK', LayoutInv, SealInv, RefusalInv, [Next]_vars
  PROVE  RefusalInv'
<1>1. CASE Consumer /\ cpc' # "invalid"
  BY <1>1 DEF RefusalInv, RefusalHeld, RefusesOnlyOtherTypes
<1>2. CASE \E c \in BOOLEAN : peek_read_view(c)
  BY <1>2, ViewRefuses
<1>3. CASE Consumer /\ ~(\E c \in BOOLEAN : peek_read_view(c))
  <2>1. cpc' # "invalid"
    BY <1>3 DEF Consumer, open_shm, open_map, open_check, open_fails, release,
                peek_read_load, read_item, commit_read, leave
  <2> QED
    BY <1>1, <1>3, <2>1
<1> QED
  BY <1>2, <1>3, RefusedKept DEF Next

-----------------------------------------------------------------------------
\* Every segment holds a bounded queue at every moment: a consumer gets what
\* was committed and not yet consumed when the last one left or died, then
\* what was committed since, once each and in order, also after the producer
\* died or unlinked the name.  Messages are lost only when create empties the
\* segment or nothing refers to it any more, in either case without a consumer.
THEOREM RingIsFifo == Spec => ImplementsFifo
<1>1. Init => \A s \in Segment : Ring(s)!Init
  <2> SUFFICES ASSUME Init, NEW s \in Segment PROVE Ring(s)!Init
    OBVIOUS
  <2>1. IInv /\ header[s] = ZeroHeader /\ item = NoItem
    BY InvInit DEF Init
  <2>2. Committed(s) = <<>>
    BY <2>1, QueueEmpty DEF EmptiedOK
  <2> QED
    BY <2>1, <2>2 DEF Ring!Init
<1>2. FifoInv /\ IInv' /\ [Next]_vars
        => [\A s \in Segment : [Ring(s)!Next \/ RingCleared(s)]_(Ring(s)!vars)]_vars
  BY FifoStep DEF QueueStep
<1> QED
  BY <1>1, <1>2, FifoInvHolds, InvHolds, PTL DEF Spec, ImplementsFifo

LEMMA LayoutHolds == Spec => [](IInv /\ LayoutInv)
<1>1. Init => LayoutInv
  BY DEF Init, LayoutInv, HeaderStored, EmptyUntilSized, ChecksHold
<1>2. IInv /\ TypeOK' /\ LayoutInv /\ [Next]_vars => LayoutInv'
  BY LayoutStep
<1> QED
  BY <1>1, <1>2, InvHolds, TypeCorrect, PTL DEF Spec

\* A consumer that open let in finds the slots where the producer put them,
\* although it may open while create stores the header, one field at a time
\* and in any order, and although producers die and create again: no value
\* that open compares is one that an unfinished header holds.
THEOREM LayoutsAgree == Spec => []SameLayout
<1>1. IInv /\ LayoutInv => SameLayout
  BY LayoutFits
<1> QED
  BY <1>1, LayoutHolds, PTL

\* peek_read refuses no message of the consumer's type, whichever of the two
\* sides asks for a checksum and whenever processes die: a message has the
\* length that open compared, and a header and a checksum that are complete.
THEOREM RefusalsAreOfOtherTypes ==
  ASSUME AlignmentsAgree
  PROVE  Spec => []RefusesOnlyOtherTypes
<1>1. Init => SealInv /\ RefusalInv
  <2> SUFFICES ASSUME Init PROVE SealInv /\ RefusalInv
    OBVIOUS
  <2>1. \A s \in Segment : head(s) = 0 /\ tail(s) = 0
    BY HeaderTypes DEF Init, head, tail, Fields
  <2> QED
    BY <2>1 DEF Init, SealInv, SlotsSealed, SegmentSealed, SlotInWork, RefusalInv,
                RefusalHeld, RefusesOnlyOtherTypes
<1>2. IInv /\ TypeOK' /\ LayoutInv /\ SealInv /\ RefusalInv /\ [Next]_vars
        => SealInv' /\ RefusalInv'
  <2> SUFFICES ASSUME IInv, TypeOK', LayoutInv, SealInv, RefusalInv, [Next]_vars
               PROVE  SealInv' /\ RefusalInv'
    OBVIOUS
  <2>1. SealInv'
    BY ProducerSeals, ConsumerSeals DEF Next
  <2>2. RefusalInv'
    BY RefusalStep
  <2> QED
    BY <2>1, <2>2
<1>3. RefusalInv => RefusesOnlyOtherTypes
  BY DEF RefusalInv
<1> QED
  BY <1>1, <1>2, <1>3, LayoutHolds, TypeCorrect, PTL DEF Spec

=============================================================================
