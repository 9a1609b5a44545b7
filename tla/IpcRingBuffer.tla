---------------------------- MODULE IpcRingBuffer ----------------------------
(***************************************************************************)
(* IpcRingBuffer<T, Capacity> (ipc_ring_buffer.hpp): the ring of           *)
(* SpscRingBuffer with its header, its counters and its slots in a named   *)
(* shared memory segment.  A producer process creates the ring, a consumer *)
(* process opens it; either may end in good order or die at any step and   *)
(* be started again, with an instantiation of the template for another     *)
(* type or capacity.                                                       *)
(*                                                                         *)
(* The module is about what lies in the segment when the processes come    *)
(* and go.  Steps interleave one memory access at a time; the header's     *)
(* plain and relaxed stores, and the plain loads of open, take effect in   *)
(* any order.  Late loads of the counters, which use the orders of         *)
(* SpscRingBuffer, are studied there and not here.  The system calls below *)
(* create and open are those of SharedMemoryRegion, here for one name and  *)
(* with fewer steps.                                                       *)
(*                                                                         *)
(* The deployment keeps the operational constraint of                      *)
(* SharedMemoryRegion::create: it is not called over a segment that a      *)
(* consumer has open.                                                      *)
(***************************************************************************)
EXTENDS Wire, Sequences

CONSTANTS
  Capacity,   \* the template argument of the producer
  MaxHead,    \* a bound on the messages committed to one ring; the counters
              \* have 64 bits and do not reach their end
  Created,    \* the message types the producer instantiates the ring with
  Opened,     \* the types and capacities the consumer instantiates it with
  Segment,    \* shared memory segments
  NoSegment,  \* no segment
  NoItem      \* the consumer holds no copy of a message

ASSUME IpcRingAssumption ==
  /\ Capacity \in Nat /\ Capacity >= 2 /\ MaxHead \in Nat
  /\ Created \subseteq Types /\ Created # {} /\ Opened # {}
  /\ \A r \in Opened : /\ r.type \in Types /\ Traits[r.type].size # 0
                        /\ r.capacity \in Nat /\ r.capacity >= 2
  /\ NoSegment \notin Segment /\ NoItem \notin Payload

VARIABLES
  name,    \* the segment the ring's name refers to
  length,  \* the size of each segment
  header,  \* IpcRingHeader of each segment: what open checks, and the counters
  slots,   \* the slots of each segment
  ppc,     \* where the producer is
  pSeg,    \* the segment it has open
  pType,   \* its T
  todo,    \* the header fields create has not yet stored
  cpc,     \* where the consumer is
  cSeg,    \* the segment it has open
  reader,  \* its T and Capacity
  toCheck, \* the header fields open has not yet compared
  item     \* the consumer's copy of the message it views

pvars == <<ppc, pSeg, pType, todo>>
cvars == <<cpc, cSeg, reader, toCheck, item>>
vars  == <<name, length, header, slots, pvars, cvars>>

-----------------------------------------------------------------------------
Index == 0 .. Capacity - 1

\* p & kIndexMask
idx(p) == p % Capacity

IPC_RING_MAGIC == 1380796499   \* 'SHMR', 0x524D4853

\* sizeof(IpcRingHeader)
IpcHeaderSize == 192

SlotAlign(T) == IF Traits[T].align > 16 THEN Traits[T].align ELSE 16
SlotSize(T) ==
  ((message_size(T) + SlotAlign(T) - 1) \div SlotAlign(T)) * SlotAlign(T)
TotalShmSize(T, capacity) == IpcHeaderSize + capacity * SlotSize(T)
SlotAddr(T, i) == IpcHeaderSize + i * SlotSize(T)

\* The header fields that open compares, with the values of an instantiation.
\* (version, msg_id and reserved are stored by create and never read.)
Geometry(T, capacity) ==
  [magic |-> IPC_RING_MAGIC, capacity |-> capacity,
   slot_size |-> SlotSize(T), payload_len |-> Traits[T].size]
Checked == {"magic", "capacity", "slot_size", "payload_len"}

\* The fields create stores.
NewHeader(T) ==
  [f \in Checked \cup {"head", "tail"} |->
     IF f \in Checked THEN Geometry(T, Capacity)[f] ELSE 0]

\* The bytes of a segment are zero when ftruncate makes them.
ZeroHeader == [f \in Checked \cup {"head", "tail"} |-> 0]
ZeroSlot == [magic |-> 0, msg_id |-> 0, version |-> 0, crc |-> 0,
             payload_len |-> 0, payload |-> Fresh]
ZeroSlots == [i \in Index |-> ZeroSlot]

head(s) == header[s]["head"]
tail(s) == header[s]["tail"]

\* Mutation: the room test is off by one.
mut_is_full_late(s) == head(s) - tail(s) > Capacity
\* (head - tail) >= Capacity, for unsigned numbers.
is_full(s) == head(s) < tail(s) \/ head(s) - tail(s) >= Capacity

InUse == {name, pSeg, cSeg} \ {NoSegment}

\* What pType and reader are while there is no ring.
NoType == CHOOSE T \in Created : TRUE
NoReader == CHOOSE r \in Opened : TRUE

\* The operating system frees a segment that nothing refers to any more.
FreeUnused ==
  /\ length' = [s \in Segment |-> IF s \in InUse' THEN length[s] ELSE 0]
  /\ header' = [s \in Segment |-> IF s \in InUse' THEN header[s] ELSE ZeroHeader]
  /\ slots' = [s \in Segment |-> IF s \in InUse' THEN slots[s] ELSE ZeroSlots]

-----------------------------------------------------------------------------
(***************************************************************************)
(* The producer process.                                                   *)
(***************************************************************************)

\* The operational constraint of SharedMemoryRegion::create.
Quiet == name # NoSegment => cSeg # name

\* Mutation: shm_open without O_TRUNC; an existing segment keeps its bytes.
mut_create_shm_keeps(T) ==
  /\ ppc = "closed" /\ Quiet
  /\ \E s \in Segment :
       /\ IF name = NoSegment THEN s \notin InUse ELSE s = name
       /\ name' = s /\ pSeg' = s
  /\ pType' = T /\ ppc' = "sizing"
  /\ UNCHANGED <<length, header, slots, todo, cvars>>

\* create as far as shm_open with O_CREAT | O_TRUNC: the segment of the name,
\* emptied, or a new one.
create_shm(T) ==
  /\ ppc = "closed" /\ Quiet
  /\ \E s \in Segment :
       /\ IF name = NoSegment THEN s \notin InUse ELSE s = name
       /\ name' = s /\ pSeg' = s
       /\ length' = [length EXCEPT ![s] = 0]
       /\ header' = [header EXCEPT ![s] = ZeroHeader]
       /\ slots' = [slots EXCEPT ![s] = ZeroSlots]
  /\ pType' = T /\ ppc' = "sizing"
  /\ UNCHANGED <<todo, cvars>>

\* ftruncate and mmap.
create_size ==
  /\ ppc = "sizing"
  /\ length' = [length EXCEPT ![pSeg] = TotalShmSize(pType, Capacity)]
  /\ ppc' = "initializing" /\ todo' = DOMAIN ZeroHeader
  /\ UNCHANGED <<name, header, slots, pSeg, pType, cvars>>

\* Mutation: the segment stays mapped.
mut_drop_ring_leaks ==
  /\ ppc' = "closed" /\ pType' = NoType /\ todo' = {} /\ pSeg' = pSeg
  /\ UNCHANGED cvars /\ FreeUnused
\* The producer's mapping goes away.
drop_ring ==
  /\ pSeg' = NoSegment /\ ppc' = "closed" /\ pType' = NoType /\ todo' = {}
  /\ UNCHANGED cvars /\ FreeUnused

\* shm_open, ftruncate or mmap fails: the name is unlinked, also the name of a
\* segment left by an earlier producer, and create returns an empty ring.
create_fails ==
  /\ ppc = "sizing" \/ (ppc = "closed" /\ Quiet)
  /\ name' = NoSegment
  /\ drop_ring

\* One store to the header; after the last one create returns.
create_store(f) ==
  /\ ppc = "initializing" /\ f \in todo
  /\ header' = [header EXCEPT ![pSeg][f] = NewHeader(pType)[f]]
  /\ todo' = todo \ {f}
  /\ ppc' = IF todo' = {} THEN "idle" ELSE ppc
  /\ UNCHANGED <<name, length, slots, pSeg, pType, cvars>>

\* prepare_write up to the room test; nullptr leaves the producer idle.
prepare_write_load ==
  /\ ppc \in {"idle", "prepared"}
  /\ ppc' = IF is_full(pSeg) THEN "idle" ELSE "claimed"
  /\ UNCHANGED <<name, length, header, slots, pSeg, pType, todo, cvars>>

\* prepare_write after it: sinew::prepare<T> on the slot.
prepare_write_stamp ==
  LET i  == idx(head(pSeg))
      ok == prepare_error(pType, SlotSize(pType), SlotAddr(pType, i)) = "Ok"
  IN  /\ ppc = "claimed"
      /\ slots' = IF ok THEN [slots EXCEPT ![pSeg][i] = prepare(pType, @)] ELSE slots
      /\ ppc' = IF ok THEN "prepared" ELSE "idle"
      /\ UNCHANGED <<name, length, header, pSeg, pType, todo, cvars>>

\* Mutation: the payload is assigned after the checksum was computed.
mut_write_payload_late(v) ==
  /\ ppc \in {"prepared", "finalized"}
  /\ slots' = [slots EXCEPT ![pSeg][idx(head(pSeg))].payload = v]
  /\ UNCHANGED <<name, length, header, pvars, cvars>>

\* The application fills the message in place (push: *slot = value).
write_payload(v) ==
  /\ ppc = "prepared"
  /\ slots' = [slots EXCEPT ![pSeg][idx(head(pSeg))].payload = v]
  /\ UNCHANGED <<name, length, header, pvars, cvars>>

\* commit_write up to sinew::finalize.
commit_write_finalize(compute_crc) ==
  /\ ppc = "prepared" /\ head(pSeg) < MaxHead
  /\ slots' = [slots EXCEPT ![pSeg][idx(head(pSeg))] = finalize(pType, @, compute_crc)]
  /\ ppc' = "finalized"
  /\ UNCHANGED <<name, length, header, pSeg, pType, todo, cvars>>

\* commit_write's last statement: publish the slot.
commit_write_store ==
  /\ ppc = "finalized"
  /\ header' = [header EXCEPT ![pSeg]["head"] = @ + 1]
  /\ ppc' = "idle"
  /\ UNCHANGED <<name, length, slots, pSeg, pType, todo, cvars>>

\* The producer's ring is destroyed: the creator unlinks the name.
destroy ==
  /\ ppc \in {"idle", "prepared"}
  /\ name' = NoSegment
  /\ drop_ring

\* The producer process dies; the name stays.
producer_crash ==
  /\ ppc # "closed"
  /\ UNCHANGED name
  /\ drop_ring

-----------------------------------------------------------------------------
(***************************************************************************)
(* The consumer process.                                                   *)
(***************************************************************************)

\* open as far as shm_open.
open_shm(r) ==
  /\ cpc = "closed" /\ name # NoSegment
  /\ cSeg' = name /\ reader' = r /\ cpc' = "opening"
  /\ UNCHANGED <<name, length, header, slots, pvars, toCheck, item>>

large_enough == length[cSeg] >= TotalShmSize(reader.type, reader.capacity)

\* Mutation: the consumer starts with the next message.
mut_open_map_skips ==
  /\ cpc = "opening" /\ large_enough
  /\ cpc' = "checking" /\ toCheck' = Checked
  /\ header' = [header EXCEPT ![cSeg]["tail"] = head(cSeg)]
  /\ UNCHANGED <<name, length, slots, pvars, cSeg, reader, item>>
\* fstat and mmap.
open_map ==
  /\ cpc = "opening" /\ large_enough
  /\ cpc' = "checking" /\ toCheck' = Checked
  /\ UNCHANGED <<name, length, header, slots, pvars, cSeg, reader, item>>

\* Mutation: open does not compare the payload's length.
mut_field_ok_no_payload_len(f) ==
  f # "payload_len" => header[cSeg][f] = Geometry(reader.type, reader.capacity)[f]
field_ok(f) == header[cSeg][f] = Geometry(reader.type, reader.capacity)[f]

\* One comparison of open; after the last one it returns the ring.
open_check(f) ==
  /\ cpc = "checking" /\ f \in toCheck /\ field_ok(f)
  /\ toCheck' = toCheck \ {f}
  /\ cpc' = IF toCheck' = {} THEN "idle" ELSE cpc
  /\ UNCHANGED <<name, length, header, slots, pvars, cSeg, reader, item>>

\* The consumer's region is closed; it never unlinks.
release ==
  /\ cSeg' = NoSegment /\ cpc' = "closed" /\ toCheck' = {} /\ item' = NoItem
  /\ reader' = NoReader
  /\ UNCHANGED <<name, pvars>> /\ FreeUnused

\* open fails and returns an empty ring.
open_fails ==
  /\ \/ cpc = "opening" /\ ~large_enough
     \/ cpc = "checking" /\ \E f \in toCheck : ~field_ok(f)
  /\ release

\* The slot that peek_read hands to sinew::view<T>.
view_slot == tail(cSeg) % reader.capacity

\* peek_read up to the emptiness test; nullptr leaves the consumer idle.
peek_read_load ==
  /\ cpc \in {"idle", "invalid", "viewing"}
  /\ cpc' = IF tail(cSeg) = head(cSeg) THEN "idle" ELSE "viewing?"
  /\ item' = NoItem
  /\ UNCHANGED <<name, length, header, slots, pvars, cSeg, reader, toCheck>>

\* peek_read after it: nullptr when sinew::view<T> reports an error.
peek_read_view(verify_crc) ==
  /\ cpc = "viewing?"
  /\ cpc' = IF validate(reader.type, slots[cSeg][view_slot], SlotSize(reader.type),
                        SlotAddr(reader.type, view_slot), verify_crc) = "Ok"
            THEN "viewing" ELSE "invalid"
  /\ UNCHANGED <<name, length, header, slots, pvars, cSeg, reader, toCheck, item>>

\* The application reads the message through the pointer (pop: out = *item).
read_item ==
  /\ cpc = "viewing"
  /\ item' = slots[cSeg][view_slot].payload
  /\ UNCHANGED <<name, length, header, slots, pvars, cpc, cSeg, reader, toCheck>>

commit_read ==
  /\ cpc = "viewing"
  /\ header' = [header EXCEPT ![cSeg]["tail"] = @ + 1]
  /\ cpc' = "idle" /\ item' = NoItem
  /\ UNCHANGED <<name, length, slots, pvars, cSeg, reader, toCheck>>

\* The consumer's ring is destroyed, or its process dies.
leave == cpc # "closed" /\ release

-----------------------------------------------------------------------------
Init ==
  /\ name = NoSegment /\ length = [s \in Segment |-> 0]
  /\ header = [s \in Segment |-> ZeroHeader]
  /\ slots = [s \in Segment |-> ZeroSlots]
  /\ ppc = "closed" /\ pSeg = NoSegment /\ pType = NoType /\ todo = {}
  /\ cpc = "closed" /\ cSeg = NoSegment /\ reader = NoReader /\ toCheck = {}
  /\ item = NoItem

Producer ==
  \/ \E T \in Created : create_shm(T)
  \/ create_size \/ create_fails
  \/ \E f \in todo : create_store(f)
  \/ prepare_write_load \/ prepare_write_stamp
  \/ \E v \in Payload : write_payload(v)
  \/ \E c \in BOOLEAN : commit_write_finalize(c)
  \/ commit_write_store
  \/ destroy \/ producer_crash

Consumer ==
  \/ \E r \in Opened : open_shm(r)
  \/ open_map
  \/ \E f \in toCheck : open_check(f)
  \/ open_fails
  \/ peek_read_load
  \/ \E c \in BOOLEAN : peek_read_view(c)
  \/ read_item \/ commit_read \/ leave

Next == Producer \/ Consumer

Spec == Init /\ [][Next]_vars

-----------------------------------------------------------------------------
(***************************************************************************)
(* Properties.                                                             *)
(***************************************************************************)

\* The variables keep to their types; a process has a segment exactly while
\* it has a ring or is making one.
TypeOK ==
  /\ name \in Segment \cup {NoSegment} /\ length \in [Segment -> Nat]
  /\ header \in [Segment -> [DOMAIN ZeroHeader -> Nat]]
  /\ slots \in [Segment -> [Index -> Buffer]]
  /\ ppc \in {"closed", "sizing", "initializing", "idle", "claimed",
              "prepared", "finalized"}
  /\ pSeg \in IF ppc = "closed" THEN {NoSegment} ELSE Segment
  /\ pType \in Created
  /\ todo \subseteq DOMAIN ZeroHeader /\ (todo # {} <=> ppc = "initializing")
  /\ cpc \in {"closed", "opening", "checking", "idle", "viewing?",
              "viewing", "invalid"}
  /\ cSeg \in IF cpc = "closed" THEN {NoSegment} ELSE Segment
  /\ reader \in Opened
  /\ toCheck \subseteq Checked /\ (toCheck # {} <=> cpc = "checking")
  /\ item \in Payload \cup {NoItem}

\* The consumer has a ring.
Attached == cpc \notin {"closed", "opening", "checking"}

\* The counters are in order in every segment at every moment: while create
\* stores the header, after either process died between two stores, after a
\* re-creation, and in a segment whose name is gone.  A tail ahead of head
\* would make the ring full for the producer for ever.
CountersOrdered ==
  \A s \in Segment : tail(s) <= head(s) /\ head(s) - tail(s) <= Capacity

\* A consumer gets a ring only when its slots are where the producer put
\* them: it divides the segment like the producer that stored the header,
\* although it may open while the header is being stored, and although the
\* ring may have been created again, for another type, since it last looked.
SameLayout ==
  Attached =>
    /\ reader.capacity = Capacity
    /\ length[cSeg] >= TotalShmSize(reader.type, Capacity)
    /\ cSeg = pSeg => SlotSize(reader.type) = SlotSize(pType)
                      /\ Traits[reader.type].size = Traits[pType].size

\* peek_read refuses the oldest message only if it has another id or version
\* than the consumer's type: restarts never leave an unfinished or altered
\* message in the ring, whichever of the two sides asks for a checksum.
RefusesOnlyOtherTypes ==
  cpc = "invalid" =>
    \/ slots[cSeg][view_slot].msg_id # Traits[reader.type].id
    \/ slots[cSeg][view_slot].version # Traits[reader.type].version

\* The message the consumer is viewing does not change until it commits, or
\* its ring is gone: not by the producer, and not by the producer's death,
\* replacement and next create.
ViewStable ==
  [][cpc = "viewing" /\ cpc' = "viewing" =>
       slots'[cSeg][view_slot] = slots[cSeg][view_slot]]_vars

\* The messages in a segment's ring, oldest first.
Committed(s) == [i \in 1 .. head(s) - tail(s) |->
                   slots[s][idx(tail(s) + i - 1)].payload]

Ring(s) == INSTANCE BoundedFifo WITH
  queue <- Committed(s), item <- IF s = cSeg THEN item ELSE NoItem

\* A ring loses its messages only when create empties the segment or nothing
\* refers to it any more, in either case without a consumer.
RingCleared(s) ==
  /\ Ring(s)!Clear
  /\ cSeg' # s /\ (ppc' = "sizing" \/ s \notin InUse')

\* Whatever the processes do, a consumer finds in the segment it has open a
\* bounded queue: what was committed and not yet consumed when the last
\* consumer left or died, then what was committed since, once each and in
\* order, also after the producer died or unlinked the name.
ImplementsFifo ==
  /\ \A s \in Segment : Ring(s)!Init
  /\ [][\A s \in Segment :
           [Ring(s)!Next \/ RingCleared(s)]_(Ring(s)!vars)]_vars

=============================================================================
