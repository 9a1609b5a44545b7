--------------------------- MODULE SpscRingBuffer ---------------------------
(***************************************************************************)
(* SpscRingBuffer<T, Capacity> (ring_buffer.hpp): a lock-free ring that    *)
(* one producer thread writes and one consumer thread reads in place.      *)
(*                                                                         *)
(* Each atomic access and each access to a slot is a step of its own, so   *)
(* the two threads interleave between any two of them.  A thread reads its *)
(* own counter exactly (nobody else writes it) and the other thread's      *)
(* counter possibly late: an atomic load returns any value from the newest *)
(* one this thread has seen (read coherence) to the latest one stored.     *)
(* The slots are plain memory.  An access to a slot is ordered after an    *)
(* earlier access of the other thread only if a release store and an       *)
(* acquire load that read its value, or a later one, lie between them.     *)
(*                                                                         *)
(* The counters are size_t and wrap at Modulus = 2^w; Capacity is a power  *)
(* of two below it, so Capacity divides Modulus.                           *)
(*                                                                         *)
(* The producer calls prepare_write and commit_write, or push, which is    *)
(* both of them around one assignment; the consumer calls peek_read and    *)
(* commit_read, or pop or consume, which are both of them around a copy or *)
(* a callback.  A commit follows a successful prepare or peek.             *)
(***************************************************************************)
EXTENDS Wire, Sequences

CONSTANTS
  Capacity,  \* slots in the ring
  Modulus,   \* 2^w, with w the width of size_t
  T,         \* the message type
  Uninit,    \* what a slot's memory may hold before its first use
  NoItem     \* the consumer holds no copy of a message

ASSUME RingAssumption ==
  /\ Capacity \in Nat /\ Capacity >= 2
  /\ Modulus \in Nat /\ Modulus % Capacity = 0 /\ Modulus >= 2 * Capacity
  /\ T \in Types
  /\ Uninit \subseteq Buffer
  /\ NoItem \notin Payload

VARIABLES
  head,      \* head_: how many messages were committed, modulo Modulus
  tail,      \* tail_: how many messages were consumed, modulo Modulus
  slots,     \* slots_
  ppc,       \* where the producer is
  pTail,     \* the newest value of tail_ the producer has loaded
  pSync,     \* the newest value of tail_ the producer has synchronized with
  notFull,   \* full() returned false and the producer has not committed since
  cpc,       \* where the consumer is
  cHead,     \* the newest value of head_ the consumer has loaded
  cSync,     \* the newest value of head_ the consumer has synchronized with
  notEmpty,  \* empty() returned false and the consumer has not committed since
  item       \* the consumer's copy of the message it views

pvars == <<ppc, pTail, pSync, notFull>>
cvars == <<cpc, cHead, cSync, notEmpty, item>>
vars  == <<head, tail, slots, pvars, cvars>>

-----------------------------------------------------------------------------
\* The values of a size_t.
Word == 0 .. Modulus - 1

\* a - b in size_t arithmetic.
Sub(a, b) == (a - b) % Modulus

\* a + 1 in size_t arithmetic, and without the wrap.
mut_inc_no_wrap(a) == a + 1
Inc(a) == (a + 1) % Modulus

Index == 0 .. Capacity - 1

\* p & kIndexMask; a mask of Capacity - 1 ones is p modulo Capacity.
idx(p) == p % Capacity

\* The slot size rounded up to the alignment of Slot; slots_ is an array.
SlotStride ==
  ((message_size(T) + Traits[T].align - 1) \div Traits[T].align)
    * Traits[T].align

\* Mutation: Slot without its alignas starts wherever the counters end.
mut_SlotAddr_unaligned(i) == 4 + i * SlotStride
SlotAddr(i) == i * SlotStride

\* (head - tail) >= Capacity
mut_is_full_late(h, t) == Sub(h, t) > Capacity
is_full(h, t) == Sub(h, t) >= Capacity

\* What size() computes from the two counters it loads.
size(h, t) == IF h >= t THEN h - t ELSE (Capacity + h - t) % Modulus

\* The orders of the loads and stores that the two threads share.
mut_relaxed == "relaxed"
HeadStoreOrder == "release"
TailStoreOrder == "release"
HeadLoadOrder == "acquire"
TailLoadOrder == "acquire"

Synchronizes(store, load) == store = "release" /\ load = "acquire"

\* The values an atomic load may return to a thread that has seen `seen`.
Visible(seen, latest) == {v \in Word : Sub(v, seen) <= Sub(latest, seen)}

-----------------------------------------------------------------------------
(***************************************************************************)
(* The producer thread: prepare_write, the application's assignments       *)
(* through the returned pointer, commit_write.  An application that drops  *)
(* a prepared slot simply calls prepare_write again.                       *)
(***************************************************************************)

\* prepare_write up to the room test: load tail_; nullptr when it looks full.
prepare_write_load(v) ==
  /\ ppc \in {"idle", "refused", "prepared"}
  /\ v \in Visible(pTail, tail)
  /\ pTail' = v
  /\ pSync' = IF Synchronizes(TailStoreOrder, TailLoadOrder) THEN v ELSE pSync
  /\ ppc' = IF is_full(head, v) THEN "refused" ELSE "claimed"
  /\ UNCHANGED <<head, tail, slots, notFull, cvars>>

\* prepare_write after it: sinew::prepare<T> on the slot, nullptr on an error.
prepare_write_stamp ==
  LET ok == prepare_error(T, message_size(T), SlotAddr(idx(head))) = "Ok"
  IN  /\ ppc = "claimed"
      /\ slots' = IF ok THEN [slots EXCEPT ![idx(head)] = prepare(T, @)] ELSE slots
      /\ ppc' = IF ok THEN "prepared" ELSE "refused"
      /\ UNCHANGED <<head, tail, pTail, pSync, notFull, cvars>>

\* The application fills the message in place (push: *slot = value).
write_payload(v) ==
  /\ ppc = "prepared"
  /\ slots' = [slots EXCEPT ![idx(head)].payload = v]
  /\ UNCHANGED <<head, tail, pvars, cvars>>

\* commit_write up to sinew::finalize on the slot that head_ selects.
commit_write_finalize(compute_crc) ==
  /\ ppc = "prepared"
  /\ slots' = [slots EXCEPT ![idx(head)] = finalize(T, @, compute_crc)]
  /\ ppc' = "finalized"
  /\ UNCHANGED <<head, tail, pTail, pSync, notFull, cvars>>

\* commit_write's last statement: publish the slot.
commit_write_store ==
  /\ ppc = "finalized"
  /\ head' = Inc(head)
  /\ ppc' = "idle"
  /\ notFull' = FALSE
  /\ UNCHANGED <<tail, slots, pTail, pSync, cvars>>

\* Mutation: full() tests for more than Capacity messages.
mut_full_late(v) ==
  /\ ppc \in {"idle", "refused"}
  /\ v \in Visible(pTail, tail)
  /\ pTail' = v
  /\ notFull' = (Sub(head, v) <= Capacity)
  /\ ppc' = "idle"
  /\ UNCHANGED <<head, tail, slots, pSync, cvars>>

\* The producer asks full(): a relaxed load of tail_.
full(v) ==
  /\ ppc \in {"idle", "refused"}
  /\ v \in Visible(pTail, tail)
  /\ pTail' = v
  /\ notFull' = ~is_full(head, v)
  /\ ppc' = "idle"
  /\ UNCHANGED <<head, tail, slots, pSync, cvars>>

-----------------------------------------------------------------------------
(***************************************************************************)
(* The consumer thread: peek_read, any number of reads through the         *)
(* returned pointer, commit_read.  When the callback of consume throws,    *)
(* the message is not committed and the next call peeks again.             *)
(***************************************************************************)

\* peek_read up to the emptiness test: load head_; nullptr when it looks empty.
peek_read_load(v) ==
  /\ cpc \in {"idle", "refused", "viewing"}
  /\ v \in Visible(cHead, head)
  /\ cHead' = v
  /\ cSync' = IF Synchronizes(HeadStoreOrder, HeadLoadOrder) THEN v ELSE cSync
  /\ cpc' = IF tail = v THEN "refused" ELSE "checking"
  /\ item' = NoItem
  /\ UNCHANGED <<head, tail, slots, notEmpty, pvars>>

\* Mutation: the slot after the oldest one is viewed.
mut_view_slot_newest == idx(head - 1)
\* The slot that peek_read hands to sinew::view<T>.
view_slot == idx(tail)

\* peek_read after it: sinew::view<T> on the slot, nullptr on any error.
peek_read_view(verify_crc) ==
  /\ cpc = "checking"
  /\ cpc' = IF validate(T, slots[view_slot], message_size(T),
                        SlotAddr(view_slot), verify_crc) = "Ok"
            THEN "viewing" ELSE "refused"
  /\ UNCHANGED <<head, tail, slots, cHead, cSync, notEmpty, item, pvars>>

\* The application reads the message through the pointer (pop: out = *item).
read_item ==
  /\ cpc = "viewing"
  /\ item' = slots[view_slot].payload
  /\ UNCHANGED <<head, tail, slots, cpc, cHead, cSync, notEmpty, pvars>>

commit_read ==
  /\ cpc = "viewing"
  /\ tail' = Inc(tail)
  /\ cpc' = "idle"
  /\ notEmpty' = FALSE
  /\ item' = NoItem
  /\ UNCHANGED <<head, slots, cHead, cSync, pvars>>

\* The consumer asks empty(): a relaxed load of head_.
empty(v) ==
  /\ cpc \in {"idle", "refused"}
  /\ v \in Visible(cHead, head)
  /\ cHead' = v
  /\ notEmpty' = (v # tail)
  /\ cpc' = "idle"
  /\ UNCHANGED <<head, tail, slots, cSync, item, pvars>>

-----------------------------------------------------------------------------
\* The constructor zeroes the counters and leaves the slots as they are.
Init ==
  /\ head = 0 /\ tail = 0
  /\ slots \in [Index -> Uninit]
  /\ ppc = "idle" /\ pTail = 0 /\ pSync = 0 /\ notFull = FALSE
  /\ cpc = "idle" /\ cHead = 0 /\ cSync = 0 /\ notEmpty = FALSE
  /\ item = NoItem

Producer ==
  \/ \E v \in Word : prepare_write_load(v) \/ full(v)
  \/ prepare_write_stamp
  \/ \E v \in Payload : write_payload(v)
  \/ \E c \in BOOLEAN : commit_write_finalize(c)
  \/ commit_write_store

Consumer ==
  \/ \E v \in Word : peek_read_load(v) \/ empty(v)
  \/ \E c \in BOOLEAN : peek_read_view(c)
  \/ read_item
  \/ commit_read

Next == Producer \/ Consumer

Spec == Init /\ [][Next]_vars

(***************************************************************************)
(* Both threads poll: the producer retries prepare_write until it gets a   *)
(* slot and commits it, the consumer retries peek_read and commits what it *)
(* gets.  A store becomes visible to the other thread in a finite time     *)
(* (the progress guarantee of C++ atomics), so a load repeated for ever    *)
(* returns the latest value sooner or later.                               *)
(***************************************************************************)
Fairness ==
  /\ SF_vars(prepare_write_load(tail))
  /\ WF_vars(prepare_write_stamp)
  /\ SF_vars(\E c \in BOOLEAN : commit_write_finalize(c))
  /\ WF_vars(commit_write_store)
  /\ SF_vars(peek_read_load(head))
  /\ WF_vars(\E c \in BOOLEAN : peek_read_view(c))
  /\ SF_vars(commit_read)

FairSpec == Spec /\ Fairness

-----------------------------------------------------------------------------
(***************************************************************************)
(* Properties.                                                             *)
(***************************************************************************)

\* The variables keep to their types: the counters stay within a size_t
\* when commit_write and commit_read increment them past its last value.
TypeOK ==
  /\ {head, tail, pTail, pSync, cHead, cSync} \subseteq Word
  /\ slots \in [Index -> Buffer]
  /\ ppc \in {"idle", "refused", "claimed", "prepared", "finalized"}
  /\ cpc \in {"idle", "refused", "checking", "viewing"}
  /\ notFull \in BOOLEAN /\ notEmpty \in BOOLEAN
  /\ item \in Payload \cup {NoItem}

\* The producer is between the room test and the store of head_, so it may
\* write the slot of head_; the consumer is between the emptiness test and
\* the store of tail_, so it may read the slot of tail_.
Writing == ppc \in {"claimed", "prepared", "finalized"}
Reading == cpc \in {"checking", "viewing"}

\* What the two threads know of each other's counter lags behind and never
\* leads: seen from pSync, the counters stand in the order below, at most
\* Capacity apart.  A producer at work has room, a consumer at work has a
\* message.  This is why a stale load is safe: the producer takes the ring
\* for fuller, the consumer for emptier than it is.
CounterOrder ==
  /\ Sub(pTail, pSync) <= Sub(tail, pSync)
  /\ Sub(tail, pSync) <= Sub(cSync, pSync)
  /\ Sub(cSync, pSync) <= Sub(cHead, pSync)
  /\ Sub(cHead, pSync) <= Sub(head, pSync)
  /\ Sub(head, pSync) <= Capacity
  /\ Writing => Sub(head, pSync) < Capacity
  /\ Reading => tail # cSync

\* The messages whose reads do not happen before the producer's next step,
\* and those whose writes do not happen before the consumer's next step.
UnsyncedReads ==
  {p \in Word : Sub(p, pSync) < Sub(tail, pSync)}
    \cup (IF Reading THEN {tail} ELSE {})
UnsyncedWrites ==
  {p \in Word : Sub(p, cSync) < Sub(head, cSync)}
    \cup (IF Writing THEN {head} ELSE {})

\* The slots are plain memory, so two accesses to one slot by the two
\* threads, one of them a write, must be ordered by a release store and an
\* acquire load of a counter: prepare_write never hands out a slot whose
\* last reads are not ordered before it, peek_read never hands out a slot
\* whose writes are not.
NoDataRace ==
  /\ Writing => \A p \in UnsyncedReads : idx(p) # idx(head)
  /\ Reading => \A p \in UnsyncedWrites : idx(p) # idx(tail)

\* A pointer returned by peek_read stays good: until commit_read, no step of
\* the producer changes a byte of the message the consumer is viewing.
ViewStable ==
  [][cpc = "viewing" /\ tail' = tail => slots'[idx(tail)] = slots[idx(tail)]]_vars

\* peek_read returns nullptr only when the ring looks empty: a committed
\* message is never rejected by validate, whichever of the two sides asked
\* for a checksum, whatever the slot held before.
CommittedIsValid ==
  \A i \in 1 .. Sub(head, tail) : \A verify \in BOOLEAN :
    validate(T, slots[idx(tail + i - 1)], message_size(T),
             SlotAddr(idx(tail + i - 1)), verify) = "Ok"

\* The alignment of Slot is that of T, but the payload lies behind the header:
\* it is misaligned in every slot if T is aligned to more than 16 bytes.
OverAligned == HeaderSize % Traits[T].align # 0

\* prepare_write returns nullptr only when the ring looks full, and its
\* callers take nullptr for back-pressure and retry; for an over-aligned type,
\* which no static_assert rejects, it never returns anything else.
RefusedOnlyWhenFull ==
  /\ ppc = "refused" => is_full(head, pTail) \/ OverAligned
  /\ OverAligned => ppc \notin {"prepared", "finalized"}

\* The answers of full() and empty() can be acted on by the thread that
\* asked, although their loads are relaxed: after full() said no, the
\* producer's next prepare_write is not refused, unless its type is
\* over-aligned; after empty() said no, the consumer's next peek_read is not
\* (the loop `while (!q.empty())` of examples/mcu_freestanding.cpp takes
\* nullptr there for a failure).
AnswersHold ==
  /\ notFull /\ ppc = "refused" => OverAligned
  /\ notEmpty => cpc # "refused"

\* The messages in the ring, oldest first.
queue == [i \in 1 .. Sub(head, tail) |-> slots[idx(tail + i - 1)].payload]

Fifo == INSTANCE BoundedFifo

\* The ring implements the bounded queue: messages come out once each, in
\* the order and with the contents they were committed with, and never more
\* than Capacity of them are in the ring.
ImplementsFifo == Fifo!Spec

\* size() counts the messages in the ring when both threads are between
\* calls, as the tests assume.
SizeCountsMessages ==
  ppc = "idle" /\ cpc = "idle" => size(head, tail) = Len(queue)

\* Every committed message is consumed sooner or later.
EveryMessageConsumed ==
  \A p \in Word :
    Sub(p, tail) < Sub(head, tail) ~> ~(Sub(p, tail) < Sub(head, tail))

\* A producer that was refused gets a slot sooner or later.
RefusalEnds == ppc = "refused" ~> ppc = "prepared"

=============================================================================
