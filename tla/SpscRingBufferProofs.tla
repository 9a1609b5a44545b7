------------------------ MODULE SpscRingBufferProofs ------------------------
(***************************************************************************)
(* Proofs about SpscRingBuffer, for every Capacity and every Modulus that  *)
(* RingAssumption allows.  The counters are compared by their distance     *)
(* from pSync, the newest value of tail_ the producer has synchronized     *)
(* with: the first lemmas say how such distances behave.  The second half  *)
(* is about the messages: they stay valid and unchanged until they are     *)
(* consumed, so the ring implements BoundedFifo, and nullptr means full,   *)
(* or empty.                                                               *)
(***************************************************************************)
EXTENDS SpscRingBuffer, SequenceTheorems, TLAPS

\* Capacity divides Modulus, at least twice.
LEMMA ModulusFacts ==
  /\ Capacity \in Nat /\ Capacity >= 2
  /\ Modulus \in Nat /\ Modulus >= 2 * Capacity
  /\ \E k \in Nat : Modulus = k * Capacity
<1>1. /\ Capacity \in Nat /\ Capacity >= 2
      /\ Modulus \in Nat /\ Modulus >= 2 * Capacity /\ Modulus % Capacity = 0
  BY RingAssumption
<1>2. Modulus = (Modulus \div Capacity) * Capacity + (Modulus % Capacity)
  BY <1>1
<1>3. Modulus \div Capacity \in Nat
  BY <1>1
<1> QED
  BY <1>1, <1>2, <1>3

\* Subtraction of size_t values without the modulus.
LEMMA SubCases ==
  ASSUME NEW x \in Word, NEW y \in Word
  PROVE  /\ Sub(x, y) = IF x >= y THEN x - y ELSE x - y + Modulus
         /\ Sub(x, y) \in Word
BY ModulusFacts DEF Sub, Word

\* Increment of a size_t value without the modulus.
LEMMA IncCases ==
  ASSUME NEW x \in Word
  PROVE  /\ Inc(x) = IF x = Modulus - 1 THEN 0 ELSE x + 1
         /\ Inc(x) \in Word
BY ModulusFacts DEF Inc, Word

\* An increment adds one to a distance that is not yet the largest.
LEMMA SubInc ==
  ASSUME NEW x \in Word, NEW s \in Word, Sub(x, s) <= Capacity
  PROVE  Sub(Inc(x), s) = Sub(x, s) + 1
<1>1. Inc(x) \in Word /\ Inc(x) = IF x = Modulus - 1 THEN 0 ELSE x + 1
  BY IncCases
<1>2. Sub(x, s) = IF x >= s THEN x - s ELSE x - s + Modulus
  BY SubCases
<1>3. Sub(Inc(x), s) = IF Inc(x) >= s THEN Inc(x) - s ELSE Inc(x) - s + Modulus
  BY <1>1, SubCases
<1> QED
  BY <1>1, <1>2, <1>3, ModulusFacts DEF Word

\* Distances from a point v before x are shorter by the distance of v.
LEMMA SubShift ==
  ASSUME NEW x \in Word, NEW v \in Word, NEW s \in Word,
         Sub(v, s) <= Sub(x, s)
  PROVE  Sub(x, v) = Sub(x, s) - Sub(v, s)
<1>1. Sub(x, v) = IF x >= v THEN x - v ELSE x - v + Modulus
  BY SubCases
<1>2. Sub(x, s) = IF x >= s THEN x - s ELSE x - s + Modulus
  BY SubCases
<1>3. Sub(v, s) = IF v >= s THEN v - s ELSE v - s + Modulus
  BY SubCases
<1> QED
  BY <1>1, <1>2, <1>3, ModulusFacts DEF Word

\* Different values have different distances from the same point.
LEMMA SubInjective ==
  ASSUME NEW x \in Word, NEW y \in Word, NEW s \in Word, x # y
  PROVE  Sub(x, s) # Sub(y, s)
<1>1. Sub(x, s) = IF x >= s THEN x - s ELSE x - s + Modulus
  BY SubCases
<1>2. Sub(y, s) = IF y >= s THEN y - s ELSE y - s + Modulus
  BY SubCases
<1>3. /\ x \in Int /\ y \in Int /\ s \in Int /\ Modulus \in Int
      /\ 0 <= x /\ x < Modulus /\ 0 <= y /\ y < Modulus
  BY ModulusFacts DEF Word
<1>4. x < y \/ y < x
  BY <1>3
<1> QED
  BY <1>1, <1>2, <1>3, <1>4

\* A load returns a value between the newest seen and the latest stored.
LEMMA VisibleBetween ==
  ASSUME NEW seen \in Word, NEW latest \in Word, NEW s \in Word,
         NEW v \in Visible(seen, latest), Sub(seen, s) <= Sub(latest, s)
  PROVE  /\ v \in Word
         /\ Sub(seen, s) <= Sub(v, s)
         /\ Sub(v, s) <= Sub(latest, s)
<1>1. v \in Word /\ Sub(v, seen) <= Sub(latest, seen)
  BY DEF Visible
<1>2. Sub(latest, seen) = Sub(latest, s) - Sub(seen, s)
  BY SubShift
<1>3. Sub(v, s) = IF v >= s THEN v - s ELSE v - s + Modulus
  BY <1>1, SubCases
<1>4. Sub(v, seen) = IF v >= seen THEN v - seen ELSE v - seen + Modulus
  BY <1>1, SubCases
<1>5. Sub(seen, s) = IF seen >= s THEN seen - s ELSE seen - s + Modulus
  BY SubCases
<1>6. Sub(latest, s) \in Word
  BY SubCases
<1> QED
  BY <1>1, <1>2, <1>3, <1>4, <1>5, <1>6, ModulusFacts DEF Word

\* Two counter values less than Capacity apart select different slots.
LEMMA IdxInjective ==
  ASSUME NEW x \in Word, NEW y \in Word, Sub(x, y) < Capacity, idx(x) = idx(y)
  PROVE  x = y
<1>1. PICK k \in Nat : Modulus = k * Capacity
  BY ModulusFacts
<1>2. /\ x \in Nat /\ y \in Nat /\ x < Modulus /\ y < Modulus
      /\ Capacity \in Nat /\ Capacity >= 2 /\ Modulus \in Nat
  BY ModulusFacts DEF Word
<1>3. DEFINE p == x \div Capacity
             q == y \div Capacity
             r == x % Capacity
<1>4. /\ p \in Nat /\ q \in Nat /\ r \in Nat
      /\ x = p * Capacity + r
      /\ y = q * Capacity + r
  BY <1>2 DEF idx
<1> HIDE DEF p, q, r
<1>5. \A n \in Nat : (n >= 1 => n * Capacity >= Capacity) /\ n * Capacity >= 0
  BY <1>2
<1>6. CASE x >= y
  <2>1. x - y < Capacity
    BY <1>6, SubCases
  <2>2. CASE p >= q + 1
    <3>1. (p - q) * Capacity >= Capacity
      BY <1>4, <1>5, <2>2
    <3>2. x - y = (p - q) * Capacity
      BY <1>2, <1>4
    <3> QED
      BY <3>1, <3>2, <2>1, <1>2
  <2>3. CASE q >= p + 1
    <3>1. (q - p) * Capacity >= Capacity
      BY <1>4, <1>5, <2>3
    <3>2. y - x = (q - p) * Capacity
      BY <1>2, <1>4
    <3> QED
      BY <3>1, <3>2, <1>6, <1>2
  <2> QED
    BY <2>2, <2>3, <1>4
<1>7. CASE x < y
  <2>1. x - y + Modulus < Capacity /\ x - y + Modulus > 0
    BY <1>2, <1>7, SubCases
  <2>2. x - y + Modulus = (p - q + k) * Capacity
    BY <1>1, <1>2, <1>4
  <2>3. CASE p - q + k >= 1
    BY <1>1, <1>2, <1>4, <1>5, <2>1, <2>2, <2>3
  <2>4. CASE p - q + k <= 0
    <3>1. q - p - k \in Nat
      BY <1>1, <1>4, <2>4
    <3>2. (p - q + k) * Capacity = -((q - p - k) * Capacity)
      BY <1>1, <1>2, <1>4
    <3> QED
      BY <1>2, <1>5, <2>1, <2>2, <3>1, <3>2
  <2> QED
    BY <2>3, <2>4, <1>1, <1>4
<1> QED
  BY <1>6, <1>7, <1>2

-----------------------------------------------------------------------------
\* A slot index is in range.
LEMMA IdxType == \A p \in Word : idx(p) \in Index
BY ModulusFacts DEF idx, Index, Word

\* What prepare and finalize leave in a buffer is a buffer.
LEMMA BufferType ==
  ASSUME NEW buf \in Buffer
  PROVE  /\ prepare(T, buf) \in Buffer
         /\ \A c \in BOOLEAN : finalize(T, buf, c) \in Buffer
         /\ \A v \in Payload : [buf EXCEPT !.payload = v] \in Buffer
<1>1. Traits[T].id \in Nat /\ Traits[T].version \in Nat /\ Traits[T].size \in Nat
  BY TraitsAssumption, RingAssumption
<1>2. prepare(T, buf) \in Buffer
  BY <1>1, PayloadAssumption DEF prepare, Buffer, SINEW_MAGIC
<1>3. Crc(buf.payload, Traits[T].size) \in Nat
  BY PayloadAssumption, RingAssumption DEF Buffer
<1>4. \A c \in BOOLEAN : finalize(T, buf, c) \in Buffer
  BY <1>3 DEF finalize, Buffer
<1>5. \A v \in Payload : [buf EXCEPT !.payload = v] \in Buffer
  BY DEF Buffer
<1> QED
  BY <1>2, <1>4, <1>5

\* The constructor's state is well typed.
LEMMA TypeInit == Init => TypeOK
<1> SUFFICES ASSUME Init PROVE TypeOK
  OBVIOUS
<1>1. slots \in [Index -> Buffer]
  <2>1. slots \in [Index -> Uninit] /\ Uninit \subseteq Buffer
    BY RingAssumption DEF Init
  <2> QED
    BY <2>1
<1>2. 0 \in Word
  BY ModulusFacts DEF Word
<1> QED
  BY <1>1, <1>2 DEF Init, TypeOK

\* Every step keeps the types: in particular the two increments wrap.
LEMMA TypeStep == TypeOK /\ [Next]_vars => TypeOK'
<1> SUFFICES ASSUME TypeOK, [Next]_vars PROVE TypeOK'
  OBVIOUS
<1> USE DEF TypeOK, pvars, cvars
<1>1. ASSUME NEW v \in Word, prepare_write_load(v) PROVE TypeOK'
  BY <1>1 DEF prepare_write_load
<1>2. CASE prepare_write_stamp
  BY <1>2, BufferType, IdxType DEF prepare_write_stamp
<1>3. ASSUME NEW v \in Payload, write_payload(v) PROVE TypeOK'
  BY <1>3, BufferType, IdxType DEF write_payload
<1>4. ASSUME NEW c \in BOOLEAN, commit_write_finalize(c) PROVE TypeOK'
  BY <1>4, BufferType, IdxType DEF commit_write_finalize
<1>5. CASE commit_write_store
  BY <1>5, IncCases DEF commit_write_store
<1>6. ASSUME NEW v \in Word, full(v) PROVE TypeOK'
  BY <1>6 DEF full
<1>7. ASSUME NEW v \in Word, peek_read_load(v) PROVE TypeOK'
  BY <1>7 DEF peek_read_load
<1>8. ASSUME NEW c \in BOOLEAN, peek_read_view(c) PROVE TypeOK'
  BY <1>8 DEF peek_read_view
<1>9. CASE read_item
  BY <1>9, IdxType DEF read_item, view_slot, Buffer
<1>10. CASE commit_read
  BY <1>10, IncCases DEF commit_read
<1>11. ASSUME NEW v \in Word, empty(v) PROVE TypeOK'
  BY <1>11 DEF empty
<1>12. CASE UNCHANGED vars
  BY <1>12 DEF vars
<1> QED
  BY <1>1, <1>2, <1>3, <1>4, <1>5, <1>6, <1>7, <1>8, <1>9, <1>10, <1>11, <1>12
  DEF Next, Producer, Consumer

-----------------------------------------------------------------------------
\* The counters stand in order when the ring is constructed.
LEMMA OrderInit == Init => CounterOrder
<1>1. 0 \in Word
  BY ModulusFacts DEF Word
<1>2. Sub(0, 0) = 0
  BY <1>1, SubCases
<1> QED
  BY <1>2, ModulusFacts DEF Init, CounterOrder, Writing, Reading

\* Every step keeps them in order, although loads may be stale.
LEMMA OrderStep == TypeOK /\ CounterOrder /\ [Next]_vars => CounterOrder'
<1> SUFFICES ASSUME TypeOK, CounterOrder, [Next]_vars PROVE CounterOrder'
  OBVIOUS
<1>t. /\ head \in Word /\ tail \in Word /\ pTail \in Word
      /\ pSync \in Word /\ cHead \in Word /\ cSync \in Word
  BY DEF TypeOK
<1>r. \A x \in Word : Sub(x, pSync) \in Nat
  BY <1>t, SubCases, ModulusFacts DEF Word
<1>c. /\ Sub(pTail, pSync) <= Sub(tail, pSync)
      /\ Sub(tail, pSync) <= Sub(cSync, pSync)
      /\ Sub(cSync, pSync) <= Sub(cHead, pSync)
      /\ Sub(cHead, pSync) <= Sub(head, pSync)
      /\ Sub(head, pSync) <= Capacity
      /\ Writing => Sub(head, pSync) < Capacity
      /\ Reading => tail # cSync
  BY DEF CounterOrder
<1>1. ASSUME NEW v \in Word, prepare_write_load(v) PROVE CounterOrder'
  <2>1. /\ Sub(pTail, pSync) <= Sub(v, pSync)
        /\ Sub(v, pSync) <= Sub(tail, pSync)
    BY <1>1, <1>t, <1>c, VisibleBetween DEF prepare_write_load
  <2>2. \A x \in Word :
          Sub(v, pSync) <= Sub(x, pSync) => Sub(x, v) = Sub(x, pSync) - Sub(v, pSync)
    BY <1>t, SubShift
  <2>3. /\ Sub(v, v) = 0
        /\ Sub(tail, v) = Sub(tail, pSync) - Sub(v, pSync)
        /\ Sub(cSync, v) = Sub(cSync, pSync) - Sub(v, pSync)
        /\ Sub(cHead, v) = Sub(cHead, pSync) - Sub(v, pSync)
        /\ Sub(head, v) = Sub(head, pSync) - Sub(v, pSync)
    BY <1>t, <1>r, <1>c, <2>1, <2>2
  <2>4. pTail' = v /\ pSync' = v
    BY <1>1 DEF prepare_write_load, Synchronizes, TailStoreOrder, TailLoadOrder
  <2>5. UNCHANGED <<head, tail, cHead, cSync, cpc>>
    BY <1>1 DEF prepare_write_load, cvars
  <2>6. Writing' => Sub(head, v) < Capacity
    BY <1>1, <1>t, <2>5, SubCases, ModulusFacts
    DEF prepare_write_load, Writing, is_full, Word
  <2> QED
    BY <1>t, <1>r, <1>c, <2>1, <2>3, <2>4, <2>5, <2>6, ModulusFacts
    DEF CounterOrder, Reading
<1>2. CASE prepare_write_stamp
  BY <1>2, <1>c DEF prepare_write_stamp, CounterOrder, Writing, Reading, cvars
<1>3. ASSUME NEW v \in Payload, write_payload(v) PROVE CounterOrder'
  BY <1>3, <1>c DEF write_payload, CounterOrder, Writing, Reading, pvars, cvars
<1>4. ASSUME NEW c \in BOOLEAN, commit_write_finalize(c) PROVE CounterOrder'
  BY <1>4, <1>c DEF commit_write_finalize, CounterOrder, Writing, Reading, cvars
<1>5. CASE commit_write_store
  <2>1. Sub(head, pSync) < Capacity
    BY <1>5, <1>c DEF commit_write_store, Writing
  <2>2. Sub(Inc(head), pSync) = Sub(head, pSync) + 1
    BY <1>t, <1>c, SubInc
  <2> QED
    BY <1>5, <1>t, <1>r, <1>c, <2>1, <2>2, ModulusFacts
    DEF commit_write_store, CounterOrder, Writing, Reading, cvars
<1>6. ASSUME NEW v \in Word, full(v) PROVE CounterOrder'
  <2>1. Sub(v, pSync) <= Sub(tail, pSync)
    BY <1>6, <1>t, <1>c, VisibleBetween DEF full
  <2> QED
    BY <1>6, <1>c, <2>1 DEF full, CounterOrder, Writing, Reading, cvars
<1>7. ASSUME NEW v \in Word, peek_read_load(v) PROVE CounterOrder'
  <2>1. /\ Sub(cHead, pSync) <= Sub(v, pSync)
        /\ Sub(v, pSync) <= Sub(head, pSync)
    BY <1>7, <1>t, <1>c, VisibleBetween DEF peek_read_load
  <2>2. cHead' = v /\ cSync' = v
    BY <1>7 DEF peek_read_load, Synchronizes, HeadStoreOrder, HeadLoadOrder
  <2> QED
    BY <1>7, <1>t, <1>r, <1>c, <2>1, <2>2, ModulusFacts
    DEF peek_read_load, CounterOrder, Writing, Reading, pvars
<1>8. ASSUME NEW c \in BOOLEAN, peek_read_view(c) PROVE CounterOrder'
  BY <1>8, <1>c DEF peek_read_view, CounterOrder, Writing, Reading, pvars
<1>9. CASE read_item
  BY <1>9, <1>c DEF read_item, CounterOrder, Writing, Reading, pvars
<1>10. CASE commit_read
  <2>1. tail # cSync
    BY <1>10, <1>c DEF commit_read, Reading
  <2>2. Sub(tail, pSync) # Sub(cSync, pSync)
    BY <1>t, <2>1, SubInjective
  <2>3. Sub(Inc(tail), pSync) = Sub(tail, pSync) + 1
    BY <1>t, <1>r, <1>c, SubInc, ModulusFacts
  <2> QED
    BY <1>10, <1>t, <1>r, <1>c, <2>2, <2>3, ModulusFacts
    DEF commit_read, CounterOrder, Writing, Reading, pvars
<1>11. ASSUME NEW v \in Word, empty(v) PROVE CounterOrder'
  <2>1. /\ Sub(cHead, pSync) <= Sub(v, pSync)
        /\ Sub(v, pSync) <= Sub(head, pSync)
    BY <1>11, <1>t, <1>c, VisibleBetween DEF empty
  <2> QED
    BY <1>11, <1>t, <1>r, <1>c, <2>1, ModulusFacts
    DEF empty, CounterOrder, Writing, Reading, pvars
<1>12. CASE UNCHANGED vars
  BY <1>12, <1>c DEF vars, CounterOrder, Writing, Reading, pvars, cvars
<1> QED
  BY <1>1, <1>2, <1>3, <1>4, <1>5, <1>6, <1>7, <1>8, <1>9, <1>10, <1>11, <1>12
  DEF Next, Producer, Consumer

-----------------------------------------------------------------------------
\* Counters in order leave no unordered pair of accesses to one slot.
LEMMA OrderNoRace == TypeOK /\ CounterOrder => NoDataRace
<1> SUFFICES ASSUME TypeOK, CounterOrder PROVE NoDataRace
  OBVIOUS
<1>t. /\ head \in Word /\ tail \in Word /\ pSync \in Word
      /\ cHead \in Word /\ cSync \in Word
  BY DEF TypeOK
<1>r. \A x \in Word : Sub(x, pSync) \in Nat
  BY <1>t, SubCases, ModulusFacts DEF Word
<1>c. /\ Sub(tail, pSync) <= Sub(cSync, pSync)
      /\ Sub(cSync, pSync) <= Sub(cHead, pSync)
      /\ Sub(cHead, pSync) <= Sub(head, pSync)
      /\ Sub(head, pSync) <= Capacity
      /\ Writing => Sub(head, pSync) < Capacity
      /\ Reading => tail # cSync
  BY DEF CounterOrder
<1>d. Reading => Sub(tail, pSync) < Sub(cSync, pSync)
  BY <1>t, <1>r, <1>c, SubInjective
<1>o. ASSUME NEW x \in Word, NEW y \in Word,
             Sub(y, pSync) < Sub(x, pSync),
             Sub(x, pSync) - Sub(y, pSync) < Capacity
      PROVE  idx(x) # idx(y)
  <2>1. Sub(x, y) = Sub(x, pSync) - Sub(y, pSync)
    BY <1>o, <1>t, <1>r, SubShift
  <2>2. x # y
    BY <1>o, <1>r
  <2> QED
    BY <1>o, <2>1, <2>2, IdxInjective
<1>1. ASSUME Writing, NEW p \in UnsyncedReads PROVE idx(p) # idx(head)
  <2>1. p \in Word
    BY <1>t DEF UnsyncedReads
  <2>2. Sub(p, pSync) < Sub(head, pSync)
    BY <1>t, <1>r, <1>c, <1>d, <2>1 DEF UnsyncedReads
  <2> QED
    BY <1>1, <1>t, <1>r, <1>c, <1>o, <2>1, <2>2, ModulusFacts
<1>2. ASSUME Reading, NEW p \in UnsyncedWrites PROVE idx(p) # idx(tail)
  <2>1. p \in Word
    BY <1>t DEF UnsyncedWrites
  <2>2. Sub(cSync, pSync) <= Sub(p, pSync) /\ Sub(p, pSync) < Capacity
    <3>1. CASE p = head /\ Writing
      BY <3>1, <1>t, <1>r, <1>c
    <3>2. CASE Sub(p, cSync) < Sub(head, cSync)
      <4>1. p \in Visible(cSync, head)
        BY <3>2, <2>1, <1>t, SubCases, ModulusFacts DEF Visible, Word
      <4>2. Sub(cSync, pSync) <= Sub(head, pSync)
        BY <1>t, <1>r, <1>c
      <4>3. Sub(cSync, pSync) <= Sub(p, pSync) /\ Sub(p, pSync) <= Sub(head, pSync)
        BY <4>1, <4>2, <1>t, VisibleBetween
      <4>4. p # head
        BY <3>2, <1>t, SubCases, ModulusFacts DEF Word
      <4>5. Sub(p, pSync) # Sub(head, pSync)
        BY <4>4, <2>1, <1>t, SubInjective
      <4> QED
        BY <4>3, <4>5, <2>1, <1>t, <1>r, <1>c, ModulusFacts
    <3> QED
      BY <3>1, <3>2 DEF UnsyncedWrites
  <2>3. Sub(tail, pSync) < Sub(cSync, pSync)
    BY <1>2, <1>d
  <2> QED
    BY <1>t, <1>r, <1>o, <2>1, <2>2, <2>3, ModulusFacts
<1> QED
  BY <1>1, <1>2 DEF NoDataRace

\* A step changes only the slot of head_, and only while Writing.
LEMMA SlotWrites ==
  ASSUME TypeOK, [Next]_vars, NEW i \in Index, slots'[i] # slots[i]
  PROVE  Writing /\ i = idx(head)
<1> USE DEF TypeOK, pvars, cvars
<1>1. CASE prepare_write_stamp
  BY <1>1 DEF prepare_write_stamp, Writing
<1>2. ASSUME NEW v \in Payload, write_payload(v) PROVE Writing /\ i = idx(head)
  BY <1>2 DEF write_payload, Writing
<1>3. ASSUME NEW c \in BOOLEAN, commit_write_finalize(c)
      PROVE  Writing /\ i = idx(head)
  BY <1>3 DEF commit_write_finalize, Writing
<1>4. CASE UNCHANGED slots
  BY <1>4
<1> QED
  BY <1>1, <1>2, <1>3, <1>4
  DEF Next, Producer, Consumer, vars, prepare_write_load, commit_write_store,
      full, peek_read_load, peek_read_view, read_item, commit_read, empty

-----------------------------------------------------------------------------
\* Type correctness: whatever the two threads do, the counters stay within a
\* size_t, the slots hold buffers and the consumer's copy is a payload.
THEOREM TypeCorrect == Spec => []TypeOK
<1> QED
  BY TypeInit, TypeStep, PTL DEF Spec

\* The inductive invariant of the ring: a thread's knowledge of the other
\* thread's counter lags behind it and never leads, through every stale load
\* and every wrap of the counters.
THEOREM CountersOrdered == Spec => []CounterOrder
<1> QED
  BY TypeCorrect, OrderInit, OrderStep, PTL DEF Spec

\* prepare_write and peek_read never hand out a slot that the other thread
\* may still access: the accesses to the slots are free of data races for
\* every capacity and every width of the counters.
THEOREM DataRaceFree == Spec => []NoDataRace
<1> QED
  BY TypeCorrect, CountersOrdered, OrderNoRace, PTL

\* A message viewed in place through peek_read is not changed by any step of
\* the producer until commit_read gives its slot back.
THEOREM ViewsAreStable == Spec => ViewStable
<1>1. ASSUME TypeOK, NoDataRace, [Next]_vars, cpc = "viewing"
      PROVE  slots'[idx(tail)] = slots[idx(tail)]
  <2>1. idx(tail) \in Index
    BY <1>1, IdxType DEF TypeOK
  <2>2. Writing => idx(tail) # idx(head)
    BY <1>1 DEF NoDataRace, UnsyncedReads, Reading
  <2> QED
    BY <1>1, <2>1, <2>2, SlotWrites
<1>2. TypeOK /\ NoDataRace /\ [Next]_vars
        => [cpc = "viewing" /\ tail' = tail
              => slots'[idx(tail)] = slots[idx(tail)]]_vars
  BY <1>1
<1> QED
  BY <1>2, TypeCorrect, DataRaceFree, PTL DEF Spec, ViewStable

-----------------------------------------------------------------------------
(***************************************************************************)
(* Arithmetic.                                                             *)
(***************************************************************************)

\* Multiples of a number do not change the remainder.
LEMMA MultipleMod ==
  ASSUME NEW a \in Nat, a > 0, NEW n \in Nat, NEW y \in Nat
  PROVE  (y + n * a) % a = y % a
<1>0. n * a \in Nat
  BY SMT
<1>1. PICK p \in Nat, r \in 0 .. a - 1 : y = p * a + r /\ r = y % a
  <2>1. y = (y \div a) * a + (y % a) /\ y \div a \in Nat /\ y % a \in 0 .. a - 1
    BY SMT
  <2> QED
    BY <2>1
<1>2. PICK q \in Nat, s \in 0 .. a - 1 : y + n * a = q * a + s /\ s = (y + n * a) % a
  <2> DEFINE x == y + n * a
  <2>1. x \in Nat
    BY <1>0
  <2> HIDE DEF x
  <2>2. x = (x \div a) * a + (x % a) /\ x \div a \in Nat /\ x % a \in 0 .. a - 1
    BY <2>1, SMT
  <2>3. \E q \in Nat, s \in 0 .. a - 1 : x = q * a + s /\ s = x % a
    BY <2>2
  <2> QED
    BY <2>3 DEF x
<1>3. (p + n - q) * a = s - r
  BY <1>1, <1>2, SMT
<1>4. \A d \in Int : (d >= 1 => d * a >= a) /\ (d <= -1 => d * a <= -a)
  BY SMT
<1>5. p + n - q \in Int
  OBVIOUS
<1>6. p + n - q = 0
  BY <1>3, <1>4, <1>5
<1>7. s = r
  BY <1>3, <1>6
<1> QED
  BY <1>1, <1>2, <1>7

\* idx selects the same slot one turn of the counters later.
LEMMA IdxPeriodic ==
  ASSUME NEW y \in Nat
  PROVE  idx(y + Modulus) = idx(y)
<1>1. PICK k \in Nat : Modulus = k * Capacity
  BY ModulusFacts
<1>2. Capacity \in Nat /\ Capacity > 0
  BY ModulusFacts
<1>3. (y + k * Capacity) % Capacity = y % Capacity
  BY <1>2, MultipleMod, Zenon
<1> QED
  BY <1>1, <1>3, Zenon DEF idx

\* A message is aligned in every slot, or in none.
LEMMA SlotsAligned ==
  ASSUME NEW i \in Nat
  PROVE  misaligned(T, SlotAddr(i)) <=> OverAligned
<1> DEFINE a == Traits[T].align
           k == (message_size(T) + a - 1) \div a
<1>1. a \in Nat /\ a > 0 /\ Traits[T].size \in Nat
  BY TraitsAssumption, RingAssumption
<1>2. message_size(T) \in Nat
  BY <1>1 DEF message_size, HeaderSize
<1>3. SlotAddr(i) = i * (k * a)
  BY DEF SlotAddr, SlotStride
<1> HIDE DEF a
<1>4. k \in Nat
  BY <1>1, <1>2, SMT
<1> HIDE DEF k
<1>5. i * k \in Nat /\ HeaderSize \in Nat
  BY <1>4, SMT DEF HeaderSize
<1>6. SlotAddr(i) + HeaderSize = HeaderSize + (i * k) * a
  BY <1>1, <1>3, <1>4, SMT DEF HeaderSize
<1>7. (HeaderSize + (i * k) * a) % a = HeaderSize % a
  BY <1>1, <1>5, MultipleMod, Zenon
<1> QED
  BY <1>6, <1>7, Zenon DEF misaligned, OverAligned, a

-----------------------------------------------------------------------------
(***************************************************************************)
(* The inductive invariant.                                                *)
(***************************************************************************)

\* The header is prepare's, which stamps none for an over-aligned type, and the
\* checksum finalize's.
Described(b) ==
  /\ ~OverAligned /\ b.magic = SINEW_MAGIC /\ b.msg_id = Traits[T].id
  /\ b.version = Traits[T].version /\ b.payload_len = Traits[T].size
Sealed(b) == Described(b) /\ (b.crc = 0 \/ b.crc = Crc(b.payload, Traits[T].size))

\* p counts a message that was committed and not consumed.
InRing(p) == Sub(p, tail) < Sub(head, tail)

SlotsDescribed ==
  /\ ppc \in {"prepared", "finalized"} => Described(slots[idx(head)])
  /\ ppc = "finalized" => Sealed(slots[idx(head)])
  /\ \A p \in Word : InRing(p) => Sealed(slots[idx(p)])

\* nullptr, and the answers of full() and empty(), agree with the newest value
\* of the other thread's counter that was loaded.
Answers ==
  /\ ppc = "refused" => is_full(head, pTail) \/ OverAligned
  /\ notFull => ~is_full(head, pTail)
  /\ notEmpty => cHead # tail /\ cpc # "refused"

IInv == TypeOK /\ CounterOrder /\ SlotsDescribed /\ Answers

\* The counters' distances, for the proofs of the steps.
LEMMA Distances ==
  ASSUME TypeOK, CounterOrder
  PROVE  /\ head \in Word /\ tail \in Word
         /\ Sub(head, tail) \in Nat /\ Sub(head, tail) <= Capacity
         /\ Writing => Sub(head, tail) < Capacity
         /\ Reading => tail # head
         /\ cHead # tail => Sub(tail, pSync) < Sub(cHead, pSync)
<1>t. /\ head \in Word /\ tail \in Word /\ pSync \in Word
      /\ cHead \in Word /\ cSync \in Word
  BY DEF TypeOK
<1>r. \A x \in Word : Sub(x, pSync) \in Nat
  BY <1>t, SubCases, ModulusFacts DEF Word
<1>c. /\ Sub(tail, pSync) <= Sub(cSync, pSync)
      /\ Sub(cSync, pSync) <= Sub(cHead, pSync)
      /\ Sub(cHead, pSync) <= Sub(head, pSync)
      /\ Sub(head, pSync) <= Capacity
      /\ Writing => Sub(head, pSync) < Capacity
      /\ Reading => tail # cSync
  BY DEF CounterOrder
<1>1. Sub(head, tail) = Sub(head, pSync) - Sub(tail, pSync)
  BY <1>t, <1>r, <1>c, SubShift
<1>2. Reading => tail # head
  <2>1. Reading => Sub(tail, pSync) # Sub(cSync, pSync)
    BY <1>t, <1>c, SubInjective
  <2> QED
    BY <1>t, <1>r, <1>c, <2>1
<1>3. cHead # tail => Sub(tail, pSync) # Sub(cHead, pSync)
  BY <1>t, SubInjective
<1> QED
  BY <1>t, <1>r, <1>c, <1>1, <1>2, <1>3, ModulusFacts

LEMMA SubNat ==
  ASSUME NEW x \in Word, NEW y \in Word
  PROVE  Sub(x, y) \in Nat /\ (x = y => Sub(x, y) = 0) /\ (x # y => Sub(x, y) >= 1)
<1>1. Sub(x, y) = IF x >= y THEN x - y ELSE x - y + Modulus
  BY SubCases
<1>2. x \in Int /\ y \in Int /\ Modulus \in Int /\ 0 <= x /\ y < Modulus
  BY ModulusFacts DEF Word
<1> QED
  BY <1>1, <1>2

\* A message in the ring is not in the slot that the producer writes.
LEMMA OtherSlot ==
  ASSUME TypeOK, CounterOrder, Writing, NEW p \in Word, InRing(p)
  PROVE  idx(p) # idx(head)
<1>1. /\ head \in Word /\ tail \in Word /\ Sub(head, tail) < Capacity
      /\ Sub(p, tail) < Sub(head, tail)
  BY Distances DEF InRing
<1>2. Sub(p, tail) \in Nat /\ Sub(head, tail) \in Nat
  BY <1>1, SubCases, ModulusFacts DEF Word
<1>3. Sub(head, p) = Sub(head, tail) - Sub(p, tail)
  BY <1>1, <1>2, SubShift
<1>4. Sub(head, p) < Capacity /\ p # head
  BY <1>1, <1>2, <1>3, ModulusFacts
<1> QED
  BY <1>1, <1>4, IdxInjective

\* No step changes it.
LEMMA MessageKept ==
  ASSUME TypeOK, CounterOrder, [Next]_vars, NEW p \in Word, InRing(p)
  PROVE  slots'[idx(p)] = slots[idx(p)]
<1>1. idx(p) \in Index
  BY IdxType
<1> QED
  BY <1>1, OtherSlot, SlotWrites, Zenon

\* While the consumer works on a slot, the message there is in the ring.
LEMMA OldestInRing ==
  ASSUME TypeOK, CounterOrder, tail # head
  PROVE  InRing(tail)
<1>1. head \in Word /\ tail \in Word
  BY DEF TypeOK
<1>2. Sub(tail, tail) = 0 /\ Sub(head, tail) \in Nat /\ Sub(head, tail) >= 1
  BY <1>1, SubNat
<1> QED
  BY <1>2 DEF InRing

\* What prepare and finalize stamp is accepted by view in any slot.
LEMMA SealedIsValid ==
  ASSUME NEW b, Sealed(b), NEW i \in Nat, NEW verify \in BOOLEAN
  PROVE  validate(T, b, message_size(T), SlotAddr(i), verify) = "Ok"
<1>1. ~misaligned(T, SlotAddr(i))
  BY SlotsAligned DEF Sealed, Described
<1>2. Traits[T].size \in Nat
  BY TraitsAssumption, RingAssumption
<1>3. ~(message_size(T) < message_size(T))
  BY <1>2 DEF message_size, HeaderSize
<1>4. checksum_ok(b, Traits[T].size, verify)
  BY DEF Sealed, checksum_ok
<1> QED
  BY <1>1, <1>3, <1>4 DEF validate, Sealed, Described

\* prepare fails in no slot, or in every one.
LEMMA StampSucceeds ==
  ASSUME NEW i \in Nat
  PROVE  prepare_error(T, message_size(T), SlotAddr(i)) = "Ok" <=> ~OverAligned
<1>1. misaligned(T, SlotAddr(i)) <=> OverAligned
  BY SlotsAligned
<1>2. Traits[T].size \in Nat
  BY TraitsAssumption, RingAssumption
<1>3. ~(message_size(T) < message_size(T))
  BY <1>2 DEF message_size, HeaderSize
<1> QED
  BY <1>1, <1>3 DEF prepare_error

LEMMA SlotsStep ==
  ASSUME IInv, [Next]_vars
  PROVE  SlotsDescribed'
<1>t. /\ TypeOK /\ CounterOrder /\ SlotsDescribed /\ slots \in [Index -> Buffer]
      /\ head \in Word /\ tail \in Word /\ idx(head) \in Index /\ idx(head) \in Nat
  BY IdxType DEF IInv, TypeOK, Index
<1>k. \A p \in Word : InRing(p) => Sealed(slots'[idx(p)])
  BY <1>t, MessageKept DEF SlotsDescribed
<1>1. CASE prepare_write_stamp /\ ~OverAligned
  <2>1. /\ slots' = [slots EXCEPT ![idx(head)] = prepare(T, @)]
        /\ ppc' = "prepared" /\ UNCHANGED <<head, tail>>
    BY <1>1, <1>t, StampSucceeds DEF prepare_write_stamp
  <2>2. Described(slots'[idx(head)])
    BY <1>1, <1>t, <2>1 DEF Described, prepare
  <2> QED
    BY <1>k, <2>1, <2>2 DEF SlotsDescribed, InRing
<1>2. ASSUME NEW v \in Payload, write_payload(v) PROVE SlotsDescribed'
  <2>1. /\ slots' = [slots EXCEPT ![idx(head)].payload = v]
        /\ ppc = "prepared" /\ UNCHANGED <<head, tail, ppc>>
    BY <1>2 DEF write_payload, pvars
  <2>2. slots'[idx(head)] = [slots[idx(head)] EXCEPT !.payload = v]
    BY <1>t, <2>1
  <2>3. slots[idx(head)] \in Buffer /\ Described(slots[idx(head)])
    BY <1>t, <2>1 DEF SlotsDescribed
  <2>4. Described(slots'[idx(head)])
    BY <2>2, <2>3 DEF Described, Buffer
  <2> QED
    BY <1>k, <2>1, <2>4 DEF SlotsDescribed, InRing
<1>3. ASSUME NEW c \in BOOLEAN, commit_write_finalize(c) PROVE SlotsDescribed'
  <2>1. /\ slots' = [slots EXCEPT ![idx(head)] = finalize(T, @, c)]
        /\ ppc = "prepared" /\ ppc' = "finalized" /\ UNCHANGED <<head, tail>>
    BY <1>3 DEF commit_write_finalize
  <2>2. slots'[idx(head)] = finalize(T, slots[idx(head)], c)
    BY <1>t, <2>1
  <2>3. slots[idx(head)] \in Buffer /\ Described(slots[idx(head)])
    BY <1>t, <2>1 DEF SlotsDescribed
  <2>4. Sealed(slots'[idx(head)])
    BY <2>2, <2>3 DEF Sealed, Described, finalize, Buffer
  <2>5. Described(slots'[idx(head)])
    BY <2>4 DEF Sealed
  <2> QED
    BY <1>k, <2>1, <2>4, <2>5 DEF SlotsDescribed, InRing
<1>4. CASE commit_write_store
  <2>1. /\ head' = Inc(head) /\ ppc = "finalized" /\ ppc' = "idle"
        /\ UNCHANGED <<tail, slots>>
    BY <1>4 DEF commit_write_store
  <2>2. Sub(Inc(head), tail) = Sub(head, tail) + 1
    BY <1>t, Distances, SubInc
  <2>3. ASSUME NEW p \in Word, Sub(p, tail) < Sub(Inc(head), tail)
        PROVE  Sealed(slots[idx(p)])
    <3>1. CASE InRing(p)
      BY <1>t, <3>1 DEF SlotsDescribed
    <3>2. CASE ~InRing(p)
      <4>1. Sub(p, tail) \in Nat /\ Sub(head, tail) \in Nat
        BY <1>t, SubNat
      <4>2. Sub(p, tail) = Sub(head, tail)
        BY <2>2, <2>3, <3>2, <4>1 DEF InRing
      <4>3. p = head
        BY <1>t, <4>2, SubInjective
      <4> QED
        BY <1>t, <2>1, <4>3 DEF SlotsDescribed
    <3> QED
      BY <3>1, <3>2
  <2> QED
    BY <2>1, <2>3 DEF SlotsDescribed, InRing
<1>5. CASE commit_read
  <2>1. tail' = Inc(tail) /\ cpc = "viewing" /\ UNCHANGED <<head, slots, ppc>>
    BY <1>5 DEF commit_read, pvars
  <2>2. tail # head
    BY <1>t, <2>1, Distances DEF Reading
  <2>3. ASSUME NEW p \in Word, Sub(p, Inc(tail)) < Sub(head, Inc(tail))
        PROVE  InRing(p)
    <3>1. /\ Sub(tail, tail) = 0 /\ Sub(head, tail) \in Nat /\ Sub(head, tail) >= 1
          /\ Sub(p, tail) \in Nat
      BY <1>t, <2>2, SubNat
    <3>2. Inc(tail) \in Word /\ Sub(Inc(tail), tail) = 1
      BY <1>t, <3>1, SubInc, IncCases, ModulusFacts
    <3>3. /\ Sub(p, Inc(tail)) \in Nat /\ Sub(head, Inc(tail)) \in Nat
      BY <1>t, <3>2, SubNat
    <3>4. p \in Visible(Inc(tail), head)
      BY <2>3, <3>3 DEF Visible
    <3>5. Sub(p, tail) <= Sub(head, tail)
      BY <1>t, <3>1, <3>2, <3>4, VisibleBetween
    <3>6. p # head
      BY <2>3, <3>3
    <3>7. Sub(p, tail) # Sub(head, tail)
      BY <1>t, <3>6, SubInjective
    <3> QED
      BY <3>1, <3>5, <3>7 DEF InRing
  <2> QED
    BY <1>t, <2>1, <2>3 DEF SlotsDescribed, InRing
<1>6. CASE prepare_write_stamp /\ OverAligned
  <2>1. ppc' = "refused" /\ UNCHANGED <<head, tail, slots>>
    BY <1>6, <1>t, StampSucceeds DEF prepare_write_stamp
  <2> QED
    BY <2>1, <1>t DEF SlotsDescribed, InRing
<1>7. CASE UNCHANGED <<head, tail, slots>> /\ (ppc' = ppc \/ ppc' \notin {"prepared", "finalized"})
  BY <1>7, <1>t DEF SlotsDescribed, InRing
<1> QED
  BY <1>1, <1>2, <1>3, <1>4, <1>5, <1>6, <1>7
  DEF Next, Producer, Consumer, vars, pvars, prepare_write_load, full,
      peek_read_load, peek_read_view, read_item, empty

LEMMA AnswersStep ==
  ASSUME IInv, [Next]_vars
  PROVE  Answers'
<1>t. /\ TypeOK /\ CounterOrder /\ SlotsDescribed
      /\ head \in Word /\ tail \in Word /\ pTail \in Word /\ pSync \in Word
      /\ cHead \in Word /\ cSync \in Word
      /\ idx(head) \in Nat /\ idx(tail) \in Nat
  BY IdxType DEF IInv, TypeOK, Index
<1>a. /\ ppc = "refused" => is_full(head, pTail) \/ OverAligned
      /\ notFull => ~is_full(head, pTail)
      /\ notEmpty => cHead # tail /\ cpc # "refused"
  BY DEF IInv, Answers
\* A later load finds no less room than an earlier one.
<1>f. ASSUME NEW v \in Visible(pTail, tail) PROVE is_full(head, v) => is_full(head, pTail)
  <2>1. /\ Sub(pTail, pSync) <= Sub(tail, pSync) /\ Sub(tail, pSync) <= Sub(cSync, pSync)
        /\ Sub(cSync, pSync) <= Sub(cHead, pSync) /\ Sub(cHead, pSync) <= Sub(head, pSync)
    BY <1>t DEF CounterOrder
  <2>2. v \in Word /\ Sub(pTail, pSync) <= Sub(v, pSync) /\ Sub(v, pSync) <= Sub(tail, pSync)
    BY <1>t, <2>1, VisibleBetween
  <2>3. \A x \in Word : Sub(x, pSync) \in Nat
    BY <1>t, SubNat
  <2>4. Sub(v, pSync) <= Sub(head, pSync) /\ Sub(pTail, pSync) <= Sub(head, pSync)
    BY <1>t, <2>1, <2>2, <2>3
  <2>5. /\ Sub(head, v) = Sub(head, pSync) - Sub(v, pSync)
        /\ Sub(head, pTail) = Sub(head, pSync) - Sub(pTail, pSync)
    BY <1>t, <2>2, <2>4, SubShift
  <2> QED
    BY <1>t, <2>2, <2>3, <2>5, ModulusFacts DEF is_full
\* Nor a message less.
<1>e. ASSUME NEW v \in Visible(cHead, head), cHead # tail PROVE v # tail
  <2>1. Sub(cHead, pSync) <= Sub(head, pSync) /\ Sub(tail, pSync) < Sub(cHead, pSync)
    BY <1>t, <1>e, Distances DEF CounterOrder
  <2>2. v \in Word /\ Sub(cHead, pSync) <= Sub(v, pSync)
    BY <1>t, <2>1, VisibleBetween
  <2>3. \A x \in Word : Sub(x, pSync) \in Nat
    BY <1>t, SubNat
  <2> QED
    BY <1>t, <2>1, <2>2, <2>3
<1>1. ASSUME NEW v \in Word, prepare_write_load(v) PROVE Answers'
  BY <1>1, <1>a, <1>f DEF prepare_write_load, Answers, cvars
<1>2. CASE prepare_write_stamp
  BY <1>2, <1>a, <1>t, StampSucceeds DEF prepare_write_stamp, Answers, cvars
<1>3. ASSUME NEW v \in Payload, write_payload(v) PROVE Answers'
  BY <1>3, <1>a DEF write_payload, Answers, pvars, cvars
<1>4. ASSUME NEW c \in BOOLEAN, commit_write_finalize(c) PROVE Answers'
  BY <1>4, <1>a DEF commit_write_finalize, Answers, cvars
<1>5. CASE commit_write_store
  BY <1>5, <1>a DEF commit_write_store, Answers, cvars
<1>6. ASSUME NEW v \in Word, full(v) PROVE Answers'
  BY <1>6, <1>a DEF full, Answers, cvars
<1>7. ASSUME NEW v \in Word, peek_read_load(v) PROVE Answers'
  BY <1>7, <1>a, <1>e DEF peek_read_load, Answers, pvars
<1>8. ASSUME NEW c \in BOOLEAN, peek_read_view(c) PROVE Answers'
  <2>1. Sealed(slots[idx(tail)])
    BY <1>8, <1>t, Distances, OldestInRing DEF peek_read_view, Reading, SlotsDescribed
  <2>2. validate(T, slots[idx(tail)], message_size(T), SlotAddr(idx(tail)), c) = "Ok"
    BY <1>t, <2>1, SealedIsValid
  <2> QED
    BY <1>8, <1>a, <2>2 DEF peek_read_view, view_slot, Answers, pvars
<1>9. CASE read_item
  BY <1>9, <1>a DEF read_item, Answers, pvars
<1>10. CASE commit_read
  BY <1>10, <1>a DEF commit_read, Answers, pvars
<1>11. ASSUME NEW v \in Word, empty(v) PROVE Answers'
  BY <1>11, <1>a DEF empty, Answers, pvars
<1>12. CASE UNCHANGED vars
  BY <1>12, <1>a DEF vars, Answers, pvars, cvars
<1> QED
  BY <1>1, <1>2, <1>3, <1>4, <1>5, <1>6, <1>7, <1>8, <1>9, <1>10, <1>11, <1>12
  DEF Next, Producer, Consumer

LEMMA IInvInit == Init => IInv
<1> SUFFICES ASSUME Init PROVE IInv
  OBVIOUS
<1>1. 0 \in Word
  BY ModulusFacts DEF Word
<1>2. SlotsDescribed
  BY <1>1, SubNat DEF Init, SlotsDescribed, InRing
<1>3. Answers
  BY DEF Init, Answers
<1> QED
  BY <1>2, <1>3, TypeInit, OrderInit DEF IInv

LEMMA IInvStep ==
  IInv /\ [Next]_vars => IInv'
BY TypeStep, OrderStep, SlotsStep, AnswersStep DEF IInv

-----------------------------------------------------------------------------
(***************************************************************************)
(* The queue.                                                              *)
(***************************************************************************)

\* The i-th message counted from tail_, with and without the wrap.
LEMMA Position ==
  ASSUME TypeOK, NEW i \in 1 .. Modulus
  PROVE  \E p \in Word : Sub(p, tail) = i - 1 /\ idx(p) = idx(tail + i - 1)
<1>1. /\ tail \in Word /\ tail \in Nat /\ tail < Modulus /\ Modulus \in Nat
  BY ModulusFacts DEF TypeOK, Word
<1>2. CASE tail + i - 1 < Modulus
  <2>1. tail + i - 1 \in Word
    BY <1>1, <1>2 DEF Word
  <2>2. Sub(tail + i - 1, tail) = i - 1
    BY <1>1, <2>1, SubCases
  <2> QED
    BY <2>1, <2>2
<1>3. CASE tail + i - 1 >= Modulus
  <2> DEFINE p == tail + i - 1 - Modulus
  <2>1. p \in Word /\ p \in Nat /\ p + Modulus = tail + i - 1 /\ p < tail
    BY <1>1, <1>3 DEF Word
  <2>2. Sub(p, tail) = i - 1
    BY <1>1, <2>1, SubCases
  <2>3. idx(p) = idx(tail + i - 1)
    BY <2>1, IdxPeriodic
  <2> QED
    BY <2>1, <2>2, <2>3
<1> QED
  BY <1>1, <1>2, <1>3

\* A sequence is its elements.
LEMMA SequenceIs ==
  ASSUME NEW S, NEW n \in Nat, NEW f, f = [i \in 1 .. n |-> f[i]],
         \A i \in 1 .. n : f[i] \in S
  PROVE  f \in Seq(S) /\ Len(f) = n
<1>1. f \in [1 .. n -> S]
  OBVIOUS
<1> QED
  BY <1>1, IsASeq, LenProperties

QueueOK ==
  /\ queue \in Seq(Payload) /\ Len(queue) = Sub(head, tail)
  /\ \A i \in 1 .. Sub(head, tail) : queue[i] = slots[idx(tail + i - 1)].payload
  /\ Sub(head, tail) \in Nat /\ Sub(head, tail) <= Capacity

LEMMA QueueIs == TypeOK /\ CounterOrder => QueueOK
<1> SUFFICES ASSUME TypeOK, CounterOrder PROVE QueueOK
  OBVIOUS
<1> DEFINE n == Sub(head, tail)
<1>1. n \in Nat /\ n <= Capacity /\ n <= Modulus
  BY Distances, ModulusFacts
<1>2. \A i \in 1 .. n : slots[idx(tail + i - 1)].payload \in Payload
  <2> SUFFICES ASSUME NEW i \in 1 .. n PROVE slots[idx(tail + i - 1)].payload \in Payload
    OBVIOUS
  <2>1. i \in 1 .. Modulus
    BY <1>1, ModulusFacts
  <2>2. idx(tail + i - 1) \in Index
    BY <2>1, Position, IdxType
  <2> QED
    BY <2>2 DEF TypeOK, Buffer
<1>3. queue = [i \in 1 .. n |-> slots[idx(tail + i - 1)].payload]
  BY DEF queue
<1> HIDE DEF n
<1>4. queue \in Seq(Payload) /\ Len(queue) = n
  BY <1>1, <1>2, <1>3, SequenceIs
<1> QED
  BY <1>1, <1>3, <1>4 DEF n, QueueOK

\* While the counters stay, the queue does.
LEMMA QueueKept ==
  ASSUME TypeOK, CounterOrder, TypeOK', CounterOrder', [Next]_vars, UNCHANGED <<head, tail>>
  PROVE  queue' = queue
<1> DEFINE n == Sub(head, tail)
<1>0. n \in Nat /\ n <= Capacity
  BY QueueIs DEF QueueOK
<1>1. n \in Nat /\ n <= Modulus
  BY <1>0, ModulusFacts
<1>2. ASSUME NEW i \in 1 .. n PROVE slots'[idx(tail + i - 1)] = slots[idx(tail + i - 1)]
  <2>0. i \in 1 .. Modulus
    BY <1>1, ModulusFacts
  <2>1. PICK p \in Word : Sub(p, tail) = i - 1 /\ idx(p) = idx(tail + i - 1)
    BY <2>0, Position
  <2>2. InRing(p)
    BY <1>1, <2>1 DEF InRing
  <2> QED
    BY <2>1, <2>2, MessageKept
<1>3. queue = [i \in 1 .. n |-> slots[idx(tail + i - 1)].payload]
  BY DEF queue
<1>4. queue' = [i \in 1 .. n |-> slots'[idx(tail + i - 1)].payload]
  BY DEF queue
<1> HIDE DEF n
<1> QED
  BY <1>2, <1>3, <1>4

\* commit_write appends the message of the slot it publishes.
LEMMA CommitPuts ==
  ASSUME TypeOK, CounterOrder, TypeOK', CounterOrder', commit_write_store
  PROVE  \E v \in Payload : Fifo!Put(v)
<1> DEFINE n == Sub(head, tail)
           v == slots[idx(head)].payload
<1>1. /\ head' = Inc(head) /\ ppc = "finalized" /\ UNCHANGED <<tail, slots, item>>
  BY DEF commit_write_store, cvars
<1>2. /\ head \in Word /\ tail \in Word /\ n \in Nat /\ n < Capacity
  BY <1>1, Distances DEF Writing
<1>3. v \in Payload
  BY <1>2, IdxType DEF TypeOK, Buffer
<1>4. Sub(head', tail') = n + 1
  BY <1>1, <1>2, SubInc, ModulusFacts
<1>5. /\ queue \in Seq(Payload) /\ Len(queue) = n
      /\ \A i \in 1 .. n : queue[i] = slots[idx(tail + i - 1)].payload
  BY QueueIs DEF QueueOK
<1>6. /\ queue' \in Seq(Payload) /\ Len(queue') = n + 1
      /\ \A i \in 1 .. n + 1 : queue'[i] = slots[idx(tail + i - 1)].payload
  <2>1. QueueOK'
    BY QueueIs, PTL
  <2> QED
    BY <1>1, <1>4, <2>1 DEF QueueOK
<1>7. idx(tail + (n + 1) - 1) = idx(head)
  <2>1. n + 1 \in 1 .. Modulus
    BY <1>2, ModulusFacts
  <2>2. PICK p \in Word : Sub(p, tail) = (n + 1) - 1 /\ idx(p) = idx(tail + (n + 1) - 1)
    BY <2>1, Position
  <2>3. p = head
    BY <1>2, <2>2, SubInjective
  <2> QED
    BY <2>2, <2>3
<1> HIDE DEF n, v
<1>8. queue'[n + 1] = v
  BY <1>2, <1>6, <1>7 DEF v
<1>9. queue' = Append(queue, v)
  <2>1. /\ Append(queue, v) \in Seq(Payload) /\ Len(Append(queue, v)) = n + 1
        /\ \A i \in 1 .. n : Append(queue, v)[i] = queue[i]
        /\ Append(queue, v)[n + 1] = v
    BY <1>2, <1>3, <1>5, AppendProperties
  <2>2. \A i \in 1 .. n + 1 : queue'[i] = Append(queue, v)[i]
    BY <1>2, <1>5, <1>6, <1>8, <2>1
  <2> QED
    BY <1>6, <2>1, <2>2, SeqEqual
<1>10. Len(queue) < Capacity
  BY <1>2, <1>5
<1> QED
  BY <1>1, <1>3, <1>9, <1>10 DEF Fifo!Put

\* commit_read removes the oldest message.
LEMMA CommitRemoves ==
  ASSUME TypeOK, CounterOrder, TypeOK', CounterOrder', commit_read
  PROVE  Fifo!Remove
<1> DEFINE n == Sub(head, tail)
<1>1. /\ tail' = Inc(tail) /\ cpc = "viewing" /\ item' = NoItem /\ UNCHANGED <<head, slots>>
  BY DEF commit_read
<1>2. /\ head \in Word /\ tail \in Word /\ n \in Nat /\ n <= Capacity /\ n >= 1
  BY <1>1, Distances, SubNat DEF Reading
<1>3. Sub(head', tail') = n - 1
  <2>1. Sub(tail, tail) = 0
    BY <1>2, SubNat
  <2>2. Inc(tail) \in Word /\ Sub(Inc(tail), tail) = 1
    BY <1>2, <2>1, SubInc, IncCases, ModulusFacts
  <2> QED
    BY <1>1, <1>2, <2>2, SubShift
<1>4. /\ queue \in Seq(Payload) /\ Len(queue) = n
      /\ \A i \in 1 .. n : queue[i] = slots[idx(tail + i - 1)].payload
  BY QueueIs DEF QueueOK
<1>5. /\ queue' \in Seq(Payload) /\ Len(queue') = n - 1
      /\ \A i \in 1 .. n - 1 : queue'[i] = slots[idx(Inc(tail) + i - 1)].payload
  <2>1. QueueOK'
    BY QueueIs, PTL
  <2> QED
    BY <1>1, <1>3, <2>1 DEF QueueOK
<1>6. ASSUME NEW i \in 1 .. n - 1 PROVE idx(Inc(tail) + i - 1) = idx(tail + (i + 1) - 1)
  <2>1. tail \in Nat /\ Modulus \in Nat
    BY <1>2, ModulusFacts DEF Word
  <2>2. CASE tail = Modulus - 1
    <3>1. Inc(tail) + i - 1 \in Nat /\ tail + (i + 1) - 1 = (Inc(tail) + i - 1) + Modulus
      BY <1>2, <2>1, <2>2, IncCases
    <3> QED
      BY <3>1, IdxPeriodic
  <2>3. CASE tail # Modulus - 1
    BY <1>2, <2>1, <2>3, IncCases
  <2> QED
    BY <2>2, <2>3
<1> HIDE DEF n
<1>7. queue # <<>>
  BY <1>2, <1>4
<1>8. queue' = Tail(queue)
  <2>1. /\ Tail(queue) \in Seq(Payload) /\ Len(Tail(queue)) = n - 1
        /\ \A i \in 1 .. n - 1 : Tail(queue)[i] = queue[i + 1]
    BY <1>2, <1>4, <1>7, HeadTailProperties
  <2>2. ASSUME NEW i \in 1 .. n - 1 PROVE queue'[i] = Tail(queue)[i]
    <3>1. i + 1 \in 1 .. n
      BY <1>2
    <3>2. queue[i + 1] = slots[idx(tail + (i + 1) - 1)].payload
      BY <1>4, <3>1
    <3> QED
      BY <1>5, <1>6, <2>1, <3>2
  <2> QED
    BY <1>5, <2>1, <2>2, SeqEqual
<1> QED
  BY <1>1, <1>7, <1>8 DEF Fifo!Remove

\* Every step of the ring is a step of the queue, or none.
LEMMA FifoStep ==
  ASSUME TypeOK, CounterOrder, TypeOK', CounterOrder', [Next]_vars
  PROVE  [Fifo!Next]_Fifo!vars
<1>1. CASE commit_write_store
  BY <1>1, CommitPuts DEF Fifo!Next
<1>2. CASE commit_read
  BY <1>2, CommitRemoves DEF Fifo!Next
<1>3. CASE read_item
  <2>1. cpc = "viewing" /\ item' = slots[idx(tail)].payload /\ UNCHANGED <<head, tail>>
    BY <1>3 DEF read_item, view_slot, pvars
  <2>2. head \in Word /\ tail \in Word /\ tail # head
    BY <2>1, Distances DEF Reading
  <2>3. Sub(head, tail) >= 1 /\ tail + 1 - 1 = tail
    BY <2>2, SubNat DEF Word
  <2>4. queue # <<>> /\ queue[1] = slots[idx(tail)].payload
    BY <2>3, QueueIs DEF QueueOK
  <2>5. queue' = queue
    BY <2>1, QueueKept
  <2> QED
    BY <2>1, <2>4, <2>5 DEF Fifo!Next, Fifo!Look
<1>4. ASSUME NEW v \in Word, peek_read_load(v) PROVE Fifo!LookAway
  <2>1. item' = NoItem /\ UNCHANGED <<head, tail>>
    BY <1>4 DEF peek_read_load
  <2> QED
    BY <2>1, QueueKept DEF Fifo!LookAway
<1>5. CASE UNCHANGED <<head, tail, item>>
  BY <1>5, QueueKept DEF Fifo!vars
<1> QED
  BY <1>1, <1>2, <1>3, <1>4, <1>5
  DEF Next, Producer, Consumer, vars, pvars, cvars, Fifo!Next, prepare_write_load,
      full, prepare_write_stamp, write_payload, commit_write_finalize,
      peek_read_view, empty

-----------------------------------------------------------------------------
\* The ring implements the bounded queue, for every capacity and every width
\* of the counters: what pop, consume and peek_read deliver is what was
\* committed, once each and in order, and at most Capacity messages wait.
THEOREM RingIsFifo == Spec => ImplementsFifo
<1>1. Init => Fifo!Init
  <2> SUFFICES ASSUME Init PROVE queue = <<>> /\ item = NoItem
    BY DEF Fifo!Init
  <2>1. TypeOK /\ CounterOrder /\ 0 \in Word
    BY TypeInit, OrderInit, ModulusFacts DEF Word
  <2>2. Len(queue) = 0 /\ queue \in Seq(Payload)
    BY <2>1, QueueIs, SubNat DEF Init, QueueOK
  <2> QED
    BY <2>2 DEF Init
<1>2. TypeOK /\ CounterOrder /\ TypeOK' /\ CounterOrder' /\ [Next]_vars
        => [Fifo!Next]_Fifo!vars
  BY FifoStep
<1> QED
  BY <1>1, <1>2, TypeCorrect, CountersOrdered, PTL DEF Spec, ImplementsFifo, Fifo!Spec

\* view accepts every committed message, whichever of the two sides asked for
\* a checksum and whatever the slot held before.
THEOREM MessagesAreValid == Spec => []CommittedIsValid
<1>1. IInv => CommittedIsValid
  <2> SUFFICES ASSUME IInv, NEW i \in 1 .. Sub(head, tail), NEW verify \in BOOLEAN
               PROVE  validate(T, slots[idx(tail + i - 1)], message_size(T),
                               SlotAddr(idx(tail + i - 1)), verify) = "Ok"
    BY DEF CommittedIsValid
  <2>1. /\ TypeOK /\ CounterOrder /\ SlotsDescribed
        /\ Sub(head, tail) \in Nat /\ Sub(head, tail) <= Capacity
    BY QueueIs DEF IInv, QueueOK
  <2>2. i \in 1 .. Modulus
    BY <2>1, ModulusFacts
  <2>3. PICK p \in Word : Sub(p, tail) = i - 1 /\ idx(p) = idx(tail + i - 1)
    BY <2>1, <2>2, Position
  <2>4. InRing(p)
    BY <2>1, <2>3 DEF InRing
  <2>5. Sealed(slots[idx(p)]) /\ idx(p) \in Nat
    BY <2>1, <2>4, IdxType DEF SlotsDescribed, Index
  <2> QED
    BY <2>3, <2>5, SealedIsValid
<1> QED
  BY <1>1, IInvInit, IInvStep, PTL DEF Spec

\* For a type of any alignment: prepare_write returns nullptr only when the
\* ring looks full, or always, because the type is aligned to more than the
\* header's size.
THEOREM RefusalsMeanFull == Spec => []RefusedOnlyWhenFull
<1>1. IInv => RefusedOnlyWhenFull
  BY DEF IInv, Answers, SlotsDescribed, Described, RefusedOnlyWhenFull
<1> QED
  BY <1>1, IInvInit, IInvStep, PTL DEF Spec

\* After full() or empty() said no, the caller's next prepare_write or
\* peek_read is not refused, although the loads are relaxed: prepare_write of
\* an over-aligned type only is.
THEOREM AnswersCanBeActedOn == Spec => []AnswersHold
<1>1. IInv => AnswersHold
  BY DEF IInv, Answers, AnswersHold
<1> QED
  BY <1>1, IInvInit, IInvStep, PTL DEF Spec

=============================================================================
