--------------------------- MODULE PortableProofs ---------------------------
(***************************************************************************)
(* Proofs about the portable encoding and the containers of its messages,  *)
(* for every message, text, capacity and checksum function.                *)
(***************************************************************************)
EXTENDS Portable, SequenceTheorems, WellFoundedInduction, TLAPS

Byte == 0 .. 255

-----------------------------------------------------------------------------
(***************************************************************************)
(* Byte order.                                                             *)
(***************************************************************************)

\* Swapping twice changes nothing.
LEMMA SwapTwice ==
  ASSUME NEW S, NEW w \in Seq(S)
  PROVE  /\ byte_swap(w) \in Seq(S) /\ Len(byte_swap(w)) = Len(w)
         /\ byte_swap(byte_swap(w)) = w
<1> DEFINE s == byte_swap(w)
<1>1. Len(w) \in Nat
  OBVIOUS
<1>2. \A i \in 1 .. Len(w) : w[Len(w) + 1 - i] \in S
  BY <1>1
<1>3. s \in [1 .. Len(w) -> S]
  BY <1>2 DEF byte_swap
<1>4. s \in Seq(S) /\ Len(s) = Len(w)
  BY <1>1, <1>3, IsASeq, LenProperties
<1>5. \A i \in 1 .. Len(w) : s[i] = w[Len(w) + 1 - i]
  BY DEF byte_swap
<1>6. byte_swap(s) = [i \in 1 .. Len(w) |-> s[Len(w) + 1 - i]]
  BY <1>4 DEF byte_swap
<1>7. \A i \in 1 .. Len(w) : s[Len(w) + 1 - i] = w[i]
  <2> SUFFICES ASSUME NEW i \in 1 .. Len(w) PROVE s[Len(w) + 1 - i] = w[i]
    OBVIOUS
  <2>1. Len(w) + 1 - i \in 1 .. Len(w) /\ Len(w) + 1 - (Len(w) + 1 - i) = i
    BY <1>1
  <2> QED
    BY <2>1, <1>5
<1>8. byte_swap(s) = [i \in 1 .. Len(w) |-> w[i]]
  BY <1>6, <1>7
<1>9. w = [i \in 1 .. Len(w) |-> w[i]]
  OBVIOUS
<1> QED
  BY <1>4, <1>8, <1>9

\* What a host stores it loads again, and what it puts into the order of the
\* wire another one gets out of it.
LEMMA HostOrder ==
  ASSUME NEW host \in Endian, NEW S, NEW w \in Seq(S)
  PROVE  /\ native(host, native(host, w)) = w
         /\ stored(host, w) = w /\ loaded(host, w) = w
BY SwapTwice DEF native, to_little_endian, stored, loaded, Endian

\* A number of 16 or 32 bits as its bytes.
LEMMA Words ==
  ASSUME NEW n \in Nat
  PROVE  u16(n) \in Seq(Byte) /\ u32(n) \in Seq(Byte) /\ Len(u32(n)) = 4
<1>1. \A k \in Nat : k % 256 \in Byte
  BY DEF Byte
<1>2. n \div 256 \in Nat /\ n \div 65536 \in Nat /\ n \div 16777216 \in Nat
  OBVIOUS
<1> QED
  BY <1>1, <1>2 DEF u16, u32

\* Sizes of 16 bits are below it.
SizeLimit == 65536

\* A number of 16 bits as two bytes.
SplitsInTwo(n) ==
  /\ n \div 256 \in 0 .. 255 /\ (n \div 256) % 256 = n \div 256
  /\ n % 256 \in 0 .. 255 /\ n = 256 * (n \div 256) + (n % 256)
  /\ n \div 65536 = 0 /\ n \div 16777216 = 0

LEMMA SmallNumber ==
  ASSUME NEW n \in Nat, n < SizeLimit
  PROVE  SplitsInTwo(n)
<1>0. n < 65536
  BY SMT DEF SizeLimit
<1>1. n = 256 * (n \div 256) + (n % 256) /\ n % 256 \in 0 .. 255 /\ n \div 256 \in Int
  BY SMT
<1>2. n \div 256 >= 0 /\ n \div 256 < 256
  BY <1>0, <1>1, SMT
<1>3. \A q \in Int : q >= 0 /\ q < 256 => q % 256 = q
  BY SMT
<1>4. (n \div 256) % 256 = n \div 256
  BY <1>1, <1>2, <1>3, SMT
<1>5. n \div 65536 = 0 /\ n \div 16777216 = 0
  BY <1>0, SMT
<1> QED
  BY <1>1, <1>2, <1>4, <1>5, SMT DEF SplitsInTwo

\* Read back, it is the number that was written ...
LEMMA NumberRead ==
  ASSUME NEW n \in Nat, n < SizeLimit
  PROVE  number(u32(n)) = n
<1>1. SplitsInTwo(n)
  BY SmallNumber
<1>2. u32(n) = <<n % 256, n \div 256, 0, 0>>
  BY <1>1 DEF u32, SplitsInTwo
<1>3. number(u32(n)) = (n % 256) + 256 * (n \div 256)
  BY <1>1, <1>2 DEF number, SplitsInTwo
<1> QED
  BY <1>1, <1>3 DEF SplitsInTwo

LEMMA FourSwapped ==
  ASSUME NEW a \in Byte, NEW b \in Byte, NEW c \in Byte, NEW d \in Byte
  PROVE  byte_swap(<<a, b, c, d>>) = <<d, c, b, a>>
<1> DEFINE w == <<a, b, c, d>>
<1>1. byte_swap(w) = [i \in 1 .. 4 |-> w[5 - i]]
  BY DEF byte_swap
<1>2. \A i \in 1 .. 4 : w[5 - i] = <<d, c, b, a>>[i]
  OBVIOUS
<1>3. <<d, c, b, a>> = [i \in 1 .. 4 |-> <<d, c, b, a>>[i]]
  OBVIOUS
<1> QED
  BY <1>1, <1>2, <1>3

\* ... and read with its bytes reversed, a larger one than any capacity.
LEMMA NumberReversed ==
  ASSUME NEW n \in Nat, n < SizeLimit, n # 0
  PROVE  number(byte_swap(u32(n))) \in Nat /\ number(byte_swap(u32(n))) >= SizeLimit
<1>1. SplitsInTwo(n)
  BY SmallNumber
<1>2. n % 256 \in Byte /\ n \div 256 \in Byte /\ 0 \in Byte
  BY <1>1, SMT DEF SplitsInTwo, Byte
<1>3. u32(n) = <<n % 256, n \div 256, 0, 0>> /\ n = 256 * (n \div 256) + (n % 256)
  BY <1>1, SMT DEF u32, SplitsInTwo
<1>4. PICK q \in Byte, r \in Byte : n = 256 * q + r /\ u32(n) = <<r, q, 0, 0>>
  BY <1>2, <1>3, SMT
<1>5. byte_swap(<<r, q, 0, 0>>) = <<0, 0, q, r>>
  BY <1>2, FourSwapped, SMT
<1>6. number(<<0, 0, q, r>>) = 256 * (256 * (q + 256 * r))
  BY SMT DEF number, Byte
<1>7. q + 256 * r >= 1
  BY <1>4, SMT DEF Byte
<1>8. number(byte_swap(u32(n))) = 256 * (256 * (q + 256 * r))
  BY <1>4, <1>5, <1>6, SMT
<1> QED
  BY <1>7, <1>8, SMT DEF Byte, SizeLimit

-----------------------------------------------------------------------------
(***************************************************************************)
(* The inductive invariant: no size exceeds its capacity.                  *)
(***************************************************************************)
IInv ==
  /\ vec \in Vector /\ seq \in Scalar
  /\ str = [data |-> str.data, size |-> str.size] /\ str.size \in 0 .. StrCapacity

LEMMA InvInit == Init => IInv
<1> SUFFICES ASSUME Init PROVE IInv
  OBVIOUS
<1> QED
  BY ContainersAssumption DEF Init, ContainersInit, IInv, Vector

LEMMA PutSize ==
  ASSUME IInv, NEW src, src.len \in Nat, NEW dst \in Nat, NEW room \in Nat,
         dst + room = StrCapacity, put(src, dst, room)
  PROVE  str' = [data |-> str'.data, size |-> str'.size] /\ str'.size \in 0 .. StrCapacity
<1> DEFINE n == IF src.len < room THEN src.len ELSE room
           d == [copy(src, dst, n) EXCEPT ![dst + n] = NUL]
<1>1. str' = [data |-> d, size |-> dst + n]
  BY DEF put
<1>2. n \in 0 .. room
  OBVIOUS
<1> HIDE DEF n, d
<1> QED
  BY <1>1, <1>2, ContainersAssumption

LEMMA InvStep == IInv /\ [Next]_vars => IInv'
<1> SUFFICES ASSUME IInv, [Next]_vars PROVE IInv'
  OBVIOUS
<1>1. CASE UNCHANGED vars
  BY <1>1 DEF vars, containers, IInv, Vector
<1>2. CASE Next
  <2> USE <1>2 DEF IInv
  <2>1. seq' = seq
    BY DEF Next
  <2>2. ASSUME NEW v \in Elem, push_back(v) PROVE IInv'
    BY <2>1, <2>2, ContainersAssumption DEF push_back, full, Vector
  <2>3. ASSUME NEW v \in Elem, NEW n \in 0 .. VecCapacity + 1, resize(n, v) PROVE IInv'
    BY <2>1, <2>3, ContainersAssumption DEF resize, Vector
  <2>4. ASSUME NEW v \in Elem, NEW i \in 0 .. VecCapacity - 1, write_elem(i, v) PROVE IInv'
    BY <2>1, <2>4 DEF write_elem, Vector
  <2>5. CASE pop_back
    BY <2>1, <2>5, ContainersAssumption DEF pop_back, Vector
  <2>6. CASE clear_vector
    BY <2>1, <2>6, ContainersAssumption DEF clear_vector, Vector
  <2>7. ASSUME NEW src \in Sources PROVE src.len \in Nat
    <3>1. CASE src \in {TextSource(t) : t \in Texts}
      BY <3>1, ContainersAssumption DEF TextSource
    <3>2. CASE src \in {OwnSource(o, n) : o \in 0 .. str.size, n \in 0 .. str.size}
      BY <3>2 DEF OwnSource
    <3> QED
      BY <2>7, <3>1, <3>2 DEF Sources
  <2>8. ASSUME NEW src \in Sources, assign(src) PROVE IInv'
    <3>1. 0 + StrCapacity = StrCapacity /\ StrCapacity \in Nat
      BY ContainersAssumption
    <3> QED
      BY <2>1, <2>7, <2>8, <3>1, PutSize DEF assign, Vector
  <2>9. ASSUME NEW src \in Sources, append(src) PROVE IInv'
    <3>1. /\ str.size \in Nat /\ StrCapacity - str.size \in Nat
          /\ str.size + (StrCapacity - str.size) = StrCapacity
      BY ContainersAssumption
    <3> QED
      BY <2>1, <2>7, <2>9, <3>1, PutSize DEF append, Vector
  <2>10. ASSUME NEW i \in 0 .. StrCapacity - 1, NEW c \in Char, write_char(i, c)
         PROVE IInv'
    <3>1. vec' = vec /\ str' = [str EXCEPT !.data[i] = c]
      BY <2>10 DEF write_char
    <3>2. str' = [data |-> [str.data EXCEPT ![i] = c], size |-> str.size]
      BY <3>1
    <3> QED
      BY <2>1, <3>1, <3>2 DEF Vector
  <2>11. CASE clear_string
    BY <2>1, <2>11, ContainersAssumption DEF clear_string, Vector
  <2> QED
    BY <2>2, <2>3, <2>4, <2>5, <2>6, <2>8, <2>9, <2>10, <2>11 DEF Next, ContainersNext
<1> QED
  BY <1>1, <1>2
-----------------------------------------------------------------------------
(***************************************************************************)
(* Messages across byte orders.                                            *)
(***************************************************************************)

\* Scalars and elements are words, as checksums are, the fields with a case in
\* portable_swap are listed, and sizes have 16 bits.
Portability ==
  /\ Elem \subseteq Seq(Byte) /\ Scalar \subseteq Seq(Byte)
  /\ \A p : Crc(p) \in Seq(Byte)
  /\ Id \in Nat /\ Version \in Nat /\ PayloadSize \in Nat
  /\ {"seq", "device_id", "voltages"} \subseteq Reflected
  /\ VecCapacity < SizeLimit /\ StrCapacity < SizeLimit

\* The payload p is the sender's message in the order of the wire, but for
\* the elements that are not used.
IsWireForm(p) ==
  /\ p = [seq |-> seq, device_id |-> [data |-> str.data, size |-> u32(str.size)],
          voltages |-> [data |-> p.voltages.data, size |-> u32(vec.size)],
          raw |-> p.raw]
  /\ p.voltages.data \in [0 .. VecCapacity - 1 -> Seq(Byte)]
  /\ \A i \in 0 .. vec.size - 1 : p.voltages.data[i] = vec.data[i]

LEMMA Sizes ==
  ASSUME Portability, IInv
  PROVE  /\ vec.size \in Nat /\ vec.size < SizeLimit /\ vec.size <= VecCapacity
         /\ str.size \in Nat /\ str.size < SizeLimit
         /\ seq \in Seq(Byte) /\ vec.data \in [0 .. VecCapacity - 1 -> Seq(Byte)]
<1>1. VecCapacity \in Nat /\ StrCapacity \in Nat
  BY ContainersAssumption, SMT
<1>2. vec.size \in 0 .. VecCapacity /\ str.size \in 0 .. StrCapacity
  BY SMT DEF IInv, Vector
<1>3. vec.data \in [0 .. VecCapacity - 1 -> Elem]
  BY SMT DEF IInv, Vector
<1>4. seq \in Seq(Byte) /\ vec.data \in [0 .. VecCapacity - 1 -> Seq(Byte)]
  BY <1>3, SMT DEF IInv, Portability
<1>5. VecCapacity < SizeLimit /\ StrCapacity < SizeLimit
  BY Zenon DEF Portability
<1>6. SizeLimit \in Nat
  BY SMT DEF SizeLimit
<1>7. vec.size \in Nat /\ vec.size < SizeLimit /\ vec.size <= VecCapacity
  BY <1>1, <1>2, <1>5, <1>6, SMT
<1>8. str.size \in Nat /\ str.size < SizeLimit
  BY <1>1, <1>2, <1>5, <1>6, SMT
<1> QED
  BY <1>4, <1>7, <1>8, Zenon

\* What a big-endian host makes of a vector whose size it reads as at least
\* the number of elements in use.
LEMMA VectorSwapped ==
  ASSUME NEW v, NEW host, v.data \in [0 .. VecCapacity - 1 -> Seq(Byte)]
  PROVE  LET w == swap_vector(host, v)
         IN  /\ w = [data |-> w.data, size |-> byte_swap(v.size)]
             /\ w.data \in [0 .. VecCapacity - 1 -> Seq(Byte)]
             /\ \A i \in 0 .. VecCapacity - 1 :
                  i < count(host, v) => w.data[i] = byte_swap(v.data[i])
<1> DEFINE d == [i \in DOMAIN v.data |->
                   IF i < count(host, v) THEN byte_swap(v.data[i]) ELSE v.data[i]]
<1>1. swap_vector(host, v) = [data |-> d, size |-> byte_swap(v.size)]
  BY SMT DEF swap_vector
<1>2. \A i \in 0 .. VecCapacity - 1 : byte_swap(v.data[i]) \in Seq(Byte)
  BY SwapTwice
<1>3. d \in [0 .. VecCapacity - 1 -> Seq(Byte)]
  BY <1>2
<1>4. \A i \in 0 .. VecCapacity - 1 : i < count(host, v) => d[i] = byte_swap(v.data[i])
  OBVIOUS
<1> HIDE DEF d
<1> QED
  BY <1>1, <1>3, <1>4, SMT

LEMMA SwapFields ==
  ASSUME Portability, NEW host, NEW m
  PROVE  portable_swap(host, m)
           = [seq |-> byte_swap(m.seq), device_id |-> swap_string(m.device_id),
              voltages |-> swap_vector(host, m.voltages), raw |-> m.raw]
<1>1. "seq" \in Reflected /\ "device_id" \in Reflected /\ "voltages" \in Reflected
  BY SMT DEF Portability
<1> QED
  BY <1>1, SMT DEF portable_swap

LEMMA SameFunction ==
  ASSUME NEW D, NEW S, NEW f \in [D -> S]
  PROVE  [i \in D |-> f[i]] = f
OBVIOUS

\* A payload in the order of the wire, put together from its parts.
LEMMA WireFormParts ==
  ASSUME NEW d \in [0 .. VecCapacity - 1 -> Seq(Byte)], NEW r,
         \A i \in 0 .. vec.size - 1 : d[i] = vec.data[i]
  PROVE  IsWireForm([seq |-> seq, device_id |-> [data |-> str.data, size |-> u32(str.size)],
                     voltages |-> [data |-> d, size |-> u32(vec.size)], raw |-> r])
<1> DEFINE p == [seq |-> seq, device_id |-> [data |-> str.data, size |-> u32(str.size)],
                 voltages |-> [data |-> d, size |-> u32(vec.size)], raw |-> r]
<1>1. p.voltages.data = d /\ p.raw = r
  OBVIOUS
<1>2. p = [seq |-> seq, device_id |-> [data |-> str.data, size |-> u32(str.size)],
           voltages |-> [data |-> p.voltages.data, size |-> u32(vec.size)], raw |-> p.raw]
  BY <1>1
<1> HIDE DEF p
<1> QED
  BY <1>1, <1>2 DEF IsWireForm, p

\* What is sent is in the order of the wire.
LEMMA WireForm ==
  ASSUME Portability, IInv, NEW host \in Endian
  PROVE  IsWireForm(normalized(host, message(host)))
<1>0. /\ vec.size \in Nat /\ vec.size <= VecCapacity /\ VecCapacity \in Nat
      /\ str.size \in Nat /\ seq \in Seq(Byte)
      /\ vec.data \in [0 .. VecCapacity - 1 -> Seq(Byte)]
  BY Sizes, ContainersAssumption, SMT
<1>1. CASE host = "little"
  <2>1. message(host) =
          [seq |-> seq, device_id |-> [data |-> str.data, size |-> u32(str.size)],
           voltages |-> [data |-> [i \in 0 .. VecCapacity - 1 |-> vec.data[i]],
                         size |-> u32(vec.size)],
           raw |-> [i \in 1 .. 2 |-> raw[i]]]
    BY <1>1, SMT DEF message, native, to_little_endian
  <2>2. normalized(host, message(host)) = message(host)
    BY <1>1, SMT DEF normalized
  <2> DEFINE d == [i \in 0 .. VecCapacity - 1 |-> vec.data[i]]
  <2>3. d = vec.data
    BY <1>0, SameFunction, Zenon
  <2>4. \A i \in 0 .. vec.size - 1 : d[i] = vec.data[i]
    BY <2>3, Zenon
  <2>5. d \in [0 .. VecCapacity - 1 -> Seq(Byte)]
    BY <1>0, <2>3, Zenon
  <2> QED
    BY <2>1, <2>2, <2>4, <2>5, WireFormParts, Zenon
<1>2. CASE host = "big"
  <2> DEFINE v == [data |-> [i \in 0 .. VecCapacity - 1 |-> byte_swap(vec.data[i])],
                   size |-> byte_swap(u32(vec.size))]
             r == [i \in 1 .. 2 |-> byte_swap(raw[i])]
  <2>1. message(host) =
          [seq |-> byte_swap(seq),
           device_id |-> [data |-> str.data, size |-> byte_swap(u32(str.size))],
           voltages |-> v, raw |-> r]
    BY <1>2, SMT DEF message, native, to_little_endian
  <2>2. /\ u32(str.size) \in Seq(Byte) /\ byte_swap(byte_swap(u32(str.size))) = u32(str.size)
        /\ u32(vec.size) \in Seq(Byte) /\ byte_swap(byte_swap(u32(vec.size))) = u32(vec.size)
        /\ byte_swap(byte_swap(seq)) = seq
    <3>1. u32(str.size) \in Seq(Byte) /\ u32(vec.size) \in Seq(Byte)
      BY <1>0, Words, Zenon
    <3> QED
      BY <1>0, <3>1, SwapTwice, Zenon
  <2>3. \A i \in 0 .. VecCapacity - 1 :
          byte_swap(vec.data[i]) \in Seq(Byte) /\ byte_swap(byte_swap(vec.data[i])) = vec.data[i]
    <3> SUFFICES ASSUME NEW i \in 0 .. VecCapacity - 1
                 PROVE  /\ byte_swap(vec.data[i]) \in Seq(Byte)
                        /\ byte_swap(byte_swap(vec.data[i])) = vec.data[i]
      OBVIOUS
    <3>1. vec.data[i] \in Seq(Byte)
      BY <1>0, SMT
    <3> QED
      BY <3>1, SwapTwice, Zenon
  <2>4. v.data \in [0 .. VecCapacity - 1 -> Seq(Byte)] /\ v.size = byte_swap(u32(vec.size))
    BY <2>3, SMT
  <2>5. count(host, v) = vec.size
    <3>1. native(host, v.size) = u32(vec.size)
      BY <1>2, <2>2, <2>4, SMT DEF native, to_little_endian
    <3>2. number(u32(vec.size)) = vec.size
      BY Sizes, NumberRead, SMT
    <3> QED
      BY <3>1, <3>2, Sizes, SMT DEF count
  <2>6. \A i \in 0 .. VecCapacity - 1 : v.data[i] = byte_swap(vec.data[i])
    OBVIOUS
  <2> HIDE DEF v, r
  <2> DEFINE w == swap_vector(host, v)
  <2>7. /\ w = [data |-> w.data, size |-> byte_swap(v.size)]
        /\ w.data \in [0 .. VecCapacity - 1 -> Seq(Byte)]
        /\ \A i \in 0 .. VecCapacity - 1 : i < vec.size => w.data[i] = byte_swap(v.data[i])
    BY <2>4, <2>5, VectorSwapped, SMT
  <2>8. normalized(host, message(host)) =
          [seq |-> seq, device_id |-> [data |-> str.data, size |-> u32(str.size)],
           voltages |-> w, raw |-> r]
    <3>1. swap_string([data |-> str.data, size |-> byte_swap(u32(str.size))])
            = [data |-> str.data, size |-> u32(str.size)]
      BY <2>2, SMT DEF swap_string
    <3>2. normalized(host, message(host)) = portable_swap(host, message(host))
      BY <1>2, SMT DEF normalized
    <3>3. portable_swap(host, message(host)) =
            [seq |-> byte_swap(byte_swap(seq)),
             device_id |-> swap_string([data |-> str.data, size |-> byte_swap(u32(str.size))]),
             voltages |-> w, raw |-> r]
      BY <2>1, SwapFields, SMT
    <3> QED
      BY <2>2, <3>1, <3>2, <3>3, SMT
  <2> HIDE DEF w
  <2>9. \A i \in 0 .. vec.size - 1 : w.data[i] = vec.data[i]
    <3> SUFFICES ASSUME NEW i \in 0 .. vec.size - 1 PROVE w.data[i] = vec.data[i]
      OBVIOUS
    <3>1. i \in 0 .. VecCapacity - 1 /\ i < vec.size
      BY <1>0, SMT
    <3> QED
      BY <2>3, <2>6, <2>7, <3>1, SMT
  <2> QED
    BY <2>2, <2>4, <2>7, <2>8, <2>9, WireFormParts, Zenon
<1> QED
  BY <1>1, <1>2, SMT DEF Endian
\* What the sender's program sees in its message, and what a program sees in
\* any message m that shows the same.
Meaning ==
  [seq |-> seq, text |-> <<str.size, [i \in 0 .. StrCapacity |-> str.data[i]]>>,
   items |-> <<vec.size, [i \in 0 .. vec.size - 1 |-> vec.data[i]]>>]

LEMMA ShownParts ==
  ASSUME NEW host, NEW m,
         native(host, m.seq) = seq,
         size_of(host, m.device_id) = str.size, m.device_id.data = str.data,
         size_of(host, m.voltages) = vec.size,
         \A i \in 0 .. vec.size - 1 : native(host, m.voltages.data[i]) = vec.data[i]
  PROVE  shown(host, m) = Meaning
<1>1. [i \in 0 .. vec.size - 1 |-> native(host, m.voltages.data[i])]
        = [i \in 0 .. vec.size - 1 |-> vec.data[i]]
  OBVIOUS
<1> QED
  BY <1>1, Zenon DEF shown, Meaning

LEMMA ShownSent ==
  ASSUME Portability, IInv, NEW host \in Endian
  PROVE  shown(host, message(host)) = Meaning
<1> DEFINE m == message(host)
<1>1. /\ vec.size \in Nat /\ vec.size < SizeLimit /\ vec.size <= VecCapacity
      /\ VecCapacity \in Nat /\ str.size \in Nat /\ str.size < SizeLimit /\ seq \in Seq(Byte)
      /\ vec.data \in [0 .. VecCapacity - 1 -> Seq(Byte)]
  BY Sizes, ContainersAssumption, SMT
<1>2. /\ m.seq = native(host, seq) /\ m.device_id.data = str.data
      /\ m.device_id.size = native(host, u32(str.size))
      /\ m.voltages.size = native(host, u32(vec.size))
      /\ m.voltages.data = [i \in 0 .. VecCapacity - 1 |-> native(host, vec.data[i])]
  BY DEF message
<1> HIDE DEF m
<1>3. u32(str.size) \in Seq(Byte) /\ u32(vec.size) \in Seq(Byte)
  BY <1>1, Words, Zenon
<1>4. /\ native(host, m.seq) = seq
      /\ native(host, m.device_id.size) = u32(str.size)
      /\ native(host, m.voltages.size) = u32(vec.size)
  BY <1>1, <1>2, <1>3, HostOrder, Zenon
<1>5. number(u32(str.size)) = str.size /\ number(u32(vec.size)) = vec.size
  BY <1>1, NumberRead, SMT
<1>6. size_of(host, m.device_id) = str.size /\ size_of(host, m.voltages) = vec.size
  BY <1>4, <1>5, Zenon DEF size_of
<1>7. ASSUME NEW i \in 0 .. vec.size - 1
      PROVE  native(host, m.voltages.data[i]) = vec.data[i]
  <2>1. i \in 0 .. VecCapacity - 1
    BY <1>1, SMT
  <2>2. m.voltages.data[i] = native(host, vec.data[i])
    BY <1>2, <2>1, Zenon
  <2>3. vec.data[i] \in Seq(Byte)
    BY <1>1, <2>1, Zenon
  <2> QED
    BY <2>2, <2>3, HostOrder, Zenon
<1>8. shown(host, m) = Meaning
  BY <1>2, <1>4, <1>6, <1>7, ShownParts, Zenon
<1> QED
  BY <1>8, Zenon DEF m

\* What is decoded shows the sender's message.
LEMMA ShownReceived ==
  ASSUME Portability, IInv, NEW host \in Endian, NEW p, IsWireForm(p)
  PROVE  shown(host, normalized(host, p)) = Meaning
<1>1. /\ vec.size \in Nat /\ vec.size < SizeLimit /\ vec.size <= VecCapacity
      /\ VecCapacity \in Nat /\ VecCapacity < SizeLimit
      /\ str.size \in Nat /\ str.size < SizeLimit /\ seq \in Seq(Byte)
  BY Sizes, ContainersAssumption, SMT DEF Portability
<1>2. /\ p.seq = seq /\ p.device_id = [data |-> str.data, size |-> u32(str.size)]
      /\ p.voltages.size = u32(vec.size)
      /\ p.voltages.data \in [0 .. VecCapacity - 1 -> Seq(Byte)]
      /\ \A i \in 0 .. vec.size - 1 : p.voltages.data[i] = vec.data[i]
  BY SMT DEF IsWireForm
<1>3. p.device_id.data = str.data /\ p.device_id.size = u32(str.size)
  BY <1>2, SMT
<1>4. u32(str.size) \in Seq(Byte) /\ u32(vec.size) \in Seq(Byte)
  BY <1>1, Words, Zenon
<1>5. number(u32(str.size)) = str.size /\ number(u32(vec.size)) = vec.size
  BY <1>1, NumberRead, SMT
<1>6. CASE host = "little"
  <2>1. normalized(host, p) = p /\ \A w : native(host, w) = w
    BY <1>6, Zenon DEF normalized, native, to_little_endian
  <2>2. size_of(host, p.device_id) = str.size /\ size_of(host, p.voltages) = vec.size
    BY <1>2, <1>3, <1>5, <2>1, Zenon DEF size_of
  <2>3. /\ native(host, p.seq) = seq
        /\ \A i \in 0 .. vec.size - 1 : native(host, p.voltages.data[i]) = vec.data[i]
    BY <1>2, <2>1, Zenon
  <2>4. shown(host, p) = Meaning
    BY <1>3, <2>2, <2>3, ShownParts, Zenon
  <2> QED
    BY <2>1, <2>4, Zenon
<1>7. CASE host = "big"
  <2> DEFINE v == swap_vector(host, p.voltages)
             m == portable_swap(host, p)
  <2>1. normalized(host, p) = m /\ \A w : native(host, w) = byte_swap(w)
    BY <1>7, SMT DEF normalized, native, to_little_endian
  <2>2. /\ v.size = byte_swap(u32(vec.size))
        /\ \A i \in 0 .. VecCapacity - 1 :
             i < count(host, p.voltages) => v.data[i] = byte_swap(p.voltages.data[i])
    BY <1>2, VectorSwapped, SMT
  <2>3. /\ m.seq = byte_swap(seq) /\ m.device_id.data = str.data
        /\ m.device_id.size = byte_swap(u32(str.size)) /\ m.voltages = v
    BY <1>2, <1>3, SwapFields, SMT DEF swap_string
  <2> HIDE DEF v, m
  <2>4. /\ native(host, m.seq) = seq
        /\ native(host, m.device_id.size) = u32(str.size)
        /\ native(host, m.voltages.size) = u32(vec.size)
    BY <1>1, <1>4, <2>1, <2>2, <2>3, SwapTwice, Zenon
  <2>5. size_of(host, m.device_id) = str.size /\ size_of(host, m.voltages) = vec.size
    BY <1>5, <2>4, Zenon DEF size_of
  \* All elements are swapped: a size read in the wrong order is too large.
  <2>6. vec.size # 0 => count(host, p.voltages) = VecCapacity
    <3> SUFFICES ASSUME vec.size # 0 PROVE count(host, p.voltages) = VecCapacity
      OBVIOUS
    <3>1. native(host, p.voltages.size) = byte_swap(u32(vec.size))
      BY <1>2, <2>1, Zenon
    <3>2. /\ number(byte_swap(u32(vec.size))) \in Nat
          /\ number(byte_swap(u32(vec.size))) >= SizeLimit
      BY <1>1, NumberReversed, SMT
    <3>3. ~(number(byte_swap(u32(vec.size))) <= VecCapacity)
      BY <1>1, <3>2, SMT DEF SizeLimit
    <3> QED
      BY <3>1, <3>3, Zenon DEF count
  <2>7. ASSUME NEW i \in 0 .. vec.size - 1
        PROVE  native(host, m.voltages.data[i]) = vec.data[i]
    <3>1. i \in 0 .. VecCapacity - 1 /\ i < VecCapacity /\ vec.size # 0
      BY <1>1, SMT
    <3>2. p.voltages.data[i] \in Seq(Byte) /\ p.voltages.data[i] = vec.data[i]
      BY <1>2, <3>1, Zenon
    <3>3. v.data[i] = byte_swap(vec.data[i])
      BY <2>2, <2>6, <3>1, <3>2, Zenon
    <3>4. byte_swap(byte_swap(vec.data[i])) = vec.data[i]
      BY <3>2, SwapTwice, Zenon
    <3> QED
      BY <2>1, <2>3, <3>3, <3>4, Zenon
  <2> QED
    BY <2>1, <2>3, <2>4, <2>5, <2>7, ShownParts, Zenon
<1> QED
  BY <1>6, <1>7, Zenon DEF Endian

\* The message that portable_encode leaves, without the conversions: on every
\* host the header is the same.
Sealed(p, check) ==
  [magic |-> u32(SINEW_MAGIC), msg_id |-> u16(Id), version |-> u16(Version),
   payload_len |-> u32(PayloadSize), crc |-> check, payload |-> p]

LEMMA Encoded ==
  ASSUME Portability, NEW host \in Endian, NEW m, NEW compute_crc
  PROVE  portable_encode(host, m, compute_crc)
           = Sealed(normalized(host, m),
                    IF compute_crc THEN Crc(normalized(host, m)) ELSE u32(0))
<1>1. SINEW_MAGIC \in Nat
  BY SMT DEF SINEW_MAGIC
<1>2. /\ u32(SINEW_MAGIC) \in Seq(Byte) /\ u16(Id) \in Seq(Byte)
      /\ u16(Version) \in Seq(Byte) /\ u32(PayloadSize) \in Seq(Byte)
      /\ Crc(normalized(host, m)) \in Seq(Byte)
  BY <1>1, Words, Zenon DEF Portability
<1>3. /\ stored(host, u32(SINEW_MAGIC)) = u32(SINEW_MAGIC)
      /\ stored(host, u16(Id)) = u16(Id) /\ stored(host, u16(Version)) = u16(Version)
      /\ stored(host, u32(PayloadSize)) = u32(PayloadSize)
      /\ stored(host, Crc(normalized(host, m))) = Crc(normalized(host, m))
  BY <1>2, HostOrder, Zenon
<1> QED
  BY <1>3, SMT DEF portable_encode, Sealed

\* Whether it is accepted depends on the checksum only.
LEMMA Accepted ==
  ASSUME Portability, NEW host \in Endian, NEW p, NEW check \in Seq(Byte), NEW verify_crc
  PROVE  LET error == decode_error(host, Sealed(p, check), MessageSize, verify_crc)
             fits == verify_crc /\ check # u32(0) => Crc(p) = check
         IN  (fits => error = "Ok") /\ (~fits => error = "ChecksumMismatch")
<1> DEFINE wire == Sealed(p, check)
<1>1. SINEW_MAGIC \in Nat
  BY SMT DEF SINEW_MAGIC
<1>2. /\ u32(SINEW_MAGIC) \in Seq(Byte) /\ u16(Id) \in Seq(Byte)
      /\ u16(Version) \in Seq(Byte) /\ u32(PayloadSize) \in Seq(Byte)
  BY <1>1, Words, Zenon DEF Portability
<1>3. /\ wire.magic = u32(SINEW_MAGIC) /\ wire.msg_id = u16(Id)
      /\ wire.version = u16(Version) /\ wire.payload_len = u32(PayloadSize)
      /\ wire.crc = check /\ wire.payload = p
  BY SMT DEF Sealed
<1> HIDE DEF wire
<1>4. /\ loaded(host, wire.magic) = u32(SINEW_MAGIC)
      /\ loaded(host, wire.msg_id) = u16(Id) /\ loaded(host, wire.version) = u16(Version)
      /\ loaded(host, wire.payload_len) = u32(PayloadSize)
      /\ loaded(host, wire.crc) = check
  BY <1>2, <1>3, HostOrder, Zenon
<1>5. ~(MessageSize < MessageSize)
  BY SMT DEF MessageSize, HeaderSize, Portability
<1>6. crc_ok(host, wire, verify_crc) <=> (verify_crc /\ check # u32(0) => Crc(p) = check)
  BY <1>3, <1>4, Zenon DEF crc_ok
<1>7. decode_error(host, wire, MessageSize, verify_crc)
        = IF crc_ok(host, wire, verify_crc) THEN "Ok" ELSE "ChecksumMismatch"
  BY <1>4, <1>5, SMT DEF decode_error
<1> QED
  BY <1>6, <1>7, Zenon DEF wire

LEMMA InvHolds == Spec => []IInv
  BY InvInit, InvStep, PTL DEF Spec

\* A message that portable_encode wrote on a host of either byte order is
\* accepted by portable_decode on either, with or without a checksum, unless
\* the buffer was too small for it, which the receiver is told, and shows the
\* program there the scalars, texts and elements it showed its
\* sender: for every capacity, message and checksum function.
THEOREM MessagesRoundTrip ==
  ASSUME Portability
  PROVE  Spec => []RoundTrip
<1>1. IInv => RoundTrip
  <2> SUFFICES ASSUME IInv, NEW from \in Endian, NEW to \in Endian,
                      NEW compute \in BOOLEAN, NEW verify \in BOOLEAN
               PROVE  LET wire == portable_encode(from, message(from), compute)
                      IN  /\ \A capacity \in {MessageSize - 1, MessageSize} :
                               decode_error(to, wire, encoded_size(capacity), verify)
                                 = IF capacity < MessageSize THEN "BufferTooSmall" ELSE "Ok"
                          /\ shown(to, decoded(to, wire)) = shown(from, message(from))
    BY Zenon DEF RoundTrip
  <2> DEFINE p == normalized(from, message(from))
             check == IF compute THEN Crc(p) ELSE u32(0)
  <2>1. portable_encode(from, message(from), compute) = Sealed(p, check)
    BY Encoded, Zenon
  <2>2. IsWireForm(p)
    BY WireForm, Zenon
  <2> HIDE DEF p
  <2>3. u32(0) \in Seq(Byte)
    BY Words, SMT
  <2>4. check \in Seq(Byte) /\ (check # u32(0) => Crc(p) = check)
    BY <2>3, Zenon DEF Portability
  <2> HIDE DEF check
  <2>5. decode_error(to, Sealed(p, check), MessageSize, verify) = "Ok"
    BY <2>4, Accepted, SMT
  <2>6. decoded(to, Sealed(p, check)) = normalized(to, p)
    BY SMT DEF decoded, Sealed
  <2>7. shown(to, normalized(to, p)) = shown(from, message(from))
    BY <2>2, ShownReceived, ShownSent, Zenon
  <2>8. ASSUME NEW capacity \in {MessageSize - 1, MessageSize}
        PROVE  decode_error(to, Sealed(p, check), encoded_size(capacity), verify)
                 = IF capacity < MessageSize THEN "BufferTooSmall" ELSE "Ok"
    <3>1. MessageSize \in Nat /\ MessageSize > 0
      BY SMT DEF MessageSize, HeaderSize, Portability
    <3>2. CASE capacity = MessageSize
      <4>1. ~(capacity < MessageSize) /\ encoded_size(capacity) = MessageSize
        BY <3>1, <3>2, SMT DEF encoded_size
      <4> QED
        BY <4>1, <2>5, Zenon
    <3>3. CASE capacity = MessageSize - 1
      <4>1. capacity < MessageSize /\ encoded_size(capacity) < MessageSize
        BY <3>1, <3>3, SMT DEF encoded_size
      <4> QED
        BY <4>1, Zenon DEF decode_error
    <3> QED
      BY <3>2, <3>3, Zenon
  <2> QED
    BY <2>1, <2>6, <2>7, <2>8, Zenon
<1> QED
  BY <1>1, InvHolds, PTL

\* For every checksum function: portable_decode, on a host of either byte
\* order, refuses a damaged payload that was sent with a checksum exactly if
\* that checksum is not 0, which the decoder takes for none, and the damaged
\* payload has another one.
THEOREM DamageIsRefused ==
  ASSUME Portability
  PROVE  Spec => []DamageDetected
<1>1. DamageDetected
  <2> SUFFICES ASSUME NEW from \in Endian, NEW to \in Endian,
                      NEW q \in Changed(portable_encode(from, message(from), TRUE).payload)
               PROVE  LET wire == portable_encode(from, message(from), TRUE)
                          sum == Crc(wire.payload)
                          noticed == sum # u32(0) /\ Crc(q) # sum
                      IN  decode_error(to, [wire EXCEPT !.payload = q], MessageSize, TRUE)
                            = IF noticed THEN "ChecksumMismatch" ELSE "Ok"
    BY Zenon DEF DamageDetected
  <2> DEFINE p == normalized(from, message(from))
             refused == Crc(p) # u32(0) /\ Crc(q) # Crc(p)
  <2>1. portable_encode(from, message(from), TRUE) = Sealed(p, Crc(p))
    BY Encoded, Zenon
  <2> HIDE DEF p
  <2>2. Sealed(p, Crc(p)).payload = p
        /\ [Sealed(p, Crc(p)) EXCEPT !.payload = q] = Sealed(q, Crc(p))
    BY SMT DEF Sealed
  <2>3. Crc(p) \in Seq(Byte)
    BY Zenon DEF Portability
  <2>4. decode_error(to, Sealed(q, Crc(p)), MessageSize, TRUE)
          = IF refused THEN "ChecksumMismatch" ELSE "Ok"
    <3> DEFINE error == decode_error(to, Sealed(q, Crc(p)), MessageSize, TRUE)
               fits == TRUE /\ Crc(p) # u32(0) => Crc(q) = Crc(p)
    <3>1. (fits => error = "Ok") /\ (~fits => error = "ChecksumMismatch")
      BY <2>3, Accepted, Zenon
    <3>2. refused <=> ~fits
      OBVIOUS
    <3> QED
      BY <3>1, <3>2, Zenon
  <2> QED
    BY <2>1, <2>2, <2>4, Zenon
<1> QED
  BY <1>1, PTL

-----------------------------------------------------------------------------
(***************************************************************************)
(* The containers.  The characters before the size are not NUL and the one *)
(* at the size is.  The copy loop of assign and append, which may read     *)
(* from the storage that it writes, is proved by induction on its rounds.  *)
(***************************************************************************)
TextInv ==
  /\ str \in String /\ str.data[str.size] = NUL
  /\ \A i \in 0 .. str.size - 1 : str.data[i] \in Char

\* Induction on natural numbers, for a set given by the property to prove.
LEMMA Induction ==
  ASSUME NEW S \in SUBSET Nat, 0 \in S, \A n \in S : n + 1 \in S
  PROVE  S = Nat
<1> SUFFICES ASSUME Nat \ S # {} PROVE FALSE
  OBVIOUS
<1> DEFINE R == OpToRel(<, Nat)
<1>1. IsWellFoundedOn(R, Nat)
  BY NatLessThanWellFounded
<1>2. \A x, y \in Nat : x < y => <<x, y>> \in R
  BY DEF OpToRel
<1> HIDE DEF R
<1>3. PICK n \in Nat \ S : \A m \in Nat \ S : <<m, n>> \notin R
  BY <1>1, WFMin
<1>4. n # 0 /\ n - 1 \in Nat /\ n - 1 < n
  BY <1>3
<1>5. n - 1 \in S
  BY <1>2, <1>3, <1>4
<1>6. n = (n - 1) + 1
  BY <1>3
<1> QED
  BY <1>3, <1>5, <1>6

\* What a source reads from: characters other than NUL.
LEMMA SourceFacts ==
  ASSUME TextInv, NEW src \in Sources, Valid(src)
  PROVE  /\ src.len \in Nat /\ src.off \in Nat
         /\ src.own => src.off + src.len <= str.size
         /\ ~src.own => src.text \in Seq(Char) /\ src.len = Len(src.text)
         /\ \A i \in 0 .. src.len - 1 : char(src, str.data, i) \in Char
<1>0. str.size \in Nat /\ str.size <= StrCapacity
  BY ContainersAssumption DEF TextInv, String
<1>1. CASE src \in {TextSource(t) : t \in Texts}
  <2>1. PICK t \in Texts : src = TextSource(t)
    BY <1>1
  <2>2. /\ src.own = FALSE /\ src.off = 0 /\ src.text = t /\ src.len = Len(t)
        /\ t \in Seq(Char)
    BY <2>1, ContainersAssumption DEF TextSource
  <2>3. \A i \in 0 .. Len(t) - 1 : t[i + 1] \in Char
    BY <2>2
  <2> QED
    BY <2>2, <2>3 DEF char
<1>2. CASE src \in {OwnSource(o, n) : o \in 0 .. str.size, n \in 0 .. str.size}
  <2>1. PICK o \in 0 .. str.size, n \in 0 .. str.size : src = OwnSource(o, n)
    BY <1>2
  <2>2. src.own = TRUE /\ src.off = o /\ src.len = n /\ o \in Nat /\ n \in Nat
    BY <1>0, <2>1 DEF OwnSource
  <2>3. o + n <= str.size
    BY <2>2 DEF Valid
  <2>4. \A i \in 0 .. n - 1 : o + i \in 0 .. str.size - 1
    BY <1>0, <2>2, <2>3
  <2>5. \A i \in 0 .. n - 1 : str.data[o + i] \in Char
    BY <2>4 DEF TextInv
  <2> QED
    BY <2>2, <2>3, <2>5 DEF char
<1> QED
  BY <1>1, <1>2 DEF Sources

\* The storage after n rounds of the loop.
Copied(src, dst, n) ==
  [j \in 0 .. StrCapacity |->
     IF dst <= j /\ j < dst + n THEN char(src, str.data, j - dst) ELSE str.data[j]]

\* A round reads what was there before the call: a source in the storage does
\* not lie before the destination, or ends before it.
LEMMA CopyRound ==
  ASSUME TextInv, NEW src \in Sources, Valid(src), NEW dst \in Nat, NEW n \in Nat,
         n < src.len, dst + n < StrCapacity,
         src.own => dst <= src.off \/ src.off + src.len <= dst
  PROVE  Copied(src, dst, n + 1)
           = [Copied(src, dst, n) EXCEPT ![dst + n] = char(src, Copied(src, dst, n), n)]
<1> DEFINE before == Copied(src, dst, n)
<1>0. /\ src.len \in Nat /\ src.off \in Nat /\ str.size \in Nat
      /\ StrCapacity \in Nat /\ str.size <= StrCapacity
      /\ src.own => src.off + src.len <= str.size
  BY SourceFacts, ContainersAssumption DEF TextInv, String
<1>1. char(src, before, n) = char(src, str.data, n)
  <2>1. CASE ~src.own
    BY <2>1 DEF char
  <2>2. CASE src.own
    <3>1. src.off + n \in 0 .. StrCapacity /\ ~(dst <= src.off + n /\ src.off + n < dst + n)
      BY <1>0, <2>2
    <3>2. before[src.off + n] = str.data[src.off + n]
      BY <3>1 DEF Copied
    <3> HIDE DEF before
    <3> QED
      BY <2>2, <3>2 DEF char
  <2> QED
    BY <2>1, <2>2
<1>2. dst + n \in 0 .. StrCapacity
  BY <1>0
<1>3. (dst + n) - dst = n
  OBVIOUS
<1>4. \A j \in 0 .. StrCapacity :
        Copied(src, dst, n + 1)[j] = [before EXCEPT ![dst + n] = char(src, before, n)][j]
  <2> TAKE j \in 0 .. StrCapacity
  <2>1. CASE j = dst + n
    <3>1. Copied(src, dst, n + 1)[j] = char(src, str.data, n)
      BY <1>0, <1>3, <2>1 DEF Copied
    <3>2. DOMAIN before = 0 .. StrCapacity
      BY DEF Copied
    <3> HIDE DEF before
    <3> QED
      BY <1>1, <1>2, <2>1, <3>1, <3>2
  <2>2. CASE j # dst + n
    <3>1. Copied(src, dst, n + 1)[j] = before[j]
      BY <1>0, <2>2 DEF Copied
    <3> HIDE DEF before
    <3> QED
      BY <2>2, <3>1
  <2> QED
    BY <2>1, <2>2
<1> QED
  BY <1>4 DEF Copied

\* The copy loop writes what the source showed before the call.
LEMMA CopyLoop ==
  ASSUME TextInv, NEW src \in Sources, Valid(src), NEW dst \in Nat, NEW n \in Nat,
         n <= src.len, dst + n <= StrCapacity,
         src.own => dst <= src.off \/ src.off + src.len <= dst
  PROVE  copy(src, dst, n) = Copied(src, dst, n)
<1> DEFINE after[k \in 0 .. n] ==
             IF k = 0 THEN str.data
             ELSE [after[k - 1] EXCEPT ![dst + k - 1] = char(src, after[k - 1], k - 1)]
<1>0. src.len \in Nat /\ StrCapacity \in Nat
  BY SourceFacts, ContainersAssumption
<1>1. Copied(src, dst, 0) = str.data
  <2>1. str.data \in [0 .. StrCapacity -> Char \cup {NUL}]
    BY DEF TextInv, String
  <2>2. \A j \in 0 .. StrCapacity : ~(dst <= j /\ j < dst + 0)
    BY <1>0
  <2>3. Copied(src, dst, 0) = [j \in 0 .. StrCapacity |-> str.data[j]]
    BY <2>2 DEF Copied
  <2> QED
    BY <2>1, <2>3
<1>2. \A k \in 1 .. n :
        Copied(src, dst, k)
          = [Copied(src, dst, k - 1) EXCEPT ![dst + k - 1] = char(src, Copied(src, dst, k - 1), k - 1)]
  <2> TAKE k \in 1 .. n
  <2>1. k - 1 \in Nat /\ k - 1 < src.len /\ dst + (k - 1) < StrCapacity
    BY <1>0
  <2>2. (k - 1) + 1 = k /\ dst + (k - 1) = dst + k - 1
    OBVIOUS
  <2>3. Copied(src, dst, (k - 1) + 1)
          = [Copied(src, dst, k - 1) EXCEPT ![dst + (k - 1)] = char(src, Copied(src, dst, k - 1), k - 1)]
    BY <2>1, CopyRound
  <2> QED
    BY <2>2, <2>3
<1>3. \E g : g = [k \in 0 .. n |->
                    IF k = 0 THEN str.data
                    ELSE [g[k - 1] EXCEPT ![dst + k - 1] = char(src, g[k - 1], k - 1)]]
  <2> DEFINE g == [k \in 0 .. n |-> Copied(src, dst, k)]
  <2>1. \A k \in 0 .. n : g[k] = IF k = 0 THEN str.data
                    ELSE [g[k - 1] EXCEPT ![dst + k - 1] = char(src, g[k - 1], k - 1)]
    <3> TAKE k \in 0 .. n
    <3>1. CASE k = 0
      BY <1>1, <3>1
    <3>2. CASE k # 0
      <4>1. k \in 1 .. n /\ k - 1 \in 0 .. n
        BY <3>2
      <4>2. g[k] = Copied(src, dst, k) /\ g[k - 1] = Copied(src, dst, k - 1)
        BY <4>1
      <4> HIDE DEF g
      <4> QED
        BY <1>2, <3>2, <4>1, <4>2
    <3> QED
      BY <3>1, <3>2
  <2>2. g = [k \in 0 .. n |->
                    IF k = 0 THEN str.data
                    ELSE [g[k - 1] EXCEPT ![dst + k - 1] = char(src, g[k - 1], k - 1)]]
    BY <2>1
  <2> QED
    BY <2>2
<1>4. after = [k \in 0 .. n |->
                 IF k = 0 THEN str.data
                 ELSE [after[k - 1] EXCEPT ![dst + k - 1] = char(src, after[k - 1], k - 1)]]
  BY <1>3
<1>5. copy(src, dst, n) = after[n]
  BY DEF copy
<1> HIDE DEF after
<1> DEFINE S == {k \in Nat : k <= n => after[k] = Copied(src, dst, k)}
<1>6. 0 \in S
  BY <1>1, <1>4
<1>7. ASSUME NEW k \in S PROVE k + 1 \in S
  <2> SUFFICES ASSUME k + 1 <= n PROVE after[k + 1] = Copied(src, dst, k + 1)
    OBVIOUS
  <2>1. k \in Nat /\ k + 1 \in 1 .. n /\ (k + 1) - 1 = k /\ dst + (k + 1) - 1 = dst + k
    OBVIOUS
  <2>2. after[k] = Copied(src, dst, k)
    BY <2>1
  <2>3. after[k + 1] = [after[k] EXCEPT ![dst + (k + 1) - 1] = char(src, after[k], k)]
    <3>1. k + 1 \in 0 .. n /\ k + 1 # 0
      BY <2>1
    <3>2. after[k + 1] = [after[(k + 1) - 1] EXCEPT
            ![dst + (k + 1) - 1] = char(src, after[(k + 1) - 1], (k + 1) - 1)]
      BY <1>4, <3>1
    <3> QED
      BY <2>1, <3>2
  <2>4. Copied(src, dst, k + 1)
          = [Copied(src, dst, k) EXCEPT ![dst + (k + 1) - 1] = char(src, Copied(src, dst, k), k)]
    BY <1>2, <2>1
  <2> QED
    BY <2>2, <2>3, <2>4
<1>8. S = Nat
  <2>1. S \in SUBSET Nat
    OBVIOUS
  <2> HIDE DEF S
  <2> QED
    BY <1>6, <1>7, <2>1, Induction
<1> QED
  BY <1>5, <1>8

\* What assign and append leave: the first dst characters, the source's as far
\* as there is room, and the NUL.
LEMMA PutText ==
  ASSUME TextInv, NEW src \in Sources, Valid(src), NEW dst \in 0 .. str.size, NEW room,
         room = StrCapacity - dst,
         src.own => dst <= src.off \/ src.off + src.len <= dst,
         put(src, dst, room)
  PROVE  LET n == IF src.len < room THEN src.len ELSE room
         IN  /\ n \in Nat /\ n <= src.len /\ dst + n <= StrCapacity
             /\ str' \in String /\ str'.size = dst + n
             /\ str'.data[dst + n] = NUL
             /\ \A i \in 0 .. dst + n - 1 :
                  str'.data[i] = IF i < dst THEN str.data[i] ELSE char(src, str.data, i - dst)
             /\ ok' = (src.len <= room)
<1> DEFINE n == IF src.len < room THEN src.len ELSE room
           d == [copy(src, dst, n) EXCEPT ![dst + n] = NUL]
<1>0. /\ src.len \in Nat /\ str.size \in Nat /\ StrCapacity \in Nat /\ str.size <= StrCapacity
      /\ dst \in Nat /\ str.data \in [0 .. StrCapacity -> Char \cup {NUL}]
  BY SourceFacts, ContainersAssumption DEF TextInv, String
<1>1. n \in Nat /\ n <= src.len /\ dst + n <= StrCapacity
  BY <1>0
<1>2. str' = [data |-> d, size |-> dst + n] /\ ok' = (src.len <= room)
  BY DEF put
<1> HIDE DEF n
<1>3. d = [Copied(src, dst, n) EXCEPT ![dst + n] = NUL]
  BY <1>0, <1>1, CopyLoop
<1>4. /\ d[dst + n] = NUL
      /\ \A i \in 0 .. dst + n - 1 :
           d[i] = IF i < dst THEN str.data[i] ELSE char(src, str.data, i - dst)
  <2> HIDE DEF d
  <2>1. dst + n \in 0 .. StrCapacity /\ \A i \in 0 .. dst + n - 1 : i \in 0 .. StrCapacity /\ i # dst + n
    BY <1>0, <1>1
  <2> QED
    BY <1>0, <1>1, <1>3, <2>1 DEF Copied
<1>5. d \in [0 .. StrCapacity -> Char \cup {NUL}]
  <2>1. \A i \in 0 .. src.len - 1 : char(src, str.data, i) \in Char
    BY SourceFacts
  <2>2. \A j \in 0 .. StrCapacity : Copied(src, dst, n)[j] \in Char \cup {NUL}
    <3> TAKE j \in 0 .. StrCapacity
    <3>1. CASE dst <= j /\ j < dst + n
      <4>1. j - dst \in 0 .. src.len - 1
        BY <1>0, <1>1, <3>1
      <4> QED
        BY <2>1, <3>1, <4>1 DEF Copied
    <3>2. CASE ~(dst <= j /\ j < dst + n)
      BY <1>0, <3>2 DEF Copied
    <3> QED
      BY <3>1, <3>2
  <2>3. Copied(src, dst, n) \in [0 .. StrCapacity -> Char \cup {NUL}]
    BY <2>2 DEF Copied
  <2> HIDE DEF d
  <2> QED
    BY <1>3, <2>3
<1>6. str' \in String
  <2> HIDE DEF d
  <2> QED
    BY <1>0, <1>1, <1>2, <1>5 DEF String
<1>7. str'.data = d /\ str'.size = dst + n
  BY <1>2
<1> QED
  BY <1>1, <1>2, <1>4, <1>6, <1>7 DEF n

\* put leaves a text that ends at its size.
LEMMA PutKeeps ==
  ASSUME TextInv, NEW src \in Sources, Valid(src), NEW dst \in 0 .. str.size, NEW room,
         room = StrCapacity - dst,
         src.own => dst <= src.off \/ src.off + src.len <= dst,
         put(src, dst, room)
  PROVE  TextInv'
<1> DEFINE n == IF src.len < room THEN src.len ELSE room
<1>1. /\ n \in Nat /\ n <= src.len /\ dst + n <= StrCapacity
      /\ str' \in String /\ str'.size = dst + n
      /\ str'.data[dst + n] = NUL
      /\ \A i \in 0 .. dst + n - 1 :
           str'.data[i] = IF i < dst THEN str.data[i] ELSE char(src, str.data, i - dst)
  BY PutText
<1>2. /\ \A i \in 0 .. src.len - 1 : char(src, str.data, i) \in Char
      /\ str.size \in Nat /\ src.len \in Nat
  BY SourceFacts, ContainersAssumption DEF TextInv, String
<1> HIDE DEF n
<1>3. ASSUME NEW i \in 0 .. dst + n - 1 PROVE str'.data[i] \in Char
  <2>1. CASE i < dst
    <3>1. i \in 0 .. str.size - 1
      BY <1>2, <2>1
    <3> QED
      BY <1>1, <2>1, <3>1 DEF TextInv
  <2>2. CASE ~(i < dst)
    <3>1. i - dst \in 0 .. src.len - 1
      BY <1>1, <1>2, <2>2
    <3> QED
      BY <1>1, <1>2, <2>2, <3>1
  <2> QED
    BY <2>1, <2>2
<1> QED
  BY <1>1, <1>3 DEF TextInv, String

\* assign overwrites from the first character, append behind the last one.
LEMMA PutPlaces ==
  ASSUME TextInv, NEW src \in Sources, Valid(src)
  PROVE  /\ 0 \in 0 .. str.size /\ str.size \in 0 .. str.size
         /\ StrCapacity = StrCapacity - 0
         /\ src.own => 0 <= src.off \/ src.off + src.len <= 0
         /\ src.own => str.size <= src.off \/ src.off + src.len <= str.size
BY SourceFacts, ContainersAssumption DEF TextInv, String

\* The containers start with an empty text.
LEMMA TextInit == Init => TextInv
<1> SUFFICES ASSUME Init PROVE TextInv
  OBVIOUS
<1>1. str = [data |-> [i \in 0 .. StrCapacity |-> NUL], size |-> 0]
  BY DEF Init, ContainersInit
<1> QED
  BY <1>1, ContainersAssumption DEF TextInv, String

\* Every operation keeps the text in order.
LEMMA TextNext == TextInv /\ [Next]_vars => TextInv'
<1> SUFFICES ASSUME TextInv, [Next]_vars PROVE TextInv'
  OBVIOUS
<1>0. ASSUME UNCHANGED str PROVE TextInv'
  BY <1>0 DEF TextInv, String
<1>1. ASSUME NEW src \in Sources, assign(src) PROVE TextInv'
  BY <1>1, PutPlaces, PutKeeps DEF assign
<1>2. ASSUME NEW src \in Sources, append(src) PROVE TextInv'
  BY <1>2, PutPlaces, PutKeeps DEF append
<1>3. ASSUME NEW i \in 0 .. StrCapacity - 1, NEW c \in Char, write_char(i, c) PROVE TextInv'
  <2>1. i < str.size /\ str' = [str EXCEPT !.data[i] = c]
    BY <1>3 DEF write_char
  <2>2. /\ str.data \in [0 .. StrCapacity -> Char \cup {NUL}] /\ str.size \in 0 .. StrCapacity
        /\ i \in 0 .. StrCapacity /\ StrCapacity \in Nat
    BY ContainersAssumption DEF TextInv, String
  <2>3. str'.data = [str.data EXCEPT ![i] = c] /\ str'.size = str.size /\ str' \in String
    BY <2>1, <2>2 DEF TextInv, String
  <2>4. /\ str'.data[str'.size] = NUL
        /\ \A j \in 0 .. str'.size - 1 : str'.data[j] \in Char
    BY <2>1, <2>2, <2>3 DEF TextInv
  <2> QED
    BY <2>3, <2>4 DEF TextInv, String
<1>4. CASE clear_string
  <2>1. str' = [data |-> [str.data EXCEPT ![0] = NUL], size |-> 0]
    BY <1>4 DEF clear_string
  <2>2. str.data \in [0 .. StrCapacity -> Char \cup {NUL}] /\ StrCapacity \in Nat
    BY ContainersAssumption DEF TextInv, String
  <2>3. str' \in String /\ str'.data[0] = NUL /\ str'.size = 0
    BY <2>1, <2>2 DEF String
  <2> QED
    BY <2>3 DEF TextInv, String
<1>5. CASE UNCHANGED vars
  BY <1>0, <1>5 DEF vars, containers
<1>6. CASE Next
  <2>1. ASSUME NEW v \in Elem,
               \/ push_back(v) \/ \E n \in 0 .. VecCapacity + 1 : resize(n, v)
               \/ \E i \in 0 .. VecCapacity - 1 : write_elem(i, v)
        PROVE  TextInv'
    BY <1>0, <2>1 DEF push_back, resize, write_elem
  <2>2. CASE pop_back \/ clear_vector
    BY <1>0, <2>2 DEF pop_back, clear_vector
  <2> QED
    BY <1>1, <1>2, <1>3, <1>4, <1>6, <2>1, <2>2 DEF Next, ContainersNext
<1> QED
  BY <1>5, <1>6

\* c_str() is always the text that view() shows: the storage has its first
\* NUL at the size, also after a call that read its argument from the text.
THEOREM CStringHolds == Spec => []CStringIsView
<1>1. TextInv => CStringIsView
  <2> SUFFICES ASSUME TextInv PROVE CStringIsView
    OBVIOUS
  <2> DEFINE P(n) == str.data[n] = NUL /\ \A i \in 0 .. n - 1 : str.data[i] # NUL
  <2>1. str.size \in 0 .. StrCapacity /\ str.size \in Nat
    BY ContainersAssumption DEF TextInv, String
  <2>2. P(str.size)
    BY ContainersAssumption DEF TextInv
  <2>3. \A n \in 0 .. StrCapacity : P(n) => n = str.size
    <3> SUFFICES ASSUME NEW n \in 0 .. StrCapacity, P(n), n # str.size PROVE FALSE
      OBVIOUS
    <3>1. n \in 0 .. str.size - 1 \/ str.size \in 0 .. n - 1
      BY <2>1
    <3> QED
      BY <3>1, ContainersAssumption DEF TextInv
  <2> HIDE DEF P
  <2>4. str.size = CHOOSE n \in 0 .. StrCapacity : P(n)
    BY <2>1, <2>2, <2>3
  <2> QED
    BY <2>4 DEF P, CStringIsView
<1> QED
  BY <1>1, TextInit, TextNext, PTL DEF Spec

\* Two sequences with the same elements are equal.
LEMMA SameSequence ==
  ASSUME NEW S, NEW s \in Seq(S), NEW t \in Seq(S), Len(s) = Len(t),
         \A i \in 1 .. Len(s) : s[i] = t[i]
  PROVE  s = t
OBVIOUS

\* The elements of a prefix.
LEMMA PrefixElements ==
  ASSUME NEW S, NEW s \in Seq(S), NEW n \in Nat
  PROVE  /\ Prefix(s, n) \in Seq(S)
         /\ Len(Prefix(s, n)) = IF Len(s) < n THEN Len(s) ELSE n
         /\ \A i \in 1 .. Len(Prefix(s, n)) : Prefix(s, n)[i] = s[i]
<1> DEFINE m == IF Len(s) < n THEN Len(s) ELSE n
<1>1. m \in Nat /\ m <= Len(s) /\ Len(s) \in Nat
  OBVIOUS
<1>2. \A i \in 1 .. m : s[i] \in S
  BY <1>1
<1> HIDE DEF m
<1>3. /\ SubSeq(s, 1, m) \in Seq(S)
      /\ Len(SubSeq(s, 1, m)) = IF 1 <= m THEN m - 1 + 1 ELSE 0
      /\ \A i \in 1 .. m - 1 + 1 : SubSeq(s, 1, m)[i] = s[1 + i - 1]
  BY <1>1, <1>2, SubSeqProperties
<1>4. Len(SubSeq(s, 1, m)) = m /\ \A i \in 1 .. m : SubSeq(s, 1, m)[i] = s[i]
  BY <1>1, <1>3
<1> QED
  BY <1>3, <1>4 DEF Prefix, m

\* A function from 1 .. n is a sequence of n elements.
LEMMA FunctionSeq ==
  ASSUME NEW S, NEW n \in Nat, NEW f \in [1 .. n -> S]
  PROVE  f \in Seq(S) /\ Len(f) = n
OBVIOUS

\* The text that is shown, and the one that a source shows.
ViewInv ==
  /\ view \in Seq(Char) /\ Len(view) = str.size
  /\ \A i \in 1 .. str.size : view[i] = str.data[i - 1]

\* view() shows the characters before the size.
LEMMA ViewFacts == TextInv => ViewInv
<1> SUFFICES ASSUME TextInv PROVE ViewInv
  OBVIOUS
<1>1. str.size \in Nat
  BY ContainersAssumption DEF TextInv, String
<1>2. \A i \in 1 .. str.size : str.data[i - 1] \in Char
  <2>1. \A i \in 1 .. str.size : i - 1 \in 0 .. str.size - 1
    BY <1>1
  <2> QED
    BY <2>1 DEF TextInv
<1>3. view \in [1 .. str.size -> Char]
  BY <1>2 DEF view
<1>4. view \in Seq(Char) /\ Len(view) = str.size
  BY <1>1, <1>3, FunctionSeq
<1> QED
  BY <1>4 DEF view, ViewInv

\* What a source shows, character by character.
LEMMA TextOfFacts ==
  ASSUME TextInv, NEW src \in Sources, Valid(src)
  PROVE  /\ TextOf(src) \in Seq(Char) /\ Len(TextOf(src)) = src.len
         /\ \A i \in 1 .. src.len : TextOf(src)[i] = char(src, str.data, i - 1)
<1>1. CASE src.own
  <2>1. /\ src.len \in Nat /\ src.off \in Nat /\ src.off + src.len <= str.size
        /\ str.size \in Nat
    BY <1>1, SourceFacts, ContainersAssumption DEF TextInv, String
  <2> DEFINE a == src.off + 1
             b == src.off + src.len
  <2>2. a \in Int /\ b \in Int /\ \A i \in a .. b : view[i] \in Char
    BY <2>1, ViewFacts DEF ViewInv
  <2>3. b - a + 1 = src.len /\ \A i \in 1 .. src.len : a + i - 1 = src.off + i
    BY <2>1
  <2>4. (IF a <= b THEN b - a + 1 ELSE 0) = src.len
    BY <2>1
  <2> HIDE DEF a, b
  <2>5. /\ SubSeq(view, a, b) \in Seq(Char)
        /\ Len(SubSeq(view, a, b)) = IF a <= b THEN b - a + 1 ELSE 0
        /\ \A i \in 1 .. b - a + 1 : SubSeq(view, a, b)[i] = view[a + i - 1]
    BY <2>2, SubSeqProperties
  <2>6. \A i \in 1 .. src.len : view[src.off + i] = str.data[src.off + (i - 1)]
    <3>1. \A i \in 1 .. src.len : src.off + i \in 1 .. str.size
                               /\ (src.off + i) - 1 = src.off + (i - 1)
      BY <2>1
    <3> QED
      BY <3>1, ViewFacts DEF ViewInv
  <2>7. TextOf(src) = SubSeq(view, a, b)
    BY <1>1 DEF TextOf, a, b
  <2> QED
    BY <1>1, <2>3, <2>4, <2>5, <2>6, <2>7 DEF char
<1>2. CASE ~src.own
  <2>1. src.text \in Seq(Char) /\ src.len = Len(src.text) /\ TextOf(src) = src.text
    BY <1>2, SourceFacts DEF TextOf
  <2> QED
    BY <1>2, <2>1 DEF char
<1> QED
  BY <1>1, <1>2

\* What is shown after assign or append: as much of the old text's first dst
\* characters and the source's text as fits.
LEMMA PutShown ==
  ASSUME TextInv, NEW src \in Sources, Valid(src), NEW dst \in 0 .. str.size, NEW room,
         room = StrCapacity - dst,
         src.own => dst <= src.off \/ src.off + src.len <= dst,
         put(src, dst, room),
         NEW wanted \in Seq(Char), Len(wanted) = dst + src.len,
         \A i \in 1 .. dst : wanted[i] = str.data[i - 1],
         \A i \in 1 .. src.len : wanted[dst + i] = char(src, str.data, i - 1)
  PROVE  view' = Prefix(wanted, StrCapacity) /\ ok' = (Len(wanted) <= StrCapacity)
<1> DEFINE n == IF src.len < room THEN src.len ELSE room
<1>0. /\ src.len \in Nat /\ str.size \in Nat /\ StrCapacity \in Nat /\ dst \in Nat
      /\ str.size <= StrCapacity
  BY SourceFacts, ContainersAssumption DEF TextInv, String
<1>1. /\ n \in Nat /\ n <= src.len /\ dst + n <= StrCapacity
      /\ str'.size = dst + n /\ ok' = (src.len <= room)
      /\ \A i \in 0 .. dst + n - 1 :
           str'.data[i] = IF i < dst THEN str.data[i] ELSE char(src, str.data, i - dst)
  BY PutText
<1>2. (IF dst + src.len < StrCapacity THEN dst + src.len ELSE StrCapacity) = dst + n
  BY <1>0
<1> HIDE DEF n
<1>3. view' \in Seq(Char) /\ Len(view') = dst + n
        /\ \A i \in 1 .. dst + n : view'[i] = str'.data[i - 1]
  <2>1. TextInv'
    BY PutKeeps
  <2>2. /\ view' \in Seq(Char) /\ Len(view') = str'.size
        /\ \A i \in 1 .. str'.size : view'[i] = str'.data[i - 1]
    <3>1. ViewInv'
      BY <2>1, ViewFacts, PTL
    <3> QED
      BY <3>1 DEF ViewInv
  <2> QED
    BY <1>1, <2>2
<1>4. /\ Prefix(wanted, StrCapacity) \in Seq(Char)
      /\ Len(Prefix(wanted, StrCapacity)) = dst + n
      /\ \A i \in 1 .. dst + n : Prefix(wanted, StrCapacity)[i] = wanted[i]
  BY <1>0, <1>2, PrefixElements
<1>5. \A i \in 1 .. dst + n : view'[i] = wanted[i]
  <2> TAKE i \in 1 .. dst + n
  <2>1. i - 1 \in 0 .. dst + n - 1 /\ view'[i] = str'.data[i - 1]
    BY <1>0, <1>1, <1>3
  <2>2. CASE i <= dst
    <3>1. i \in 1 .. dst /\ i - 1 < dst
      BY <1>0, <1>1, <2>2
    <3>2. wanted[i] = str.data[i - 1]
      BY <3>1
    <3>3. str'.data[i - 1] = str.data[i - 1]
      BY <1>1, <2>1, <3>1
    <3> QED
      BY <2>1, <3>2, <3>3
  <2>3. CASE ~(i <= dst)
    <3>1. i - dst \in 1 .. src.len /\ dst + (i - dst) = i /\ (i - 1) - dst = (i - dst) - 1
      BY <1>0, <1>1, <2>3
    <3>2. wanted[i] = char(src, str.data, (i - dst) - 1)
      BY <3>1
    <3>3. str'.data[i - 1] = char(src, str.data, (i - 1) - dst)
      BY <1>0, <1>1, <2>1, <2>3
    <3> QED
      BY <2>1, <3>1, <3>2, <3>3
  <2> QED
    BY <2>2, <2>3
<1>6. view' = Prefix(wanted, StrCapacity)
  BY <1>3, <1>4, <1>5, SameSequence
<1> QED
  BY <1>0, <1>1, <1>6

\* Assigning and appending do what std::string does, cut to the capacity, for
\* every argument, a view of the text being overwritten included; and the
\* result says whether something was cut.
THEOREM StringCorrect == Spec => ActsAsString
<1>1. ASSUME TextInv, NEW src \in Sources, assign(src)
      PROVE  /\ view' = Prefix(TextOf(src), StrCapacity)
             /\ ok' = (Len(TextOf(src)) <= StrCapacity)
  <2>1. Valid(src) /\ put(src, 0, StrCapacity)
    BY <1>1 DEF assign
  <2>2. /\ TextOf(src) \in Seq(Char) /\ Len(TextOf(src)) = src.len /\ src.len \in Nat
        /\ \A i \in 1 .. src.len : TextOf(src)[i] = char(src, str.data, i - 1)
    BY <1>1, <2>1, TextOfFacts, SourceFacts
  <2>3. /\ Len(TextOf(src)) = 0 + src.len /\ \A i \in 1 .. src.len : 0 + i = i
        /\ \A i \in 1 .. 0 : TextOf(src)[i] = str.data[i - 1]
    BY <2>2
  <2>4. \A i \in 1 .. src.len : TextOf(src)[0 + i] = char(src, str.data, i - 1)
    BY <2>2, <2>3
  <2>5. /\ 0 \in 0 .. str.size /\ StrCapacity = StrCapacity - 0
        /\ src.own => 0 <= src.off \/ src.off + src.len <= 0
    BY <1>1, <2>1, PutPlaces
  <2> QED
    BY <1>1, <2>1, <2>2, <2>3, <2>4, <2>5, PutShown
<1>2. ASSUME TextInv, NEW src \in Sources, append(src)
      PROVE  /\ view' = Prefix(view \o TextOf(src), StrCapacity)
             /\ ok' = (Len(view \o TextOf(src)) <= StrCapacity)
  <2> DEFINE wanted == view \o TextOf(src)
  <2>1. Valid(src) /\ put(src, str.size, StrCapacity - str.size)
    BY <1>2 DEF append
  <2>2. /\ TextOf(src) \in Seq(Char) /\ Len(TextOf(src)) = src.len /\ src.len \in Nat
        /\ \A i \in 1 .. src.len : TextOf(src)[i] = char(src, str.data, i - 1)
    BY <1>2, <2>1, TextOfFacts, SourceFacts
  <2>3. /\ view \in Seq(Char) /\ Len(view) = str.size /\ str.size \in Nat
        /\ \A i \in 1 .. str.size : view[i] = str.data[i - 1]
    <3>1. ViewInv
      BY <1>2, ViewFacts
    <3>2. str.size \in Nat
      BY <1>2, ContainersAssumption DEF TextInv, String
    <3> QED
      BY <3>1, <3>2 DEF ViewInv
  <2>4. /\ wanted \in Seq(Char) /\ Len(wanted) = str.size + src.len
        /\ \A i \in 1 .. str.size + src.len :
             wanted[i] = IF i <= str.size THEN view[i] ELSE TextOf(src)[i - str.size]
    <3> DEFINE there == view
               added == TextOf(src)
    <3>1. /\ there \in Seq(Char) /\ Len(there) = str.size
          /\ added \in Seq(Char) /\ Len(added) = src.len
      BY <2>2, <2>3
    <3>2. wanted = there \o added
      OBVIOUS
    <3> HIDE DEF there, added
    <3>3. /\ there \o added \in Seq(Char)
          /\ Len(there \o added) = Len(there) + Len(added)
          /\ \A i \in 1 .. Len(there) + Len(added) :
               (there \o added)[i] = IF i <= Len(there) THEN there[i] ELSE added[i - Len(there)]
      BY <3>1, ConcatProperties
    <3>4. /\ wanted \in Seq(Char) /\ Len(wanted) = str.size + src.len
          /\ \A i \in 1 .. str.size + src.len :
               wanted[i] = IF i <= str.size THEN there[i] ELSE added[i - str.size]
      BY <3>1, <3>2, <3>3
    <3> QED
      BY <3>4 DEF there, added
  <2> HIDE DEF wanted
  <2>5. \A i \in 1 .. str.size : wanted[i] = str.data[i - 1]
    BY <2>2, <2>3, <2>4
  <2>6. \A i \in 1 .. src.len : wanted[str.size + i] = char(src, str.data, i - 1)
    <3> TAKE i \in 1 .. src.len
    <3>1. /\ str.size + i \in 1 .. str.size + src.len /\ ~(str.size + i <= str.size)
          /\ (str.size + i) - str.size = i
      BY <2>2, <2>3
    <3>2. wanted[str.size + i] = TextOf(src)[i]
      BY <2>4, <3>1
    <3> QED
      BY <2>2, <3>2
  <2>7. /\ str.size \in 0 .. str.size
        /\ src.own => str.size <= src.off \/ src.off + src.len <= str.size
    BY <1>2, <2>1, PutPlaces
  <2>8. view' = Prefix(wanted, StrCapacity) /\ ok' = (Len(wanted) <= StrCapacity)
    BY <1>2, <2>1, <2>4, <2>5, <2>6, <2>7, PutShown
  <2> QED
    BY <2>8 DEF wanted
<1>3. TextInv =>
        [\A src \in Sources :
           /\ assign(src) => /\ view' = Prefix(TextOf(src), StrCapacity)
                             /\ ok' = (Len(TextOf(src)) <= StrCapacity)
           /\ append(src) => /\ view' = Prefix(view \o TextOf(src), StrCapacity)
                             /\ ok' = (Len(view \o TextOf(src)) <= StrCapacity)]_containers
  BY <1>1, <1>2
<1> QED
  BY <1>3, TextInit, TextNext, PTL DEF Spec, ActsAsString

\* The items that the vector shows.
ItemsInv ==
  /\ Items \in Seq(Elem) /\ Len(Items) = vec.size /\ vec.size \in Nat
  /\ \A i \in 1 .. vec.size : Items[i] = vec.data[i - 1]

\* The vector shows the elements before its size.
LEMMA ItemsFacts == vec \in Vector => ItemsInv
<1> SUFFICES ASSUME vec \in Vector PROVE ItemsInv
  OBVIOUS
<1>1. vec.size \in Nat /\ vec.size <= VecCapacity /\ vec.data \in [0 .. VecCapacity - 1 -> Elem]
  BY ContainersAssumption DEF Vector
<1>2. \A i \in 1 .. vec.size : i - 1 \in 0 .. VecCapacity - 1
  BY <1>1, ContainersAssumption
<1>3. Items \in [1 .. vec.size -> Elem]
  BY <1>1, <1>2 DEF Items
<1>4. Items \in Seq(Elem) /\ Len(Items) = vec.size
  BY <1>1, <1>3, FunctionSeq
<1> QED
  BY <1>1, <1>4 DEF Items, ItemsInv

\* push_back and resize do what std::vector does, except that what needs more
\* than the capacity changes nothing and returns false.
THEOREM VectorCorrect == Spec => ActsAsVector
<1>1. ASSUME vec \in Vector, vec' \in Vector, NEW v \in Elem, push_back(v)
      PROVE  LET wanted == Append(Items, v)
             IN  /\ Items' = (IF ok' THEN wanted ELSE Items)
                 /\ ok' = (Len(wanted) <= VecCapacity)
  <2>1. /\ Items \in Seq(Elem) /\ Len(Items) = vec.size /\ vec.size \in Nat
        /\ \A i \in 1 .. vec.size : Items[i] = vec.data[i - 1]
    BY <1>1, ItemsFacts DEF ItemsInv
  <2>2. /\ vec.data \in [0 .. VecCapacity - 1 -> Elem] /\ VecCapacity \in Nat
        /\ vec.size <= VecCapacity
    BY <1>1, ContainersAssumption DEF Vector
  <2>3. ok' = ~(vec.size >= VecCapacity)
    BY <1>1 DEF push_back, full
  <2>4. CASE vec.size >= VecCapacity
    <3>1. vec' = vec
      BY <1>1, <2>4 DEF push_back, full
    <3>2. Items' = Items
      BY <3>1 DEF Items
    <3>3. ~(Len(Append(Items, v)) <= VecCapacity)
      BY <2>1, <2>2, <2>4
    <3>4. ~ok'
      BY <2>3, <2>4, Zenon
    <3>5. ok' = (Len(Append(Items, v)) <= VecCapacity)
      <4>1. ok' = FALSE
        BY <2>3, <2>4
      <4>2. (Len(Append(Items, v)) <= VecCapacity) = FALSE
        BY <3>3
      <4> QED
        BY <4>1, <4>2, Zenon
    <3> QED
      BY <3>2, <3>4, <3>5, Zenon
  <2>5. CASE ~(vec.size >= VecCapacity)
    <3>1. vec' = [data |-> [vec.data EXCEPT ![vec.size] = v], size |-> vec.size + 1]
      BY <1>1, <2>5 DEF push_back, full
    <3>2. /\ vec'.size = vec.size + 1 /\ vec'.data[vec.size] = v
          /\ \A i \in 0 .. vec.size - 1 : vec'.data[i] = vec.data[i]
      BY <2>1, <2>2, <2>5, <3>1
    <3>3. /\ Items' \in Seq(Elem) /\ Len(Items') = vec'.size
          /\ \A i \in 1 .. vec'.size : Items'[i] = vec'.data[i - 1]
      <4>1. (vec \in Vector)'
        BY <1>1 DEF Vector
      <4>2. ItemsInv'
        BY <4>1, ItemsFacts, PTL
      <4> QED
        BY <4>2 DEF ItemsInv
    <3>4. \A i \in 1 .. vec.size + 1 : Items'[i] = Append(Items, v)[i]
      BY <2>1, <3>2, <3>3
    <3>5. Items' = Append(Items, v)
      <4>1. Append(Items, v) \in Seq(Elem) /\ Len(Append(Items, v)) = vec.size + 1
        BY <2>1
      <4> QED
        BY <3>2, <3>3, <3>4, <4>1, SameSequence
    <3>6. Len(Append(Items, v)) <= VecCapacity
      BY <2>1, <2>2, <2>5
    <3>7. ok'
      BY <2>3, <2>5, Zenon
    <3>8. ok' = (Len(Append(Items, v)) <= VecCapacity)
      BY <2>3, <2>5, <3>6, Zenon
    <3> QED
      BY <3>5, <3>7, <3>8, Zenon
  <2> QED
    BY <2>4, <2>5
<1>2. ASSUME vec \in Vector, vec' \in Vector, NEW v \in Elem, NEW n \in 0 .. VecCapacity + 1,
             resize(n, v)
      PROVE  LET wanted == [i \in 1 .. n |-> IF i <= Len(Items) THEN Items[i] ELSE v]
             IN  Items' = (IF ok' THEN wanted ELSE Items) /\ ok' = (n <= VecCapacity)
  <2>1. /\ Items \in Seq(Elem) /\ Len(Items) = vec.size /\ vec.size \in Nat
        /\ \A i \in 1 .. vec.size : Items[i] = vec.data[i - 1]
    BY <1>2, ItemsFacts DEF ItemsInv
  <2>2. /\ vec.data \in [0 .. VecCapacity - 1 -> Elem] /\ VecCapacity \in Nat /\ n \in Nat
        /\ vec.size <= VecCapacity
    BY <1>2, ContainersAssumption DEF Vector
  <2>3. ok' = (n <= VecCapacity)
    BY <1>2 DEF resize
  <2>4. CASE n > VecCapacity
    <3>1. vec' = vec
      BY <1>2, <2>4 DEF resize
    <3>2. Items' = Items
      BY <3>1 DEF Items
    <3>3. ~(n <= VecCapacity)
      BY <2>2, <2>4
    <3>4. ~ok'
      BY <2>3, <3>3, Zenon
    <3> QED
      BY <2>3, <3>2, <3>4, Zenon
  <2>5. CASE ~(n > VecCapacity)
    <3>1. vec' = [data |-> [i \in DOMAIN vec.data |->
                             IF i \in vec.size .. n - 1 THEN v ELSE vec.data[i]],
                  size |-> n]
      BY <1>2, <2>5 DEF resize
    <3>2. /\ vec'.size = n
          /\ \A i \in 0 .. n - 1 : vec'.data[i] = IF i >= vec.size THEN v ELSE vec.data[i]
      BY <2>1, <2>2, <2>5, <3>1
    <3>3. Items' = [i \in 1 .. n |-> vec'.data[i - 1]]
      BY <3>2 DEF Items
    <3>4. \A i \in 1 .. n : vec'.data[i - 1] = IF i <= Len(Items) THEN Items[i] ELSE v
      BY <2>1, <2>2, <3>2
    <3>5. Items' = [i \in 1 .. n |-> IF i <= Len(Items) THEN Items[i] ELSE v]
      BY <3>3, <3>4
    <3>6. n <= VecCapacity
      BY <2>2, <2>5
    <3>7. ok'
      BY <2>3, <3>6, Zenon
    <3> QED
      BY <2>3, <3>5, <3>7, Zenon
  <2> QED
    BY <2>4, <2>5
<1>3. IInv /\ IInv' =>
    [\A v \in Elem :
       /\ push_back(v) =>
            LET wanted == Append(Items, v)
            IN  Items' = (IF ok' THEN wanted ELSE Items) /\ ok' = (Len(wanted) <= VecCapacity)
       /\ \A n \in 0 .. VecCapacity + 1 : resize(n, v) =>
            LET wanted == [i \in 1 .. n |-> IF i <= Len(Items) THEN Items[i] ELSE v]
            IN  Items' = (IF ok' THEN wanted ELSE Items) /\ ok' = (n <= VecCapacity)
    ]_containers
  <2> SUFFICES ASSUME vec \in Vector, vec' \in Vector, NEW v \in Elem
               PROVE  /\ push_back(v) =>
                           LET wanted == Append(Items, v)
                           IN  /\ Items' = (IF ok' THEN wanted ELSE Items)
                               /\ ok' = (Len(wanted) <= VecCapacity)
                      /\ \A n \in 0 .. VecCapacity + 1 : resize(n, v) =>
                           LET wanted == [i \in 1 .. n |-> IF i <= Len(Items) THEN Items[i] ELSE v]
                           IN  Items' = (IF ok' THEN wanted ELSE Items) /\ ok' = (n <= VecCapacity)
    BY DEF IInv, Vector
  <2> QED
    BY <1>1, <1>2
<1> QED
  BY <1>3, InvHolds, PTL DEF ActsAsVector

====
