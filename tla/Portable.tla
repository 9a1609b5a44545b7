------------------------------- MODULE Portable -------------------------------
(***************************************************************************)
(* The portable encoding (portable.hpp, endian.hpp) of a message with a    *)
(* scalar, a StaticString, a StaticVector and a C array, as the tests and  *)
(* examples have them, between hosts of either byte order.                 *)
(*                                                                         *)
(* Memory is bytes: a word is the sequence of its bytes in the order of    *)
(* their addresses, and the value of a word is written as the bytes a      *)
(* little-endian host stores for it.  The sender changes its containers    *)
(* with their operations; encoding and decoding have no state of their     *)
(* own, so the properties ask what they do in every state of the message.  *)
(***************************************************************************)
EXTENDS StaticContainers

CONSTANTS
  Id, Version, PayloadSize,  \* MessageTraits<T>::id and ::version, sizeof(T)
  Reflected,                 \* the fields listed in SINEW_REFLECT
  Crc(_),                    \* crc32 of a payload's bytes, as a value
  Changed(_),                \* payloads that a damaged payload may become
  Scalar                     \* the values of the scalar and of an array element

Endian == {"little", "big"}
Field == {"seq", "device_id", "voltages", "raw"}

ASSUME PortableAssumption == Reflected \subseteq Field

VARIABLES seq, raw   \* the scalar field and the array of two scalars

vars == <<containers, seq, raw>>

Init == ContainersInit /\ seq \in Scalar /\ raw \in [1 .. 2 -> Scalar]
Next == ContainersNext /\ UNCHANGED <<seq, raw>>
Spec == Init /\ [][Next]_vars

-----------------------------------------------------------------------------
(***************************************************************************)
(* Byte order.                                                             *)
(***************************************************************************)
byte_swap(w) == [i \in 1 .. Len(w) |-> w[Len(w) + 1 - i]]

\* to_little_endian and from_little_endian on a host; a host that stores a
\* value, or loads it, does the same to its bytes.
to_little_endian(host, w) == IF host = "big" THEN byte_swap(w) ELSE w
native(host, w) == to_little_endian(host, w)

\* Numbers of 16 and 32 bits as values, and a 32-bit value as a number.
u16(n) == <<n % 256, (n \div 256) % 256>>
u32(n) ==
  <<n % 256, (n \div 256) % 256, (n \div 65536) % 256, (n \div 16777216) % 256>>
number(w) == w[1] + 256 * (w[2] + 256 * (w[3] + 256 * w[4]))

\* The sender's message as it lies in the memory of a host.
message(host) ==
  [seq |-> native(host, seq),
   device_id |-> [data |-> str.data, size |-> native(host, u32(str.size))],
   voltages |-> [data |-> [i \in 0 .. VecCapacity - 1 |-> native(host, vec.data[i])],
                 size |-> native(host, u32(vec.size))],
   raw |-> [i \in 1 .. 2 |-> native(host, raw[i])]]

-----------------------------------------------------------------------------
(***************************************************************************)
(* portable_swap, on a host.                                               *)
(***************************************************************************)

\* The size as the host reads it: before a decoded one is in its order.
count(host, v) ==
  LET n == number(native(host, v.size)) IN IF n <= VecCapacity THEN n ELSE VecCapacity

\* Mutation: the size stays as it is.
mut_swap_vector_elements(host, v) ==
  [v EXCEPT !.data = [i \in DOMAIN v.data |->
                        IF i < count(host, v) THEN byte_swap(v.data[i]) ELSE v.data[i]]]
swap_vector(host, v) ==
  [data |-> [i \in DOMAIN v.data |->
               IF i < count(host, v) THEN byte_swap(v.data[i]) ELSE v.data[i]],
   size |-> byte_swap(v.size)]

swap_string(s) == [data |-> s.data, size |-> byte_swap(s.size)]

\* Every field that is listed and is a scalar, a string or a vector; an array
\* is none of these, and stays as it is.
portable_swap(host, m) ==
  [seq |-> IF "seq" \in Reflected THEN byte_swap(m.seq) ELSE m.seq,
   device_id |-> IF "device_id" \in Reflected THEN swap_string(m.device_id) ELSE m.device_id,
   voltages |-> IF "voltages" \in Reflected THEN swap_vector(host, m.voltages) ELSE m.voltages,
   raw |-> m.raw]

normalized(host, m) == IF host = "big" THEN portable_swap(host, m) ELSE m

-----------------------------------------------------------------------------
(***************************************************************************)
(* portable_encode and portable_decode.                                    *)
(***************************************************************************)
HeaderSize == 16
SINEW_MAGIC == 1464748371
MessageSize == HeaderSize + PayloadSize

\* A header field is stored by the host in the order of the wire.
stored(host, w) == to_little_endian(host, native(host, w))

\* What portable_encode returns: the bytes it wrote, or none.
encoded_size(dest_capacity) == IF dest_capacity < MessageSize THEN 0 ELSE MessageSize

\* Mutation: the checksum is that of the bytes before they are normalized.
mut_portable_encode_native_crc(host, m, compute_crc) ==
  [magic |-> stored(host, u32(SINEW_MAGIC)),
   msg_id |-> stored(host, u16(Id)), version |-> stored(host, u16(Version)),
   payload_len |-> stored(host, u32(PayloadSize)),
   crc |-> IF compute_crc THEN stored(host, Crc(m)) ELSE u32(0),
   payload |-> normalized(host, m)]

\* What portable_encode leaves in a buffer that is large enough.
portable_encode(host, m, compute_crc) ==
  LET payload == normalized(host, m)
  IN  [magic |-> stored(host, u32(SINEW_MAGIC)),
       msg_id |-> stored(host, u16(Id)), version |-> stored(host, u16(Version)),
       payload_len |-> stored(host, u32(PayloadSize)),
       crc |-> IF compute_crc THEN stored(host, Crc(payload)) ELSE u32(0),
       payload |-> payload]

\* A header field as the host reads it.
loaded(host, w) == native(host, to_little_endian(host, w))

crc_ok(host, wire, verify_crc) ==
  verify_crc /\ wire.crc # u32(0) => Crc(wire.payload) = loaded(host, wire.crc)

\* The error of portable_decode(wire, src_len, dest, verify_crc).
decode_error(host, wire, src_len, verify_crc) ==
  IF src_len < MessageSize THEN "BufferTooSmall"
  ELSE IF loaded(host, wire.magic) # u32(SINEW_MAGIC) THEN "BadMagic"
  ELSE IF loaded(host, wire.msg_id) # u16(Id) THEN "IdMismatch"
  ELSE IF loaded(host, wire.version) # u16(Version) THEN "VersionMismatch"
  ELSE IF loaded(host, wire.payload_len) # u32(PayloadSize) THEN "BufferTooSmall"
  ELSE IF ~crc_ok(host, wire, verify_crc) THEN "ChecksumMismatch"
  ELSE "Ok"

\* What it leaves in dest when there is none.
decoded(host, wire) == normalized(host, wire.payload)

-----------------------------------------------------------------------------
(***************************************************************************)
(* Properties.                                                             *)
(***************************************************************************)

\* What a program on the host reads from the members of a message.
size_of(host, c) == number(native(host, c.size))
shown(host, m) ==
  [seq |-> native(host, m.seq),
   text |-> <<size_of(host, m.device_id),
              [i \in 0 .. StrCapacity |-> m.device_id.data[i]]>>,
   items |-> <<size_of(host, m.voltages),
               [i \in 0 .. vec.size - 1 |-> native(host, m.voltages.data[i])]>>]

\* A message encoded on any host is accepted on any host, with or without a
\* checksum, and shows there what it showed to its sender, although the
\* elements that a vector does not use are swapped by one side only; if the
\* sender's buffer was too small for it, the receiver is told.
RoundTrip ==
  \A from, to \in Endian, compute, verify \in BOOLEAN :
    LET wire == portable_encode(from, message(from), compute)
    IN  /\ \A capacity \in {MessageSize - 1, MessageSize} :
             decode_error(to, wire, encoded_size(capacity), verify)
               = IF capacity < MessageSize THEN "BufferTooSmall" ELSE "Ok"
        /\ shown(to, decoded(to, wire)) = shown(from, message(from))

\* "Automatically normalizes byte order to Little Endian across endian
\* boundaries": the array, too, shows what it showed to its sender.
ArraysRoundTrip ==
  \A from, to \in Endian :
    LET in == decoded(to, portable_encode(from, message(from), TRUE))
    IN  \A i \in 1 .. 2 : native(to, in.raw[i]) = raw[i]

\* A payload that was damaged on the way is refused, on any host, exactly if
\* the checksum it was sent with is not 0, which the receiver takes for none,
\* and the damaged payload has another one.
DamageDetected ==
  \A from \in Endian :
    LET wire == portable_encode(from, message(from), TRUE)
        sum == Crc(wire.payload)
    IN  \A p \in Changed(wire.payload) :
          LET noticed == sum # u32(0) /\ Crc(p) # sum
          IN  \A to \in Endian :
                decode_error(to, [wire EXCEPT !.payload = p], MessageSize, TRUE)
                  = IF noticed THEN "ChecksumMismatch" ELSE "Ok"

=============================================================================
