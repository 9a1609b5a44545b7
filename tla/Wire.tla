-------------------------------- MODULE Wire --------------------------------
(***************************************************************************)
(* The wire format of sinew: a fixed 16-byte header in front of a          *)
(* fixed-size payload (types.hpp), and the functions that stamp, seal and  *)
(* check it (wire.hpp).  A buffer is a record with the header's fields and *)
(* the payload; a payload is an opaque value for the bytes behind the      *)
(* header, and Crc(p, n) is the CRC-32 of the first n of them.  Distinct   *)
(* payloads may have the same checksum, and a payload may have checksum 0: *)
(* both happen with CRC-32.                                                *)
(***************************************************************************)
EXTENDS Integers

CONSTANTS
  Types,    \* the message types T the program instantiates the templates with
  Traits,   \* MessageTraits<T>::id and ::version, sizeof(T) and alignof(T)
  Payload,  \* the payload values
  Fresh,    \* the payload after memset(payload, 0, sizeof(T)) and new (payload) T
  Crc(_, _) \* the checksum of so many bytes of a payload

ASSUME TraitsAssumption ==
  Traits \in [Types -> [id : Nat, version : Nat, size : Nat, align : Nat \ {0}]]

ASSUME PayloadAssumption ==
  Fresh \in Payload /\ \A p \in Payload, T \in Types : Crc(p, Traits[T].size) \in Nat

\* 'SNEW', 0x574E4953
SINEW_MAGIC == 1464748371

\* sizeof(Header)
HeaderSize == 16

\* What the header and payload bytes of one buffer can hold.
Buffer == [magic : Nat, msg_id : Nat, version : Nat, crc : Nat,
           payload_len : Nat, payload : Payload]

ErrorCode == {"Ok", "BufferTooSmall", "BadMagic", "IdMismatch",
              "VersionMismatch", "ChecksumMismatch", "Misaligned"}

message_size(T) == HeaderSize + Traits[T].size

(***************************************************************************)
(* Addresses are byte offsets from an address aligned for every type.  A   *)
(* null buffer pointer is answered like one that is too small and is       *)
(* represented by size 0.                                                  *)
(***************************************************************************)
misaligned(T, addr) == (addr + HeaderSize) % Traits[T].align # 0

\* Mutation: the checksum is never compared.
checksum_ok_skipped(buf, n, verify_crc) == TRUE

\* Mutation: a stored crc of 0 is compared like any other.
checksum_ok_strict(buf, n, verify_crc) ==
  verify_crc => Crc(buf.payload, n) = buf.crc

\* The checksum test over n bytes: a stored crc of 0 means "not computed".
checksum_ok(buf, n, verify_crc) ==
  verify_crc /\ buf.crc # 0 => Crc(buf.payload, n) = buf.crc

(***************************************************************************)
(* validate<T>(buffer, size, verify_crc), with the buffer at address addr: *)
(* the checks in the order of their early returns.                         *)
(***************************************************************************)
validate(T, buf, size, addr, verify_crc) ==
  IF size < message_size(T) THEN "BufferTooSmall"
  ELSE IF misaligned(T, addr) THEN "Misaligned"
  ELSE IF buf.magic # SINEW_MAGIC THEN "BadMagic"
  ELSE IF buf.payload_len # Traits[T].size THEN "BufferTooSmall"
  ELSE IF buf.msg_id # Traits[T].id THEN "IdMismatch"
  ELSE IF buf.version # Traits[T].version THEN "VersionMismatch"
  ELSE IF ~checksum_ok(buf, Traits[T].size, verify_crc) THEN "ChecksumMismatch"
  ELSE "Ok"

\* Mutation: the header's bytes are left out of the size that is needed.
mut_prepare_error_no_header(T, capacity, addr) ==
  IF capacity < Traits[T].size THEN "BufferTooSmall"
  ELSE IF misaligned(T, addr) THEN "Misaligned"
  ELSE "Ok"

\* The error prepare_result<T>(buffer, capacity) reports.
prepare_error(T, capacity, addr) ==
  IF capacity < message_size(T) THEN "BufferTooSmall"
  ELSE IF misaligned(T, addr) THEN "Misaligned"
  ELSE "Ok"

\* Mutation: without the memset and the constructor the old payload stays.
mut_prepare_keeps_payload(T, buf) ==
  [magic |-> SINEW_MAGIC, msg_id |-> Traits[T].id,
   version |-> Traits[T].version, crc |-> 0,
   payload_len |-> Traits[T].size, payload |-> buf.payload]

\* What prepare_result<T> leaves in the buffer when it reports no error.
prepare(T, buf) ==
  [magic |-> SINEW_MAGIC, msg_id |-> Traits[T].id,
   version |-> Traits[T].version, crc |-> 0,
   payload_len |-> Traits[T].size, payload |-> Fresh]

\* finalize<T>(payload, compute_crc), found from the payload pointer.
finalize(T, buf, compute_crc) ==
  [buf EXCEPT !.crc = IF compute_crc THEN Crc(buf.payload, Traits[T].size) ELSE 0]

=============================================================================
