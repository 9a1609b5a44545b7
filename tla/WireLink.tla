------------------------------ MODULE WireLink ------------------------------
(***************************************************************************)
(* One buffer between a sender and a receiver (wire.hpp): the sender       *)
(* prepares it for a message type, fills the payload in place and          *)
(* finalizes it, with or without a checksum; the bytes may be altered on   *)
(* the way; the receiver validates them as whatever type it expects.  The  *)
(* buffer is reused for message after message, of any of the types.        *)
(***************************************************************************)
EXTENDS Wire

CONSTANTS
  Addr,      \* addresses of buffers, relative to an address good for any type
  Extent,    \* their sizes in bytes
  Foreign,   \* what a buffer may hold before its first use
  NoType     \* no type

ASSUME LinkAssumption ==
  Addr \subseteq Nat /\ Extent \subseteq Nat /\ Foreign \subseteq Buffer
    /\ NoType \notin Types

VARIABLES
  buf,       \* the bytes of the buffer
  addr,      \* where the buffer is
  capacity,  \* how many bytes it has
  stage,     \* raw, prepared or sealed
  type,      \* the type it was last prepared for
  sent,      \* what the sender put into it, or finalized
  checked    \* finalize stored a checksum

vars == <<buf, addr, capacity, stage, type, sent, checked>>

Init ==
  /\ buf \in Foreign /\ addr \in Addr /\ capacity \in Extent
  /\ stage = "raw" /\ type = NoType /\ sent = Fresh /\ checked = FALSE

-----------------------------------------------------------------------------
\* prepare_result<T>(buffer, capacity); on an error the buffer is untouched.
prepare_result(T) ==
  IF prepare_error(T, capacity, addr) = "Ok"
  THEN /\ buf' = prepare(T, buf)
       /\ stage' = "prepared" /\ type' = T /\ sent' = Fresh
       /\ UNCHANGED <<addr, capacity, checked>>
  ELSE UNCHANGED vars

\* The sender writes through the payload pointer.
write_payload(v) ==
  /\ stage = "prepared"
  /\ buf' = [buf EXCEPT !.payload = v] /\ sent' = v
  /\ UNCHANGED <<addr, capacity, stage, type, checked>>

\* finalize<T>(payload, compute_crc); a message may be finalized once more.
finalize_message(compute_crc) ==
  /\ stage \in {"prepared", "sealed"}
  /\ buf' = finalize(type, buf, compute_crc)
  /\ stage' = "sealed" /\ sent' = buf.payload /\ checked' = compute_crc
  /\ UNCHANGED <<addr, capacity, type>>

\* The payload changes after it was finalized: on the wire, in memory, or by
\* a late write through the payload pointer.
alter(v) ==
  /\ stage = "sealed"
  /\ buf' = [buf EXCEPT !.payload = v]
  /\ UNCHANGED <<addr, capacity, stage, type, sent, checked>>

Next ==
  \/ \E T \in Types : prepare_result(T)
  \/ \E v \in Payload : write_payload(v) \/ alter(v)
  \/ \E c \in BOOLEAN : finalize_message(c)

Spec == Init /\ [][Next]_vars

-----------------------------------------------------------------------------
(***************************************************************************)
(* Properties.                                                             *)
(***************************************************************************)

\* Types, and that prepare never hands out a payload beyond the buffer or
\* badly aligned.
TypeOK ==
  /\ buf \in Buffer /\ addr \in Nat /\ capacity \in Nat
  /\ stage \in {"raw", "prepared", "sealed"} /\ checked \in BOOLEAN
  /\ sent \in Payload
  /\ stage = "raw" => type = NoType
  /\ stage # "raw" => /\ type \in Types /\ ~misaligned(type, addr)
                      /\ capacity >= message_size(type)

\* A prepared message shows what the sender wrote since and nothing of an
\* earlier message in the buffer; one that arrives as it was finalized is
\* accepted by view<T>, with or without a checksum, verified or not.
RoundTrip ==
  /\ stage = "prepared" => buf.payload = sent
  /\ stage = "sealed" /\ buf.payload = sent =>
       \A verify \in BOOLEAN : validate(type, buf, capacity, addr, verify) = "Ok"

\* view<U> accepts no message of another type, of the same size or not, in
\* any state of the buffer the sender can leave it in.
NoTypeConfusion ==
  stage # "raw" => \A U \in Types, verify \in BOOLEAN :
    validate(U, buf, capacity, addr, verify) = "Ok" => U = type

\* validate reports an altered payload as ChecksumMismatch if the receiver
\* asks, the message was finalized with a checksum, that checksum is not 0,
\* which reads as "not computed", and the altered payload has another one; in
\* every other case it accepts the message.
AlterationDetected ==
  stage = "sealed" /\ buf.payload # sent =>
    \A verify \in BOOLEAN :
      LET n == Traits[type].size
          noticed == /\ verify /\ checked /\ Crc(sent, n) # 0
                     /\ Crc(buf.payload, n) # Crc(sent, n)
      IN  validate(type, buf, capacity, addr, verify)
            = IF noticed THEN "ChecksumMismatch" ELSE "Ok"

=============================================================================
