------------------------------ MODULE Dispatch ------------------------------
(***************************************************************************)
(* Packets of unknown type (dispatch.hpp): looking at the header, and      *)
(* choosing the handler whose message type fits.                           *)
(***************************************************************************)
EXTENDS Wire

CONSTANT NoPacket   \* an empty PacketView

\* Mutation: a payload that fills the buffer is taken for too long.
mut_inspect_error_full(buf, size) ==
  IF size < HeaderSize THEN "BufferTooSmall"
  ELSE IF buf.magic # SINEW_MAGIC THEN "BadMagic"
  ELSE IF buf.payload_len >= size - HeaderSize THEN "BufferTooSmall"
  ELSE "Ok"

\* The error inspect_packet reports for a buffer of that many bytes.
inspect_error(buf, size) ==
  IF size < HeaderSize THEN "BufferTooSmall"
  ELSE IF buf.magic # SINEW_MAGIC THEN "BadMagic"
  ELSE IF buf.payload_len > size - HeaderSize THEN "BufferTooSmall"
  ELSE "Ok"

\* The PacketView it fills in: a copy of the header.  The payload stays where
\* it is.
PacketHeader == [msg_id : Nat, version : Nat, crc : Nat, payload_len : Nat]
packet_view(buf) == [f \in {"msg_id", "version", "crc", "payload_len"} |-> buf[f]]

\* A list of message types that dispatch accepts (static_assert).
NoDuplicateIds(Ts) ==
  \A T, U \in Ts : Traits[T].id = Traits[U].id => T = U

\* try_dispatch_single<T>: the id is T's and view<T> accepts the buffer.
try_dispatch_single(T, buf, size, addr, verify_crc) ==
  /\ Traits[T].id = buf.msg_id
  /\ validate(T, buf, size, addr, verify_crc) = "Ok"

\* Mutation: the handler is chosen by the payload's length.
mut_dispatch_by_length(Ts, buf, size, addr, verify_crc) ==
  {T \in Ts : Traits[T].size = buf.payload_len /\ buf.magic = SINEW_MAGIC}

\* The message types whose handler dispatch<Ts...> calls; at most one, since
\* no two types in the list have one id.
dispatch(Ts, buf, size, addr, verify_crc) ==
  IF size < HeaderSize \/ buf.magic # SINEW_MAGIC THEN {}
  ELSE {T \in Ts : try_dispatch_single(T, buf, size, addr, verify_crc)}

\* Mutation: the header's bytes are left out.
mut_packet_size_no_header(pv) == pv.payload_len
\* The buffer size that dispatch derives from a PacketView.
packet_size(pv) == HeaderSize + pv.payload_len

=============================================================================
