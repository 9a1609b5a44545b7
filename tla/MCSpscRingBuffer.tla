-------------------------- MODULE MCSpscRingBuffer --------------------------
(***************************************************************************)
(* Instances of SpscRingBuffer for TLC.                                    *)
(***************************************************************************)
EXTENDS SpscRingBuffer

CONSTANTS z, a, b   \* payloads: all zero bytes, and two others

MCPayload == {z, a, b}

\* One payload has the checksum 0 that also means "not computed".
MCCrc(p, n) == IF p = a THEN 0 ELSE n

\* One type, of 24 bytes aligned to 8.
MCTraits == [t \in Types |-> [id |-> 10, version |-> 1, size |-> 24, align |-> 8]]

\* Memory never used, and memory left over from another ring of the same
\* type, whose message was sealed and then altered.
MCUninit ==
  { [magic |-> 0, msg_id |-> 0, version |-> 0, crc |-> 0,
     payload_len |-> 0, payload |-> z],
    [magic |-> SINEW_MAGIC, msg_id |-> 10, version |-> 1, crc |-> 3,
     payload_len |-> 24, payload |-> b] }

=============================================================================
