----------------------------- MODULE MCWireLink -----------------------------
(***************************************************************************)
(* An instance of WireLink for TLC: types of which any two agree in all    *)
(* but one of size, id and version.  "Asym" hashes to 0 and, of the size   *)
(* of one that was never registered, may not be given the id 0.            *)
(***************************************************************************)
EXTENDS WireLink, MessageId

CONSTANTS z, a, b, c     \* payloads

Pose == <<80, 111, 115, 101>>
Asym == <<65, 115, 121, 109>>
PoseId == fnv1a16(Pose)

MCTypes == {"Pose", "Asym", "Plain", "PoseV2", "PoseShort"}
MCTraits ==
  [t \in MCTypes |->
     LET r == CASE t = "Pose"      -> named(Pose)
                [] t = "Asym"      -> named(Asym)
                [] t = "Plain"     -> UnknownMessage
                [] t = "PoseV2"    -> registered(PoseId, 2)
                [] t = "PoseShort" -> registered(PoseId, 1)
     IN  [id |-> r.id, version |-> r.version,
          size |-> IF t = "PoseShort" THEN 20 ELSE 24,
          align |-> IF t = "PoseShort" THEN 4 ELSE 8]]

MCPayload == {z, a, b, c}

\* One payload has the checksum 0, and two have the same one.
MCCrc(p, n) == IF p = a THEN 0 ELSE n + (IF p = z THEN 1 ELSE 2)

\* Zeroed memory, and a message of an unknown type.
MCForeign ==
  { [magic |-> 0, msg_id |-> 0, version |-> 0, crc |-> 0,
     payload_len |-> 0, payload |-> z],
    [magic |-> SINEW_MAGIC, msg_id |-> 9, version |-> 1, crc |-> 6,
     payload_len |-> 24, payload |-> a] }

=============================================================================
