---------------------------- MODULE MCIpcEnvelope ----------------------------
(***************************************************************************)
(* Instances of IpcEnvelope for TLC.                                       *)
(***************************************************************************)
EXTENDS IpcEnvelope, TLC

CONSTANTS
  A, B, M,   \* message types
  z, a       \* payloads: all zero bytes, and another

\* A and B have one length, M fills a slot to its last byte.
MCTraits ==
  A :> [id |-> 10, version |-> 1, size |-> 24, align |-> 8] @@
  B :> [id |-> 20, version |-> 1, size |-> 24, align |-> 8] @@
  M :> [id |-> 30, version |-> 1, size |-> 48, align |-> 16]

\* It depends on how many bytes it covers.
MCCrc(p, n) == n + (IF p = z THEN 0 ELSE 1)

\* Consumers that handle everything, or one type.
MCHandled == {{A, B, M}, {B}}

=============================================================================
