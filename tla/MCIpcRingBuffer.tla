--------------------------- MODULE MCIpcRingBuffer ---------------------------
(***************************************************************************)
(* Instances of IpcRingBuffer for TLC.                                     *)
(***************************************************************************)
EXTENDS IpcRingBuffer, TLC

CONSTANTS
  A, B, C,   \* message types
  z, a,      \* payloads: all zero bytes, and another
  s1, s2     \* segments

\* A and B differ in id only; C is shorter and its slots are as large.
MCTraits ==
  A :> [id |-> 10, version |-> 1, size |-> 24, align |-> 8] @@
  B :> [id |-> 11, version |-> 1, size |-> 24, align |-> 8] @@
  C :> [id |-> 10, version |-> 1, size |-> 20, align |-> 4]

MCCrc(p, n) == n + (IF p = z THEN 0 ELSE 1)

\* Consumers that fit a ring of A with two slots, that fit it except for the
\* id or the payload's length, and one that wants more slots.
MCOpened == [type : {A, B, C}, capacity : {2}] \cup {[type |-> A, capacity |-> 4]}

\* Segments are interchangeable.
Symmetry == Permutations(Segment)

=============================================================================
