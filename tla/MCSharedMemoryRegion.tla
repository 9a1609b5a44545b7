------------------------ MODULE MCSharedMemoryRegion ------------------------
(***************************************************************************)
(* Instances of SharedMemoryRegion for TLC.                                *)
(***************************************************************************)
EXTENDS SharedMemoryRegion, TLC

CONSTANTS p1, p2, x1, x2, y1

\* Process p1 has two region variables, p2 one.
MCOwner == [x \in Object |-> IF x = y1 THEN p2 ELSE p1]

\* A short name, a long one, and what the long one is clamped to.
MCStem == {"short", "long", "clamped"}
MCStemLength == [s \in MCStem |-> IF s = "short" THEN 9 ELSE IF s = "long" THEN 40 ELSE 30]
MCClamp == [s \in MCStem |-> IF s = "long" THEN "clamped" ELSE s]

Short == [slash |-> FALSE, stem |-> "short"]
Slashed == [slash |-> TRUE, stem |-> "short"]
Long == [slash |-> TRUE, stem |-> "long"]

\* One creating process and one that opens, or two that create exclusively.
MCOneCreates ==
  [p \in Proc |-> IF p = p1 THEN {"create", "create_exclusive"} ELSE {"open"}]
MCOnlyCreate == [p \in Proc |-> IF p = p1 THEN {"create"} ELSE {"open"}]
MCAllExclusive == [p \in Proc |-> {"create_exclusive", "open"}]

\* Segments are interchangeable.
Symmetry == Permutations(Inode)

OneName == {Short}
TwoSpellings == {Short, Slashed}
TwoSegments == {Short, Long}

=============================================================================
