------------------------------ MODULE MessageId ------------------------------
(***************************************************************************)
(* How a message type gets its id and version (message.hpp): given in      *)
(* SINEW_REGISTER_MESSAGE, from the hash of its name in SINEW_MESSAGE, or  *)
(* none.  A character is its code; the 32-bit hash is its two 16-bit       *)
(* halves, since TLC's integers have 32 bits and a sign.                   *)
(***************************************************************************)
EXTENDS Integers, Sequences
LOCAL INSTANCE SequencesExt
LOCAL INSTANCE Bitwise

\* 0x811c9dc5
OffsetBasis == <<33052, 40389>>

\* hash = (hash ^ c) * 0x01000193, modulo 2^32
next_hash(hash, c) ==
  LET lo == hash[2] ^^ c
      product == 403 * lo
  IN  << (403 * hash[1] + product \div 65536 + 256 * lo) % 65536, product % 65536 >>

\* FNV-1a of "a" and "foobar", as published.
ASSUME FnvVectors ==
  /\ next_hash(OffsetBasis, 97) = <<58380, 10540>>
  /\ FoldLeft(next_hash, OffsetBasis, <<102, 111, 111, 98, 97, 114>>) = <<49052, 63848>>

folded(hash) == hash[1] ^^ hash[2]

\* Mutation: a hash of 0 is taken as it is.
mut_fnv1a16_zero(s) == folded(FoldLeft(next_hash, OffsetBasis, s))

\* fnv1a16(s): never 0, the id of types without one.
fnv1a16(s) ==
  LET h16 == folded(FoldLeft(next_hash, OffsetBasis, s))
  IN  IF h16 = 0 THEN 1 ELSE h16

\* MessageTraits<T>::id and ::version after SINEW_REGISTER_MESSAGE(T, id,
\* version), after SINEW_MESSAGE(name), and of any other type.
registered(id, version) == [id |-> id % 65536, version |-> version % 65536]
named(name) == registered(fnv1a16(name), 1)
UnknownMessage == [id |-> 0, version |-> 1]

=============================================================================
