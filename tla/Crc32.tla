-------------------------------- MODULE Crc32 --------------------------------
(***************************************************************************)
(* The table-driven CRC-32 of crc32.hpp.  A 32-bit word is the set of its  *)
(* one bits, so xor is the symmetric difference and a shift moves the      *)
(* bits' positions.                                                        *)
(***************************************************************************)
EXTENDS Integers, Sequences, SequencesExt

xor(a, b) == (a \ b) \cup (b \ a)
shr(w, n) == {i - n : i \in {j \in w : j >= n}}
bits(n) == {i \in 0 .. 7 : (n \div 2^i) % 2 = 1}

\* 0xEDB88320 and 0xFFFFFFFF
CRC_POLY == {31, 30, 29, 27, 26, 24, 23, 21, 20, 19, 15, 9, 8, 5}
AllOnes == 0 .. 31

\* generate_crc32_table(): eight steps of the division for each byte.
crc32_table ==
  [i \in SUBSET (0 .. 7) |->
     LET crc[j \in 0 .. 8] ==
           IF j = 0 THEN i
           ELSE LET c == crc[j - 1]
                IN  IF 0 \in c THEN xor(CRC_POLY, shr(c, 1)) ELSE shr(c, 1)
     IN  crc[8]]

\* The register after one more byte.
next_crc(crc, byte) ==
  xor(shr(crc, 8), crc32_table[xor(crc \cap 0 .. 7, bits(byte))])

\* The register after all bytes.
register(data, initial) ==
  LET crc[k \in 0 .. Len(data)] ==
        IF k = 0 THEN initial ELSE next_crc(crc[k - 1], data[k])
  IN  crc[Len(data)]

\* Mutation: the result is not complemented.
mut_crc32_plain(data, initial) == IF data = <<>> THEN {} ELSE register(data, initial)

\* crc32(data, length, initial), with length = Len(data).
crc32(data, initial) ==
  IF data = <<>> THEN {} ELSE xor(register(data, initial), AllOnes)

\* The word as the bytes a little-endian host stores.
bytes_of(w) ==
  [k \in 1 .. 4 |-> MapThenSumSet(LAMBDA i : 2^(i - 8 * (k - 1)),
                                  w \cap (8 * (k - 1) .. 8 * k - 1))]

-----------------------------------------------------------------------------
(***************************************************************************)
(* The reference: CRC-32 is the remainder of the division of the message,  *)
(* as a polynomial over GF(2) with the bits in the order of transmission,  *)
(* its first 32 bits complemented, by                                      *)
(*   x^32 + x^26 + x^23 + x^22 + x^16 + x^12 + x^11 + x^10 + x^8 + x^7     *)
(*        + x^5 + x^4 + x^2 + x + 1,                                       *)
(* again complemented.  A polynomial is the set of its exponents.          *)
(***************************************************************************)
Generator == {32, 26, 23, 22, 16, 12, 11, 10, 8, 7, 5, 4, 2, 1, 0}

CrcRemainder(data) ==
  LET n == 8 * Len(data)
      message == {n - 1 - j : j \in {i \in 0 .. n - 1 : i % 8 \in bits(data[i \div 8 + 1])}}
      dividend == xor({e + 32 : e \in message}, n .. n + 31)
      \* what is left after j steps, one for each exponent from n + 31 down
      rest[j \in 0 .. n] ==
        IF j = 0 THEN dividend
        ELSE LET r == rest[j - 1]
             IN  IF n + 32 - j \in r THEN xor(r, {e + n - j : e \in Generator}) ELSE r
  IN  xor({31 - e : e \in rest[n]}, AllOnes)

=============================================================================
