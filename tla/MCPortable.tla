------------------------------ MODULE MCPortable ------------------------------
(***************************************************************************)
(* An instance of Portable for TLC: a vector of two elements, a string of  *)
(* three characters, and the source's CRC-32 of the bytes of a payload.    *)
(***************************************************************************)
EXTENDS Portable, Crc32

\* The bytes of a string, a vector and a payload in the order of the members.
StringBytes(c) == [i \in 1 .. StrCapacity + 1 |-> c.data[i - 1]] \o c.size
VectorBytes(c) == FlattenSeq([i \in 1 .. VecCapacity |-> c.data[i - 1]]) \o c.size
BytesOf(p) ==
  p.seq \o StringBytes(p.device_id) \o VectorBytes(p.voltages) \o FlattenSeq(p.raw)

MCCrc(p) == bytes_of(crc32(BytesOf(p), AllOnes))

\* A pattern of bytes is xored to the scalar and the string: it is a multiple
\* of the generator polynomial, so the checksum stays the same.
XorByte(byte, pattern) == MapThenSumSet(LAMBDA i : 2^i, xor(bits(byte), bits(pattern)))
Burst(p) ==
  [p EXCEPT !.seq = <<XorByte(@[1], 65), XorByte(@[2], 6)>>,
            !.device_id.data = [i \in DOMAIN @ |-> IF i > 2 THEN @[i]
                                  ELSE XorByte(@[i], <<113, 219, 1>>[i + 1])]]

\* That, or a bit of the first or of the last byte, of a size, or all bits of
\* an element's byte.
Flip(w, k, n) == [i \in 1 .. Len(w) |-> IF i = k THEN (w[i] + n) % 256 ELSE w[i]]
MCChanged(p) ==
  { Burst(p),
    [p EXCEPT !.seq = Flip(@, 1, 1)],
    [p EXCEPT !.raw = <<@[1], Flip(@[2], 2, 128)>>],
    [p EXCEPT !.voltages.size = Flip(@, 1, 2)],
    [p EXCEPT !.voltages.data = [i \in DOMAIN @ |-> IF i = 1 THEN Flip(@[i], 1, 255) ELSE @[i]]] }

\* The message with the text "x" and both elements has the checksum 0.
MCElem == {<<0, 0>>, <<218, 149>>, <<34, 150>>}
MCZero == <<0, 0>>
MCScalar == {<<52, 18>>}
MCTexts == {<<>>, <<120>>, <<121, 120>>, <<120, 120, 121, 121>>}

\* The checksum of the containers of every payload sent is the remainder of
\* the division of their bytes by the generator polynomial.
CrcIsRemainder ==
  \A host \in Endian :
    LET p == normalized(host, message(host))
    IN  \A bytes \in {StringBytes(p.device_id), VectorBytes(p.voltages)} :
          crc32(bytes, AllOnes) = CrcRemainder(bytes)

=============================================================================
