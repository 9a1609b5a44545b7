----------------------------- MODULE Crc32Proofs -----------------------------
(***************************************************************************)
(* Proofs about the CRC-32, for every sequence of bytes: the register of   *)
(* the table-driven algorithm follows the division of the polynomial.      *)
(* Eight rounds of it are linear in the register, which is why a table     *)
(* of them suffices, and each round is one step of the division.           *)
(***************************************************************************)
EXTENDS MCPortable, PortableProofs

Word == SUBSET (0 .. 31)

\* One round of generate_crc32_table's inner loop.
Round(c) == IF 0 \in c THEN xor(CRC_POLY, shr(c, 1)) ELSE shr(c, 1)

\* The register's bits as exponents, when the division has got down to m + 32.
Window(m, c) == {e \in m .. m + 31 : m + 31 - e \in c}

-----------------------------------------------------------------------------
(***************************************************************************)
(* Words.                                                                  *)
(***************************************************************************)

\* Xor, bit by bit.
LEMMA XorBits ==
  ASSUME NEW a, NEW b
  PROVE  \A i : i \in xor(a, b) <=> ~(i \in a <=> i \in b)
BY DEF xor

\* Sets with the same elements are equal.
LEMMA SameBits ==
  ASSUME NEW S, NEW a \in SUBSET S, NEW b \in SUBSET S, \A i \in S : i \in a <=> i \in b
  PROVE  a = b
OBVIOUS

\* A shift moves each bit n places down.
LEMMA ShiftBits ==
  ASSUME NEW c \in Word, NEW n \in Nat
  PROVE  /\ shr(c, n) \in Word
         /\ \A i \in Nat : i \in shr(c, n) <=> i + n \in c
<1>1. \A j \in c : j \in 0 .. 31
  BY DEF Word
<1>2. shr(c, n) \in Word
  BY <1>1 DEF shr, Word
<1>3. ASSUME NEW i \in Nat PROVE i \in shr(c, n) <=> i + n \in c
  <2>1. ASSUME i + n \in c PROVE i \in shr(c, n)
    <3>1. i + n >= n /\ (i + n) - n = i
      OBVIOUS
    <3>2. i + n \in {j \in c : j >= n}
      BY <2>1, <3>1
    <3> QED
      BY <3>1, <3>2 DEF shr
  <2>2. ASSUME i \in shr(c, n) PROVE i + n \in c
    <3>1. PICK j \in c : i = j - n
      BY <2>2 DEF shr
    <3>2. i + n = j
      BY <1>1, <3>1
    <3> QED
      BY <3>1, <3>2
  <2> QED
    BY <2>1, <2>2
<1> QED
  BY <1>2, <1>3

\* Xor stays within 32 bits.
LEMMA XorWord == ASSUME NEW a \in Word, NEW b \in Word PROVE xor(a, b) \in Word
BY DEF xor, Word

\* The polynomial and the initial value are words.
LEMMA Constants == CRC_POLY \in Word /\ AllOnes \in Word
BY DEF CRC_POLY, AllOnes, Word

\* A round, bit by bit: a shift, with the polynomial added if the lowest bit
\* was set.
LEMMA RoundBits ==
  ASSUME NEW c \in Word
  PROVE  /\ Round(c) \in Word
         /\ \A i \in Nat : i \in Round(c) <=> ~((0 \in c /\ i \in CRC_POLY) <=> i + 1 \in c)
<1>1. shr(c, 1) \in Word /\ \A i \in Nat : i \in shr(c, 1) <=> i + 1 \in c
  BY ShiftBits
<1>2. CASE 0 \in c
  <2>1. Round(c) = xor(CRC_POLY, shr(c, 1))
    BY <1>2 DEF Round
  <2> QED
    BY <1>1, <1>2, <2>1, XorBits, XorWord, Constants
<1>3. CASE 0 \notin c
  <2>1. Round(c) = shr(c, 1)
    BY <1>3 DEF Round
  <2> QED
    BY <1>1, <1>3, <2>1
<1> QED
  BY <1>2, <1>3

\* A round distributes over xor.
LEMMA RoundXor ==
  ASSUME NEW a \in Word, NEW b \in Word
  PROVE  Round(xor(a, b)) = xor(Round(a), Round(b))
<1>1. xor(a, b) \in Word /\ Round(a) \in Word /\ Round(b) \in Word
  BY XorWord, RoundBits
<1>2. Round(xor(a, b)) \in Word /\ xor(Round(a), Round(b)) \in Word
  BY <1>1, XorWord, RoundBits
<1>3. \A i \in Nat : i \in Round(xor(a, b)) <=> ~((0 \in xor(a, b) /\ i \in CRC_POLY) <=> i + 1 \in xor(a, b))
  BY <1>1, RoundBits
<1>4. \A i \in Nat : i \in Round(a) <=> ~((0 \in a /\ i \in CRC_POLY) <=> i + 1 \in a)
  BY RoundBits
<1>5. \A i \in Nat : i \in Round(b) <=> ~((0 \in b /\ i \in CRC_POLY) <=> i + 1 \in b)
  BY RoundBits
<1>6. \A i \in 0 .. 31 : i \in Round(xor(a, b)) <=> i \in xor(Round(a), Round(b))
  BY <1>3, <1>4, <1>5, XorBits
<1> QED
  BY <1>2, <1>6, SameBits DEF Word

-----------------------------------------------------------------------------
(***************************************************************************)
(* Loops.                                                                  *)
(***************************************************************************)

\* A loop of n rounds has a sequence of values, for a body given as a function.
Runs(W, first, G, n) ==
  \E f \in [0 .. n -> W] : f[0] = first /\ \A k \in 1 .. n : f[k] = G[k][f[k - 1]]

\* Every loop runs: by induction on the number of its rounds.
LEMMA Loop ==
  ASSUME NEW W, NEW first \in W, NEW G \in [Nat -> [W -> W]], NEW n \in Nat
  PROVE  Runs(W, first, G, n)
<1> DEFINE S == {m \in Nat : \E f \in [0 .. m -> W] :
                   f[0] = first /\ \A k \in 1 .. m : f[k] = G[k][f[k - 1]]}
<1>1. 0 \in S
  <2> DEFINE f == [i \in 0 .. 0 |-> first]
  <2>1. f \in [0 .. 0 -> W] /\ f[0] = first
    OBVIOUS
  <2>2. \A k \in 1 .. 0 : FALSE
    OBVIOUS
  <2> HIDE DEF f
  <2> QED
    BY <2>1, <2>2
<1>2. ASSUME NEW m \in S PROVE m + 1 \in S
  <2>1. PICK f \in [0 .. m -> W] : f[0] = first /\ \A k \in 1 .. m : f[k] = G[k][f[k - 1]]
    OBVIOUS
  <2>2. m \in Nat /\ m + 1 \in Nat
    OBVIOUS
  <2> DEFINE g == [i \in 0 .. m + 1 |-> IF i <= m THEN f[i] ELSE G[m + 1][f[m]]]
  <2>3. f[m] \in W
    BY <2>2
  <2>4. G[m + 1][f[m]] \in W
    <3>1. G[m + 1] \in [W -> W]
      BY <2>2
    <3> QED
      BY <2>3, <3>1
  <2>5. g \in [0 .. m + 1 -> W]
    BY <2>2, <2>4
  <2>6. g[0] = first
    BY <2>1, <2>2
  <2>7. \A k \in 1 .. m + 1 : g[k] = G[k][g[k - 1]]
    <3> TAKE k \in 1 .. m + 1
    <3>1. g[k - 1] = f[k - 1]
      BY <2>2
    <3>2. CASE k <= m
      <4>1. g[k] = f[k] /\ f[k] = G[k][f[k - 1]]
        BY <2>1, <2>2, <3>2
      <4> HIDE DEF g
      <4> QED
        BY <3>1, <4>1
    <3>3. CASE ~(k <= m)
      <4>1. k = m + 1 /\ k - 1 = m
        BY <2>2, <3>3
      <4>2. g[k] = G[m + 1][f[m]]
        BY <2>2, <3>3
      <4> HIDE DEF g
      <4> QED
        BY <3>1, <4>1, <4>2
    <3> QED
      BY <3>2, <3>3
  <2> HIDE DEF g
  <2> QED
    BY <2>2, <2>5, <2>6, <2>7
<1>3. S \in SUBSET Nat
  OBVIOUS
<1> HIDE DEF S
<1>4. S = Nat
  BY <1>1, <1>2, <1>3, Induction
<1> QED
  BY <1>4 DEF S, Runs

\* The values of c in the table's inner loop.
Rounds(c) ==
  CHOOSE h \in [0 .. 8 -> Word] : h[0] = c /\ \A j \in 1 .. 8 : h[j] = Round(h[j - 1])

\* The rounds exist, start from c and follow one another.
LEMMA RoundsFacts ==
  ASSUME NEW c \in Word
  PROVE  /\ Rounds(c) \in [0 .. 8 -> Word] /\ Rounds(c)[0] = c
         /\ \A j \in 1 .. 8 : Rounds(c)[j] = Round(Rounds(c)[j - 1])
<1> DEFINE G == [j \in Nat |-> [w \in Word |-> Round(w)]]
<1>1. G \in [Nat -> [Word -> Word]]
  BY RoundBits
<1>2. \A j \in Nat, w \in Word : G[j][w] = Round(w)
  OBVIOUS
<1> HIDE DEF G
<1>3. Runs(Word, c, G, 8)
  BY <1>1, Loop
<1>4. PICK f \in [0 .. 8 -> Word] : f[0] = c /\ \A k \in 1 .. 8 : f[k] = G[k][f[k - 1]]
  BY <1>3 DEF Runs
<1>5. \A j \in 1 .. 8 : f[j] = Round(f[j - 1])
  <2> TAKE j \in 1 .. 8
  <2>1. j \in Nat /\ j - 1 \in 0 .. 8
    OBVIOUS
  <2> QED
    BY <1>2, <1>4, <2>1
<1>6. \E h \in [0 .. 8 -> Word] : h[0] = c /\ \A j \in 1 .. 8 : h[j] = Round(h[j - 1])
  BY <1>4, <1>5
<1> QED
  BY <1>6, Zenon DEF Rounds

\* Rounds distribute over xor.
LEMMA RoundsXor ==
  ASSUME NEW a \in Word, NEW b \in Word
  PROVE  \A j \in 0 .. 8 : Rounds(xor(a, b))[j] = xor(Rounds(a)[j], Rounds(b)[j])
<1> DEFINE S == {j \in Nat : j <= 8 => Rounds(xor(a, b))[j] = xor(Rounds(a)[j], Rounds(b)[j])}
<1>0. xor(a, b) \in Word
  BY XorWord
<1>1. 0 \in S
  BY <1>0, RoundsFacts
<1>2. ASSUME NEW j \in S PROVE j + 1 \in S
  <2> SUFFICES ASSUME j + 1 <= 8
               PROVE  Rounds(xor(a, b))[j + 1] = xor(Rounds(a)[j + 1], Rounds(b)[j + 1])
    OBVIOUS
  <2>1. j + 1 \in 1 .. 8 /\ (j + 1) - 1 = j /\ j \in 0 .. 8
    OBVIOUS
  <2>2. Rounds(xor(a, b))[j] = xor(Rounds(a)[j], Rounds(b)[j])
    BY <2>1
  <2> HIDE DEF S
  <2>3. Rounds(xor(a, b))[j + 1] = Round(Rounds(xor(a, b))[j])
    BY <1>0, <2>1, RoundsFacts
  <2>4. Rounds(a)[j + 1] = Round(Rounds(a)[j]) /\ Rounds(a)[j] \in Word
    BY <2>1, RoundsFacts
  <2>5. Rounds(b)[j + 1] = Round(Rounds(b)[j]) /\ Rounds(b)[j] \in Word
    BY <2>1, RoundsFacts
  <2> QED
    BY <2>2, <2>3, <2>4, <2>5, RoundXor
<1>3. S \in SUBSET Nat
  OBVIOUS
<1> HIDE DEF S
<1>4. S = Nat
  BY <1>1, <1>2, <1>3, Induction
<1> QED
  BY <1>4 DEF S

\* Without ones in the low bits, a round only shifts.
LEMMA RoundsShift ==
  ASSUME NEW c \in Word, \A i \in 0 .. 7 : i \notin c
  PROVE  Rounds(c)[8] = shr(c, 8)
<1> DEFINE S == {j \in Nat : j <= 8 => Rounds(c)[j] = shr(c, j)}
<1>1. 0 \in S
  <2>1. shr(c, 0) \in Word /\ \A i \in Nat : i \in shr(c, 0) <=> i + 0 \in c
    BY ShiftBits
  <2>2. \A i \in 0 .. 31 : i \in shr(c, 0) <=> i \in c
    BY <2>1
  <2>3. shr(c, 0) = c
    BY <2>1, <2>2, SameBits DEF Word
  <2> QED
    BY <2>3, RoundsFacts
<1>2. ASSUME NEW j \in S PROVE j + 1 \in S
  <2> SUFFICES ASSUME j + 1 <= 8 PROVE Rounds(c)[j + 1] = shr(c, j + 1)
    OBVIOUS
  <2>1. j + 1 \in 1 .. 8 /\ (j + 1) - 1 = j /\ j \in 0 .. 8 /\ j \in Nat /\ j + 1 \in Nat
    OBVIOUS
  <2>2. Rounds(c)[j] = shr(c, j)
    BY <2>1
  <2> HIDE DEF S
  <2>3. Rounds(c)[j + 1] = Round(shr(c, j))
    BY <2>1, <2>2, RoundsFacts
  <2>4. shr(c, j) \in Word /\ \A i \in Nat : i \in shr(c, j) <=> i + j \in c
    BY <2>1, ShiftBits
  <2>5. shr(c, j + 1) \in Word /\ \A i \in Nat : i \in shr(c, j + 1) <=> i + (j + 1) \in c
    BY <2>1, ShiftBits
  <2>6. 0 \notin shr(c, j)
    BY <2>1, <2>4
  <2>7. /\ Round(shr(c, j)) \in Word
        /\ \A i \in Nat : i \in Round(shr(c, j)) <=> i + 1 \in shr(c, j)
    BY <2>4, <2>6, RoundBits
  <2>8. \A i \in 0 .. 31 : i \in Round(shr(c, j)) <=> i \in shr(c, j + 1)
    <3> TAKE i \in 0 .. 31
    <3>1. i + (j + 1) = (i + 1) + j /\ i + 1 \in Nat /\ i \in Nat
      BY <2>1
    <3>2. i \in Round(shr(c, j)) <=> i + 1 \in shr(c, j)
      BY <2>7, <3>1
    <3>3. i + 1 \in shr(c, j) <=> (i + 1) + j \in c
      BY <2>4, <3>1
    <3> QED
      BY <2>5, <3>1, <3>2, <3>3
  <2>9. Round(shr(c, j)) = shr(c, j + 1)
    BY <2>5, <2>7, <2>8, SameBits DEF Word
  <2> QED
    BY <2>3, <2>9
<1>3. S \in SUBSET Nat
  OBVIOUS
<1> HIDE DEF S
<1>4. S = Nat
  BY <1>1, <1>2, <1>3, Induction
<1> QED
  BY <1>4 DEF S

\* What the table holds.
LEMMA TableEntry ==
  ASSUME NEW i \in SUBSET (0 .. 7)
  PROVE  crc32_table[i] = Rounds(i)[8]
<1> DEFINE crc[j \in 0 .. 8] ==
             IF j = 0 THEN i
             ELSE LET c == crc[j - 1]
                  IN  IF 0 \in c THEN xor(CRC_POLY, shr(c, 1)) ELSE shr(c, 1)
<1>0. i \in Word
  BY DEF Word
<1>1. Rounds(i) = [j \in 0 .. 8 |->
                     IF j = 0 THEN i
                     ELSE LET c == Rounds(i)[j - 1]
                          IN  IF 0 \in c THEN xor(CRC_POLY, shr(c, 1)) ELSE shr(c, 1)]
  <2>1. \A j \in 0 .. 8 : Rounds(i)[j] = IF j = 0 THEN i ELSE Round(Rounds(i)[j - 1])
    BY <1>0, RoundsFacts
  <2>2. Rounds(i) = [j \in 0 .. 8 |-> Rounds(i)[j]]
    BY <1>0, RoundsFacts
  <2>3. Rounds(i) = [j \in 0 .. 8 |-> IF j = 0 THEN i ELSE Round(Rounds(i)[j - 1])]
    BY <2>1, <2>2
  <2> QED
    BY <2>3, Zenon DEF Round
<1>2. \E g : g = [j \in 0 .. 8 |->
                    IF j = 0 THEN i
                    ELSE LET c == g[j - 1]
                         IN  IF 0 \in c THEN xor(CRC_POLY, shr(c, 1)) ELSE shr(c, 1)]
  BY <1>1, Zenon
<1>3. crc = [j \in 0 .. 8 |->
               IF j = 0 THEN i
               ELSE LET c == crc[j - 1]
                    IN  IF 0 \in c THEN xor(CRC_POLY, shr(c, 1)) ELSE shr(c, 1)]
  BY <1>2, Zenon
<1>4. crc32_table[i] = crc[8]
  BY Zenon DEF crc32_table
<1> HIDE DEF crc
<1>5. crc[0] = i /\ \A j \in 1 .. 8 : crc[j] = Round(crc[j - 1])
  <2>1. crc = [j \in 0 .. 8 |-> IF j = 0 THEN i ELSE Round(crc[j - 1])]
    BY <1>3, Zenon DEF Round
  <2> QED
    BY <2>1
<1> DEFINE S == {j \in Nat : j <= 8 => crc[j] = Rounds(i)[j]}
<1>6. 0 \in S
  BY <1>0, <1>5, RoundsFacts
<1>7. ASSUME NEW j \in S PROVE j + 1 \in S
  <2> SUFFICES ASSUME j + 1 <= 8 PROVE crc[j + 1] = Rounds(i)[j + 1]
    OBVIOUS
  <2>1. j + 1 \in 1 .. 8 /\ (j + 1) - 1 = j
    OBVIOUS
  <2>2. crc[j] = Rounds(i)[j]
    BY <2>1
  <2> HIDE DEF S
  <2>3. crc[j + 1] = Round(crc[j])
    BY <1>5, <2>1
  <2>4. Rounds(i)[j + 1] = Round(Rounds(i)[j])
    BY <1>0, <2>1, RoundsFacts
  <2> QED
    BY <2>2, <2>3, <2>4
<1>8. S \in SUBSET Nat
  OBVIOUS
<1> HIDE DEF S
<1>9. S = Nat
  BY <1>6, <1>7, <1>8, Induction
<1>10. crc[8] = Rounds(i)[8]
  BY <1>9 DEF S
<1> QED
  BY <1>4, <1>10

\* The register after one more byte: eight rounds, after the byte is added.
LEMMA NextCrc ==
  ASSUME NEW c \in Word, NEW byte
  PROVE  xor(c, bits(byte)) \in Word /\ next_crc(c, byte) = Rounds(xor(c, bits(byte)))[8]
<1> DEFINE low == c \cap 0 .. 7
           high == c \ 0 .. 7
           added == xor(low, bits(byte))
<1>1. bits(byte) \in SUBSET (0 .. 7)
  BY DEF bits
<1>2. added \in SUBSET (0 .. 7)
  BY <1>1 DEF xor
<1>3. added \in Word /\ high \in Word /\ bits(byte) \in Word
  BY <1>1, <1>2 DEF Word
<1>4. xor(c, bits(byte)) \in Word /\ xor(high, added) \in Word
  BY <1>3, XorWord
<1>5. xor(c, bits(byte)) = xor(high, added)
  <2>1. \A i : i \in xor(c, bits(byte)) <=> i \in xor(high, added)
    BY <1>1, Zenon DEF xor
  <2> QED
    BY <1>4, <2>1, SameBits DEF Word
<1>6. Rounds(high)[8] = shr(high, 8)
  BY <1>3, RoundsShift
<1>7. shr(high, 8) = shr(c, 8)
  <2>1. \A j \in c : j \in 0 .. 31
    BY DEF Word
  <2>2. {j \in high : j >= 8} = {j \in c : j >= 8}
    BY <2>1
  <2> QED
    BY <2>2, Zenon DEF shr
<1>8. crc32_table[added] = Rounds(added)[8]
  BY <1>2, TableEntry
<1>9. next_crc(c, byte) = xor(shr(c, 8), crc32_table[added])
  BY DEF next_crc
<1> HIDE DEF low, high, added
<1>10. Rounds(xor(high, added))[8] = xor(Rounds(high)[8], Rounds(added)[8])
  BY <1>3, RoundsXor
<1> QED
  BY <1>4, <1>5, <1>6, <1>7, <1>8, <1>9, <1>10

-----------------------------------------------------------------------------
(***************************************************************************)
(* The division.                                                           *)
(***************************************************************************)

\* One step of it, at exponent m + 32.
Reduced(r, m) == IF m + 32 \in r THEN xor(r, {e + m : e \in Generator}) ELSE r

\* Xor of sets of exponents is one.
LEMMA XorInts ==
  ASSUME NEW a \in SUBSET Int, NEW b \in SUBSET Int PROVE xor(a, b) \in SUBSET Int
BY DEF xor

\* The register's exponents are numbers.
LEMMA WindowInts == ASSUME NEW m \in Int, NEW c PROVE Window(m, c) \in SUBSET Int
BY DEF Window

\* A step of the division leaves a set of exponents.
LEMMA ReducedInts ==
  ASSUME NEW m \in Int, NEW r \in SUBSET Int
  PROVE  Reduced(r, m) \in SUBSET Int
<1>1. {e + m : e \in Generator} \in SUBSET Int
  BY DEF Generator
<1> QED
  BY <1>1, XorInts DEF Reduced

\* The generator is x^32 and the reversed constant of the source.
LEMMA GeneratorBits ==
  ASSUME NEW m \in Int, NEW e \in Int
  PROVE  e \in {g + m : g \in Generator} <=> e - m = 32 \/ 31 - (e - m) \in CRC_POLY
<1>1. e \in {g + m : g \in Generator} <=> e - m \in Generator
  <2>1. ASSUME e - m \in Generator PROVE e \in {g + m : g \in Generator}
    <3>1. e = (e - m) + m
      OBVIOUS
    <3> QED
      BY <2>1, <3>1
  <2>2. ASSUME e \in {g + m : g \in Generator} PROVE e - m \in Generator
    <3>1. PICK g \in Generator : e = g + m
      BY <2>2
    <3>2. g \in Int
      BY DEF Generator
    <3> QED
      BY <3>1, <3>2
  <2> QED
    BY <2>1, <2>2
<1>2. \A g \in Int : g \in Generator <=> g = 32 \/ 31 - g \in CRC_POLY
  BY DEF Generator, CRC_POLY
<1> QED
  BY <1>1, <1>2

\* A round of the register is a step of the division, whatever follows behind
\* the register's exponents.
LEMMA DivisionStep ==
  ASSUME NEW m \in Nat, NEW c \in Word, NEW L \in SUBSET Int, m + 32 \notin L
  PROVE  Reduced(xor(Window(m + 1, c), L), m) = xor(Window(m, Round(c)), L)
<1> DEFINE r == xor(Window(m + 1, c), L)
           w == xor(Window(m, Round(c)), L)
<1>0. \A i \in c : i \in 0 .. 31
  BY DEF Word
<1>1. \A e \in Int : e \in r <=> ~(m + 32 - e \in c <=> e \in L)
  <2> TAKE e \in Int
  <2>1. e \in Window(m + 1, c) <=> m + 32 - e \in c
    <3>1. (m + 1) + 31 - e = m + 32 - e
      OBVIOUS
    <3> QED
      BY <1>0, <3>1 DEF Window
  <2> QED
    BY <2>1, XorBits
<1>2. m + 32 \in r <=> 0 \in c
  BY <1>1
<1>3. Round(c) \in Word
  BY RoundBits
<1>4. \A e \in Int : e \in w <=> ~(m + 31 - e \in Round(c) <=> e \in L)
  <2> TAKE e \in Int
  <2>1. e \in Window(m, Round(c)) <=> m + 31 - e \in Round(c)
    BY <1>3 DEF Window, Word
  <2> QED
    BY <2>1, XorBits
<1>5. \A e \in Int : m + 31 - e \in Round(c) <=>
        /\ e <= m + 31
        /\ ~((0 \in c /\ m + 31 - e \in CRC_POLY) <=> m + 32 - e \in c)
  <2> TAKE e \in Int
  <2>1. CASE e <= m + 31
    <3>1. m + 31 - e \in Nat /\ (m + 31 - e) + 1 = m + 32 - e
      BY <2>1
    <3> QED
      BY <2>1, <3>1, RoundBits
  <2>2. CASE ~(e <= m + 31)
    <3>1. m + 31 - e \notin 0 .. 31
      BY <2>2
    <3> QED
      BY <1>3, <2>2, <3>1 DEF Word
  <2> QED
    BY <2>1, <2>2
<1>6. r \in SUBSET Int /\ w \in SUBSET Int
  <2>1. Window(m + 1, c) \in SUBSET Int /\ Window(m, Round(c)) \in SUBSET Int
    BY WindowInts
  <2> QED
    BY <2>1, XorInts
<1> HIDE DEF r, w
<1>7. Reduced(r, m) \in SUBSET Int
  BY <1>6, ReducedInts
<1>8. \A e \in Int : e \in Reduced(r, m) <=> e \in w
  <2> TAKE e \in Int
  <2>1. e \in Reduced(r, m) <=>
          ~(e \in r <=> (0 \in c /\ e \in {g + m : g \in Generator}))
    <3>1. CASE 0 \in c
      <4>1. Reduced(r, m) = xor(r, {g + m : g \in Generator})
        BY <1>2, <3>1 DEF Reduced
      <4> QED
        BY <3>1, <4>1, XorBits
    <3>2. CASE 0 \notin c
      <4>1. Reduced(r, m) = r
        BY <1>2, <3>2 DEF Reduced
      <4> QED
        BY <3>2, <4>1
    <3> QED
      BY <3>1, <3>2
  <2>2. e \in {g + m : g \in Generator} <=> e = m + 32 \/ m + 31 - e \in CRC_POLY
    <3>1. 31 - (e - m) = m + 31 - e /\ (e - m = 32 <=> e = m + 32)
      OBVIOUS
    <3> QED
      BY <3>1, GeneratorBits
  <2>3. m + 31 - e \in CRC_POLY => e <= m + 31
    BY DEF CRC_POLY
  <2>4. CASE e = m + 32
    <3>1. m + 31 - e \notin CRC_POLY /\ m + 32 - e = 0 /\ ~(e <= m + 31)
      BY <2>4 DEF CRC_POLY
    <3> QED
      BY <1>1, <1>4, <1>5, <2>1, <2>2, <2>4, <3>1
  <2>5. CASE e # m + 32
    <3>1. m + 32 - e \in c => e <= m + 31
      BY <1>0, <2>5
    <3> QED
      BY <1>1, <1>4, <1>5, <2>1, <2>2, <2>3, <2>5, <3>1
  <2> QED
    BY <2>4, <2>5
<1> QED
  BY <1>6, <1>7, <1>8, SameBits DEF r, w

-----------------------------------------------------------------------------
(***************************************************************************)
(* Both algorithms, byte by byte.                                          *)
(***************************************************************************)

\* The values of the register, and of the remainder.
IsRegister(crc, data) ==
  /\ crc \in [0 .. Len(data) -> Word] /\ crc[0] = AllOnes
  /\ \A k \in 1 .. Len(data) : crc[k] = next_crc(crc[k - 1], data[k])

MessageBits(data) ==
  LET n == 8 * Len(data)
  IN  {n - 1 - j : j \in {i \in 0 .. n - 1 : i % 8 \in bits(data[i \div 8 + 1])}}

Dividend(data) ==
  xor({e + 32 : e \in MessageBits(data)}, 8 * Len(data) .. 8 * Len(data) + 31)

IsDivision(rest, data) ==
  /\ rest[0] = Dividend(data)
  /\ \A j \in 1 .. 8 * Len(data) : rest[j] = Reduced(rest[j - 1], 8 * Len(data) - j)

\* The loop of crc32 runs over all bytes and ends with the register.
LEMMA RegisterRuns ==
  ASSUME NEW data \in Seq(Byte)
  PROVE  \E crc : IsRegister(crc, data) /\ register(data, AllOnes) = crc[Len(data)]
<1> DEFINE n == Len(data)
           G == [k \in Nat |-> [c \in Word |-> Rounds(xor(c, bits(data[k])))[8]]]
           crc[k \in 0 .. n] ==
             IF k = 0 THEN AllOnes ELSE next_crc(crc[k - 1], data[k])
<1>0. n \in Nat
  OBVIOUS
<1>1. \A k \in Nat, c \in Word : Rounds(xor(c, bits(data[k])))[8] = next_crc(c, data[k])
                              /\ Rounds(xor(c, bits(data[k])))[8] \in Word
  <2> TAKE k \in Nat, c \in Word
  <2>1. xor(c, bits(data[k])) \in Word /\ next_crc(c, data[k]) = Rounds(xor(c, bits(data[k])))[8]
    BY NextCrc
  <2>2. Rounds(xor(c, bits(data[k]))) \in [0 .. 8 -> Word]
    BY <2>1, RoundsFacts
  <2> QED
    BY <2>1, <2>2
<1>2. G \in [Nat -> [Word -> Word]]
  BY <1>1
<1>3. \A k \in Nat, c \in Word : G[k][c] = next_crc(c, data[k])
  BY <1>1
<1>4. register(data, AllOnes) = crc[n]
  BY Zenon DEF register
<1> HIDE DEF G, n
<1>5. Runs(Word, AllOnes, G, n)
  BY <1>0, <1>2, Constants, Loop
<1>6. PICK f \in [0 .. n -> Word] : f[0] = AllOnes /\ \A k \in 1 .. n : f[k] = G[k][f[k - 1]]
  BY <1>5 DEF Runs
<1>7. \A k \in 1 .. n : f[k] = next_crc(f[k - 1], data[k])
  <2> TAKE k \in 1 .. n
  <2>1. k \in Nat /\ k - 1 \in 0 .. n
    BY <1>0
  <2> QED
    BY <1>3, <1>6, <2>1
<1>8. f = [k \in 0 .. n |-> IF k = 0 THEN AllOnes ELSE next_crc(f[k - 1], data[k])]
  <2>1. \A k \in 0 .. n : f[k] = IF k = 0 THEN AllOnes ELSE next_crc(f[k - 1], data[k])
    BY <1>0, <1>6, <1>7
  <2>2. f = [k \in 0 .. n |-> f[k]]
    BY <1>6
  <2> QED
    BY <2>1, <2>2
<1>9. \E g : g = [k \in 0 .. n |-> IF k = 0 THEN AllOnes ELSE next_crc(g[k - 1], data[k])]
  BY <1>8, Zenon
<1>10. crc = [k \in 0 .. n |-> IF k = 0 THEN AllOnes ELSE next_crc(crc[k - 1], data[k])]
  BY <1>9, Zenon
<1> HIDE DEF crc
<1> DEFINE S == {k \in Nat : k <= n => crc[k] = f[k]}
<1>11. 0 \in S
  BY <1>0, <1>6, <1>10
<1>12. ASSUME NEW k \in S PROVE k + 1 \in S
  <2> SUFFICES ASSUME k + 1 <= n PROVE crc[k + 1] = f[k + 1]
    OBVIOUS
  <2>1. k + 1 \in 1 .. n /\ k + 1 \in 0 .. n /\ (k + 1) - 1 = k /\ k + 1 # 0
    BY <1>0
  <2>2. crc[k] = f[k]
    BY <1>0, <2>1
  <2> HIDE DEF S
  <2>3. crc[k + 1] = next_crc(crc[k], data[k + 1])
    BY <1>10, <2>1
  <2>4. f[k + 1] = next_crc(f[k], data[k + 1])
    BY <1>7, <2>1
  <2> QED
    BY <2>2, <2>3, <2>4
<1>13. S \in SUBSET Nat
  OBVIOUS
<1> HIDE DEF S
<1>14. S = Nat
  BY <1>11, <1>12, <1>13, Induction
<1>15. crc[n] = f[n]
  BY <1>0, <1>14 DEF S
<1>16. IsRegister(f, data)
  BY <1>6, <1>7 DEF IsRegister, n
<1> QED
  BY <1>4, <1>15, <1>16 DEF n

\* The dividend is a set of exponents.
LEMMA DividendInts ==
  ASSUME NEW data \in Seq(Byte)
  PROVE  Dividend(data) \in SUBSET Int
<1> DEFINE n == 8 * Len(data)
<1>1. n \in Int
  OBVIOUS
<1>2. MessageBits(data) \in SUBSET Int
  <2>1. \A j \in {i \in 0 .. n - 1 : i % 8 \in bits(data[i \div 8 + 1])} : n - 1 - j \in Int
    BY <1>1
  <2> QED
    BY <2>1, Zenon DEF MessageBits
<1>3. {e + 32 : e \in MessageBits(data)} \in SUBSET Int
  BY <1>2
<1>4. n .. n + 31 \in SUBSET Int
  BY <1>1
<1> QED
  BY <1>3, <1>4, XorInts DEF Dividend

\* The division runs over all exponents from 8 * Len(data) + 31 down to 32.
LEMMA DivisionRuns ==
  ASSUME NEW data \in Seq(Byte)
  PROVE  \E rest : /\ IsDivision(rest, data)
                   /\ CrcRemainder(data)
                        = xor({31 - e : e \in rest[8 * Len(data)]}, AllOnes)
<1> DEFINE n == 8 * Len(data)
           Ints == SUBSET Int
           G == [j \in Nat |-> [r \in Ints |-> Reduced(r, n - j)]]
           dividend == Dividend(data)
           rest[j \in 0 .. n] ==
             IF j = 0 THEN dividend
             ELSE LET r == rest[j - 1]
                  IN  IF n + 32 - j \in r THEN xor(r, {e + n - j : e \in Generator}) ELSE r
<1>0. n \in Nat /\ dividend \in Ints
  BY DividendInts
<1>1. CrcRemainder(data) = xor({31 - e : e \in rest[n]}, AllOnes)
  BY Zenon DEF CrcRemainder, Dividend, MessageBits
<1>2. G \in [Nat -> [Ints -> Ints]]
  <2>1. \A j \in Nat : n - j \in Int
    BY <1>0
  <2>2. \A j \in Nat, r \in Ints : Reduced(r, n - j) \in Ints
    BY <2>1, ReducedInts
  <2> QED
    BY <2>2
<1>3. \A j \in Nat, r \in Ints : G[j][r] = Reduced(r, n - j)
  OBVIOUS
<1>4. \A j \in Nat : \A r :
        Reduced(r, n - j) = IF n + 32 - j \in r THEN xor(r, {e + n - j : e \in Generator}) ELSE r
  <2> TAKE j \in Nat
  <2> TAKE r
  <2>1. (n - j) + 32 = n + 32 - j
    BY <1>0
  <2>2. {e + (n - j) : e \in Generator} = {e + n - j : e \in Generator}
    <3>1. \A e \in Generator : e + (n - j) = e + n - j
      BY <1>0 DEF Generator
    <3> QED
      BY <3>1
  <2> QED
    BY <2>1, <2>2, Zenon DEF Reduced
<1> HIDE DEF G, n, Ints, dividend
<1>5. Runs(Ints, dividend, G, n)
  BY <1>0, <1>2, Loop
<1>6. PICK f \in [0 .. n -> Ints] : f[0] = dividend /\ \A k \in 1 .. n : f[k] = G[k][f[k - 1]]
  BY <1>5 DEF Runs
<1>7. \A j \in 1 .. n : f[j] = Reduced(f[j - 1], n - j)
  <2> TAKE j \in 1 .. n
  <2>1. j \in Nat /\ j - 1 \in 0 .. n
    BY <1>0
  <2> QED
    BY <1>3, <1>6, <2>1
<1>8. f = [j \in 0 .. n |->
             IF j = 0 THEN dividend
             ELSE LET r == f[j - 1]
                  IN  IF n + 32 - j \in r THEN xor(r, {e + n - j : e \in Generator}) ELSE r]
  <2>1. \A j \in 0 .. n : f[j] = IF j = 0 THEN dividend ELSE Reduced(f[j - 1], n - j)
    BY <1>0, <1>6, <1>7
  <2>2. f = [j \in 0 .. n |-> f[j]]
    BY <1>6
  <2>3. \A j \in 0 .. n :
          f[j] = IF j = 0 THEN dividend
                 ELSE LET r == f[j - 1]
                      IN  IF n + 32 - j \in r THEN xor(r, {e + n - j : e \in Generator}) ELSE r
    <3>1. \A j \in 0 .. n : j \in Nat
      BY <1>0
    <3> QED
      BY <1>4, <2>1, <3>1, Zenon
  <2> QED
    BY <2>2, <2>3, Zenon
<1>9. \E g : g = [j \in 0 .. n |->
             IF j = 0 THEN dividend
             ELSE LET r == g[j - 1]
                  IN  IF n + 32 - j \in r THEN xor(r, {e + n - j : e \in Generator}) ELSE r]
  BY <1>8, Zenon
<1>10. rest = [j \in 0 .. n |->
             IF j = 0 THEN dividend
             ELSE LET r == rest[j - 1]
                  IN  IF n + 32 - j \in r THEN xor(r, {e + n - j : e \in Generator}) ELSE r]
  BY <1>9, Zenon
<1> HIDE DEF rest
<1>11. rest[0] = dividend /\ \A j \in 1 .. n : rest[j] = Reduced(rest[j - 1], n - j)
  <2>1. rest[0] = dividend
    <3>1. 0 \in 0 .. n
      BY <1>0
    <3> QED
      BY <1>10, <3>1, Zenon
  <2>2. ASSUME NEW j \in 1 .. n PROVE rest[j] = Reduced(rest[j - 1], n - j)
    <3>1. j \in 0 .. n /\ j # 0 /\ j \in Nat
      BY <1>0
    <3>2. rest[j] = LET r == rest[j - 1]
                    IN  IF n + 32 - j \in r THEN xor(r, {e + n - j : e \in Generator}) ELSE r
      BY <1>10, <3>1, Zenon
    <3> QED
      BY <1>4, <3>1, <3>2, Zenon
  <2> QED
    BY <2>1, <2>2
<1>12. IsDivision(rest, data)
  BY <1>11 DEF IsDivision, n, dividend
<1> QED
  BY <1>1, <1>12 DEF n

\* The exponents of the message's bits that come after the first q bytes.
Later(data, q) ==
  {e \in 32 .. 8 * (Len(data) - q) + 31 :
     LET i == 8 * Len(data) + 31 - e IN i % 8 \in bits(data[i \div 8 + 1])}

\* Before the first byte the remainder is the initial register and the message.
LEMMA DividendParts ==
  ASSUME NEW data \in Seq(Byte)
  PROVE  Dividend(data) = xor(Window(8 * Len(data), AllOnes), Later(data, 0))
<1> DEFINE n == 8 * Len(data)
           P(i) == i % 8 \in bits(data[i \div 8 + 1])
<1>0. n \in Nat
  OBVIOUS
<1>1. MessageBits(data) = {n - 1 - j : j \in {i \in 0 .. n - 1 : P(i)}}
  BY Zenon DEF MessageBits
<1>2. Later(data, 0) = {e \in 32 .. n + 31 : P(n + 31 - e)}
  <2>1. 8 * (Len(data) - 0) + 31 = n + 31
    OBVIOUS
  <2> QED
    BY <2>1, Zenon DEF Later
<1>3. Dividend(data) = xor({e + 32 : e \in MessageBits(data)}, n .. n + 31)
  BY Zenon DEF Dividend
<1> HIDE DEF n, P
<1>4. {e + 32 : e \in MessageBits(data)} = Later(data, 0)
  <2>1. ASSUME NEW e \in MessageBits(data) PROVE e + 32 \in Later(data, 0)
    <3>1. PICK j \in {i \in 0 .. n - 1 : P(i)} : e = n - 1 - j
      BY <1>1
    <3>2. j \in 0 .. n - 1 /\ P(j)
      OBVIOUS
    <3>3. e + 32 \in 32 .. n + 31 /\ n + 31 - (e + 32) = j
      BY <1>0, <3>1, <3>2
    <3> QED
      BY <1>2, <3>2, <3>3
  <2>2. ASSUME NEW e \in Later(data, 0) PROVE \E x \in MessageBits(data) : e = x + 32
    <3>1. e \in 32 .. n + 31 /\ P(n + 31 - e)
      BY <1>2
    <3>2. /\ n + 31 - e \in 0 .. n - 1 /\ n - 1 - (n + 31 - e) = e - 32 /\ e = (e - 32) + 32
      BY <1>0, <3>1
    <3>3. e - 32 \in MessageBits(data)
      BY <1>1, <3>1, <3>2
    <3> QED
      BY <3>2, <3>3
  <2> QED
    BY <2>1, <2>2
<1>5. Window(n, AllOnes) = n .. n + 31
  <2>1. \A e \in n .. n + 31 : n + 31 - e \in AllOnes
    BY <1>0 DEF AllOnes
  <2> QED
    BY <2>1 DEF Window
<1>6. xor(Later(data, 0), n .. n + 31) = xor(n .. n + 31, Later(data, 0))
  BY Zenon DEF xor
<1> QED
  BY <1>3, <1>4, <1>5, <1>6 DEF n

\* The bits of the next byte are those that adding it to the register changes.
LEMMA NextByte ==
  ASSUME NEW data \in Seq(Byte), NEW q \in Nat, q < Len(data), NEW c \in Word
  PROVE  LET m == 8 * (Len(data) - q)
         IN  xor(Window(m, c), Later(data, q))
               = xor(Window(m, xor(c, bits(data[q + 1]))), Later(data, q + 1))
<1> DEFINE N == Len(data)
           m == 8 * (N - q)
           B == bits(data[q + 1])
<1>0. N \in Nat /\ m \in Nat /\ m >= 8 /\ 8 * (N - (q + 1)) + 31 = m + 23
  OBVIOUS
<1>1. B \subseteq 0 .. 7
  BY DEF bits
<1>2. ASSUME NEW e \in Int
      PROVE  e \in Later(data, q) <=> ~(e \in Window(m, B) <=> e \in Later(data, q + 1))
  <2> DEFINE i == 8 * N + 31 - e
  <2>1. e \in Later(data, q) <=> e \in 32 .. m + 31 /\ i % 8 \in bits(data[i \div 8 + 1])
    BY Zenon DEF Later
  <2>2. e \in Later(data, q + 1) <=> e \in 32 .. m + 23 /\ i % 8 \in bits(data[i \div 8 + 1])
    BY <1>0, Zenon DEF Later
  <2>3. e \in Window(m, B) <=> e \in m .. m + 31 /\ m + 31 - e \in B
    BY Zenon DEF Window
  <2>4. CASE e \in m + 24 .. m + 31
    <3>1. i \in 8 * q .. 8 * q + 7
      BY <1>0, <2>4
    <3>2. i \div 8 = q /\ i % 8 = i - 8 * q /\ i - 8 * q = m + 31 - e
      BY <1>0, <2>4, <3>1
    <3>3. e \in 32 .. m + 31 /\ e \notin 32 .. m + 23 /\ e \in m .. m + 31
      BY <1>0, <2>4
    <3> QED
      BY <2>1, <2>2, <2>3, <3>2, <3>3, Zenon
  <2>5. CASE e \notin m + 24 .. m + 31
    <3>1. m + 31 - e \notin 0 .. 7
      BY <1>0, <2>5
    <3>2. e \in 32 .. m + 31 <=> e \in 32 .. m + 23
      BY <1>0, <2>5
    <3> QED
      BY <1>1, <2>1, <2>2, <2>3, <3>1, <3>2, Zenon
  <2> QED
    BY <2>4, <2>5
<1>3. B \in Word /\ xor(c, B) \in Word
  <2>1. B \in Word
    BY <1>1 DEF Word
  <2> QED
    BY <2>1, XorWord
<1>4. ASSUME NEW e \in Int
      PROVE  e \in Window(m, xor(c, B)) <=> ~(e \in Window(m, c) <=> e \in Window(m, B))
  <2>1. m + 31 - e \in xor(c, B) <=> ~(m + 31 - e \in c <=> m + 31 - e \in B)
    BY Zenon DEF xor
  <2>2. \A w : e \in Window(m, w) <=> e \in m .. m + 31 /\ m + 31 - e \in w
    BY Zenon DEF Window
  <2> QED
    BY <2>1, <2>2, Zenon
<1>5. /\ Window(m, c) \in SUBSET Int /\ Window(m, xor(c, B)) \in SUBSET Int
      /\ Later(data, q) \in SUBSET Int /\ Later(data, q + 1) \in SUBSET Int
  <2>1. Later(data, q) \in SUBSET Int /\ Later(data, q + 1) \in SUBSET Int
    BY <1>0 DEF Later
  <2> QED
    BY <1>0, <2>1, WindowInts
<1>6. /\ xor(Window(m, c), Later(data, q)) \in SUBSET Int
      /\ xor(Window(m, xor(c, B)), Later(data, q + 1)) \in SUBSET Int
  BY <1>5, XorInts
<1>7. \A e \in Int : e \in xor(Window(m, c), Later(data, q))
                 <=> e \in xor(Window(m, xor(c, B)), Later(data, q + 1))
  <2> TAKE e \in Int
  <2> HIDE DEF m, B
  <2>1. e \in xor(Window(m, c), Later(data, q))
          <=> ~(e \in Window(m, c) <=> e \in Later(data, q))
    BY Zenon DEF xor
  <2>2. e \in xor(Window(m, xor(c, B)), Later(data, q + 1))
          <=> ~(e \in Window(m, xor(c, B)) <=> e \in Later(data, q + 1))
    BY Zenon DEF xor
  <2> QED
    BY <1>2, <1>4, <2>1, <2>2, Zenon
<1> HIDE DEF m, B
<1>8. xor(Window(m, c), Later(data, q)) = xor(Window(m, xor(c, B)), Later(data, q + 1))
  BY <1>6, <1>7, SameBits
<1> QED
  BY <1>8 DEF m, B

\* After the rounds of a byte, its eight bits are divided.
LEMMA ByteDivided ==
  ASSUME NEW m \in Nat, NEW c \in Word, NEW L \in SUBSET Int, \A e \in L : e < m + 32,
         NEW r, r[0] = xor(Window(m + 8, c), L),
         \A j \in 1 .. 8 : r[j] = Reduced(r[j - 1], m + 8 - j)
  PROVE  r[8] = xor(Window(m, Rounds(c)[8]), L)
<1> DEFINE S == {j \in Nat : j <= 8 => r[j] = xor(Window(m + 8 - j, Rounds(c)[j]), L)}
<1>1. 0 \in S
  <2>1. m + 8 - 0 = m + 8
    OBVIOUS
  <2> QED
    BY <2>1, RoundsFacts
<1>2. ASSUME NEW j \in S PROVE j + 1 \in S
  <2> SUFFICES ASSUME j + 1 <= 8
               PROVE  r[j + 1] = xor(Window(m + 8 - (j + 1), Rounds(c)[j + 1]), L)
    OBVIOUS
  <2> DEFINE k == m + 8 - (j + 1)
  <2>1. /\ j + 1 \in 1 .. 8 /\ (j + 1) - 1 = j /\ j \in 0 .. 8
        /\ k \in Nat /\ k + 1 = m + 8 - j /\ k >= m
    OBVIOUS
  <2>2. r[j] = xor(Window(k + 1, Rounds(c)[j]), L)
    BY <2>1
  <2> HIDE DEF S, k
  <2>3. r[j + 1] = Reduced(r[j], k)
    BY <2>1 DEF k
  <2>4. Rounds(c)[j] \in Word /\ Rounds(c)[j + 1] = Round(Rounds(c)[j])
    BY <2>1, RoundsFacts
  <2>5. k + 32 \notin L
    BY <2>1
  <2>6. Reduced(xor(Window(k + 1, Rounds(c)[j]), L), k) = xor(Window(k, Round(Rounds(c)[j])), L)
    BY <2>1, <2>4, <2>5, DivisionStep
  <2> QED
    BY <2>2, <2>3, <2>4, <2>6 DEF k
<1>3. S \in SUBSET Nat
  OBVIOUS
<1> HIDE DEF S
<1>4. S = Nat
  BY <1>1, <1>2, <1>3, Induction
<1>5. r[8] = xor(Window(m + 8 - 8, Rounds(c)[8]), L)
  BY <1>4 DEF S
<1>6. m + 8 - 8 = m
  OBVIOUS
<1> QED
  BY <1>5, <1>6

\* After q bytes, the remainder is the register, then the bytes still to come.
LEMMA RegisterIsRemainder ==
  ASSUME NEW data \in Seq(Byte), NEW crc, IsRegister(crc, data),
         NEW rest, IsDivision(rest, data)
  PROVE  rest[8 * Len(data)] = Window(0, crc[Len(data)])
<1> DEFINE N == Len(data)
           S == {q \in Nat : q <= N =>
                   rest[8 * q] = xor(Window(8 * (N - q), crc[q]), Later(data, q))}
<1>0. N \in Nat
  OBVIOUS
<1>1. 0 \in S
  <2>1. 8 * 0 = 0 /\ 8 * (N - 0) = 8 * Len(data)
    BY <1>0
  <2>2. rest[0] = xor(Window(8 * Len(data), AllOnes), Later(data, 0))
    BY DividendParts DEF IsDivision
  <2>3. crc[0] = AllOnes
    BY DEF IsRegister
  <2> QED
    BY <2>1, <2>2, <2>3
<1>2. ASSUME NEW q \in S PROVE q + 1 \in S
  <2> SUFFICES ASSUME q + 1 <= N
               PROVE  rest[8 * (q + 1)]
                        = xor(Window(8 * (N - (q + 1)), crc[q + 1]), Later(data, q + 1))
    OBVIOUS
  <2> DEFINE m == 8 * (N - (q + 1))
             L == Later(data, q + 1)
             c == xor(crc[q], bits(data[q + 1]))
             r == [j \in 0 .. 8 |-> rest[8 * q + j]]
  <2>1. /\ q \in Nat /\ q < N /\ m \in Nat /\ m + 8 = 8 * (N - q)
        /\ q \in 0 .. N /\ q + 1 \in 1 .. N /\ (q + 1) - 1 = q /\ 8 * (q + 1) = 8 * q + 8
    BY <1>0
  <2>2. rest[8 * q] = xor(Window(8 * (N - q), crc[q]), Later(data, q))
    BY <2>1
  <2>3. crc[q] \in Word /\ crc[q + 1] = next_crc(crc[q], data[q + 1])
    BY <2>1 DEF IsRegister
  <2>4. c \in Word /\ crc[q + 1] = Rounds(c)[8]
    BY <2>3, NextCrc
  <2>5. rest[8 * q] = xor(Window(8 * (N - q), c), L)
    BY <2>1, <2>2, <2>3, NextByte
  <2>6. L \in SUBSET Int /\ \A e \in L : e < m + 32
    BY <1>0, <2>1 DEF Later
  <2>7. r[0] = rest[8 * q] /\ r[8] = rest[8 * (q + 1)]
    BY <2>1
  <2>8. \A j \in 1 .. 8 : r[j] = Reduced(r[j - 1], m + 8 - j)
    <3> TAKE j \in 1 .. 8
    <3>1. /\ 8 * q + j \in 1 .. 8 * N /\ 8 * N - (8 * q + j) = m + 8 - j
          /\ (8 * q + j) - 1 = 8 * q + (j - 1) /\ j \in 0 .. 8 /\ j - 1 \in 0 .. 8
      BY <1>0, <2>1
    <3>2. rest[8 * q + j] = Reduced(rest[(8 * q + j) - 1], 8 * N - (8 * q + j))
      BY <3>1 DEF IsDivision
    <3>3. r[j] = rest[8 * q + j] /\ r[j - 1] = rest[8 * q + (j - 1)]
      BY <3>1
    <3> HIDE DEF r, m
    <3> QED
      BY <3>1, <3>2, <3>3
  <2> HIDE DEF S, m, L, c, r
  <2>9. r[0] = xor(Window(m + 8, c), L)
    BY <2>1, <2>5, <2>7
  <2>10. r[8] = xor(Window(m, Rounds(c)[8]), L)
    BY <2>1, <2>4, <2>6, <2>8, <2>9, ByteDivided
  <2> QED
    BY <2>4, <2>7, <2>10 DEF m, L
<1>3. S \in SUBSET Nat
  OBVIOUS
<1> HIDE DEF S
<1>4. S = Nat
  BY <1>1, <1>2, <1>3, Induction
<1>5. rest[8 * N] = xor(Window(8 * (N - N), crc[N]), Later(data, N))
  BY <1>0, <1>4 DEF S
<1>6. 8 * (N - N) = 0 /\ 32 .. 8 * (N - N) + 31 = {}
  BY <1>0
<1>7. Later(data, N) = {}
  BY <1>6 DEF Later
<1>8. xor(Window(0, crc[N]), {}) = Window(0, crc[N])
  BY DEF xor
<1> QED
  BY <1>5, <1>6, <1>7, <1>8

\* For every sequence of bytes, the table-driven algorithm computes the
\* remainder of the division of its polynomial.
THEOREM Crc32IsRemainder ==
  \A data \in Seq(Byte) : crc32(data, AllOnes) = CrcRemainder(data)
<1> TAKE data \in Seq(Byte)
<1>1. PICK crc : IsRegister(crc, data) /\ register(data, AllOnes) = crc[Len(data)]
  BY RegisterRuns
<1>2. PICK rest : /\ IsDivision(rest, data)
                  /\ CrcRemainder(data) = xor({31 - e : e \in rest[8 * Len(data)]}, AllOnes)
  BY DivisionRuns
<1> DEFINE c == crc[Len(data)]
<1>3. c \in Word
  <2>1. Len(data) \in 0 .. Len(data)
    OBVIOUS
  <2> QED
    BY <1>1, <2>1 DEF IsRegister
<1>4. rest[8 * Len(data)] = Window(0, c)
  BY <1>1, <1>2, RegisterIsRemainder
<1>5. {31 - e : e \in Window(0, c)} = c
  <2>1. ASSUME NEW e \in Window(0, c) PROVE 31 - e \in c
    BY DEF Window
  <2>2. ASSUME NEW b \in c PROVE \E e \in Window(0, c) : b = 31 - e
    <3>1. b \in 0 .. 31
      BY <1>3 DEF Word
    <3>2. 31 - b \in 0 .. 31 /\ 0 + 31 - (31 - b) = b /\ b = 31 - (31 - b)
      BY <3>1
    <3>3. 31 - b \in Window(0, c)
      BY <3>2 DEF Window
    <3> QED
      BY <3>2, <3>3
  <2> QED
    BY <2>1, <2>2
<1>6. CASE data = <<>>
  <2>1. Len(data) = 0
    BY <1>6
  <2>2. c = AllOnes
    BY <1>1, <2>1 DEF IsRegister
  <2>3. xor(AllOnes, AllOnes) = {}
    BY DEF xor
  <2> QED
    BY <1>2, <1>4, <1>5, <1>6, <2>2, <2>3 DEF crc32
<1>7. CASE data # <<>>
  BY <1>1, <1>2, <1>4, <1>5, <1>7 DEF crc32
<1> QED
  BY <1>6, <1>7

-----------------------------------------------------------------------------
(***************************************************************************)
(* The containers of a message.                                            *)
(***************************************************************************)

\* Sequences of bytes one after the other are a sequence of bytes.
LEMMA FlatBytes ==
  ASSUME NEW s \in Seq(Seq(Byte)), s # <<>>
  PROVE  FlattenSeq(s) \in Seq(Byte)
<1> DEFINE n == Len(s)
           W == Seq(Byte)
           G == [k \in Nat |-> [w \in W |-> IF k + 1 \in 1 .. n THEN w \o s[k + 1] ELSE w]]
           flatten[i \in 1 .. n] == IF i = 1 THEN s[i] ELSE flatten[i - 1] \o s[i]
<1>0. n \in Nat /\ n >= 1 /\ n - 1 \in Nat
  OBVIOUS
<1>1. FlattenSeq(s) = flatten[n]
  <2>1. Len(s) # 0
    BY <1>0
  <2> QED
    BY <2>1, Zenon DEF FlattenSeq
<1>2. \A i \in 1 .. n : s[i] \in W
  OBVIOUS
<1>3. G \in [Nat -> [W -> W]]
  <2>1. \A k \in Nat, w \in W : (IF k + 1 \in 1 .. n THEN w \o s[k + 1] ELSE w) \in W
    <3> TAKE k \in Nat, w \in W
    <3>1. CASE k + 1 \in 1 .. n
      <4> DEFINE t == s[k + 1]
      <4>1. t \in Seq(Byte)
        BY <1>2, <3>1
      <4> HIDE DEF t
      <4>2. w \o t \in Seq(Byte)
        BY <4>1
      <4> QED
        BY <3>1, <4>2 DEF t
    <3> QED
      BY <3>1
  <2> QED
    BY <2>1
<1>4. \A k \in 1 .. n - 1, w \in W : G[k][w] = w \o s[k + 1]
  <2> TAKE k \in 1 .. n - 1, w \in W
  <2>1. k \in Nat /\ k + 1 \in 1 .. n
    BY <1>0
  <2> QED
    BY <2>1
<1> HIDE DEF G, W, n
<1>5. Runs(W, s[1], G, n - 1)
  <2>1. s[1] \in W
    BY <1>0, <1>2
  <2> DEFINE first == s[1]
             m == n - 1
  <2> HIDE DEF first, m
  <2>2. first \in W /\ m \in Nat
    BY <1>0, <2>1 DEF first, m
  <2>3. Runs(W, first, G, m)
    BY <1>3, <2>2, Loop
  <2> QED
    BY <2>3 DEF first, m
<1>6. PICK f \in [0 .. n - 1 -> W] :
        f[0] = s[1] /\ \A k \in 1 .. n - 1 : f[k] = G[k][f[k - 1]]
  BY <1>5 DEF Runs
<1> DEFINE g == [i \in 1 .. n |-> f[i - 1]]
<1>7. \A i \in 1 .. n : g[i] = IF i = 1 THEN s[i] ELSE g[i - 1] \o s[i]
  <2> TAKE i \in 1 .. n
  <2>1. CASE i = 1
    BY <1>0, <1>6, <2>1
  <2>2. CASE i # 1
    <3>1. i - 1 \in 1 .. n - 1 /\ (i - 1) + 1 = i /\ (i - 1) - 1 \in 0 .. n - 1 /\ i - 1 \in 1 .. n
      BY <1>0, <2>2
    <3>2. f[i - 1] = G[i - 1][f[(i - 1) - 1]] /\ f[(i - 1) - 1] \in W
      BY <1>6, <3>1
    <3>3. f[i - 1] = f[(i - 1) - 1] \o s[i]
      BY <1>4, <3>1, <3>2
    <3>4. g[i] = f[i - 1] /\ g[i - 1] = f[(i - 1) - 1]
      BY <3>1
    <3> HIDE DEF g
    <3> QED
      BY <2>2, <3>3, <3>4
  <2> QED
    BY <2>1, <2>2
<1>8. g = [i \in 1 .. n |-> IF i = 1 THEN s[i] ELSE g[i - 1] \o s[i]]
  BY <1>7
<1> HIDE DEF g
<1>9. \E h : h = [i \in 1 .. n |-> IF i = 1 THEN s[i] ELSE h[i - 1] \o s[i]]
  BY <1>8, Zenon
<1>10. flatten = [i \in 1 .. n |-> IF i = 1 THEN s[i] ELSE flatten[i - 1] \o s[i]]
  BY <1>9, Zenon
<1> HIDE DEF flatten
<1> DEFINE S == {k \in Nat : k + 1 <= n => flatten[k + 1] \in W}
<1>11. 0 \in S
  BY <1>0, <1>2, <1>10
<1>12. ASSUME NEW k \in S PROVE k + 1 \in S
  <2> SUFFICES ASSUME k + 2 <= n PROVE flatten[k + 2] \in W
    OBVIOUS
  <2>1. /\ k + 2 \in 1 .. n /\ k + 1 \in 1 .. n /\ (k + 2) - 1 = k + 1 /\ k + 2 # 1
    BY <1>0
  <2>2. flatten[k + 1] \in W
    BY <1>0, <2>1
  <2> HIDE DEF S
  <2>3. flatten[k + 2] = flatten[k + 1] \o s[k + 2]
    BY <1>10, <2>1
  <2> DEFINE a == flatten[k + 1]
             b == s[k + 2]
  <2>4. a \in Seq(Byte) /\ b \in Seq(Byte)
    BY <1>2, <2>1, <2>2 DEF W
  <2> HIDE DEF a, b
  <2>5. a \o b \in Seq(Byte)
    BY <2>4
  <2> QED
    BY <2>3, <2>5 DEF a, b, W
<1>13. S \in SUBSET Nat
  OBVIOUS
<1> HIDE DEF S
<1>14. S = Nat
  BY <1>11, <1>12, <1>13, Induction
<1>15. \A k \in Nat : k + 1 <= n => flatten[k + 1] \in W
  BY <1>14, Zenon DEF S
<1>16. flatten[n] \in W
  <2>1. (n - 1) + 1 = n /\ (n - 1) + 1 <= n
    BY <1>0
  <2>2. flatten[(n - 1) + 1] \in W
    BY <1>0, <1>15, <2>1, Zenon
  <2> QED
    BY <2>1, <2>2, Zenon
<1> QED
  BY <1>1, <1>16 DEF W

\* The checksum that is computed of a message's containers is the remainder
\* of their bytes, on a host of either byte order, for every text and vector.
THEOREM ContainersChecked ==
  ASSUME Portability, Char \subseteq Byte
  PROVE  Spec => []CrcIsRemainder
<1>1. IInv /\ TextInv => CrcIsRemainder
  <2> SUFFICES ASSUME IInv, TextInv, NEW host \in Endian
               PROVE  LET p == normalized(host, message(host))
                      IN  /\ StringBytes(p.device_id) \in Seq(Byte)
                          /\ VectorBytes(p.voltages) \in Seq(Byte)
    BY Crc32IsRemainder, Zenon DEF CrcIsRemainder
  <2> DEFINE p == normalized(host, message(host))
             s == p.device_id
             v == p.voltages
  <2>1. IsWireForm(p)
    BY WireForm, Zenon
  <2>2. /\ s.data = str.data /\ s.size = u32(str.size) /\ v.size = u32(vec.size)
        /\ v.data \in [0 .. VecCapacity - 1 -> Seq(Byte)]
    <3> HIDE DEF p
    <3>1. p = [seq |-> seq, device_id |-> [data |-> str.data, size |-> u32(str.size)],
               voltages |-> [data |-> p.voltages.data, size |-> u32(vec.size)],
               raw |-> p.raw]
      BY <2>1, Zenon DEF IsWireForm
    <3>2. p.voltages.data \in [0 .. VecCapacity - 1 -> Seq(Byte)]
      BY <2>1, Zenon DEF IsWireForm
    <3>3. p.device_id = [data |-> str.data, size |-> u32(str.size)]
      BY <3>1
    <3>4. p.voltages = [data |-> p.voltages.data, size |-> u32(vec.size)]
      BY <3>1
    <3>5. v.size = u32(vec.size)
      BY <3>4
    <3> QED
      BY <3>2, <3>3, <3>5
  <2> HIDE DEF p, s, v
  <2>3. str.size \in Nat /\ vec.size \in Nat /\ VecCapacity \in Nat \ {0} /\ StrCapacity \in Nat
    BY Sizes, ContainersAssumption
  <2>4. u32(str.size) \in Seq(Byte) /\ u32(vec.size) \in Seq(Byte)
    BY <2>3, Words
  <2>5. \A i \in 0 .. StrCapacity : str.data[i] \in Byte
    <3>1. str.data \in [0 .. StrCapacity -> Char \cup {NUL}]
      BY DEF TextInv, String
    <3>2. Char \cup {NUL} \subseteq Byte
      BY DEF NUL, Byte
    <3> QED
      BY <3>1, <3>2
  <2>6. StringBytes(s) \in Seq(Byte)
    <3> DEFINE text == [i \in 1 .. StrCapacity + 1 |-> s.data[i - 1]]
    <3>1. \A i \in 1 .. StrCapacity + 1 : i - 1 \in 0 .. StrCapacity
      BY <2>3
    <3>2. text \in [1 .. StrCapacity + 1 -> Byte]
      BY <2>2, <2>5, <3>1
    <3>3. StrCapacity + 1 \in Nat
      BY <2>3
    <3>4. StringBytes(s) = text \o s.size
      BY DEF StringBytes
    <3> HIDE DEF text
    <3>5. text \in Seq(Byte)
      BY <3>2, <3>3, FunctionSeq
    <3> QED
      BY <2>2, <2>4, <3>4, <3>5, ConcatProperties
  <2>7. VectorBytes(v) \in Seq(Byte)
    <3> DEFINE elems == [i \in 1 .. VecCapacity |-> v.data[i - 1]]
    <3>1. \A i \in 1 .. VecCapacity : i - 1 \in 0 .. VecCapacity - 1
      BY <2>3
    <3>2. elems \in [1 .. VecCapacity -> Seq(Byte)]
      BY <2>2, <3>1
    <3>3. VectorBytes(v) = FlattenSeq(elems) \o v.size
      BY Zenon DEF VectorBytes
    <3> HIDE DEF elems
    <3>4. elems \in Seq(Seq(Byte)) /\ Len(elems) = VecCapacity
      BY <2>3, <3>2, FunctionSeq
    <3>5. elems # <<>>
      BY <2>3, <3>4
    <3>6. FlattenSeq(elems) \in Seq(Byte)
      BY <3>4, <3>5, FlatBytes
    <3> QED
      BY <2>2, <2>4, <3>3, <3>6, ConcatProperties
  <2> QED
    BY <2>6, <2>7 DEF p, s, v
<1> QED
  BY <1>1, InvHolds, TextInit, TextNext, PTL DEF Spec

=============================================================================
