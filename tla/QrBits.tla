-------------------------------- MODULE QrBits --------------------------------
(***************************************************************************)
(* The numbers of src/src/qrcode/qr_encode.c: how many codewords a version *)
(* has, the bits of a text, and the Reed-Solomon code over GF(2^8) with    *)
(* the polynomial 0x11D.  A text is a sequence of places in the            *)
(* alphanumeric charset, NoPlace for a character that has none.            *)
(***************************************************************************)
EXTENDS BitOps, Integers, Sequences, FiniteSets

NoPlace == -1

Version == 1 .. 40

ECC_CODEWORDS_PER_BLOCK ==
  <<7, 10, 15, 20, 26, 18, 20, 24, 30, 18, 20, 24, 26, 30, 22, 24, 28, 30, 28, 28,
    28, 28, 30, 30, 26, 28, 30, 30, 30, 30, 30, 30, 30, 30, 30, 30, 30, 30, 30, 30>>

NUM_ERROR_CORRECTION_BLOCKS ==
  <<1, 1, 1, 1, 1, 2, 2, 2, 2, 4, 4, 4, 4, 4, 6, 6, 6, 6, 7, 8,
    8, 9, 9, 10, 12, 12, 12, 13, 14, 15, 16, 17, 18, 19, 19, 20, 21, 22, 24, 25>>

\* Alignment patterns along one side.
NumAlign(version) == IF version = 1 THEN 0 ELSE version \div 7 + 2

\* Raw modules, had the version blocks no place of their own.
RawWithoutVersion(ver) ==
  (16 * ver + 128) * ver + 64
    - (IF ver >= 2 THEN (25 * NumAlign(ver) - 10) * NumAlign(ver) - 55 ELSE 0)

getNumRawDataModules(ver) == RawWithoutVersion(ver) - (IF ver >= 7 THEN 36 ELSE 0)

RawCodewords(version) == getNumRawDataModules(version) \div 8

getNumDataCodewords(version) ==
  RawCodewords(version) - ECC_CODEWORDS_PER_BLOCK[version] * NUM_ERROR_CORRECTION_BLOCKS[version]

-----------------------------------------------------------------------------
(* The segment and the version. *)

isAlphanumeric(text) == \A i \in DOMAIN text : text[i] # NoPlace

LENGTH_OVERFLOW == -1
INT16_MAX == 32767

AppendedBits(numChars) == (numChars * 11 + 1) \div 2

\* Half a bit less for an odd number of characters.
SegmentBitLengthBelow(numChars) == (numChars * 11) \div 2

\* The bits to clear ahead of a segment; none for one that is too long.
calcSegmentBitLength(numChars) ==
  IF numChars > INT16_MAX \/ AppendedBits(numChars) > INT16_MAX THEN LENGTH_OVERFLOW
  ELSE AppendedBits(numChars)

\* Bytes of a buffer, a grid of the largest version among them.
BUFFER_LEN_MAX == (177 * 177 + 7) \div 8 + 1

\* A segment is written before its length is looked at.
WithinBuffer(text) == AppendedBits(Len(text)) <= 8 * BUFFER_LEN_MAX

\* Pairs of characters take 11 bits, a last single one takes 6.
SegmentBit(text, p) ==
  LET q     == p \div 11
      first == text[2 * q + 1]
  IN  IF 2 * q + 2 <= Len(text)
      THEN BitOf(45 * first + text[2 * q + 2], 10 - (p % 11))
      ELSE BitOf(first, 5 - (p % 11))

\* Its length is that of the bits appended, so that it never is LENGTH_OVERFLOW.
makeAlphanumeric(text) ==
  <<>> \o [p \in 1 .. AppendedBits(Len(text)) |-> SegmentBit(text, p - 1)]

numCharCountBits(version) == <<9, 11, 13>>[(version + 7) \div 17 + 1]

UsedBits(segment, version) == 4 + numCharCountBits(version) + Len(segment)

\* A count field as wide as that of the small versions.
FitsNarrowCount(segment, version) == 4 + 9 + Len(segment) <= 8 * getNumDataCodewords(version)

Fits(segment, version) == UsedBits(segment, version) <= 8 * getNumDataCodewords(version)

\* The highest bit first.
BitsOf(value, n) == [i \in 1 .. n |-> BitOf(value, n - i)]

\* Mode and count ahead of the segment.
Message(segment, chars, version) ==
  BitsOf(2, 4) \o BitsOf(chars, numCharCountBits(version)) \o segment

Smaller(a, b) == IF a < b THEN a ELSE b

\* Bytes of the message with its terminator of at most four zero bits.
MessageBytes(bits, capacity) == (Len(bits) + Smaller(4, 8 * capacity - Len(bits)) + 7) \div 8

ByteAt(bits, k) ==
  LET value[b \in 0 .. 8] ==
        IF b = 0 THEN 0
        ELSE 2 * value[b - 1] + (IF 8 * k + b > Len(bits) THEN 0 ELSE bits[8 * k + b])
  IN  value[8]

\* The data codewords: what the message leaves is filled with 0xEC and 0x11.
Padded(bits, capacity) ==
  LET used == MessageBytes(bits, capacity)
  IN  <<>> \o [k \in 1 .. capacity |->
                 IF k <= used THEN ByteAt(bits, k - 1)
                 ELSE IF (k - used) % 2 = 1 THEN 236 ELSE 17]

-----------------------------------------------------------------------------
(* The field. *)

\* Russian peasant multiplication, from the highest bit of y.
reedSolomonMultiply(x, y) ==
  LET z[i \in 0 .. 8] ==
        IF i = 0 THEN 0
        ELSE LET doubled == 2 * z[i - 1]
                 reduced == IF doubled >= 256 THEN Xor(doubled, 285) ELSE doubled
             IN  IF BitOf(y, 8 - i) = 1 THEN Xor(reduced, x) ELSE reduced
  IN  z[8]

\* The product of x - 2^0 to x - 2^(degree - 1), without the leading 1.
reedSolomonComputeDivisor(degree) ==
  LET turn[i \in 0 .. degree] ==
        IF i = 0 THEN [root |-> 1, result |-> <<>> \o [j \in 1 .. degree |-> j \div degree]]
        ELSE LET before == turn[i - 1]
                 times  == <<>> \o [j \in 1 .. degree |->
                                      reedSolomonMultiply(before.result[j], before.root)]
             IN  [root   |-> reedSolomonMultiply(before.root, 2),
                  result |-> <<>> \o [j \in 1 .. degree |->
                               IF j < degree THEN Xor(times[j], before.result[j + 1])
                               ELSE times[j]]]
  IN  turn[degree].result

\* The generators, computed once.
Divisor == [degree \in {ECC_CODEWORDS_PER_BLOCK[v] : v \in Version} |->
              reedSolomonComputeDivisor(degree)]

\* One turn of the long division: the register after codeword c.
Divided(register, c, degree) ==
  LET factor  == Xor(c, register[1])
      shifted == Append(Tail(register), 0)
  IN  <<>> \o [j \in 1 .. degree |->
                 Xor(shifted[j], reedSolomonMultiply(Divisor[degree][j], factor))]

\* All turns in their order, the first half of them ahead of the second.
reedSolomonComputeRemainder(data, degree) ==
  LET turns[t \in (DOMAIN data) \X (DOMAIN data) \X Seq(0 .. 255)] ==
        IF t[1] = t[2] THEN Divided(t[3], data[t[1]], degree)
        ELSE LET middle == (t[1] + t[2]) \div 2
             IN  turns[<<middle + 1, t[2], turns[<<t[1], middle, t[3]>>]>>]
  IN  turns[<<1, Len(data), <<>> \o [j \in 1 .. degree |-> 0]>>]

NumShortBlocks(version) ==
  NUM_ERROR_CORRECTION_BLOCKS[version]
    - (RawCodewords(version) % NUM_ERROR_CORRECTION_BLOCKS[version])

ShortBlockDataLen(version) ==
  RawCodewords(version) \div NUM_ERROR_CORRECTION_BLOCKS[version]
    - ECC_CODEWORDS_PER_BLOCK[version]

\* Data of block i, the first being 0; the short blocks come first.
DataOf(data, version, i) ==
  LET short == ShortBlockDataLen(version)
      long  == i - NumShortBlocks(version)
      from  == i * short + (IF long > 0 THEN long ELSE 0)
  IN  SubSeq(data, from + 1, from + short + (IF long >= 0 THEN 1 ELSE 0))

\* The blocks one behind the other.
BlockAfterBlock(data, version) ==
  LET degree == ECC_CODEWORDS_PER_BLOCK[version]
      blocks == NUM_ERROR_CORRECTION_BLOCKS[version]
      ecc    == <<>> \o [i \in 1 .. blocks |->
                           reedSolomonComputeRemainder(DataOf(data, version, i - 1), degree)]
  IN  data \o [k \in 1 .. blocks * degree |-> ecc[(k - 1) \div degree + 1][((k - 1) % degree) + 1]]

\* One codeword of each block in turn: data, the last ones of the long blocks,
\* and the remainders.
addEccAndInterleave(data, version) ==
  LET degree == ECC_CODEWORDS_PER_BLOCK[version]
      blocks == NUM_ERROR_CORRECTION_BLOCKS[version]
      short  == ShortBlockDataLen(version)
      parts  == <<>> \o [i \in 1 .. blocks |-> DataOf(data, version, i - 1)]
      ecc    == <<>> \o [i \in 1 .. blocks |-> reedSolomonComputeRemainder(parts[i], degree)]
      both   == [k \in 0 .. short * blocks - 1 |-> parts[(k % blocks) + 1][k \div blocks + 1]]
      long   == NumShortBlocks(version)
  IN  <<>> \o [k \in 1 .. RawCodewords(version) |->
        IF k <= short * blocks THEN both[k - 1]
        ELSE IF k <= Len(data) THEN parts[long + k - short * blocks][short + 1]
        ELSE ecc[((k - 1 - Len(data)) % blocks) + 1][(k - 1 - Len(data)) \div blocks + 1]]

=============================================================================
