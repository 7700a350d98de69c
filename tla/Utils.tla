-------------------------------- MODULE Utils --------------------------------
(***************************************************************************)
(* The checksums of src/src/utils/checksum.c, the hashes of hash.c, the    *)
(* permutations and reflections of utils.c, the byte swaps of mem.c and    *)
(* the arithmetic of time.c.  A register of 32 bits is one of RegBits      *)
(* here, and a byte has ByteBits.                                          *)
(***************************************************************************)
EXTENDS Integers, Sequences, FiniteSets, SequencesExt, Bitwise

CONSTANTS
  RegBits,     \* 32: the width of checksums
  ByteBits,    \* 8: the width of what they are made of
  Polynomial,  \* CRC32_ETH_POLYNOMIAL, reversed
  FnvBasis,    \* FNV_OFFSET_BASIS
  OneE9        \* ONEE9: nanoseconds in a second

ASSUME UtilsAssumption ==
  /\ 0 < ByteBits /\ ByteBits <= RegBits
  /\ Polynomial \in 1 .. 2 ^ RegBits - 1 /\ OneE9 > 0
  /\ FnvBasis \in 0 .. 2 ^ RegBits - 1

Ones == 2 ^ RegBits - 1
Complemented(x) == Ones - x
LowByte(x) == x % 2 ^ ByteBits

\* xchks8, xchks16, xchks32: rotate left by one and xor the next in.
XChks(buf, seed) ==
  FoldLeft(LAMBDA sum, b : (((2 * sum) % (2 ^ RegBits)) + sum \div 2 ^ (RegBits - 1)) ^^ b, seed, buf)

\* achks8, achks16, achks32
AChks(buf, seed) == FoldLeft(LAMBDA sum, b : (sum + b) % 2 ^ RegBits, seed, buf)

\* One bit of both crc32_ethl_init and crc32_eth.
CrcBit(crc) == IF crc % 2 = 1 THEN (crc \div 2) ^^ Polynomial ELSE crc \div 2
CrcBits(crc) == FoldLeft(LAMBDA c, bit : CrcBit(c), crc, [bit \in 1 .. ByteBits |-> bit])

\* crc32_ethl_init
CrcTable == [b \in 0 .. 2 ^ ByteBits - 1 |-> CrcBits(b)]

\* crc32_ethl: a table lookup for each byte.
CrcEthl(buf) ==
  Complemented(FoldLeft(LAMBDA crc, b : (crc \div 2 ^ ByteBits) ^^ CrcTable[LowByte(crc) ^^ b],
                        Ones, buf))

\* crc32_eth: bit by bit.
CrcEth(buf) == Complemented(FoldLeft(LAMBDA crc, b : CrcBits(crc ^^ b), Ones, buf))

\* crc32_brown, whose constant table is that of crc32_ethl_init: the seed is
\* complemented, the result is not.
CrcBrown(buf, seed) ==
  FoldLeft(LAMBDA crc, b : CrcTable[LowByte(crc ^^ b)] ^^ (crc \div 2 ^ ByteBits),
           Complemented(seed), buf)

\* hash_default, hash_fnv1a and hash_djb of src/src/utils/hash.c: shifts to
\* the left and products lose what leaves the register.
Reg(x) == x % 2 ^ RegBits
ShiftAdd(h, n) == Reg(h + Reg(h * 2 ^ n))
ShiftXor(h, n) == h ^^ (h \div 2 ^ n)

HashDefault(buf) ==
  ShiftAdd(ShiftXor(ShiftAdd(
    FoldLeft(LAMBDA h, b : ShiftXor(ShiftAdd(Reg(h + b), 10), 6), 0, buf), 3), 11), 15)
HashFnv1a(buf) == FoldLeft(LAMBDA h, b : Reg((h ^^ b) * Reg(16777619)), FnvBasis, buf)
HashDjb(buf) == FoldLeft(LAMBDA h, b : Reg(33 * h + b), Reg(5381), buf)

\* util_reflect32 of the low n bits.
Reflect(data, n) ==
  FoldLeft(LAMBDA r, bit : r + (IF (data \div 2 ^ bit) % 2 = 1 THEN 2 ^ (n - 1 - bit) ELSE 0),
           0, [k \in 1 .. n |-> k - 1])

\* arr32_elt_swap
SwapAt(s, i, j) == [s EXCEPT ![i] = s[j], ![j] = s[i]]

\* arr32_permute: what the array is after it, and what the callback saw.
RECURSIVE Permute(_, _, _)
Permute(s, seen, from) ==
  IF from > Len(s) THEN [arr |-> s, seen |-> Append(seen, s)]
  ELSE FoldLeft(LAMBDA t, j : LET u == Permute(SwapAt(t.arr, from, j), t.seen, from + 1)
                              IN  [u EXCEPT !.arr = SwapAt(u.arr, from, j)],
                [arr |-> s, seen |-> seen], [k \in 1 .. Len(s) - from + 1 |-> from + k - 1])

\* mem_bswap16 (n = 2) and mem_bswap32 (n = 4) of whole groups of n bytes.
ByteSwap(buf, n) == [i \in DOMAIN buf |-> buf[(n * ((i - 1) \div n)) + n - ((i - 1) % n)]]

-----------------------------------------------------------------------------
Ts(sec, nsec) == [sec |-> sec, nsec |-> nsec]

\* time_ts2monons, time_monons2ts
Monons(ts) == ts.sec * OneE9 + ts.nsec
FromMonons(val) == Ts(val \div OneE9, val % OneE9)

\* time_ts_cmp
TsCmp(a, b) ==
  IF a.sec # b.sec THEN (IF a.sec > b.sec THEN 1 ELSE -1)
  ELSE IF a.nsec # b.nsec THEN (IF a.nsec > b.nsec THEN 1 ELSE -1) ELSE 0

\* time_ts_add, which time_ts_make_abs uses on the current time.
TsAdd(sum, val) ==
  LET nsec == sum.nsec + val.nsec
  IN  Ts(sum.sec + val.sec + nsec \div OneE9, nsec % OneE9)

\* time_ts_diff
TsDiff(start, end) ==
  IF end.nsec - start.nsec < 0 THEN Ts(end.sec - start.sec - 1, OneE9 + end.nsec - start.nsec)
  ELSE Ts(end.sec - start.sec, end.nsec - start.nsec)
=============================================================================
