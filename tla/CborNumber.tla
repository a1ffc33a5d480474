----------------------------- MODULE CborNumber -----------------------------
(***************************************************************************)
(* Numbers as bytes.  A number of any size is the sequence of its          *)
(* significant bytes, the first of which is not 0.  A double is its sign,  *)
(* its exponent field and its mantissa field in two parts, of which the    *)
(* upper one has the 23 bits a single has too.                             *)
(***************************************************************************)
EXTENDS Integers, SequencesExt

Byte == 0 .. 255

\* READ_VAL: up to four bytes as a big-endian number
BigEndian(bytes) ==
  LET byte(i) == IF i < Len(bytes) THEN bytes[Len(bytes) - i] ELSE 0
  IN byte(3) * 2 ^ 24 + byte(2) * 2 ^ 16 + byte(1) * 2 ^ 8 + byte(0)

\* the number of a big-endian string of bytes
Significant(bytes) ==
  LET k == SelectInSeq(bytes, LAMBDA byte : byte # 0)
  IN IF k = 0 THEN <<>> ELSE SubSeq(bytes, k, Len(bytes))

\* numbers that Number can take apart: no count or length here is higher
Lengths == 0 .. 2 ^ 24 - 1

\* a number below 2^24 as its bytes
Number(n) == Significant(<<n \div 2 ^ 16, (n \div 256) % 256, n % 256>>)

\* a number in exactly so many bytes
Padded(number, width) ==
  [i \in 1 .. width - Len(number) |-> 0] \o number
-----------------------------------------------------------------------------
(* Floating point numbers from their bytes: read_primitive *)

Double(sign, exp, hi, lo) == [sign |-> sign, exp |-> exp, hi |-> hi, lo |-> lo]
Upper == 0 .. 2 ^ 23 - 1
Lower == 0 .. 2 ^ 29 - 1
Doubles == [sign : {0, 1}, exp : 0 .. 2047, hi : Upper, lo : Lower]
IsNaN(d) == d.exp = 2047 /\ (d.hi # 0 \/ d.lo # 0)

\* m * 2^e, for 0 <= m < 2^23: ldexp, and what the hardware does to a single
\* below the normal ones
Ldexp(sign, m, e) ==
  IF m = 0 THEN Double(sign, 0, 0, 0)
  ELSE LET k == CHOOSE i \in 0 .. 22 : 2 ^ i <= m /\ m < 2 ^ (i + 1)
       IN Double(sign, 1023 + k + e, (m - 2 ^ k) * 2 ^ (23 - k), 0)

FromHalf(val) ==
  LET sign == val \div 2 ^ 15
      exp == (val \div 2 ^ 10) % 32
      mant == val % 2 ^ 10
  IN CASE exp = 0 -> Ldexp(sign, mant, -24)
       [] exp \in 1 .. 30 -> Ldexp(sign, mant + 1024, exp - 25)
       [] exp = 31 -> Double(sign, 2047, mant * 2 ^ 13, 0)

\* the double equal to a single
Widened(sign, exp, mant) ==
  CASE exp = 0 -> Ldexp(sign, mant, -149)
    [] exp \in 1 .. 254 -> Double(sign, exp + 896, mant, 0)
    [] exp = 255 -> Double(sign, 2047, mant, 0)

FromSingle(b) ==
  Widened(b[1] \div 128, (b[1] % 128) * 2 + b[2] \div 128,
          BigEndian(<<b[2] % 128, b[3], b[4]>>))

FromDouble(b) ==
  Double(b[1] \div 128, (b[1] % 128) * 16 + b[2] \div 16,
         BigEndian(<<b[2] % 16, b[3], b[4]>>) * 8 + b[5] \div 32,
         BigEndian(<<b[5] % 32, b[6], b[7], b[8]>>))

Float(bytes) == CASE Len(bytes) = 2 -> FromHalf(BigEndian(bytes))
                  [] Len(bytes) = 4 -> FromSingle(bytes)
                  [] Len(bytes) = 8 -> FromDouble(bytes)
-----------------------------------------------------------------------------
(* Bytes from floating point numbers: msgpack_packer_write_double *)

\* the single equal to a double, if there is one: float fv = v; fv == v
Singles(d) ==
  LET shift == 897 - d.exp
  IN CASE d.lo = 0 /\ d.hi = 0 /\ d.exp = 0 -> {[exp |-> 0, mant |-> 0]}
       [] d.lo = 0 /\ d.hi = 0 /\ d.exp = 2047 -> {[exp |-> 255, mant |-> 0]}
       [] d.lo = 0 /\ d.exp \in 897 .. 1150 -> {[exp |-> d.exp - 896, mant |-> d.hi]}
       [] d.lo = 0 /\ shift \in 1 .. 23 ->
            {[exp |-> 0, mant |-> m] : m \in {k \in {(d.hi + 2 ^ 23) \div 2 ^ shift} :
                                               k * 2 ^ shift = d.hi + 2 ^ 23}}
       [] OTHER -> {}

\* Seeded fault: halves below the smallest one are tried as well.
OneTooSmall(f) ==
  IF f.mant % 2 ^ 13 # 0 THEN {}
  ELSE CASE f.exp = 0 /\ f.mant = 0 -> {0}
         [] f.exp \in 113 .. 142 -> {(f.exp - 112) * 2 ^ 10 + f.mant \div 2 ^ 13}
         [] f.exp \in 102 .. 112 /\ f.mant % 2 ^ (126 - f.exp) = 0 ->
              {(f.mant + 2 ^ 23) \div 2 ^ (126 - f.exp)}
         [] f.exp = 255 /\ f.mant = 0 -> {31 * 2 ^ 10}
         [] OTHER -> {}

\* the half, but for its sign, equal to a single, if there is one
Halves(f) ==
  IF f.mant % 2 ^ 13 # 0 THEN {}
  ELSE CASE f.exp = 0 /\ f.mant = 0 -> {0}
         [] f.exp \in 113 .. 142 -> {(f.exp - 112) * 2 ^ 10 + f.mant \div 2 ^ 13}
         [] f.exp \in 103 .. 112 /\ f.mant % 2 ^ (126 - f.exp) = 0 ->
              {(f.mant + 2 ^ 23) \div 2 ^ (126 - f.exp)}
         [] f.exp = 255 /\ f.mant = 0 -> {31 * 2 ^ 10}
         [] OTHER -> {}

HalfBytes(sign, bits) == <<249>> \o Padded(Number(sign * 2 ^ 15 + bits), 2)

SingleBytes(sign, f) ==
  <<250, sign * 128 + f.exp \div 2>> \o
  Padded(Number((f.exp % 2) * 2 ^ 23 + f.mant), 3)

DoubleBytes(d) ==
  <<251, d.sign * 128 + d.exp \div 16, (d.exp % 16) * 16 + d.hi \div 2 ^ 19>> \o
  Padded(Number((d.hi % 2 ^ 19) \div 8), 2) \o
  <<(d.hi % 8) * 32 + d.lo \div 2 ^ 24>> \o
  Padded(Number(d.lo % 2 ^ 24), 3)

FloatBytes(d) ==
  IF Singles(d) # {}
  THEN LET f == CHOOSE s \in Singles(d) : TRUE
       IN IF Halves(f) # {} THEN HalfBytes(d.sign, CHOOSE h \in Halves(f) : TRUE)
          ELSE SingleBytes(d.sign, f)
  ELSE IF IsNaN(d) /\ d.lo = 0
  THEN IF d.hi % 2 ^ 13 = 0 THEN HalfBytes(d.sign, 31 * 2 ^ 10 + d.hi \div 2 ^ 13)
       ELSE SingleBytes(d.sign, [exp |-> 255, mant |-> d.hi])
  ELSE DoubleBytes(d)
=============================================================================
