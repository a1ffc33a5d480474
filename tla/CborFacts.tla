------------------------------ MODULE CborFacts ------------------------------
(***************************************************************************)
(* Facts for the proofs about what is written and read: numbers as bytes   *)
(* (significant bytes, numbers in so many bytes, floating point), and the  *)
(* items in a string of bytes (where heads lie, how a reading goes on as   *)
(* bytes are appended).                                                    *)
(***************************************************************************)
EXTENDS CborItems, ListFacts

-----------------------------------------------------------------------------
(* Bytes *)

\* A byte is a number.
LEMMA ByteIs ==
  ASSUME NEW x \in Byte
  PROVE  x \in Nat /\ x <= 255
BY DEF Byte

\* Single bytes, and strings of bytes behind each other.
LEMMA OneByte ==
  ASSUME NEW x \in Byte
  PROVE  <<x>> \in Seq(Byte)
BY DEF Byte

\* Two of them.
LEMMA TwoBytes ==
  ASSUME NEW x \in Byte, NEW y \in Byte
  PROVE  <<x, y>> \in Seq(Byte)
BY DEF Byte

\* Strings that are put behind each other.
LEMMA Joined ==
  ASSUME NEW p \in Seq(Byte), NEW q \in Seq(Byte)
  PROVE  p \o q \in Seq(Byte)
BY ConcatProperties

-----------------------------------------------------------------------------
(* Numbers *)

\* The significant bytes of a number are some of its bytes.
LEMMA SignificantType ==
  ASSUME NEW q \in Seq(Byte)
  PROVE  Significant(q) \in Seq(Byte) /\ Len(Significant(q)) <= Len(q)
<1> DEFINE I == {i \in 1 .. Len(q) : q[i] # 0}
           k == IF I # {} THEN Min(I) ELSE 0
           n == Len(q)
<1>1. n \in Nat
  BY LenProperties
<1>2. k \in 0 .. n
  <2>1. CASE I = {}
    BY <1>1, <2>1
  <2>2. CASE I # {}
    <3>1. I \subseteq Nat
      BY <1>1
    <3>2. Min(I) \in I
      BY <2>2, <3>1, MinOfNaturals
    <3> QED BY <1>1, <2>2, <3>2
  <2> QED BY <2>1, <2>2
<1>3. Significant(q) = IF k = 0 THEN <<>> ELSE SubSeq(q, k, n)
  BY DEF Significant, SelectInSeq
<1> HIDE DEF k, n
<1>4. CASE k = 0
  <2>1. Significant(q) = <<>>
    BY <1>3, <1>4
  <2> QED BY <1>1, <2>1, EmptySeq DEF n
<1>5. CASE k # 0
  <2> DEFINE j == k - 1
  <2>1. j \in 0 .. n /\ j + 1 = k
    BY <1>1, <1>2, <1>5
  <2> HIDE DEF j
  <2>2. SubSeq(q, j + 1, n) \in Seq(Byte) /\ Len(SubSeq(q, j + 1, n)) = n - j
    BY <2>1, CutOf DEF n
  <2>3. Significant(q) = SubSeq(q, j + 1, n)
    BY <1>3, <1>5, <2>1
  <2> QED BY <1>1, <2>1, <2>2, <2>3 DEF n
<1> QED BY <1>4, <1>5

\* The bytes of a count or a length.
LEMMA NumberType ==
  ASSUME NEW n \in Lengths
  PROVE  Number(n) \in Seq(Byte) /\ Len(Number(n)) <= 3
<1> DEFINE a == n \div 2 ^ 16
           b == (n \div 256) % 256
           c == n % 256
           q == <<a, b, c>>
<1>1. n \in Nat /\ n < 16777216
  BY DEF Lengths
<1>2. a \in Nat /\ a <= 255
  BY <1>1
<1>3. b \in Nat /\ b <= 255
  BY <1>1
<1>4. c \in Nat /\ c <= 255
  BY <1>1
<1> HIDE DEF a, b, c
<1>5. a \in Byte /\ b \in Byte /\ c \in Byte
  BY <1>2, <1>3, <1>4 DEF Byte
<1>6. q \in Seq(Byte) /\ Len(q) = 3
  BY <1>5
<1>7. Number(n) = Significant(q)
  BY DEF Number, a, b, c
<1> HIDE DEF q
<1> QED BY <1>6, <1>7, SignificantType

\* The first byte that is not 0 is where it is.
LEMMA SignificantFrom ==
  ASSUME NEW q \in Seq(Byte), NEW k \in 1 .. Len(q), q[k] # 0, \A i \in 1 .. k - 1 : q[i] = 0
  PROVE  Significant(q) = SubSeq(q, k, Len(q))
<1> DEFINE I == {i \in 1 .. Len(q) : q[i] # 0}
           m == IF I # {} THEN Min(I) ELSE 0
           n == Len(q)
<1>1. n \in Nat
  BY LenProperties
<1>2. k \in I /\ I \subseteq Nat
  BY <1>1
<1>3. Min(I) \in I /\ Min(I) <= k
  BY <1>2, MinOfNaturals
<1>4. Min(I) = k
  <2> DEFINE j == Min(I)
  <2>1. j \in 1 .. n /\ q[j] # 0 /\ j <= k
    BY <1>3
  <2> HIDE DEF j
  <2>2. j \in 1 .. k - 1 \/ j = k
    BY <1>1, <2>1
  <2> QED BY <2>1, <2>2 DEF j
<1>5. m = k
  BY <1>2, <1>4
<1>6. Significant(q) = IF m = 0 THEN <<>> ELSE SubSeq(q, m, n)
  BY DEF Significant, SelectInSeq
<1> HIDE DEF m
<1> QED BY <1>1, <1>5, <1>6

\* No byte of it is significant.
LEMMA SignificantNone ==
  ASSUME NEW q \in Seq(Byte), \A i \in 1 .. Len(q) : q[i] = 0
  PROVE  Significant(q) = <<>>
<1> DEFINE I == {i \in 1 .. Len(q) : q[i] # 0}
           m == IF I # {} THEN Min(I) ELSE 0
<1>1. I = {}
  OBVIOUS
<1>2. m = 0
  BY <1>1
<1>3. Significant(q) = IF m = 0 THEN <<>> ELSE SubSeq(q, m, Len(q))
  BY DEF Significant, SelectInSeq
<1> HIDE DEF m
<1> QED BY <1>2, <1>3

\* A single byte.
LEMMA SignificantOne ==
  ASSUME NEW x \in Byte
  PROVE  Significant(<<x>>) = IF x = 0 THEN <<>> ELSE <<x>>
<1> DEFINE q == <<x>>
<1>1. q \in Seq(Byte) /\ Len(q) = 1 /\ q[1] = x
  BY OneByte
<1> HIDE DEF q
<1>2. CASE x = 0
  <2>1. \A i \in 1 .. Len(q) : q[i] = 0
    BY <1>1, <1>2
  <2>2. Significant(q) = <<>>
    BY <1>1, <2>1, SignificantNone
  <2> QED BY <1>2, <2>2 DEF q
<1>3. CASE x # 0
  <2>1. 1 \in 1 .. Len(q) /\ q[1] # 0 /\ \A i \in 1 .. 1 - 1 : q[i] = 0
    BY <1>1, <1>3
  <2>2. Significant(q) = SubSeq(q, 1, Len(q))
    BY <1>1, <2>1, SignificantFrom
  <2>3. SubSeq(q, 1, Len(q)) = q
    BY <1>1
  <2> QED BY <1>3, <2>2, <2>3 DEF q
<1> QED BY <1>2, <1>3

\* The bytes of a count are those of that number, the first of them not 0.
LEMMA NumberIs ==
  ASSUME NEW n \in Lengths
  PROVE  (Number(n) # <<>> => Number(n)[1] # 0) /\ CountOf(Number(n)) = n
<1> DEFINE a == n \div 2 ^ 16
           b == (n \div 256) % 256
           c == n % 256
           q == <<a, b, c>>
           r == Number(n)
<1>1. n \in Nat /\ n < 16777216
  BY DEF Lengths
<1>2. a \in Nat /\ a <= 255 /\ b \in Nat /\ b <= 255 /\ c \in Nat /\ c <= 255
  <2>1. a \in Nat /\ a <= 255
    BY <1>1
  <2>2. b \in Nat /\ b <= 255
    BY <1>1
  <2>3. c \in Nat /\ c <= 255
    BY <1>1
  <2> QED BY <2>1, <2>2, <2>3
<1>3. n = 256 * (256 * a + b) + c
  BY <1>1
<1>4. r = Significant(q)
  BY DEF Number
<1> HIDE DEF a, b, c, r
<1>5. a \in Byte /\ b \in Byte /\ c \in Byte
  BY <1>2 DEF Byte
<1>6. q \in Seq(Byte) /\ Len(q) = 3 /\ q[1] = a /\ q[2] = b /\ q[3] = c
  BY <1>5
<1>7. CASE a # 0
  <2>1. 1 \in 1 .. Len(q) /\ q[1] # 0 /\ \A i \in 1 .. 1 - 1 : q[i] = 0
    BY <1>6, <1>7
  <2>2. r = SubSeq(q, 1, Len(q))
    <3> HIDE DEF q
    <3> QED BY <1>4, <1>6, <2>1, SignificantFrom
  <2>3. Len(SubSeq(q, 0 + 1, Len(q))) = Len(q) - 0 /\ \A i \in 1 .. Len(q) - 0 : SubSeq(q, 0 + 1, Len(q))[i] = q[i + 0]
    <3> HIDE DEF q
    <3>1. 0 \in 0 .. Len(q)
      BY <1>6
    <3> QED BY ONLY <1>6, <3>1, CutOf
  <2>4. Len(r) = 3 /\ Len(r) # 0 /\ Len(r) # 1 /\ Len(r) # 2 /\ r[1] = a /\ r[2] = b /\ r[3] = c
    <3> HIDE DEF q
    <3> QED BY <1>6, <2>2, <2>3
  <2>5. CountOf(r) = 256 * (256 * r[1] + r[2]) + r[3]
    BY <2>4, Zenon DEF CountOf
  <2> QED BY <1>3, <1>7, <2>4, <2>5 DEF r
<1>8. CASE a = 0 /\ b # 0
  <2>1. 2 \in 1 .. Len(q) /\ q[2] # 0 /\ \A i \in 1 .. 2 - 1 : q[i] = 0
    BY <1>6, <1>8
  <2>2. r = SubSeq(q, 2, Len(q))
    <3> HIDE DEF q
    <3> QED BY <1>4, <1>6, <2>1, SignificantFrom
  <2>3. Len(SubSeq(q, 1 + 1, Len(q))) = Len(q) - 1 /\ \A i \in 1 .. Len(q) - 1 : SubSeq(q, 1 + 1, Len(q))[i] = q[i + 1]
    <3> HIDE DEF q
    <3>1. 1 \in 0 .. Len(q)
      BY <1>6
    <3> QED BY ONLY <1>6, <3>1, CutOf
  <2>4. Len(r) = 2 /\ Len(r) # 0 /\ Len(r) # 1 /\ Len(r) # 3 /\ r[1] = b /\ r[2] = c
    <3> HIDE DEF q
    <3> QED BY <1>6, <2>2, <2>3
  <2>5. CountOf(r) = 256 * r[1] + r[2]
    BY <2>4, Zenon DEF CountOf
  <2> QED BY <1>2, <1>3, <1>8, <2>4, <2>5 DEF r
<1>9. CASE a = 0 /\ b = 0 /\ c # 0
  <2>1. 3 \in 1 .. Len(q) /\ q[3] # 0 /\ \A i \in 1 .. 3 - 1 : q[i] = 0
    BY <1>6, <1>9
  <2>2. r = SubSeq(q, 3, Len(q))
    <3> HIDE DEF q
    <3> QED BY <1>4, <1>6, <2>1, SignificantFrom
  <2>3. Len(SubSeq(q, 2 + 1, Len(q))) = Len(q) - 2 /\ \A i \in 1 .. Len(q) - 2 : SubSeq(q, 2 + 1, Len(q))[i] = q[i + 2]
    <3> HIDE DEF q
    <3>1. 2 \in 0 .. Len(q)
      BY <1>6
    <3> QED BY ONLY <1>6, <3>1, CutOf
  <2>4. Len(r) = 1 /\ Len(r) # 0 /\ Len(r) # 2 /\ Len(r) # 3 /\ r[1] = c
    <3> HIDE DEF q
    <3> QED BY <1>6, <2>2, <2>3
  <2>5. CountOf(r) = r[1]
    BY <2>4, Zenon DEF CountOf
  <2> QED BY <1>2, <1>3, <1>9, <2>4, <2>5 DEF r
<1>10. CASE a = 0 /\ b = 0 /\ c = 0
  <2>1. \A i \in 1 .. Len(q) : q[i] = 0
    BY <1>6, <1>10
  <2>2. r = <<>>
    <3> HIDE DEF q
    <3> QED BY <1>4, <1>6, <2>1, SignificantNone
  <2>3. Len(r) = 0 /\ Len(r) # 1 /\ Len(r) # 2 /\ Len(r) # 3
    BY <2>2
  <2>4. CountOf(r) = 0
    BY <2>3, Zenon DEF CountOf
  <2> QED BY <1>3, <1>10, <2>2, <2>4 DEF r
<1> QED BY <1>7, <1>8, <1>9, <1>10

\* Zeros before the bytes of a number.
LEMMA PaddedType ==
  ASSUME NEW q \in Seq(Byte), NEW w \in Nat
  PROVE  Padded(q, w) \in Seq(Byte)
<1> DEFINE m == w - Len(q)
           z == [i \in 1 .. m |-> 0]
           l == IF m < 0 THEN 0 ELSE m
<1>1. m \in Int
  BY LenProperties
<1> HIDE DEF m
<1>2. l \in Nat /\ 1 .. m = 1 .. l
  BY <1>1
<1>3. z = [i \in 1 .. l |-> 0]
  BY <1>2
<1>4. 0 \in Byte
  BY DEF Byte
<1> HIDE DEF l
<1>5. [i \in 1 .. l |-> 0] \in Seq(Byte)
  BY <1>2, <1>4
<1>6. z \in Seq(Byte)
  BY <1>3, <1>5
<1> HIDE DEF z
<1>7. z \o q \in Seq(Byte)
  BY <1>6, ConcatProperties
<1> QED BY <1>7 DEF Padded, z, m

\* A number that is padded is still that number.
LEMMA PaddedIs ==
  ASSUME NEW q \in Seq(Byte), q # <<>>, q[1] # 0, NEW w \in Nat, Len(q) <= w
  PROVE  /\ Padded(q, w) \in Seq(Byte) /\ Len(Padded(q, w)) = w
         /\ Significant(Padded(q, w)) = q
<1> DEFINE n == Len(q)
           m == w - n
           z == [i \in 1 .. m |-> 0]
           p == z \o q
<1>1. n \in Nat /\ n >= 1
  BY EmptySeq, LenProperties
<1>2. m \in Nat /\ m + n = w
  BY <1>1
<1>3. p = Padded(q, w)
  BY DEF Padded
<1>4. 0 \in Byte
  BY DEF Byte
<1> HIDE DEF m, n
<1>5. z \in Seq(Byte) /\ Len(z) = m /\ \A i \in 1 .. m : z[i] = 0
  BY <1>2, <1>4
<1> HIDE DEF z
<1>6. /\ p \in Seq(Byte) /\ Len(p) = m + n
      /\ \A i \in 1 .. m : p[i] = 0
      /\ p[m + 1] = q[1]
  <2>1. p \in Seq(Byte) /\ Len(p) = Len(z) + Len(q)
    BY ONLY <1>5, q \in Seq(Byte), ConcatProperties
  <2>2. \A i \in 1 .. Len(z) + Len(q) : p[i] = IF i <= Len(z) THEN z[i] ELSE q[i - Len(z)]
    BY ONLY <1>5, q \in Seq(Byte), ConcatProperties
  <2> HIDE DEF p
  <2>3. \A i \in 1 .. m : p[i] = 0
    BY <1>1, <1>2, <1>5, <2>2 DEF n
  <2>4. p[m + 1] = q[1]
    <3> DEFINE k == m + 1
               j == k - m
    <3>1. k \in 1 .. m + n /\ ~(k <= m) /\ j = 1
      BY <1>1, <1>2
    <3>2. \A i \in 1 .. m + n : p[i] = IF i <= m THEN z[i] ELSE q[i - m]
      BY <1>5, <2>2 DEF n
    <3> HIDE DEF k
    <3>3. p[k] = q[j]
      BY <3>1, <3>2, Zenon
    <3> HIDE DEF j
    <3>4. p[k] = q[1]
      BY <3>1, <3>3
    <3> QED BY <3>4 DEF k
  <2> QED BY <1>5, <2>1, <2>3, <2>4 DEF n
<1>7. SubSeq(p, m + 1, Len(p)) = q
  BY ONLY <1>5, q \in Seq(Byte), ConcatCut
<1> HIDE DEF p
<1>8. Significant(p) = SubSeq(p, m + 1, Len(p))
  <2> DEFINE k == m + 1
  <2>1. k \in 1 .. Len(p) /\ p[k] # 0 /\ \A i \in 1 .. k - 1 : p[i] = 0
    BY <1>1, <1>2, <1>6
  <2> HIDE DEF k
  <2>2. Significant(p) = SubSeq(p, k, Len(p))
    BY <1>6, <2>1, SignificantFrom, Zenon
  <2> QED BY <2>2 DEF k
<1> QED BY <1>2, <1>3, <1>6, <1>7, <1>8

\* The significant bytes of a string are the last of its bytes, and those
\* before them are 0.
LEMMA SignificantRest ==
  ASSUME NEW q \in Seq(Byte)
  PROVE  \E m \in 0 .. Len(q) :
           /\ \A i \in 1 .. m : q[i] = 0
           /\ m < Len(q) => q[m + 1] # 0
           /\ Significant(q) = SubSeq(q, m + 1, Len(q))
<1> DEFINE I == {i \in 1 .. Len(q) : q[i] # 0}
           n == Len(q)
<1>1. n \in Nat
  BY LenProperties
<1>2. CASE I = {}
  <2>1. \A i \in 1 .. n : q[i] = 0
    BY <1>2
  <2>2. Significant(q) = <<>>
    BY <2>1, SignificantNone
  <2>3. SubSeq(q, n + 1, n) = <<>>
    <3>1. n \in 0 .. Len(q)
      BY <1>1
    <3>2. SubSeq(q, n + 1, Len(q)) \in Seq(Byte) /\ Len(SubSeq(q, n + 1, Len(q))) = Len(q) - n
      BY ONLY <3>1, q \in Seq(Byte), CutOf
    <3>3. Len(q) - n = 0
      BY <1>1
    <3> QED BY <3>2, <3>3, EmptySeq
  <2>4. n \in 0 .. n
    BY <1>1
  <2> HIDE DEF n
  <2> QED BY <1>1, <2>1, <2>2, <2>3, <2>4 DEF n
<1>3. CASE I # {}
  <2> DEFINE k == Min(I)
             m == k - 1
  <2>1. I \subseteq Nat
    BY <1>1
  <2>2. k \in I /\ \A y \in I : k <= y
    <3> HIDE DEF I
    <3> QED BY <1>3, <2>1, MinOfNaturals
  <2>3. k \in 1 .. n /\ q[k] # 0
    BY <2>2
  <2>4. \A i \in 1 .. k - 1 : q[i] = 0
    <3> SUFFICES ASSUME NEW i \in 1 .. k - 1, q[i] # 0 PROVE FALSE
      OBVIOUS
    <3>1. i \in 1 .. n
      BY <1>1, <2>3
    <3>2. i \in I
      BY <3>1
    <3>3. k <= i
      BY <2>2, <3>2
    <3> HIDE DEF k
    <3> QED BY <1>1, <2>3, <3>3
  <2> HIDE DEF k, n
  <2>5. Significant(q) = SubSeq(q, k, Len(q))
    BY <2>3, <2>4, SignificantFrom DEF n
  <2>6. m \in 0 .. n /\ m + 1 = k
    BY <1>1, <2>3
  <2> HIDE DEF m
  <2>7. \A i \in 1 .. m : q[i] = 0
    BY <1>1, <2>3, <2>4, <2>6 DEF m
  <2> QED BY <2>3, <2>5, <2>6, <2>7 DEF n
<1> QED BY <1>2, <1>3

\* A number that is padded to so many bytes is the last bytes of the string it
\* is the number of, if those before them are 0.
LEMMA PaddedBack ==
  ASSUME NEW q \in Seq(Byte), NEW w \in 0 .. Len(q), \A i \in 1 .. Len(q) - w : q[i] = 0
  PROVE  /\ Padded(Significant(q), w) \in Seq(Byte)
         /\ Len(Padded(Significant(q), w)) = w
         /\ \A i \in 1 .. w : Padded(Significant(q), w)[i] = q[i + (Len(q) - w)]
<1> DEFINE n == Len(q)
           r == Significant(q)
<1>1. n \in Nat
  BY LenProperties
<1>2. PICK m \in 0 .. n : /\ \A i \in 1 .. m : q[i] = 0
                          /\ m < n => q[m + 1] # 0
                          /\ r = SubSeq(q, m + 1, n)
  BY SignificantRest
<1> HIDE DEF r
<1>3. /\ r \in Seq(Byte) /\ Len(r) = n - m
      /\ \A i \in 1 .. n - m : r[i] = q[i + m]
  BY <1>1, <1>2, CutOf
<1> HIDE DEF n
<1>4. m >= n - w
  <2> SUFFICES ASSUME m < n - w PROVE FALSE
    BY <1>1
  <2> DEFINE j == m + 1
  <2>1. j \in 1 .. n - w /\ m < n
    BY <1>1 DEF n
  <2> HIDE DEF j
  <2>2. q[j] = 0
    BY <2>1 DEF n
  <2> QED BY <1>2, <2>1, <2>2 DEF j
<1> DEFINE l == w - Len(r)
           z == [i \in 1 .. l |-> 0]
           p == z \o r
<1>5. l \in Nat /\ l = m - (n - w) /\ w \in Nat /\ w <= n
  BY <1>1, <1>3, <1>4 DEF n
<1>6. p = Padded(r, w)
  BY DEF Padded
<1>7. 0 \in Byte
  BY DEF Byte
<1> HIDE DEF l
<1>8. z \in Seq(Byte) /\ Len(z) = l /\ \A i \in 1 .. l : z[i] = 0
  BY <1>5, <1>7
<1> HIDE DEF z
<1>9. p \in Seq(Byte) /\ Len(p) = Len(z) + Len(r)
      /\ \A i \in 1 .. Len(z) + Len(r) : p[i] = IF i <= Len(z) THEN z[i] ELSE r[i - Len(z)]
  BY ONLY <1>3, <1>8, ConcatProperties
<1> HIDE DEF p
<1>10. Len(z) + Len(r) = w
  BY <1>1, <1>3, <1>5, <1>8
<1>11. ASSUME NEW i \in 1 .. w PROVE p[i] = q[i + (n - w)]
  <2> DEFINE k == i + (n - w)
             e == i - l
  <2>1. p[i] = IF i <= l THEN z[i] ELSE r[e]
    BY <1>8, <1>9, <1>10
  <2>2. CASE i <= l
    <3>1. k \in 1 .. m
      BY <1>1, <1>5, <2>2
    <3> HIDE DEF k
    <3>2. i \in 1 .. l
      BY <1>5, <2>2
    <3>3. q[k] = 0 /\ z[i] = 0
      BY <1>2, <1>8, <3>1, <3>2
    <3> QED BY <2>1, <2>2, <3>3 DEF k
  <2>3. CASE ~(i <= l)
    <3>1. e \in 1 .. n - m /\ e + m = k
      BY <1>1, <1>5, <2>3
    <3> HIDE DEF e, k
    <3>2. r[e] = q[k]
      BY <1>3, <3>1
    <3> QED BY <2>1, <2>3, <3>2 DEF k
  <2> QED BY <2>2, <2>3
<1> QED BY <1>6, <1>9, <1>10, <1>11 DEF r, n

\* A number below 2^24 in three bytes.
LEMMA ThreeBytes ==
  ASSUME NEW n \in Lengths
  PROVE  LET p == Padded(Number(n), 3)
         IN  /\ p \in Seq(Byte) /\ Len(p) = 3
             /\ p[1] = n \div 2 ^ 16 /\ p[2] = (n \div 256) % 256 /\ p[3] = n % 256
<1> DEFINE a == n \div 2 ^ 16
           b == (n \div 256) % 256
           c == n % 256
           q == <<a, b, c>>
           p == Padded(Number(n), 3)
<1>1. n \in Nat /\ n < 16777216
  BY DEF Lengths
<1>2. a \in Nat /\ a <= 255
  BY <1>1
<1>3. b \in Nat /\ b <= 255
  BY <1>1
<1>4. c \in Nat /\ c <= 255
  BY <1>1
<1>5. Number(n) = Significant(q)
  BY DEF Number
<1> HIDE DEF a, b, c
<1>6. a \in Byte /\ b \in Byte /\ c \in Byte
  BY <1>2, <1>3, <1>4 DEF Byte
<1>7. q \in Seq(Byte) /\ Len(q) = 3 /\ q[1] = a /\ q[2] = b /\ q[3] = c
  BY <1>6
<1> HIDE DEF q
<1>8. 3 \in 0 .. Len(q) /\ \A i \in 1 .. Len(q) - 3 : q[i] = 0
  BY <1>7
<1>9. p \in Seq(Byte) /\ Len(p) = 3 /\ \A i \in 1 .. 3 : p[i] = q[i + (Len(q) - 3)]
  <2> DEFINE w == 3
  <2>1. w \in 0 .. Len(q) /\ \A i \in 1 .. Len(q) - w : q[i] = 0
    BY <1>7, <1>8
  <2> HIDE DEF w, p
  <2>2. /\ Padded(Significant(q), w) \in Seq(Byte)
        /\ Len(Padded(Significant(q), w)) = w
        /\ \A i \in 1 .. w : Padded(Significant(q), w)[i] = q[i + (Len(q) - w)]
    BY <1>7, <2>1, PaddedBack
  <2>3. p = Padded(Significant(q), w)
    BY <1>5 DEF p, w
  <2> QED BY <2>2, <2>3 DEF w
<1> HIDE DEF p
<1>10. p[1] = q[1] /\ p[2] = q[2] /\ p[3] = q[3]
  BY <1>7, <1>9
<1> QED BY <1>7, <1>9, <1>10 DEF p, a, b, c

\* A number below 2^16 in two bytes.
LEMMA TwoBytesOf ==
  ASSUME NEW n \in Nat, n < 2 ^ 16
  PROVE  LET p == Padded(Number(n), 2)
         IN  /\ p \in Seq(Byte) /\ Len(p) = 2
             /\ p[1] = n \div 256 /\ p[2] = n % 256
<1> DEFINE a == n \div 2 ^ 16
           b == (n \div 256) % 256
           c == n % 256
           q == <<a, b, c>>
           p == Padded(Number(n), 2)
<1>1. a = 0 /\ b = n \div 256 /\ b \in Nat /\ b <= 255
  OBVIOUS
<1>2. c \in Nat /\ c <= 255
  OBVIOUS
<1>3. Number(n) = Significant(q)
  BY DEF Number
<1> HIDE DEF a, b, c
<1>4. a \in Byte /\ b \in Byte /\ c \in Byte
  BY <1>1, <1>2 DEF Byte
<1>5. q \in Seq(Byte) /\ Len(q) = 3 /\ q[1] = a /\ q[2] = b /\ q[3] = c
  BY <1>4
<1> HIDE DEF q
<1>6. 2 \in 0 .. Len(q) /\ \A i \in 1 .. Len(q) - 2 : q[i] = 0
  BY <1>1, <1>5
<1>7. p \in Seq(Byte) /\ Len(p) = 2 /\ \A i \in 1 .. 2 : p[i] = q[i + (Len(q) - 2)]
  <2> DEFINE w == 2
  <2>1. w \in 0 .. Len(q) /\ \A i \in 1 .. Len(q) - w : q[i] = 0
    BY <1>5, <1>6
  <2> HIDE DEF w, p
  <2>2. /\ Padded(Significant(q), w) \in Seq(Byte)
        /\ Len(Padded(Significant(q), w)) = w
        /\ \A i \in 1 .. w : Padded(Significant(q), w)[i] = q[i + (Len(q) - w)]
    BY <1>5, <2>1, PaddedBack
  <2>3. p = Padded(Significant(q), w)
    BY <1>3 DEF p, w
  <2> QED BY <2>2, <2>3 DEF w
<1> HIDE DEF p
<1>8. p[1] = q[2] /\ p[2] = q[3]
  BY <1>5, <1>7
<1> QED BY <1>1, <1>5, <1>7, <1>8 DEF p, c

-----------------------------------------------------------------------------
(* Floating point numbers *)

\* The fields of a double.
LEMMA Fields ==
  ASSUME NEW d \in Doubles
  PROVE  d.sign \in {0, 1} /\ d.exp \in 0 .. 2047 /\ d.hi \in Upper /\ d.lo \in Lower
BY DEF Doubles

\* A power of two as a divisor.
LEMMA PowerOfTwo ==
  ASSUME NEW k \in 1 .. 23
  PROVE  2 ^ k \in Nat /\ 2 ^ k >= 2 /\ (k >= 14 => 2 ^ k >= 2 ^ 14)
<1> DEFINE P(n) == 2 ^ n \in Nat /\ 2 ^ n >= 2 /\ (n >= 14 => 2 ^ n >= 2 ^ 14)
<1>1. /\ P(1) /\ P(2) /\ P(3) /\ P(4) /\ P(5) /\ P(6)
      /\ P(7) /\ P(8) /\ P(9) /\ P(10) /\ P(11) /\ P(12)
  OBVIOUS
<1>2. /\ P(13) /\ P(14) /\ P(15) /\ P(16) /\ P(17) /\ P(18)
      /\ P(19) /\ P(20) /\ P(21) /\ P(22) /\ P(23)
  OBVIOUS
<1> HIDE DEF P
<1>3. P(k)
  BY <1>1, <1>2, SMTT(30)
<1> QED BY <1>3 DEF P

\* What is left of a number that loses a bit or more.
LEMMA Halved ==
  ASSUME NEW x \in Nat, NEW d \in Nat, d >= 2, NEW b \in Nat, x < 2 * b
  PROVE  x \div d \in Nat /\ x \div d < b
BY SMT

\* A single, as a pair of fields.
IsSingle(f) == f.exp \in 0 .. 255 /\ f.mant \in Upper

\* The mantissa of a single below the normal ones.
LEMMA Denormal ==
  ASSUME NEW hi \in Upper, NEW shift \in 1 .. 23
  PROVE  (hi + 2 ^ 23) \div 2 ^ shift \in Upper
<1> DEFINE x == hi + 2 ^ 23
           p == 2 ^ shift
           b == 2 ^ 23
<1>1. x \in Nat /\ b \in Nat /\ x < 2 * b
  BY DEF Upper
<1>2. p \in Nat /\ p >= 2
  BY PowerOfTwo
<1> HIDE DEF x, p
<1>3. x \div p \in Nat /\ x \div p < b
  <2> HIDE DEF b
  <2> QED BY <1>1, <1>2, Halved
<1> DEFINE q == x \div p
<1>4. q \in Nat /\ q < b
  BY <1>3
<1> HIDE DEF q
<1>5. q \in Upper
  BY <1>4 DEF Upper
<1> QED BY <1>5 DEF q, x, p

\* The kinds of doubles that a single may be equal to.
IsZero(d) == d.lo = 0 /\ d.hi = 0 /\ d.exp = 0
IsInfinite(d) == d.lo = 0 /\ d.hi = 0 /\ d.exp = 2047
IsNormal(d) == d.lo = 0 /\ d.exp \in 897 .. 1150
IsSmall(d) == d.lo = 0 /\ 897 - d.exp \in 1 .. 23

\* The single equal to each kind, and none for the others.
LEMMA SinglesAre ==
  ASSUME NEW d \in Doubles
  PROVE  /\ IsZero(d) => Singles(d) = {[exp |-> 0, mant |-> 0]}
         /\ IsInfinite(d) => Singles(d) = {[exp |-> 255, mant |-> 0]}
         /\ IsNormal(d) => Singles(d) = {[exp |-> d.exp - 896, mant |-> d.hi]}
         /\ IsSmall(d) =>
              Singles(d) = {[exp |-> 0, mant |-> m] :
                              m \in {k \in {(d.hi + 2 ^ 23) \div 2 ^ (897 - d.exp)} :
                                       k * 2 ^ (897 - d.exp) = d.hi + 2 ^ 23}}
         /\ ~IsZero(d) /\ ~IsInfinite(d) /\ ~IsNormal(d) /\ ~IsSmall(d) => Singles(d) = {}
<1> DEFINE E1 == {[exp |-> 0, mant |-> 0]}
           E2 == {[exp |-> 255, mant |-> 0]}
           E3 == {[exp |-> d.exp - 896, mant |-> d.hi]}
           E4 == {[exp |-> 0, mant |-> m] :
                    m \in {k \in {(d.hi + 2 ^ 23) \div 2 ^ (897 - d.exp)} :
                             k * 2 ^ (897 - d.exp) = d.hi + 2 ^ 23}}
           G1 == IsZero(d)
           G2 == IsInfinite(d)
           G3 == IsNormal(d)
           G4 == IsSmall(d)
<1>1. Singles(d) = CASE G1 -> E1 [] G2 -> E2 [] G3 -> E3 [] G4 -> E4 [] OTHER -> {}
  BY DEF Singles, IsZero, IsInfinite, IsNormal, IsSmall
<1>2. /\ G1 => ~G2 /\ ~G3 /\ ~G4
      /\ G2 => ~G3 /\ ~G4
      /\ G3 => ~G4
  BY Fields, SMTT(30) DEF IsZero, IsInfinite, IsNormal, IsSmall
<1> HIDE DEF G1, G2, G3, G4, E1, E2, E3, E4
<1>3. G1 => Singles(d) = E1
  BY <1>1, <1>2, Zenon
<1>4. G2 => Singles(d) = E2
  BY <1>1, <1>2, Zenon
<1>5. G3 => Singles(d) = E3
  BY <1>1, <1>2, Zenon
<1>6. G4 => Singles(d) = E4
  BY <1>1, <1>2, Zenon
<1>7. ~G1 /\ ~G2 /\ ~G3 /\ ~G4 => Singles(d) = {}
  BY <1>1, Zenon
<1> QED BY <1>3, <1>4, <1>5, <1>6, <1>7 DEF G1, G2, G3, G4, E1, E2, E3, E4

\* What msgpack_packer_write_double compares a double with is a single.
LEMMA SinglesType ==
  ASSUME NEW d \in Doubles, NEW f \in Singles(d)
  PROVE  IsSingle(f)
<1> DEFINE shift == 897 - d.exp
           m == (d.hi + 2 ^ 23) \div 2 ^ shift
<1>1. d.exp \in 0 .. 2047 /\ d.hi \in Upper
  BY Fields
<1>2. CASE IsZero(d) \/ IsInfinite(d)
  BY <1>2, SinglesAre DEF IsSingle, Upper
<1>3. CASE IsNormal(d)
  <2>1. f.exp = d.exp - 896 /\ f.mant = d.hi
    BY <1>3, SinglesAre
  <2> QED BY <1>1, <1>3, <2>1 DEF IsSingle, IsNormal
<1>4. CASE IsSmall(d)
  <2>1. f.exp = 0 /\ f.mant = m
    BY <1>4, SinglesAre
  <2>2. shift \in 1 .. 23
    BY <1>4 DEF IsSmall
  <2> DEFINE hi == d.hi
  <2>3. hi \in Upper
    BY <1>1
  <2> HIDE DEF shift, hi
  <2>4. (hi + 2 ^ 23) \div 2 ^ shift \in Upper
    BY <2>2, <2>3, Denormal, Zenon
  <2>5. m \in Upper
    BY <2>4 DEF hi
  <2> HIDE DEF m
  <2> QED BY <2>1, <2>5 DEF IsSingle
<1> QED BY <1>2, <1>3, <1>4, SinglesAre

\* The mantissa of a half below the normal ones.
LEMMA SmallHalf ==
  ASSUME NEW mant \in Upper, NEW shift \in 14 .. 23
  PROVE  /\ (mant + 2 ^ 23) \div 2 ^ shift \in Nat
         /\ (mant + 2 ^ 23) \div 2 ^ shift < 2 ^ 15
<1> DEFINE x == mant + 2 ^ 23
           p == 2 ^ shift
<1>1. x \in Nat /\ x < 2 ^ 24
  BY DEF Upper
<1>2. p \in Nat /\ p >= 2 ^ 14
  <2>1. shift \in 1 .. 23 /\ shift >= 14
    OBVIOUS
  <2>2. 2 ^ shift \in Nat /\ (shift >= 14 => 2 ^ shift >= 2 ^ 14)
    BY <2>1, PowerOfTwo, Zenon
  <2> QED BY <2>1, <2>2
<1> HIDE DEF x, p
<1>3. x \div p \in Nat /\ x \div p < 2 ^ 15
  BY <1>1, <1>2, SMT
<1> QED BY <1>3 DEF x, p

\* The half for each kind of single, and none for the others.
LEMMA HalvesAre ==
  ASSUME NEW f, IsSingle(f)
  PROVE  /\ f.mant % 2 ^ 13 # 0 => Halves(f) = {}
         /\ f.mant % 2 ^ 13 = 0 =>
              /\ f.exp = 0 /\ f.mant = 0 => Halves(f) = {0}
              /\ f.exp \in 113 .. 142 => Halves(f) = {(f.exp - 112) * 2 ^ 10 + f.mant \div 2 ^ 13}
              /\ f.exp \in 103 .. 112 /\ f.mant % 2 ^ (126 - f.exp) = 0 =>
                   Halves(f) = {(f.mant + 2 ^ 23) \div 2 ^ (126 - f.exp)}
              /\ f.exp = 255 /\ f.mant = 0 => Halves(f) = {31 * 2 ^ 10}
              /\ \/ f.exp = 0 /\ f.mant = 0
                 \/ f.exp \in 113 .. 142
                 \/ f.exp \in 103 .. 112 /\ f.mant % 2 ^ (126 - f.exp) = 0
                 \/ f.exp = 255 /\ f.mant = 0
                 \/ Halves(f) = {}
<1> DEFINE G0 == f.mant % 2 ^ 13 # 0
           G1 == f.exp = 0 /\ f.mant = 0
           G2 == f.exp \in 113 .. 142
           G3 == f.exp \in 103 .. 112 /\ f.mant % 2 ^ (126 - f.exp) = 0
           G4 == f.exp = 255 /\ f.mant = 0
           H2 == {(f.exp - 112) * 2 ^ 10 + f.mant \div 2 ^ 13}
           H3 == {(f.mant + 2 ^ 23) \div 2 ^ (126 - f.exp)}
           H4 == {31 * 2 ^ 10}
<1>1. Halves(f) = IF G0 THEN {}
                  ELSE CASE G1 -> {0} [] G2 -> H2 [] G3 -> H3 [] G4 -> H4 [] OTHER -> {}
  BY Zenon DEF Halves
<1>2. /\ G1 => ~G2 /\ ~G3 /\ ~G4
      /\ G2 => ~G3 /\ ~G4
      /\ G3 => ~G4
  <2>1. f.exp \in Nat
    BY DEF IsSingle
  <2> QED BY <2>1
<1> HIDE DEF G0, G1, G2, G3, G4, H2, H3, H4
<1>3. G0 => Halves(f) = {}
  BY <1>1, Zenon
<1>4. ~G0 /\ G1 => Halves(f) = {0}
  BY <1>1, <1>2, Zenon
<1>5. ~G0 /\ G2 => Halves(f) = H2
  BY <1>1, <1>2, Zenon
<1>6. ~G0 /\ G3 => Halves(f) = H3
  BY <1>1, <1>2, Zenon
<1>7. ~G0 /\ G4 => Halves(f) = H4
  BY <1>1, <1>2, Zenon
<1>8. ~G0 /\ ~G1 /\ ~G2 /\ ~G3 /\ ~G4 => Halves(f) = {}
  BY <1>1, Zenon
<1> QED BY <1>3, <1>4, <1>5, <1>6, <1>7, <1>8, ZenonT(60) DEF G0, G1, G2, G3, G4, H2, H3, H4

\* What write_double takes for a half is one, but for its sign.
LEMMA HalvesType ==
  ASSUME NEW f, IsSingle(f), NEW h \in Halves(f)
  PROVE  h \in Nat /\ h < 2 ^ 15
<1> DEFINE e == f.exp
           m == f.mant
           shift == 126 - e
           h2 == (e - 112) * 2 ^ 10 + m \div 2 ^ 13
           h3 == (m + 2 ^ 23) \div 2 ^ shift
<1>1. e \in Nat /\ m \in Upper
  BY DEF IsSingle
<1>2. \/ h = 0
      \/ e \in 113 .. 142 /\ h = h2
      \/ e \in 103 .. 112 /\ h = h3
      \/ h = 31 * 2 ^ 10
  <2>1. m % 2 ^ 13 = 0
    BY HalvesAre, Zenon
  <2>2. e = 0 /\ m = 0 => Halves(f) = {0}
    BY <2>1, HalvesAre, Zenon
  <2>3. e \in 113 .. 142 => Halves(f) = {h2}
    BY <2>1, HalvesAre, Zenon
  <2>4. e \in 103 .. 112 /\ m % 2 ^ shift = 0 => Halves(f) = {h3}
    BY <2>1, HalvesAre, Zenon
  <2>5. e = 255 /\ m = 0 => Halves(f) = {31 * 2 ^ 10}
    BY <2>1, HalvesAre, Zenon
  <2>6. \/ e = 0 /\ m = 0
        \/ e \in 113 .. 142
        \/ e \in 103 .. 112 /\ m % 2 ^ shift = 0
        \/ e = 255 /\ m = 0
        \/ Halves(f) = {}
    BY <2>1, HalvesAre, Zenon
  <2> HIDE DEF e, m, shift, h2, h3
  <2> QED BY <2>2, <2>3, <2>4, <2>5, <2>6
<1> HIDE DEF e, m
<1>3. e \in 113 .. 142 => h2 \in Nat /\ h2 < 2 ^ 15
  BY <1>1 DEF Upper
<1>4. e \in 103 .. 112 => h3 \in Nat /\ h3 < 2 ^ 15
  <2> SUFFICES ASSUME e \in 103 .. 112 PROVE h3 \in Nat /\ h3 < 2 ^ 15
    OBVIOUS
  <2>1. shift \in 14 .. 23
    OBVIOUS
  <2> HIDE DEF shift
  <2> QED BY <1>1, <2>1, SmallHalf, Zenon
<1>5. 0 \in Nat /\ 0 < 2 ^ 15 /\ 31 * 2 ^ 10 \in Nat /\ 31 * 2 ^ 10 < 2 ^ 15
  OBVIOUS
<1> HIDE DEF h2, h3
<1> QED BY <1>2, <1>3, <1>4, <1>5

\* The bytes of a half.
LEMMA HalfType ==
  ASSUME NEW sign \in {0, 1}, NEW bits \in Nat, bits < 2 ^ 15
  PROVE  HalfBytes(sign, bits) \in Seq(Byte)
<1> DEFINE n == sign * 2 ^ 15 + bits
           p == Padded(Number(n), 2)
           a == 249
<1>1. n \in Lengths
  BY DEF Lengths
<1> HIDE DEF n
<1>2. p \in Seq(Byte)
  <2>1. Number(n) \in Seq(Byte)
    BY <1>1, NumberType
  <2> QED BY <2>1, PaddedType
<1>3. a \in Byte
  BY DEF Byte
<1> HIDE DEF p, a
<1>4. <<a>> \in Seq(Byte)
  BY <1>3, OneByte
<1>5. <<a>> \o p \in Seq(Byte)
  BY ONLY <1>2, <1>4, Joined
<1> QED BY <1>5 DEF HalfBytes, a, p, n

\* The bytes of a single.
LEMMA SingleType ==
  ASSUME NEW sign \in {0, 1}, NEW f, IsSingle(f)
  PROVE  SingleBytes(sign, f) \in Seq(Byte)
<1> DEFINE n == (f.exp % 2) * 2 ^ 23 + f.mant
           p == Padded(Number(n), 3)
           a == 250
           b == sign * 128 + f.exp \div 2
<1>1. f.exp \in 0 .. 255 /\ f.mant \in Upper
  BY DEF IsSingle
<1>2. n \in Lengths
  <2> DEFINE e == f.exp
             m == f.mant
  <2>1. e \in Nat /\ m \in Nat /\ m < 2 ^ 23
    BY <1>1 DEF Upper
  <2> HIDE DEF e, m
  <2>2. (e % 2) * 2 ^ 23 + m \in 0 .. 2 ^ 24 - 1
    BY <2>1, SMT
  <2> QED BY <2>2 DEF Lengths, e, m
<1>3. b \in Nat /\ b <= 255
  BY <1>1
<1> HIDE DEF n, b
<1>4. p \in Seq(Byte)
  <2>1. Number(n) \in Seq(Byte)
    BY <1>2, NumberType
  <2> QED BY <2>1, PaddedType
<1>5. a \in Byte /\ b \in Byte
  BY <1>3 DEF Byte
<1> HIDE DEF p, a
<1>6. <<a, b>> \in Seq(Byte)
  BY <1>5, TwoBytes
<1>7. <<a, b>> \o p \in Seq(Byte)
  BY ONLY <1>4, <1>6, Joined
<1> QED BY <1>7 DEF SingleBytes, a, b, p, n

\* The bytes of a double.
LEMMA DoubleType ==
  ASSUME NEW d \in Doubles
  PROVE  DoubleBytes(d) \in Seq(Byte)
<1> DEFINE a == 251
           b == d.sign * 128 + d.exp \div 16
           c == (d.exp % 16) * 16 + d.hi \div 2 ^ 19
           e == (d.hi % 8) * 32 + d.lo \div 2 ^ 24
           n == (d.hi % 2 ^ 19) \div 8
           m == d.lo % 2 ^ 24
           p == Padded(Number(n), 2)
           q == Padded(Number(m), 3)
<1>1. b \in Nat /\ b <= 255 /\ c \in Nat /\ c <= 255 /\ e \in Nat /\ e <= 255
  <2> DEFINE sign == d.sign
             exp == d.exp
             hi == d.hi
             lo == d.lo
  <2>1. sign \in {0, 1} /\ exp \in 0 .. 2047 /\ hi \in Nat /\ hi < 2 ^ 23 /\ lo \in Nat /\ lo < 2 ^ 29
    BY Fields DEF Upper, Lower
  <2> HIDE DEF sign, exp, hi, lo
  <2>2. sign * 128 + exp \div 16 \in Nat /\ sign * 128 + exp \div 16 <= 255
    BY <2>1
  <2>3. (exp % 16) * 16 + hi \div 2 ^ 19 \in Nat /\ (exp % 16) * 16 + hi \div 2 ^ 19 <= 255
    BY <2>1
  <2>4. (hi % 8) * 32 + lo \div 2 ^ 24 \in Nat /\ (hi % 8) * 32 + lo \div 2 ^ 24 <= 255
    BY <2>1
  <2> QED BY <2>2, <2>3, <2>4 DEF sign, exp, hi, lo
<1>2. n \in Lengths /\ m \in Lengths
  <2> DEFINE hi == d.hi
             lo == d.lo
  <2>1. hi \in Nat /\ lo \in Nat
    BY Fields DEF Upper, Lower
  <2> HIDE DEF hi, lo
  <2>2. (hi % 2 ^ 19) \div 8 \in 0 .. 2 ^ 24 - 1
    BY <2>1
  <2>3. lo % 2 ^ 24 \in 0 .. 2 ^ 24 - 1
    BY <2>1
  <2> QED BY <2>2, <2>3 DEF Lengths, hi, lo
<1> HIDE DEF b, c, e, n, m
<1>3. p \in Seq(Byte) /\ q \in Seq(Byte)
  <2>1. Number(n) \in Seq(Byte) /\ Number(m) \in Seq(Byte)
    BY <1>2, NumberType
  <2>2. 2 \in Nat /\ 3 \in Nat
    OBVIOUS
  <2> QED BY <2>1, <2>2, PaddedType, Zenon
<1>4. a \in Byte /\ b \in Byte /\ c \in Byte /\ e \in Byte
  BY <1>1 DEF Byte
<1> HIDE DEF p, q, a
<1>5. <<a, b, c>> \in Seq(Byte) /\ <<e>> \in Seq(Byte)
  BY <1>4, OneByte
<1>6. <<a, b, c>> \o p \in Seq(Byte)
  BY ONLY <1>3, <1>5, Joined
<1>7. <<a, b, c>> \o p \o <<e>> \in Seq(Byte)
  BY ONLY <1>5, <1>6, Joined
<1>8. <<a, b, c>> \o p \o <<e>> \o q \in Seq(Byte)
  BY ONLY <1>3, <1>7, Joined
<1> QED BY <1>8 DEF DoubleBytes, a, b, c, e, n, m, p, q

\* A double as it is written, in its shortest form.
LEMMA FloatType ==
  ASSUME NEW d \in Doubles
  PROVE  FloatBytes(d) \in Seq(Byte)
<1> DEFINE S == Singles(d)
           f == CHOOSE s \in S : TRUE
           H == Halves(f)
           h == CHOOSE x \in H : TRUE
           quiet == IsNaN(d) /\ d.lo = 0
           payload == 31 * 2 ^ 10 + d.hi \div 2 ^ 13
           nan == [exp |-> 255, mant |-> d.hi]
<1>1. d.sign \in {0, 1} /\ d.hi \in Upper
  BY Fields
<1>2. DoubleBytes(d) \in Seq(Byte)
  BY DoubleType
<1>3. S # {} => SingleBytes(d.sign, f) \in Seq(Byte)
  <2> SUFFICES ASSUME S # {} PROVE SingleBytes(d.sign, f) \in Seq(Byte)
    OBVIOUS
  <2>1. f \in S
    OBVIOUS
  <2> HIDE DEF f
  <2>2. IsSingle(f)
    BY <2>1, SinglesType
  <2> QED BY <1>1, <2>2, SingleType
<1>4. S # {} /\ H # {} => HalfBytes(d.sign, h) \in Seq(Byte)
  <2> SUFFICES ASSUME S # {}, H # {} PROVE HalfBytes(d.sign, h) \in Seq(Byte)
    OBVIOUS
  <2>1. f \in S
    OBVIOUS
  <2> HIDE DEF f
  <2>2. IsSingle(f)
    BY <2>1, SinglesType
  <2>3. h \in H
    OBVIOUS
  <2> HIDE DEF h
  <2>4. h \in Nat /\ h < 2 ^ 15
    BY <2>2, <2>3, HalvesType
  <2> QED BY <1>1, <2>4, HalfType
<1>5. HalfBytes(d.sign, payload) \in Seq(Byte)
  <2>1. payload \in Nat /\ payload < 2 ^ 15
    BY <1>1 DEF Upper
  <2> HIDE DEF payload
  <2> QED BY <1>1, <2>1, HalfType
<1>6. SingleBytes(d.sign, nan) \in Seq(Byte)
  <2>1. IsSingle(nan)
    BY <1>1 DEF IsSingle
  <2> HIDE DEF nan
  <2> QED BY <1>1, <2>1, SingleType
<1>7. FloatBytes(d) = IF S # {}
                      THEN IF H # {} THEN HalfBytes(d.sign, h) ELSE SingleBytes(d.sign, f)
                      ELSE IF quiet
                      THEN IF d.hi % 2 ^ 13 = 0 THEN HalfBytes(d.sign, payload)
                           ELSE SingleBytes(d.sign, nan)
                      ELSE DoubleBytes(d)
  BY Zenon DEF FloatBytes
<1> HIDE DEF S, H, f, h, quiet, payload, nan
<1> QED BY <1>2, <1>3, <1>4, <1>5, <1>6, <1>7, Zenon

-----------------------------------------------------------------------------
(* Floating point numbers, written and read back *)

\* The powers of two up to the 23rd are numbers, each twice the one before.
LEMMA PowerTwice ==
  ASSUME NEW k \in 0 .. 22
  PROVE  2 ^ k \in Nat /\ 2 ^ k >= 1 /\ 2 ^ (k + 1) \in Nat /\ 2 ^ (k + 1) = 2 * 2 ^ k
<1> DEFINE P(i, j) == 2 ^ i \in Nat /\ 2 ^ i >= 1 /\ 2 ^ j \in Nat /\ 2 ^ j = 2 * 2 ^ i
<1>1. /\ P(0, 1) /\ P(1, 2) /\ P(2, 3) /\ P(3, 4) /\ P(4, 5) /\ P(5, 6)
      /\ P(6, 7) /\ P(7, 8) /\ P(8, 9) /\ P(9, 10) /\ P(10, 11) /\ P(11, 12)
  OBVIOUS
<1>2. /\ P(12, 13) /\ P(13, 14) /\ P(14, 15) /\ P(15, 16) /\ P(16, 17) /\ P(17, 18)
      /\ P(18, 19) /\ P(19, 20) /\ P(20, 21) /\ P(21, 22) /\ P(22, 23)
  OBVIOUS
<1> HIDE DEF P
<1> DEFINE l == k + 1
<1>3. P(k, l)
  BY <1>1, <1>2, SMTT(30)
<1> QED BY <1>3 DEF P

\* They grow.
LEMMA PowersGrow ==
  ASSUME NEW i \in 0 .. 23, NEW k \in 0 .. 23, i <= k
  PROVE  2 ^ i \in Nat /\ 2 ^ k \in Nat /\ 2 ^ i <= 2 ^ k
<1> DEFINE p(j) == 2 ^ j
           T == {j \in 0 .. 23 : i <= j /\ ~(p(i) <= p(j))}
<1>1. \A j \in 0 .. 23 : p(j) \in Nat
  <2>1. \A j \in 0 .. 22 : p(j) \in Nat /\ p(j + 1) \in Nat
    BY PowerTwice
  <2> HIDE DEF p
  <2>2. p(22 + 1) \in Nat
    BY <2>1
  <2> QED BY <2>1, <2>2
<1>2. \A j \in 0 .. 22 : p(j + 1) = 2 * p(j)
  BY PowerTwice
<1> HIDE DEF p
<1>3. T = {}
  <2> SUFFICES ASSUME T # {} PROVE FALSE
    OBVIOUS
  <2> DEFINE m == Min(T)
  <2>1. T \subseteq Nat
    OBVIOUS
  <2>2. m \in T /\ \A j \in T : m <= j
    <3> HIDE DEF T
    <3> QED BY <2>1, MinOfNaturals
  <2> HIDE DEF m
  <2>3. m \in 0 .. 23 /\ i <= m /\ ~(p(i) <= p(m))
    BY <2>2
  <2>4. m # i
    BY <1>1, <2>3
  <2> DEFINE n == m - 1
  <2>5. n \in 0 .. 22 /\ i <= n /\ n + 1 = m /\ n < m
    BY <2>3, <2>4
  <2> HIDE DEF n
  <2>6. n \notin T
    BY <2>2, <2>3, <2>5
  <2>7. p(i) <= p(n)
    BY <2>5, <2>6
  <2>8. p(m) = 2 * p(n) /\ p(n) \in Nat /\ p(i) \in Nat
    BY <1>1, <1>2, <2>5
  <2> QED BY <2>3, <2>7, <2>8
<1>4. p(i) \in Nat /\ p(k) \in Nat /\ p(i) <= p(k)
  BY <1>1, <1>3
<1> QED BY <1>4 DEF p

\* The highest bit of a number is the k-th.
HighBit(m, k) == 2 ^ k <= m /\ m < 2 ^ (k + 1)

\* Every number that a mantissa holds has one.
LEMMA HighBitExists ==
  ASSUME NEW m \in 1 .. 2 ^ 23 - 1
  PROVE  \E k \in 0 .. 22 : HighBit(m, k)
<1> DEFINE P(i, j) == 2 ^ i <= m /\ m < 2 ^ j
<1>1. \/ P(0, 1) \/ P(1, 2) \/ P(2, 3) \/ P(3, 4) \/ P(4, 5) \/ P(5, 6)
      \/ P(6, 7) \/ P(7, 8) \/ P(8, 9) \/ P(9, 10) \/ P(10, 11) \/ P(11, 12)
      \/ P(12, 13) \/ P(13, 14) \/ P(14, 15) \/ P(15, 16) \/ P(16, 17) \/ P(17, 18)
      \/ P(18, 19) \/ P(19, 20) \/ P(20, 21) \/ P(21, 22) \/ P(22, 23)
  OBVIOUS
<1> HIDE DEF P
<1>2. \E k \in 0 .. 22 : P(k, k + 1)
  BY <1>1, SMTT(30)
<1> QED BY <1>2 DEF P, HighBit

\* And no other.
LEMMA HighBitOnce ==
  ASSUME NEW m \in Nat, NEW k \in 0 .. 22, NEW i \in 0 .. 22, HighBit(m, k), HighBit(m, i)
  PROVE  i = k
<1>1. ASSUME NEW x \in 0 .. 22, NEW y \in 0 .. 22, HighBit(m, x), HighBit(m, y), x < y PROVE FALSE
  <2> DEFINE z == x + 1
             a == 2 ^ z
             b == 2 ^ y
  <2>1. z \in 0 .. 23 /\ y \in 0 .. 23 /\ z <= y
    BY <1>1
  <2>2. m < a /\ b <= m
    BY <1>1 DEF HighBit
  <2> HIDE DEF z
  <2>3. a \in Nat /\ b \in Nat /\ a <= b
    BY <2>1, PowersGrow
  <2> HIDE DEF a, b
  <2> QED BY <2>2, <2>3
<1> QED BY <1>1

\* What is below the k-th bit of m, shifted by s bits.
UnderTop(m, k, s) == (m - 2 ^ k) * 2 ^ s

\* A mantissa and the bit before it are q shifted by s bits.
ShiftOf(hi, q, s) == q * 2 ^ s = hi + 2 ^ 23

\* x is the exponent field of m * 2^e when the highest bit of m is the k-th.
Exponent(x, k, e) == x = 1023 + k + e

\* What ldexp gives a number whose highest bit is known.
LEMMA LdexpIs ==
  ASSUME NEW sign, NEW e, NEW x, NEW m \in Nat, m # 0, NEW k \in 0 .. 22, HighBit(m, k),
         NEW s \in 1 .. 23, s + k = 23, Exponent(x, k, e)
  PROVE  Ldexp(sign, m, e) = Double(sign, x, UnderTop(m, k, s), 0)
<1> DEFINE c == CHOOSE i \in 0 .. 22 : 2 ^ i <= m /\ m < 2 ^ (i + 1)
<1>1. \E i \in 0 .. 22 : 2 ^ i <= m /\ m < 2 ^ (i + 1)
  BY Zenon DEF HighBit
<1>2. c \in 0 .. 22 /\ 2 ^ c <= m /\ m < 2 ^ (c + 1)
  BY <1>1, Zenon
<1>3. Ldexp(sign, m, e) = Double(sign, 1023 + c + e, (m - 2 ^ c) * 2 ^ (23 - c), 0)
  BY Zenon DEF Ldexp
<1> HIDE DEF c
<1>4. HighBit(m, c)
  BY <1>2, Zenon DEF HighBit
<1>5. c = k
  BY <1>2, <1>4, HighBitOnce, Zenon
<1>6. 23 - k = s
  OBVIOUS
<1> QED BY <1>3, <1>5, <1>6, ZenonT(60) DEF UnderTop, Exponent

\* A mantissa with the bit before it, shifted down without loss: its highest
\* bit, and what is left of it.
LEMMA Shifted ==
  ASSUME NEW s \in 1 .. 23, NEW k \in 0 .. 22, s + k = 23,
         NEW hi \in Upper, NEW q \in Nat, ShiftOf(hi, q, s)
  PROVE  HighBit(q, k) /\ q # 0 /\ UnderTop(q, k, s) = hi
<1> DEFINE P(i, j, l) == q * 2 ^ i = hi + 2 ^ 23 =>
             2 ^ j <= q /\ q < 2 ^ l /\ q # 0 /\ (q - 2 ^ j) * 2 ^ i = hi
<1>1. hi \in Nat /\ hi < 2 ^ 23
  BY DEF Upper
<1>2. /\ P(1, 22, 23) /\ P(2, 21, 22) /\ P(3, 20, 21) /\ P(4, 19, 20)
  BY <1>1
<1>3. /\ P(5, 18, 19) /\ P(6, 17, 18) /\ P(7, 16, 17) /\ P(8, 15, 16)
  BY <1>1
<1>4. /\ P(9, 14, 15) /\ P(10, 13, 14) /\ P(11, 12, 13) /\ P(12, 11, 12)
  BY <1>1
<1>5. /\ P(13, 10, 11) /\ P(14, 9, 10) /\ P(15, 8, 9) /\ P(16, 7, 8)
  BY <1>1
<1>6. /\ P(17, 6, 7) /\ P(18, 5, 6) /\ P(19, 4, 5) /\ P(20, 3, 4)
  BY <1>1
<1>7. /\ P(21, 2, 3) /\ P(22, 1, 2) /\ P(23, 0, 1)
  BY <1>1
<1> HIDE DEF P
<1> DEFINE l == k + 1
<1>8. P(s, k, l)
  BY <1>2, <1>3, <1>4, <1>5, <1>6, <1>7, SMTT(30)
<1> QED BY <1>8 DEF P, HighBit, ShiftOf, UnderTop

\* A double is its fields.
LEMMA DoubleIs ==
  ASSUME NEW d \in Doubles
  PROVE  Double(d.sign, d.exp, d.hi, d.lo) = d
BY DEF Doubles, Double

\* What a single is widened to: the smallest ones, the normal ones, and those
\* that are no numbers.
Widens(sign, e, m, w) ==
  /\ e = 0 => w = Ldexp(sign, m, -149)
  /\ e \in 1 .. 254 => w = Double(sign, e + 896, m, 0)
  /\ e = 255 => w = Double(sign, 2047, m, 0)

\* Widening copies sign, exponent and mantissa as read_primitive does.
LEMMA WidenedIs ==
  ASSUME NEW sign, NEW m, NEW e \in 0 .. 255
  PROVE  Widens(sign, e, m, Widened(sign, e, m))
<1> DEFINE w == Widened(sign, e, m)
           G1 == e = 0
           G2 == e \in 1 .. 254
           G3 == e = 255
<1>1. (G1 => ~G2 /\ ~G3) /\ (G2 => ~G1 /\ ~G3) /\ (G3 => ~G1 /\ ~G2)
  OBVIOUS
<1> DEFINE x == Ldexp(sign, m, -149)
           y == Double(sign, e + 896, m, 0)
           z == Double(sign, 2047, m, 0)
<1>2. w = CASE G1 -> x [] G2 -> y [] G3 -> z
  BY DEF Widened
<1> HIDE DEF w, G1, G2, G3, x, y, z
<1>3. G1 => w = x
  BY <1>1, <1>2, Zenon
<1>4. G2 => w = y
  BY <1>1, <1>2, Zenon
<1>5. G3 => w = z
  BY <1>1, <1>2, Zenon
<1> QED BY <1>3, <1>4, <1>5 DEF w, G1, G2, G3, x, y, z, Widens

\* The smallest ones.
LEMMA WidenedFirst ==
  ASSUME NEW sign, NEW m, NEW low, low = -149, NEW e, e = 0
  PROVE  Widened(sign, e, m) = Ldexp(sign, m, low)
<1>1. e \in 0 .. 255
  OBVIOUS
<1>2. Widens(sign, e, m, Widened(sign, e, m))
  BY <1>1, WidenedIs
<1> QED BY <1>2 DEF Widens

\* The normal ones.
LEMMA WidenedNormal ==
  ASSUME NEW sign, NEW m, NEW x, NEW z, z = 0, NEW e \in 1 .. 254, x = e + 896
  PROVE  Widened(sign, e, m) = Double(sign, x, m, z)
<1>1. e \in 0 .. 255
  OBVIOUS
<1>2. Widens(sign, e, m, Widened(sign, e, m))
  BY <1>1, WidenedIs
<1> QED BY <1>2 DEF Widens

\* Infinities, and what is no number.
LEMMA WidenedLast ==
  ASSUME NEW sign, NEW m, NEW x, x = 2047, NEW z, z = 0, NEW e, e = 255
  PROVE  Widened(sign, e, m) = Double(sign, x, m, z)
<1>1. e \in 0 .. 255
  OBVIOUS
<1>2. Widens(sign, e, m, Widened(sign, e, m))
  BY <1>1, WidenedIs
<1> QED BY <1>2 DEF Widens

\* What a half is widened to.
HalfWidens(sign, e, m, d) ==
  /\ e = 0 => d = Ldexp(sign, m, -24)
  /\ e \in 1 .. 30 => d = Ldexp(sign, m + 1024, e - 25)
  /\ e = 31 => d = Double(sign, 2047, m * 2 ^ 13, 0)

\* read_primitive reads a half as its number says.
LEMMA HalfIs ==
  ASSUME NEW sign \in {0, 1}, NEW e \in 0 .. 31, NEW m \in 0 .. 1023
  PROVE  HalfWidens(sign, e, m, FromHalf(sign * 2 ^ 15 + (e * 2 ^ 10 + m)))
<1> DEFINE v == sign * 2 ^ 15 + (e * 2 ^ 10 + m)
           d == FromHalf(v)
           G1 == e = 0
           G2 == e \in 1 .. 30
           G3 == e = 31
           x == Ldexp(sign, m, -24)
           y == Ldexp(sign, m + 1024, e - 25)
           z == Double(sign, 2047, m * 2 ^ 13, 0)
<1>1. v \div 2 ^ 15 = sign /\ (v \div 2 ^ 10) % 32 = e /\ v % 2 ^ 10 = m
  <2>1. v \div 2 ^ 15 = sign
    OBVIOUS
  <2>2. v % 2 ^ 10 = m
    OBVIOUS
  <2>3. v \div 2 ^ 10 = sign * 32 + e
    OBVIOUS
  <2>4. (sign * 32 + e) % 32 = e
    OBVIOUS
  <2> QED BY <2>1, <2>2, <2>3, <2>4
<1>2. (G1 => ~G2 /\ ~G3) /\ (G2 => ~G1 /\ ~G3) /\ (G3 => ~G1 /\ ~G2)
  OBVIOUS
<1> HIDE DEF v
<1>3. d = CASE G1 -> x [] G2 -> y [] G3 -> z
  BY <1>1 DEF FromHalf
<1> HIDE DEF d, G1, G2, G3, x, y, z
<1>4. G1 => d = x
  BY <1>2, <1>3, Zenon
<1>5. G2 => d = y
  BY <1>2, <1>3, Zenon
<1>6. G3 => d = z
  BY <1>2, <1>3, Zenon
<1> QED BY <1>4, <1>5, <1>6 DEF d, v, G1, G2, G3, x, y, z, HalfWidens

\* A mantissa that a half below the normal ones holds.
LEMMA EvenlyShifted ==
  ASSUME NEW hi \in Upper, NEW s \in 14 .. 23, hi % 2 ^ s = 0
  PROVE  LET q == (hi + 2 ^ 23) \div 2 ^ s
         IN  q \in 0 .. 1023 /\ ShiftOf(hi, q, s)
<1> DEFINE P(i) == hi % 2 ^ i = 0 =>
             /\ (hi + 2 ^ 23) \div 2 ^ i \in 0 .. 1023
             /\ ((hi + 2 ^ 23) \div 2 ^ i) * 2 ^ i = hi + 2 ^ 23
<1>1. hi \in Nat /\ hi < 2 ^ 23
  BY DEF Upper
<1>2. /\ P(14) /\ P(15) /\ P(16)
  BY <1>1
<1>3. /\ P(17) /\ P(18) /\ P(19)
  BY <1>1
<1>4. /\ P(20) /\ P(21) /\ P(22) /\ P(23)
  BY <1>1
<1> HIDE DEF P
<1>5. P(s)
  BY <1>2, <1>3, <1>4, SMTT(30)
<1> QED BY <1>5 DEF P, ShiftOf

\* A double that is small for a single or a half is a shifted number again.
LEMMA SmallBack ==
  ASSUME NEW e, NEW d \in Doubles, d.lo = 0, NEW s \in 1 .. 23, NEW k \in 0 .. 22, s + k = 23,
         NEW q \in Nat, ShiftOf(d.hi, q, s), Exponent(d.exp, k, e)
  PROVE  Ldexp(d.sign, q, e) = d
<1> DEFINE hi == d.hi
           sign == d.sign
           x == d.exp
<1>1. hi \in Upper
  BY Fields
<1>2. ShiftOf(hi, q, s) /\ Exponent(x, k, e)
  OBVIOUS
<1> HIDE DEF hi, sign, x
<1>3. HighBit(q, k) /\ q # 0 /\ UnderTop(q, k, s) = hi
  BY <1>1, <1>2, Shifted
<1>4. Ldexp(sign, q, e) = Double(sign, x, hi, 0)
  BY <1>2, <1>3, LdexpIs
<1> QED BY <1>4, DoubleIs DEF hi, sign, x

\* A double that is written as a single is the one the single is widened to.
LEMMA WidenedBack ==
  ASSUME NEW d \in Doubles, NEW f \in Singles(d)
  PROVE  Widened(d.sign, f.exp, f.mant) = d
<1> DEFINE e == f.exp
           m == f.mant
           sign == d.sign
           x == d.exp
           hi == d.hi
           lo == d.lo
<1>1. e \in 0 .. 255 /\ m \in Nat
  BY SinglesType DEF IsSingle, Upper
<1> HIDE DEF e, m
<1>2. Double(sign, x, hi, lo) = d
  BY DoubleIs
<1>3. CASE IsZero(d)
  <2>1. e = 0 /\ m = 0
    BY <1>3, SinglesAre DEF e, m
  <2>2. x = 0 /\ hi = 0 /\ lo = 0
    BY <1>3 DEF IsZero
  <2> DEFINE low == -149
  <2>3. low = -149
    OBVIOUS
  <2> HIDE DEF low, x, hi, lo, sign
  <2>4. Widened(sign, e, m) = Ldexp(sign, m, low)
    BY <2>1, <2>3, WidenedFirst
  <2>5. Ldexp(sign, m, low) = Double(sign, x, hi, lo)
    BY <2>1, <2>2 DEF Ldexp
  <2> QED BY <1>2, <2>4, <2>5 DEF sign, e, m
<1>4. CASE IsInfinite(d)
  <2>1. e = 255 /\ m = 0
    BY <1>4, SinglesAre DEF e, m
  <2>2. x = 2047 /\ hi = 0 /\ lo = 0
    BY <1>4 DEF IsInfinite
  <2> HIDE DEF x, hi, lo, sign
  <2>3. Widened(sign, e, m) = Double(sign, x, m, lo)
    BY <2>1, <2>2, WidenedLast
  <2> QED BY <1>2, <2>1, <2>2, <2>3 DEF sign, e, m
<1>5. CASE IsNormal(d)
  <2>1. e = x - 896 /\ m = hi
    BY <1>5, SinglesAre DEF e, m
  <2>2. e \in 1 .. 254 /\ x = e + 896 /\ lo = 0
    BY <1>5, <2>1 DEF IsNormal
  <2> HIDE DEF x, hi, lo, sign
  <2>3. Widened(sign, e, m) = Double(sign, x, m, lo)
    BY <2>2, WidenedNormal
  <2> QED BY <1>2, <2>1, <2>3 DEF sign, e, m
<1>6. CASE IsSmall(d)
  <2> DEFINE s == 897 - x
             k == 23 - s
             low == -149
  <2>1. e = 0 /\ ShiftOf(hi, m, s)
    BY <1>6, SinglesAre DEF e, m, ShiftOf
  <2>2. lo = 0 /\ s \in 1 .. 23
    BY <1>6 DEF IsSmall
  <2>3. x \in Int
    BY Fields, SMTT(30)
  <2> HIDE DEF x
  <2>4. k \in 0 .. 22 /\ s + k = 23 /\ x = 1023 + k + low /\ low = -149
    BY <2>2, <2>3
  <2> HIDE DEF s, k, low
  <2>5. Ldexp(d.sign, m, low) = d
    <3>1. d.lo = 0 /\ ShiftOf(d.hi, m, s) /\ Exponent(d.exp, k, low)
      BY <2>1, <2>2, <2>4 DEF x, Exponent
    <3>2. m \in Nat /\ s \in 1 .. 23 /\ k \in 0 .. 22 /\ s + k = 23
      BY <1>1, <2>2, <2>4
    <3> HIDE DEF sign, hi, lo
    <3> QED BY <3>1, <3>2, SmallBack
  <2>6. Widened(sign, e, m) = Ldexp(sign, m, low)
    BY <2>1, <2>4, WidenedFirst
  <2> QED BY <2>5, <2>6 DEF e, m
<1> QED BY <1>3, <1>4, <1>5, <1>6, SinglesAre

\* The smallest ones.
FirstHalf(n, low, sign, m) == low = -24 /\ n = sign * 2 ^ 15 + m

\* The smallest halves.
LEMMA HalfFirst ==
  ASSUME NEW n, NEW low, NEW sign, NEW m, FirstHalf(n, low, sign, m), sign \in {0, 1}, m \in 0 .. 1023
  PROVE  FromHalf(n) = Ldexp(sign, m, low)
<1> DEFINE e == 0
<1>1. e \in 0 .. 31 /\ n = sign * 2 ^ 15 + (e * 2 ^ 10 + m) /\ e = 0 /\ low = -24
  BY DEF FirstHalf
<1> HIDE DEF e
<1>2. HalfWidens(sign, e, m, FromHalf(sign * 2 ^ 15 + (e * 2 ^ 10 + m)))
  BY <1>1, HalfIs, ZenonT(60)
<1> QED BY <1>1, <1>2 DEF HalfWidens

\* The normal ones.
NormalHalf(n, q, x, sign, e, m) ==
  n = sign * 2 ^ 15 + (e * 2 ^ 10 + m) /\ q = m + 1024 /\ x = e - 25

\* The halves of the usual size.
LEMMA HalfNormal ==
  ASSUME NEW n, NEW q, NEW x, NEW sign, NEW m, NEW e, NormalHalf(n, q, x, sign, e, m),
         sign \in {0, 1}, m \in 0 .. 1023, e \in 1 .. 30
  PROVE  FromHalf(n) = Ldexp(sign, q, x)
<1>1. e \in 0 .. 31
  OBVIOUS
<1>2. HalfWidens(sign, e, m, FromHalf(sign * 2 ^ 15 + (e * 2 ^ 10 + m)))
  BY <1>1, HalfIs, ZenonT(60)
<1> QED BY <1>2 DEF HalfWidens, NormalHalf

\* The others.
LastHalf(n, x, z, hi, sign, m) ==
  n = sign * 2 ^ 15 + (31 * 2 ^ 10 + m) /\ x = 2047 /\ z = 0 /\ hi = m * 2 ^ 13

\* Infinities, and what is no number.
LEMMA HalfLast ==
  ASSUME NEW n, NEW x, NEW z, NEW hi, NEW sign, NEW m, LastHalf(n, x, z, hi, sign, m),
         sign \in {0, 1}, m \in 0 .. 1023
  PROVE  FromHalf(n) = Double(sign, x, hi, z)
<1> DEFINE e == 31
<1>1. e \in 0 .. 31 /\ e = 31
  OBVIOUS
<1> HIDE DEF e
<1>2. HalfWidens(sign, e, m, FromHalf(sign * 2 ^ 15 + (e * 2 ^ 10 + m)))
  BY <1>1, HalfIs, ZenonT(60)
<1>3. FromHalf(sign * 2 ^ 15 + (e * 2 ^ 10 + m)) = Double(sign, 2047, m * 2 ^ 13, 0)
  BY <1>1, <1>2 DEF HalfWidens
<1> QED BY <1>1, <1>3 DEF LastHalf

\* What a single and the half it is written as have to do with each other.
HalfOf(e, m, h) ==
  \/ e = 0 /\ m = 0 /\ h = 0
  \/ m % 2 ^ 13 = 0 /\ e \in 113 .. 142 /\ h = (e - 112) * 2 ^ 10 + m \div 2 ^ 13
  \/ e \in 103 .. 112 /\ m % 2 ^ (126 - e) = 0 /\ h = (m + 2 ^ 23) \div 2 ^ (126 - e)
  \/ e = 255 /\ m = 0 /\ h = 31 * 2 ^ 10

\* What write_double writes as a half is one of these four.
LEMMA HalvesOf ==
  ASSUME NEW f, IsSingle(f), NEW h \in Halves(f)
  PROVE  HalfOf(f.exp, f.mant, h)
<1> DEFINE e == f.exp
           m == f.mant
           G3 == e \in 103 .. 112 /\ m % 2 ^ (126 - e) = 0
           h2 == (e - 112) * 2 ^ 10 + m \div 2 ^ 13
           h3 == (m + 2 ^ 23) \div 2 ^ (126 - e)
<1>1. m % 2 ^ 13 = 0
  BY HalvesAre, Zenon
<1>2. e = 0 /\ m = 0 => Halves(f) = {0}
  BY <1>1, HalvesAre, Zenon
<1>3. e \in 113 .. 142 => Halves(f) = {h2}
  BY <1>1, HalvesAre, Zenon
<1>4. G3 => Halves(f) = {h3}
  BY <1>1, HalvesAre, Zenon
<1>5. e = 255 /\ m = 0 => Halves(f) = {31 * 2 ^ 10}
  BY <1>1, HalvesAre, Zenon
<1>6. \/ e = 0 /\ m = 0
      \/ e \in 113 .. 142
      \/ G3
      \/ e = 255 /\ m = 0
      \/ Halves(f) = {}
  BY <1>1, HalvesAre, Zenon
<1> HIDE DEF G3, h2, h3
<1>7. \/ e = 0 /\ m = 0 /\ h = 0
      \/ e \in 113 .. 142 /\ h = h2
      \/ G3 /\ h = h3
      \/ e = 255 /\ m = 0 /\ h = 31 * 2 ^ 10
  BY <1>2, <1>3, <1>4, <1>5, <1>6
<1> QED BY <1>1, <1>7, Zenon DEF G3, h2, h3, HalfOf

\* A half that write_double writes is widened to what the single is.
LEMMA HalfBack ==
  ASSUME NEW sign \in {0, 1}, NEW f, IsSingle(f), NEW h \in Halves(f)
  PROVE  FromHalf(sign * 2 ^ 15 + h) = Widened(sign, f.exp, f.mant)
<1> DEFINE e == f.exp
           m == f.mant
           n == sign * 2 ^ 15 + h
<1>1. HalfOf(e, m, h)
  BY HalvesOf
<1>2. e \in 0 .. 255 /\ m \in Upper
  BY DEF IsSingle
<1> HIDE DEF e, m
<1>3. CASE e = 0 /\ m = 0 /\ h = 0
  <2> DEFINE low == -24
             lower == -149
  <2>1. low = -24 /\ lower = -149 /\ 0 \in 0 .. 1023 /\ n = sign * 2 ^ 15 + 0
    BY <1>3
  <2> HIDE DEF low, lower, n
  <2>2. FromHalf(n) = Ldexp(sign, m, low)
    <3>1. FirstHalf(n, low, sign, m) /\ m \in 0 .. 1023
      BY <1>3, <2>1 DEF FirstHalf
    <3> QED BY <3>1, HalfFirst
  <2>3. Widened(sign, e, m) = Ldexp(sign, m, lower)
    BY <1>3, <2>1, WidenedFirst
  <2>4. Ldexp(sign, m, low) = Ldexp(sign, m, lower)
    BY <1>3 DEF Ldexp
  <2> QED BY <2>2, <2>3, <2>4 DEF n, e, m
<1>4. CASE m % 2 ^ 13 = 0 /\ e \in 113 .. 142 /\ h = (e - 112) * 2 ^ 10 + m \div 2 ^ 13
  <2> DEFINE k == e - 112
             r == m \div 2 ^ 13
             q == r + 1024
             x == k - 25
             y == e + 896
             z == 0
             i == 10
             s == 13
  <2>1. m \in Nat /\ m < 2 ^ 23
    BY <1>2 DEF Upper
  <2>2. r \in 0 .. 1023 /\ r * 2 ^ 13 = m
    BY <1>4, <2>1
  <2>3. k \in 1 .. 30 /\ n = sign * 2 ^ 15 + (k * 2 ^ 10 + r) /\ y = e + 896 /\ z = 0 /\ e \in 1 .. 254
    BY <1>4
  <2>4. NormalHalf(n, q, x, sign, k, r)
    BY <2>3 DEF NormalHalf
  <2>5. q \in Nat /\ q # 0 /\ 2 ^ 10 <= q /\ q < 2 ^ 11 /\ (q - 2 ^ 10) * 2 ^ 13 = m
    BY <2>2
  <2>6. i \in 0 .. 22 /\ s \in 1 .. 23 /\ s + i = 23 /\ i + 1 = 11 /\ y = 1023 + i + x
    BY <2>3
  <2>7. HighBit(q, i) /\ UnderTop(q, i, s) = m /\ Exponent(y, i, x)
    BY <2>5, <2>6 DEF HighBit, UnderTop, Exponent
  <2> HIDE DEF k, r, q, x, y, z, i, s, n
  <2>8. FromHalf(n) = Ldexp(sign, q, x)
    <3>1. r \in 0 .. 1023 /\ k \in 1 .. 30
      BY <2>2, <2>3
    <3> QED BY <2>4, <3>1, HalfNormal
  <2>9. Ldexp(sign, q, x) = Double(sign, y, UnderTop(q, i, s), 0)
    <3>1. q \in Nat /\ q # 0 /\ i \in 0 .. 22 /\ s \in 1 .. 23 /\ s + i = 23
      BY <2>5, <2>6
    <3> QED BY <2>7, <3>1, LdexpIs
  <2>10. Widened(sign, e, m) = Double(sign, y, m, z)
    BY <2>3, WidenedNormal
  <2> QED BY <2>3, <2>7, <2>8, <2>9, <2>10 DEF n, e, m
<1>5. CASE e \in 103 .. 112 /\ m % 2 ^ (126 - e) = 0 /\ h = (m + 2 ^ 23) \div 2 ^ (126 - e)
  <2> DEFINE s == 126 - e
             k == 23 - s
             q == (m + 2 ^ 23) \div 2 ^ s
             low == -24
             y == e + 896
             z == 0
  <2>1. s \in 14 .. 23 /\ s \in 1 .. 23 /\ k \in 0 .. 22 /\ s + k = 23 /\ e \in 1 .. 254
    BY <1>5
  <2>2. y = e + 896 /\ Exponent(y, k, low) /\ z = 0 /\ low = -24
    BY <1>5 DEF Exponent
  <2>3. m % 2 ^ s = 0 /\ q = h /\ n = sign * 2 ^ 15 + h
    BY <1>5
  <2>4. q \in 0 .. 1023 /\ ShiftOf(m, q, s)
    <3> HIDE DEF s
    <3> QED BY <1>2, <2>1, <2>3, EvenlyShifted
  <2> HIDE DEF s, k, low, y, z, n
  <2>5. h \in 0 .. 1023 /\ h \in Nat /\ ShiftOf(m, h, s)
    BY <2>3, <2>4
  <2>6. HighBit(h, k) /\ h # 0 /\ UnderTop(h, k, s) = m
    BY <1>2, <2>1, <2>5, Shifted
  <2>7. FromHalf(n) = Ldexp(sign, h, low)
    <3>1. FirstHalf(n, low, sign, h)
      BY <2>2, <2>3 DEF FirstHalf
    <3> QED BY <2>5, <3>1, HalfFirst
  <2>8. Ldexp(sign, h, low) = Double(sign, y, UnderTop(h, k, s), 0)
    BY <2>1, <2>2, <2>5, <2>6, LdexpIs
  <2>9. Widened(sign, e, m) = Double(sign, y, m, z)
    BY <2>1, <2>2, WidenedNormal
  <2> QED BY <2>2, <2>6, <2>7, <2>8, <2>9 DEF n, e, m
<1>6. CASE e = 255 /\ m = 0 /\ h = 31 * 2 ^ 10
  <2> DEFINE x == 2047
             z == 0
  <2>1. x = 2047 /\ z = 0 /\ 0 \in 0 .. 1023 /\ n = sign * 2 ^ 15 + (31 * 2 ^ 10 + m) /\ m = m * 2 ^ 13
    BY <1>6
  <2> HIDE DEF x, z, n
  <2>2. FromHalf(n) = Double(sign, x, m, z)
    <3>1. LastHalf(n, x, z, m, sign, m) /\ m \in 0 .. 1023
      BY <1>6, <2>1 DEF LastHalf
    <3> QED BY <3>1, HalfLast
  <2>3. Widened(sign, e, m) = Double(sign, x, m, z)
    BY <1>6, <2>1, WidenedLast
  <2> QED BY <2>2, <2>3 DEF n, e, m
<1> QED BY <1>1, <1>3, <1>4, <1>5, <1>6 DEF HalfOf

\* The fields of a half.
LEMMA HalfParts ==
  ASSUME NEW n \in 0 .. 2 ^ 16 - 1
  PROVE  \E sign \in {0, 1}, e \in 0 .. 31, m \in 0 .. 1023 : n = sign * 2 ^ 15 + (e * 2 ^ 10 + m)
<1> DEFINE sign == n \div 32768
           e == (n \div 1024) % 32
           m == n % 1024
<1>1. sign \in {0, 1} /\ e \in 0 .. 31 /\ m \in 0 .. 1023
  OBVIOUS
<1>2. n = sign * 32768 + (e * 1024 + m)
  OBVIOUS
<1>3. n = sign * 2 ^ 15 + (e * 2 ^ 10 + m)
  BY <1>2
<1> HIDE DEF sign, e, m
<1> QED BY <1>1, <1>3, ZenonT(60)

\* What is left of a mantissa that ends in zeros.
LEMMA BelowEven ==
  ASSUME NEW m, NEW k, NEW s, HighBit(m, k),
         m \in Nat, k \in 0 .. 9, s \in 14 .. 23, s + k = 23
  PROVE  UnderTop(m, k, s) % 2 ^ 13 = 0 /\ UnderTop(m, k, s) % 2 ^ s = 0
<1> DEFINE P(i, j) == 2 ^ i <= m =>
             ((m - 2 ^ i) * 2 ^ j) % 2 ^ 13 = 0 /\ ((m - 2 ^ i) * 2 ^ j) % 2 ^ j = 0
<1>1. P(9, 14) /\ P(8, 15) /\ P(7, 16)
  OBVIOUS
<1>2. P(6, 17) /\ P(5, 18) /\ P(4, 19)
  OBVIOUS
<1>3. P(3, 20) /\ P(2, 21) /\ P(1, 22) /\ P(0, 23)
  OBVIOUS
<1> HIDE DEF P
<1>4. P(k, s)
  BY <1>1, <1>2, <1>3, SMTT(30)
<1> QED BY <1>4 DEF P, HighBit, UnderTop

\* A double that a half stands for is written as a half.
HasHalf(d) ==
  \/ Singles(d) # {} /\ \A f \in Singles(d) : Halves(f) # {}
  \/ Singles(d) = {} /\ IsNaN(d) /\ d.lo = 0 /\ d.hi % 2 ^ 13 = 0

\* It is one when it is normal for a single.
LEMMA NormalHasHalf ==
  ASSUME NEW d \in Doubles, IsNormal(d), d.hi % 2 ^ 13 = 0,
         \/ d.exp \in 1009 .. 1038
         \/ d.exp \in 999 .. 1008 /\ d.hi % 2 ^ (1022 - d.exp) = 0
  PROVE  HasHalf(d)
<1> DEFINE f == [exp |-> d.exp - 896, mant |-> d.hi]
<1>1. Singles(d) = {f}
  BY SinglesAre
<1>2. IsSingle(f)
  BY <1>1, SinglesType
<1>3. f.mant % 2 ^ 13 = 0 /\ f.exp = d.exp - 896 /\ f.mant = d.hi /\ d.exp \in Int
  BY Fields
<1> HIDE DEF f
<1>4. Halves(f) # {}
  <2>1. CASE d.exp \in 1009 .. 1038
    <3> DEFINE h == (f.exp - 112) * 2 ^ 10 + f.mant \div 2 ^ 13
    <3>1. f.exp \in 113 .. 142
      BY <1>3, <2>1
    <3>2. Halves(f) = {h}
      BY <1>2, <1>3, <3>1, HalvesAre, ZenonT(60)
    <3> QED BY <3>2
  <2>2. CASE d.exp \in 999 .. 1008 /\ d.hi % 2 ^ (1022 - d.exp) = 0
    <3> DEFINE h == (f.mant + 2 ^ 23) \div 2 ^ (126 - f.exp)
    <3>1. f.exp \in 103 .. 112 /\ 126 - f.exp = 1022 - d.exp
      BY <1>3, <2>2
    <3>2. f.mant % 2 ^ (126 - f.exp) = 0
      BY <1>3, <2>2, <3>1, ZenonT(60)
    <3>3. Halves(f) = {h}
      BY <1>2, <1>3, <3>1, <3>2, HalvesAre, ZenonT(60)
    <3> QED BY <3>3
  <2> QED BY <2>1, <2>2
<1> QED BY <1>1, <1>4 DEF HasHalf

\* Every value of a half is written as a half.
LEMMA HalfValue ==
  ASSUME NEW d \in Doubles, NEW n \in 0 .. 2 ^ 16 - 1, d = FromHalf(n)
  PROVE  HasHalf(d)
<1>1. PICK sign \in {0, 1}, e \in 0 .. 31, m \in 0 .. 1023 : n = sign * 2 ^ 15 + (e * 2 ^ 10 + m)
  BY HalfParts, ZenonT(60)
<1>2. CASE e = 0
  <2> DEFINE low == -24
  <2>1. low = -24 /\ n = sign * 2 ^ 15 + m
    BY <1>1, <1>2
  <2> HIDE DEF low
  <2>2. d = Ldexp(sign, m, low)
    <3>1. FirstHalf(n, low, sign, m)
      BY <2>1 DEF FirstHalf
    <3> QED BY <3>1, HalfFirst
  <2>3. CASE m = 0
    <3>1. d = Double(sign, 0, 0, 0)
      BY <2>2, <2>3 DEF Ldexp
    <3>2. d.exp = 0 /\ d.hi = 0 /\ d.lo = 0
      BY <3>1 DEF Double
    <3> DEFINE f == [exp |-> 0, mant |-> 0]
    <3>3. Singles(d) = {f}
      BY <3>2, SinglesAre DEF IsZero
    <3>4. IsSingle(f) /\ f.exp = 0 /\ f.mant = 0 /\ f.mant % 2 ^ 13 = 0
      BY DEF IsSingle, Upper
    <3> HIDE DEF f
    <3>5. Halves(f) = {0}
      BY <3>4, HalvesAre, Zenon
    <3> QED BY <3>3, <3>5 DEF HasHalf
  <2>4. CASE m # 0
    <3>1. m \in 1 .. 2 ^ 23 - 1 /\ m \in Nat
      BY <2>4
    <3>2. PICK k \in 0 .. 22 : HighBit(m, k)
      BY <3>1, HighBitExists
    <3>3. k <= 9
      <4> SUFFICES ASSUME 10 <= k PROVE FALSE
        OBVIOUS
      <4> DEFINE i == 10
                 p == 2 ^ k
                 q == 2 ^ i
      <4>1. p <= m /\ q = 1024
        BY <3>2 DEF HighBit
      <4>2. i \in 0 .. 23 /\ k \in 0 .. 23 /\ i <= k
        OBVIOUS
      <4> HIDE DEF i
      <4>3. p \in Nat /\ q \in Nat /\ q <= p
        BY <4>2, PowersGrow
      <4> HIDE DEF p, q
      <4> QED BY <4>1, <4>3
    <3> DEFINE s == 23 - k
               x == 999 + k
               hi == UnderTop(m, k, s)
    <3>4. /\ k \in 0 .. 9 /\ k \in 0 .. 22 /\ s \in 14 .. 23 /\ s \in 1 .. 23 /\ s + k = 23
          /\ Exponent(x, k, low) /\ x \in 999 .. 1008 /\ 1022 - x = s
      BY <2>1, <3>3 DEF Exponent
    <3> HIDE DEF s, x
    <3>5. d = Double(sign, x, hi, 0)
      BY <2>2, <2>4, <3>1, <3>2, <3>4, LdexpIs
    <3>6. hi % 2 ^ 13 = 0 /\ hi % 2 ^ s = 0
      BY <3>1, <3>2, <3>4, BelowEven
    <3>7. d.exp = x /\ d.hi = hi /\ d.lo = 0
      BY <3>5 DEF Double
    <3> HIDE DEF hi
    <3>8. IsNormal(d) /\ d.hi % 2 ^ 13 = 0 /\ d.exp \in 999 .. 1008
      BY <3>4, <3>6, <3>7 DEF IsNormal
    <3>9. d.hi % 2 ^ (1022 - d.exp) = 0
      BY <3>4, <3>6, <3>7, ZenonT(60)
    <3> QED BY <3>8, <3>9, NormalHasHalf
  <2> QED BY <2>3, <2>4
<1>3. CASE e \in 1 .. 30
  <2> DEFINE q == m + 1024
             x == e - 25
             y == 1008 + e
             k == 10
             s == 13
             hi == m * 2 ^ 13
  <2>1. NormalHalf(n, q, x, sign, e, m)
    BY <1>1 DEF NormalHalf
  <2>2. q \in Nat /\ q # 0 /\ 2 ^ 10 <= q /\ q < 2 ^ 11 /\ (q - 2 ^ 10) * 2 ^ 13 = hi
    OBVIOUS
  <2>3. /\ k \in 0 .. 22 /\ s \in 1 .. 23 /\ s + k = 23
        /\ HighBit(q, k) /\ UnderTop(q, k, s) = hi /\ Exponent(y, k, x)
    BY <2>2 DEF HighBit, UnderTop, Exponent
  <2>4. hi % 2 ^ 13 = 0
    OBVIOUS
  <2>5. y \in 1009 .. 1038
    BY <1>3
  <2> HIDE DEF q, x, y, k, s, hi
  <2>6. d = Ldexp(sign, q, x)
    BY <1>3, <2>1, HalfNormal
  <2>7. Ldexp(sign, q, x) = Double(sign, y, UnderTop(q, k, s), 0)
    BY <2>2, <2>3, LdexpIs
  <2>8. d.exp = y /\ d.hi = hi /\ d.lo = 0
    BY <2>3, <2>6, <2>7 DEF Double
  <2>9. IsNormal(d) /\ d.hi % 2 ^ 13 = 0 /\ d.exp \in 1009 .. 1038
    BY <2>4, <2>5, <2>8 DEF IsNormal
  <2> QED BY <2>9, NormalHasHalf
<1>4. CASE e = 31
  <2> DEFINE x == 2047
             z == 0
             hi == m * 2 ^ 13
  <2>1. x = 2047 /\ z = 0 /\ hi = m * 2 ^ 13 /\ n = sign * 2 ^ 15 + (31 * 2 ^ 10 + m)
    BY <1>1, <1>4
  <2>2. hi % 2 ^ 13 = 0 /\ (hi = 0 <=> m = 0)
    OBVIOUS
  <2> HIDE DEF x, z, hi
  <2>3. d = Double(sign, x, hi, z)
    <3>1. LastHalf(n, x, z, hi, sign, m)
      BY <2>1 DEF LastHalf
    <3> QED BY <3>1, HalfLast
  <2>4. d.exp = 2047 /\ d.hi = hi /\ d.lo = 0
    BY <2>1, <2>3 DEF Double
  <2>5. CASE m = 0
    <3> DEFINE f == [exp |-> 255, mant |-> 0]
    <3>1. Singles(d) = {f}
      BY <2>2, <2>4, <2>5, SinglesAre DEF IsInfinite
    <3>2. IsSingle(f) /\ f.exp = 255 /\ f.mant = 0 /\ f.mant % 2 ^ 13 = 0
      BY DEF IsSingle, Upper
    <3> HIDE DEF f
    <3>3. Halves(f) = {31 * 2 ^ 10}
      BY <3>2, HalvesAre, Zenon
    <3> QED BY <3>1, <3>3 DEF HasHalf
  <2>6. CASE m # 0
    <3>1. d.hi # 0 /\ d.hi % 2 ^ 13 = 0
      BY <2>2, <2>4, <2>6
    <3>2. ~IsZero(d) /\ ~IsInfinite(d) /\ ~IsNormal(d) /\ ~IsSmall(d)
      BY <2>4, <3>1 DEF IsZero, IsInfinite, IsNormal, IsSmall
    <3>3. Singles(d) = {}
      BY <3>2, SinglesAre
    <3> QED BY <2>4, <3>1, <3>3 DEF HasHalf, IsNaN
  <2> QED BY <2>5, <2>6
<1> QED BY <1>2, <1>3, <1>4

\* Two strings of bytes behind each other, byte by byte.
IsJoin(s, t, r) ==
  /\ r \in Seq(Byte) /\ Len(r) = Len(s) + Len(t)
  /\ \A i \in 1 .. Len(s) : r[i] = s[i]
  /\ \A i \in 1 .. Len(t) : r[Len(s) + i] = t[i]

\* It is what appending gives.
LEMMA JoinedIs ==
  ASSUME NEW s, NEW t, NEW r, r = s \o t, s \in Seq(Byte), t \in Seq(Byte)
  PROVE  IsJoin(s, t, r)
<1> DEFINE n == Len(s)
           m == Len(t)
<1>1. /\ r \in Seq(Byte) /\ Len(r) = n + m /\ n \in Nat /\ m \in Nat
      /\ \A i \in 1 .. n + m : r[i] = IF i <= n THEN s[i] ELSE t[i - n]
  BY ConcatProperties, LenProperties
<1> HIDE DEF n, m
<1>2. \A i \in 1 .. n : r[i] = s[i]
  BY <1>1
<1>3. ASSUME NEW i \in 1 .. m PROVE r[n + i] = t[i]
  <2> DEFINE j == n + i
  <2>1. j \in 1 .. n + m /\ ~(j <= n) /\ j - n = i
    BY <1>1
  <2> HIDE DEF j
  <2>2. r[j] = t[j - n]
    BY <1>1, <2>1
  <2> QED BY <2>1, <2>2 DEF j
<1> QED BY <1>1, <1>2, <1>3 DEF n, m, IsJoin

\* Which of the three forms so many bytes are.
LEMMA FloatIs ==
  ASSUME NEW b
  PROVE  /\ Len(b) = 2 => Float(b) = FromHalf(BigEndian(b))
         /\ Len(b) = 4 => Float(b) = FromSingle(b)
         /\ Len(b) = 8 => Float(b) = FromDouble(b)
<1> DEFINE l == Len(b)
           G1 == l = 2
           G2 == l = 4
           G3 == l = 8
           x == FromHalf(BigEndian(b))
           y == FromSingle(b)
           z == FromDouble(b)
           w == Float(b)
<1>1. (G1 => ~G2 /\ ~G3) /\ (G2 => ~G1 /\ ~G3) /\ (G3 => ~G1 /\ ~G2)
  <2> HIDE DEF l
  <2> QED OBVIOUS
<1>2. w = CASE G1 -> x [] G2 -> y [] G3 -> z
  BY Zenon DEF Float
<1> HIDE DEF w, G1, G2, G3, x, y, z
<1>3. G1 => w = x
  BY <1>1, <1>2, Zenon
<1>4. G2 => w = y
  BY <1>1, <1>2, Zenon
<1>5. G3 => w = z
  BY <1>1, <1>2, Zenon
<1> QED BY <1>3, <1>4, <1>5 DEF w, G1, G2, G3, x, y, z, l

\* The bytes behind the first.
Behind(b) == SubSeq(b, 2, Len(b))

\* Bytes that are read as d: an initial byte and an argument of so many bytes.
ReadsAs(b, ib, width, d) ==
  /\ b \in Seq(Byte) /\ Len(b) = 1 + width /\ b[1] = ib
  /\ Float(Behind(b)) = d

\* A half.
LEMMA HalfReads ==
  ASSUME NEW sign, NEW bits, NEW n, n = sign * 2 ^ 15 + bits,
         sign \in {0, 1}, bits \in Nat, bits < 2 ^ 15
  PROVE  ReadsAs(HalfBytes(sign, bits), 249, 2, FromHalf(n))
<1> DEFINE p == Padded(Number(n), 2)
           a == <<249>>
           b == HalfBytes(sign, bits)
           c == Behind(b)
<1>1. n \in Nat /\ n < 2 ^ 16
  OBVIOUS
<1>2. b = a \o p
  BY DEF HalfBytes
<1> HIDE DEF b
<1>3. p \in Seq(Byte) /\ Len(p) = 2 /\ p[1] = n \div 256 /\ p[2] = n % 256
  <2> HIDE DEF p
  <2> QED BY <1>1, TwoBytesOf DEF p
<1>4. a \in Seq(Byte) /\ Len(a) = 1 /\ a[1] = 249
  BY DEF Byte
<1> HIDE DEF a, p
<1>5. /\ b \in Seq(Byte) /\ Len(b) = 3 /\ b[1] = 249 /\ b[2] = n \div 256 /\ b[3] = n % 256
  <2>1. IsJoin(a, p, b)
    BY <1>2, <1>3, <1>4, JoinedIs
  <2> QED BY <1>3, <1>4, <2>1 DEF IsJoin
<1>6. Len(c) = 2 /\ c[1] = n \div 256 /\ c[2] = n % 256
  <2>1. b # <<>>
    BY <1>5, SMTT(30)
  <2>2. Len(c) = Len(b) - 1 /\ \A i \in 1 .. Len(b) - 1 : c[i] = b[i + 1]
    BY <1>5, <2>1, RestOf DEF Behind
  <2> QED BY <1>5, <2>2
<1> HIDE DEF c
<1>7. BigEndian(c) = n
  BY <1>1, <1>6 DEF BigEndian
<1>8. Float(c) = FromHalf(n)
  BY <1>6, <1>7, FloatIs
<1> QED BY <1>5, <1>8 DEF ReadsAs, b, c

\* The argument of a float, byte by byte.
IsRest(b, c) == Len(c) = Len(b) - 1 /\ \A i \in 1 .. Len(b) - 1 : c[i] = b[i + 1]

\* It is what follows the initial byte.
LEMMA BehindIs ==
  ASSUME NEW b, b \in Seq(Byte), Len(b) > 1
  PROVE  IsRest(b, Behind(b))
<1>1. b # <<>>
  BY EmptySeq
<1> QED BY <1>1, RestOf DEF Behind, IsRest

\* A single.
LEMMA SingleReads ==
  ASSUME NEW sign, NEW f, sign \in {0, 1}, IsSingle(f)
  PROVE  ReadsAs(SingleBytes(sign, f), 250, 4, Widened(sign, f.exp, f.mant))
<1> DEFINE e == f.exp
           m == f.mant
           n == (e % 2) * 2 ^ 23 + m
           p == Padded(Number(n), 3)
           x == sign * 128 + e \div 2
           a == <<250, x>>
           b == SingleBytes(sign, f)
           c == Behind(b)
<1>1. e \in Nat /\ e <= 255 /\ m \in Nat /\ m < 2 ^ 23
  BY DEF IsSingle, Upper
<1>2. b = a \o p
  BY DEF SingleBytes
<1> HIDE DEF b, e, m
<1>3. n \in Lengths
  BY <1>1 DEF Lengths
<1>4. p \in Seq(Byte) /\ Len(p) = 3 /\ p[1] = n \div 2 ^ 16 /\ p[2] = (n \div 256) % 256 /\ p[3] = n % 256
  <2> HIDE DEF n
  <2> QED BY <1>3, ThreeBytes
<1>5. x \in Nat /\ x <= 255 /\ x \div 128 = sign /\ x % 128 = e \div 2
  BY <1>1
<1>6. a \in Seq(Byte) /\ Len(a) = 2 /\ a[1] = 250 /\ a[2] = x
  <2> HIDE DEF x
  <2> QED BY <1>5 DEF Byte
<1>7. /\ (n \div 2 ^ 16) \div 128 = e % 2
      /\ ((n \div 2 ^ 16) % 128) * 2 ^ 16 + ((n \div 256) % 256) * 2 ^ 8 + (n % 256) = m
  BY <1>1
<1>8. (e \div 2) * 2 + (e % 2) = e
  BY <1>1
<1> HIDE DEF a, p, x, n
<1>9. IsJoin(a, p, b)
  BY <1>2, <1>4, <1>6, JoinedIs
<1>10. /\ b \in Seq(Byte) /\ Len(b) = 5 /\ b[1] = 250 /\ b[2] = x
       /\ b[3] = n \div 2 ^ 16 /\ b[4] = (n \div 256) % 256 /\ b[5] = n % 256
  BY <1>4, <1>6, <1>9 DEF IsJoin
<1>11. /\ Len(c) = 4 /\ c[1] = x
       /\ c[2] = n \div 2 ^ 16 /\ c[3] = (n \div 256) % 256 /\ c[4] = n % 256
  <2>1. IsRest(b, c)
    <3>1. b \in Seq(Byte) /\ Len(b) > 1
      BY <1>10
    <3> QED BY <3>1, BehindIs
  <2> HIDE DEF c
  <2> QED BY <1>10, <2>1 DEF IsRest
<1> HIDE DEF c
<1>12. BigEndian(<<c[2] % 128, c[3], c[4]>>) = m
  <2> DEFINE u == c[2] % 128
             v == c[3]
             w == c[4]
  <2>1. u * 2 ^ 16 + v * 2 ^ 8 + w = m
    BY <1>7, <1>11
  <2>2. u \in Int /\ v \in Int /\ w \in Int
    BY <1>3, <1>11 DEF Lengths
  <2> HIDE DEF u, v, w
  <2> QED BY <2>1, <2>2 DEF BigEndian, u, v, w
<1>13. c[1] \div 128 = sign /\ (c[1] % 128) * 2 + c[2] \div 128 = e
  BY <1>5, <1>7, <1>8, <1>11
<1>14. FromSingle(c) = Widened(sign, e, m)
  BY <1>12, <1>13 DEF FromSingle
<1>15. Float(c) = Widened(sign, e, m)
  BY <1>11, <1>14, FloatIs
<1> QED BY <1>10, <1>15 DEF ReadsAs, b, c, e, m

\* A double.
LEMMA DoubleReads ==
  ASSUME NEW d \in Doubles
  PROVE  ReadsAs(DoubleBytes(d), 251, 8, d)
<1> DEFINE sign == d.sign
           ex == d.exp
           hi == d.hi
           lo == d.lo
           x == sign * 128 + ex \div 16
           y == (ex % 16) * 16 + hi \div 2 ^ 19
           z == (hi % 8) * 32 + lo \div 2 ^ 24
           n == (hi % 2 ^ 19) \div 8
           m == lo % 2 ^ 24
           p == Padded(Number(n), 2)
           q == Padded(Number(m), 3)
           a == <<251, x, y>>
           g == <<z>>
           r == a \o p
           t == r \o g
           b == DoubleBytes(d)
           c == Behind(b)
<1>1. /\ sign \in {0, 1} /\ ex \in Nat /\ ex < 2048
      /\ hi \in Nat /\ hi < 2 ^ 23 /\ lo \in Nat /\ lo < 2 ^ 29
  <2>1. d.sign \in {0, 1} /\ d.exp \in 0 .. 2047 /\ d.hi \in Upper /\ d.lo \in Lower
    BY Fields
  <2> HIDE DEF b, x, y, z, n, m
  <2>2. ex \in Nat /\ ex < 2048
    <3>1. ex \in 0 .. 2047
      BY <2>1
    <3> HIDE DEF ex
    <3> QED BY <3>1
  <2>3. hi \in Nat /\ hi < 2 ^ 23
    BY <2>1 DEF Upper
  <2>4. lo \in Nat /\ lo < 2 ^ 29
    BY <2>1 DEF Lower
  <2> QED BY <2>1, <2>2, <2>3, <2>4
<1>2. b = t \o q
  BY DEF DoubleBytes
<1>3. Double(sign, ex, hi, lo) = d
  BY DoubleIs
<1> HIDE DEF b, sign, ex, hi, lo
<1>4. x \in Nat /\ x <= 255 /\ x \div 128 = sign /\ x % 128 = ex \div 16
  BY <1>1
<1>5. y \in Nat /\ y <= 255 /\ y \div 16 = ex % 16 /\ y % 16 = hi \div 2 ^ 19
  BY <1>1
<1>6. z \in Nat /\ z <= 255 /\ z \div 32 = hi % 8 /\ z % 32 = lo \div 2 ^ 24
  BY <1>1
<1>7. n \in Nat /\ n < 2 ^ 16 /\ m \in Lengths /\ m \in Nat
  BY <1>1 DEF Lengths
<1>8. (ex \div 16) * 16 + (ex % 16) = ex
  BY <1>1
<1>9. ((hi \div 2 ^ 19) * 2 ^ 16 + n) * 8 + (hi % 8) = hi
  BY <1>1
<1>10. (lo \div 2 ^ 24) * 2 ^ 24 + m = lo
  BY <1>1
<1> HIDE DEF x, y, z, n, m
<1>11. p \in Seq(Byte) /\ Len(p) = 2 /\ p[1] = n \div 256 /\ p[2] = n % 256
  BY <1>7, TwoBytesOf
<1>12. q \in Seq(Byte) /\ Len(q) = 3 /\ q[1] = m \div 2 ^ 16 /\ q[2] = (m \div 256) % 256 /\ q[3] = m % 256
  BY <1>7, ThreeBytes
<1>13. a \in Seq(Byte) /\ Len(a) = 3 /\ a[1] = 251 /\ a[2] = x /\ a[3] = y
  BY <1>4, <1>5 DEF Byte
<1>14. g \in Seq(Byte) /\ Len(g) = 1 /\ g[1] = z
  BY <1>6 DEF Byte
<1> HIDE DEF p, q, a, g
<1>15. r = a \o p /\ t = r \o g
  OBVIOUS
<1> HIDE DEF r, t
<1>16. /\ r \in Seq(Byte) /\ Len(r) = 5 /\ r[1] = 251 /\ r[2] = x /\ r[3] = y
       /\ r[4] = p[1] /\ r[5] = p[2]
  <2>1. IsJoin(a, p, r)
    BY <1>11, <1>13, <1>15, JoinedIs
  <2> QED BY <1>11, <1>13, <2>1 DEF IsJoin
<1>17. /\ t \in Seq(Byte) /\ Len(t) = 6 /\ t[6] = z
       /\ \A i \in 1 .. 5 : t[i] = r[i]
  <2>1. IsJoin(r, g, t)
    BY <1>14, <1>15, <1>16, JoinedIs
  <2> QED BY <1>14, <1>16, <2>1 DEF IsJoin
<1>18. /\ b \in Seq(Byte) /\ Len(b) = 9 /\ b[7] = q[1] /\ b[8] = q[2] /\ b[9] = q[3]
       /\ \A i \in 1 .. 6 : b[i] = t[i]
  <2>1. IsJoin(t, q, b)
    BY <1>2, <1>12, <1>17, JoinedIs
  <2> QED BY <1>12, <1>17, <2>1 DEF IsJoin
<1>19. Len(c) = 8 /\ \A i \in 1 .. 8 : c[i] = b[i + 1]
  <2>1. IsRest(b, c)
    <3>1. b \in Seq(Byte) /\ Len(b) > 1
      BY <1>18
    <3> QED BY <3>1, BehindIs
  <2> HIDE DEF c
  <2> QED BY <1>18, <2>1 DEF IsRest
<1>20. /\ c[1] = x /\ c[2] = y /\ c[3] = n \div 256 /\ c[4] = n % 256 /\ c[5] = z
       /\ c[6] = m \div 2 ^ 16 /\ c[7] = (m \div 256) % 256 /\ c[8] = m % 256
  <2>1. /\ c[1] = b[2] /\ c[2] = b[3] /\ c[3] = b[4] /\ c[4] = b[5] /\ c[5] = b[6]
        /\ c[6] = b[7] /\ c[7] = b[8] /\ c[8] = b[9]
    BY <1>19
  <2>2. b[2] = x /\ b[3] = y /\ b[4] = p[1] /\ b[5] = p[2] /\ b[6] = z
    BY <1>16, <1>17, <1>18
  <2> QED BY <1>11, <1>12, <1>18, <2>1, <2>2
<1> HIDE DEF c
<1>21. BigEndian(<<c[2] % 16, c[3], c[4]>>) = (hi \div 2 ^ 19) * 2 ^ 16 + n
  <2> DEFINE u == c[2] % 16
             v == c[3]
             w == c[4]
  <2>1. u = hi \div 2 ^ 19 /\ v * 2 ^ 8 + w = n
    BY <1>5, <1>7, <1>20
  <2>2. u \in Int /\ v \in Int /\ w \in Int
    BY <1>1, <1>7, <1>20, <2>1
  <2> HIDE DEF u, v, w
  <2>3. BigEndian(<<u, v, w>>) = u * 2 ^ 16 + v * 2 ^ 8 + w
    BY <2>2 DEF BigEndian
  <2>4. u * 2 ^ 16 + v * 2 ^ 8 + w = u * 2 ^ 16 + n
    BY <2>1, <2>2, <1>7
  <2> QED BY <2>1, <2>3, <2>4 DEF u, v, w
<1>22. BigEndian(<<c[5] % 32, c[6], c[7], c[8]>>) = lo
  <2> DEFINE k == c[5] % 32
             u == c[6]
             v == c[7]
             w == c[8]
  <2>1. k = lo \div 2 ^ 24 /\ u * 2 ^ 16 + v * 2 ^ 8 + w = m
    BY <1>6, <1>7, <1>20
  <2>2. k \in Int /\ u \in Int /\ v \in Int /\ w \in Int
    BY <1>1, <1>7, <1>20, <2>1
  <2> HIDE DEF k, u, v, w
  <2>3. BigEndian(<<k, u, v, w>>) = k * 2 ^ 24 + u * 2 ^ 16 + v * 2 ^ 8 + w
    BY <2>2 DEF BigEndian
  <2>4. k * 2 ^ 24 + u * 2 ^ 16 + v * 2 ^ 8 + w = k * 2 ^ 24 + m
    BY <2>1, <2>2, <1>7
  <2> QED BY <1>10, <2>1, <2>3, <2>4 DEF k, u, v, w
<1>23. c[1] \div 128 = sign /\ (c[1] % 128) * 16 + c[2] \div 16 = ex
  BY <1>4, <1>5, <1>8, <1>20
<1>24. c[5] \div 32 = hi % 8
  BY <1>6, <1>20
<1>25. FromDouble(c) = Double(sign, ex, hi, lo)
  BY <1>9, <1>21, <1>22, <1>23, <1>24 DEF FromDouble
<1>26. Float(c) = d
  BY <1>3, <1>19, <1>25, FloatIs
<1> QED BY <1>18, <1>16, <1>17, <1>26 DEF ReadsAs, b, c

\* A double that a single stands for is written as one, or as a half.
HasSingle(d) == Singles(d) # {} \/ (IsNaN(d) /\ d.lo = 0)

\* A mantissa that is shifted up.
LEMMA ShiftedUp ==
  ASSUME NEW m, NEW k, NEW s, HighBit(m, k),
         m \in Nat, k \in 0 .. 22, s \in 1 .. 23, s + k = 23
  PROVE  ShiftOf(UnderTop(m, k, s), (UnderTop(m, k, s) + 2 ^ 23) \div 2 ^ s, s)
<1> DEFINE P(i, j) == 2 ^ i <= m =>
             (((m - 2 ^ i) * 2 ^ j + 2 ^ 23) \div 2 ^ j) * 2 ^ j = (m - 2 ^ i) * 2 ^ j + 2 ^ 23
<1>1. /\ P(22, 1) /\ P(21, 2) /\ P(20, 3) /\ P(19, 4)
  OBVIOUS
<1>2. /\ P(18, 5) /\ P(17, 6) /\ P(16, 7) /\ P(15, 8)
  OBVIOUS
<1>3. /\ P(14, 9) /\ P(13, 10) /\ P(12, 11) /\ P(11, 12)
  OBVIOUS
<1>4. /\ P(10, 13) /\ P(9, 14) /\ P(8, 15) /\ P(7, 16)
  OBVIOUS
<1>5. /\ P(6, 17) /\ P(5, 18) /\ P(4, 19) /\ P(3, 20)
  OBVIOUS
<1>6. /\ P(2, 21) /\ P(1, 22) /\ P(0, 23)
  OBVIOUS
<1> HIDE DEF P
<1>7. P(k, s)
  BY <1>1, <1>2, <1>3, <1>4, <1>5, <1>6, SMTT(30)
<1> QED BY <1>7 DEF P, HighBit, UnderTop, ShiftOf

\* Which doubles have a single.
LEMMA SinglesFound ==
  ASSUME NEW d \in Doubles, IsZero(d) \/ IsInfinite(d) \/ IsNormal(d)
  PROVE  HasSingle(d)
<1>1. IsZero(d) => Singles(d) = {[exp |-> 0, mant |-> 0]}
  BY SinglesAre, Zenon
<1>2. IsInfinite(d) => Singles(d) = {[exp |-> 255, mant |-> 0]}
  BY SinglesAre, ZenonT(60)
<1>3. ASSUME IsNormal(d) PROVE Singles(d) = {[exp |-> d.exp - 896, mant |-> d.hi]}
  BY <1>3, SinglesAre
<1> QED BY <1>1, <1>2, <1>3, ZenonT(60) DEF HasSingle

\* And which below the normal ones.
LEMMA SmallFound ==
  ASSUME NEW d \in Doubles, IsSmall(d),
         NEW s, s = 897 - d.exp, ShiftOf(d.hi, (d.hi + 2 ^ 23) \div 2 ^ s, s)
  PROVE  HasSingle(d)
<1>0. Singles(d) = {[exp |-> 0, mant |-> j] : j \in {i \in {(d.hi + 2 ^ 23) \div 2 ^ (897 - d.exp)} :
                                                         i * 2 ^ (897 - d.exp) = d.hi + 2 ^ 23}}
  BY SinglesAre
<1> DEFINE p == 2 ^ (897 - d.exp)
           x == d.hi + 2 ^ 23
           q == x \div p
<1>1. Singles(d) = {[exp |-> 0, mant |-> j] : j \in {i \in {q} : i * p = x}}
  BY <1>0
<1>2. q * p = x
  BY DEF ShiftOf
<1> HIDE DEF p, x, q
<1>3. [exp |-> 0, mant |-> q] \in Singles(d)
  BY <1>1, <1>2
<1> QED BY <1>3 DEF HasSingle

\* Every value of a single is written as a single, if not as a half.
LEMMA SingleValue ==
  ASSUME NEW d \in Doubles, NEW sign, NEW e \in 0 .. 255, NEW m \in Upper, d = Widened(sign, e, m)
  PROVE  HasSingle(d)
<1>1. m \in Nat /\ m < 2 ^ 23
  BY DEF Upper
<1>2. CASE e = 0
  <2> DEFINE low == -149
  <2>1. low = -149
    OBVIOUS
  <2> HIDE DEF low
  <2>2. d = Ldexp(sign, m, low)
    BY <1>2, <2>1, WidenedFirst
  <2>3. CASE m = 0
    <3>1. d = Double(sign, 0, 0, 0)
      BY <2>2, <2>3 DEF Ldexp
    <3>2. d.exp = 0 /\ d.hi = 0 /\ d.lo = 0
      BY <3>1 DEF Double
    <3> QED BY <3>2, SinglesFound DEF IsZero
  <2>4. CASE m # 0
    <3>1. m \in 1 .. 2 ^ 23 - 1
      BY <1>1, <2>4
    <3>2. PICK k \in 0 .. 22 : HighBit(m, k)
      BY <3>1, HighBitExists
    <3> DEFINE s == 23 - k
               x == 874 + k
               hi == UnderTop(m, k, s)
    <3>3. k \in 0 .. 22 /\ s \in 1 .. 23 /\ s + k = 23 /\ Exponent(x, k, low) /\ 897 - x = s
      BY <2>1 DEF Exponent
    <3> HIDE DEF s, x
    <3>4. d = Double(sign, x, hi, 0)
      BY <1>1, <2>2, <2>4, <3>2, <3>3, LdexpIs
    <3>5. ShiftOf(hi, (hi + 2 ^ 23) \div 2 ^ s, s)
      BY <1>1, <3>2, <3>3, ShiftedUp
    <3>6. d.exp = x /\ d.hi = hi /\ d.lo = 0
      BY <3>4 DEF Double
    <3> HIDE DEF hi
    <3>7. IsSmall(d)
      BY <3>3, <3>6 DEF IsSmall
    <3>8. s = 897 - d.exp /\ ShiftOf(d.hi, (d.hi + 2 ^ 23) \div 2 ^ s, s)
      BY <3>3, <3>5, <3>6
    <3> QED BY <3>7, <3>8, SmallFound
  <2> QED BY <2>3, <2>4
<1>3. CASE e \in 1 .. 254
  <2> DEFINE x == e + 896
             z == 0
  <2>1. x = e + 896 /\ z = 0 /\ x \in 897 .. 1150
    BY <1>3
  <2> HIDE DEF x, z
  <2>2. d = Double(sign, x, m, z)
    BY <1>3, <2>1, WidenedNormal
  <2>3. d.exp = x /\ d.lo = 0
    BY <2>1, <2>2 DEF Double
  <2>4. IsNormal(d)
    BY <2>1, <2>3 DEF IsNormal
  <2> QED BY <2>4, SinglesFound
<1>4. CASE e = 255
  <2> DEFINE x == 2047
             z == 0
  <2>1. x = 2047 /\ z = 0
    OBVIOUS
  <2> HIDE DEF x, z
  <2>2. d = Double(sign, x, m, z)
    BY <1>4, <2>1, WidenedLast
  <2>3. d.exp = 2047 /\ d.hi = m /\ d.lo = 0
    BY <2>1, <2>2 DEF Double
  <2>4. m = 0 => IsInfinite(d)
    BY <2>3 DEF IsInfinite
  <2>5. m = 0 => HasSingle(d)
    BY <2>4, SinglesFound
  <2> QED BY <2>3, <2>5 DEF HasSingle, IsNaN
<1> QED BY <1>2, <1>3, <1>4

\* A double is written in the shortest of the three forms that hold it.
LEMMA FloatReads ==
  ASSUME NEW d \in Doubles
  PROVE  \/ ReadsAs(FloatBytes(d), 249, 2, d)
         \/ ReadsAs(FloatBytes(d), 250, 4, d) /\ ~HasHalf(d)
         \/ ReadsAs(FloatBytes(d), 251, 8, d) /\ ~HasHalf(d) /\ ~HasSingle(d)
<1> DEFINE S == Singles(d)
           f == CHOOSE s \in S : TRUE
           H == Halves(f)
           h == CHOOSE x \in H : TRUE
           quiet == IsNaN(d) /\ d.lo = 0
           even == d.hi % 2 ^ 13 = 0
           r == d.hi \div 2 ^ 13
           payload == 31 * 2 ^ 10 + r
           nan == [exp |-> 255, mant |-> d.hi]
           sign == d.sign
           b == FloatBytes(d)
<1>1. sign \in {0, 1} /\ d.hi \in Upper
  BY Fields
<1>2. b = IF S # {}
          THEN IF H # {} THEN HalfBytes(sign, h) ELSE SingleBytes(sign, f)
          ELSE IF quiet
          THEN IF even THEN HalfBytes(sign, payload)
               ELSE SingleBytes(sign, nan)
          ELSE DoubleBytes(d)
  BY Zenon DEF FloatBytes
<1> HIDE DEF b
<1>3. CASE S # {} /\ H # {}
  <2>1. f \in S /\ h \in H
    BY <1>3
  <2>2. b = HalfBytes(sign, h)
    BY <1>2, <1>3
  <2> HIDE DEF f, h
  <2>3. IsSingle(f) /\ Widened(sign, f.exp, f.mant) = d
    BY <2>1, SinglesType, WidenedBack
  <2>4. h \in Nat /\ h < 2 ^ 15
    BY <2>1, <2>3, HalvesType
  <2>5. FromHalf(sign * 2 ^ 15 + h) = d
    BY <1>1, <2>1, <2>3, HalfBack
  <2> DEFINE n == sign * 2 ^ 15 + h
  <2>6. n = sign * 2 ^ 15 + h /\ FromHalf(n) = d
    BY <2>5
  <2> HIDE DEF n, sign
  <2>7. ReadsAs(HalfBytes(sign, h), 249, 2, FromHalf(n))
    BY <1>1, <2>4, <2>6, HalfReads
  <2> QED BY <2>2, <2>6, <2>7 DEF b
<1>4. CASE S # {} /\ H = {}
  <2>1. f \in S
    BY <1>4
  <2>2. b = SingleBytes(sign, f)
    BY <1>2, <1>4
  <2>3. ~HasHalf(d)
    BY <1>4, <2>1 DEF HasHalf
  <2> HIDE DEF f
  <2>4. IsSingle(f) /\ Widened(sign, f.exp, f.mant) = d
    BY <2>1, SinglesType, WidenedBack
  <2> HIDE DEF sign
  <2>5. ReadsAs(SingleBytes(sign, f), 250, 4, Widened(sign, f.exp, f.mant))
    BY <1>1, <2>4, SingleReads
  <2> QED BY <2>2, <2>3, <2>4, <2>5 DEF b
<1>5. CASE S = {} /\ quiet /\ even
  <2>1. b = HalfBytes(sign, payload)
    BY <1>2, <1>5
  <2>2. r \in 0 .. 1023 /\ d.hi = r * 2 ^ 13 /\ payload \in Nat /\ payload < 2 ^ 15
    <3> DEFINE hi == d.hi
    <3>1. hi \in Nat /\ hi < 2 ^ 23 /\ hi % 2 ^ 13 = 0
      BY <1>1, <1>5 DEF Upper
    <3> HIDE DEF hi
    <3>2. hi \div 2 ^ 13 \in 0 .. 1023 /\ hi = (hi \div 2 ^ 13) * 2 ^ 13
      BY <3>1
    <3>3. r \in 0 .. 1023 /\ d.hi = r * 2 ^ 13
      BY <3>2 DEF hi
    <3> HIDE DEF r
    <3>4. 31 * 2 ^ 10 + r \in Nat /\ 31 * 2 ^ 10 + r < 2 ^ 15
      BY <3>3
    <3> QED BY <3>3, <3>4
  <2> DEFINE x == d.exp
             z == d.lo
             hi == d.hi
             n == sign * 2 ^ 15 + payload
  <2>3. x = 2047 /\ z = 0 /\ hi = r * 2 ^ 13
    BY <1>5, <2>2 DEF IsNaN
  <2>4. n = sign * 2 ^ 15 + payload /\ n = sign * 2 ^ 15 + (31 * 2 ^ 10 + r)
    OBVIOUS
  <2> HIDE DEF payload, n, r, x, z, hi
  <2>5. FromHalf(n) = Double(sign, x, hi, z)
    <3> HIDE DEF sign
    <3>1. LastHalf(n, x, z, hi, sign, r)
      BY <2>3, <2>4 DEF LastHalf
    <3> QED BY <1>1, <2>2, <3>1, HalfLast
  <2>6. FromHalf(n) = d
    BY <2>5, DoubleIs DEF x, hi, z
  <2> HIDE DEF sign
  <2>7. ReadsAs(HalfBytes(sign, payload), 249, 2, FromHalf(n))
    BY <1>1, <2>2, <2>4, HalfReads
  <2> QED BY <2>1, <2>6, <2>7 DEF b
<1>6. CASE S = {} /\ quiet /\ ~even
  <2>1. b = SingleBytes(sign, nan)
    BY <1>2, <1>6
  <2>2. ~HasHalf(d)
    BY <1>6 DEF HasHalf
  <2>3. IsSingle(nan) /\ nan.exp = 255 /\ nan.mant = d.hi
    BY <1>1 DEF IsSingle
  <2> DEFINE x == d.exp
             z == d.lo
             e == nan.exp
             m == nan.mant
  <2>4. x = 2047 /\ z = 0 /\ e = 255
    BY <1>6, <2>3 DEF IsNaN
  <2> HIDE DEF nan, x, z, e, m
  <2>5. Widened(sign, e, m) = Double(sign, x, m, z)
    BY <2>4, WidenedLast
  <2>6. Widened(sign, nan.exp, nan.mant) = d
    BY <2>3, <2>5, DoubleIs DEF x, z, e, m
  <2> HIDE DEF sign
  <2>7. ReadsAs(SingleBytes(sign, nan), 250, 4, Widened(sign, nan.exp, nan.mant))
    BY <1>1, <2>3, SingleReads
  <2> QED BY <2>1, <2>2, <2>6, <2>7 DEF b
<1>7. CASE S = {} /\ ~quiet
  <2>1. b = DoubleBytes(d)
    BY <1>2, <1>7
  <2>2. ~HasHalf(d) /\ ~HasSingle(d)
    BY <1>7 DEF HasHalf, HasSingle
  <2>3. ReadsAs(DoubleBytes(d), 251, 8, d)
    BY DoubleReads
  <2> QED BY <2>1, <2>2, <2>3 DEF b
<1> QED BY <1>3, <1>4, <1>5, <1>6, <1>7

\* The initial byte and the argument of what begins a string of bytes.
Starts(s, b, w) == s[1] = b[1] /\ SubSeq(SubSeq(s, 2, Len(s)), 1, w) = Behind(b)

\* The reader cuts the same bytes out of a longer string.
LEMMA HeadCut ==
  ASSUME NEW b, NEW rest, NEW w, b \in Seq(Byte), rest \in Seq(Byte), w \in Nat, Len(b) = 1 + w
  PROVE  Starts(b \o rest, b, w)
<1>1. 1 \in 0 .. Len(b) /\ 1 \in 1 .. Len(b) /\ 1 + 1 = 2
  OBVIOUS
<1>2. (b \o rest)[1] = b[1]
  <2> DEFINE r == b \o rest
  <2>1. r = b \o rest
    OBVIOUS
  <2> HIDE DEF r
  <2>2. IsJoin(b, rest, r)
    BY <2>1, JoinedIs
  <2>3. r[1] = b[1]
    BY <1>1, <2>2 DEF IsJoin
  <2> QED BY <2>3 DEF r
<1>3. SubSeq(b \o rest, 1 + 1, Len(b \o rest)) = SubSeq(b, 1 + 1, Len(b)) \o rest
  BY ONLY <1>1, b \in Seq(Byte), rest \in Seq(Byte), GrownCut
<1>4. SubSeq(b \o rest, 2, Len(b \o rest)) = Behind(b) \o rest
  BY ONLY <1>1, <1>3 DEF Behind
<1>5. Behind(b) \in Seq(Byte) /\ Len(Behind(b)) = w
  <2>1. b # <<>> /\ Len(b) - 1 = w
    BY EmptySeq
  <2> QED BY <2>1, RestOf DEF Behind
<1>6. SubSeq(Behind(b) \o rest, 1, Len(Behind(b))) = Behind(b)
  BY ONLY <1>5, rest \in Seq(Byte), ConcatCut
<1> QED BY ONLY <1>2, <1>4, <1>5, <1>6 DEF Starts

\* A double the packer is given is the one the unpacker returns, bit by bit: it
\* reads the bytes written as a float, exactly these, whatever follows; and no
\* shorter form stands for this double (msgpack_packer_write_double against
\* read_primitive, "32 bits is enough", packer.h:151).
THEOREM FloatsReadBack ==
  ASSUME NEW d \in Doubles, NEW rest \in Seq(Byte)
  PROVE  LET bytes == FloatBytes(d)
             s == bytes \o rest
             ib == s[1]
             width == ArgWidth(ib)
             argument == Argument(ib, SubSeq(s, 2, Len(s)))
         IN /\ MajorType(ib) = Prim
            /\ SimpleValue(AI(ib), argument) = <<"float", d>>
            /\ Len(bytes) = 1 + width /\ width \in {2, 4, 8}
            /\ width > 2 => \A n \in 0 .. 2 ^ 16 - 1 : FromHalf(n) # d
            /\ width > 4 => \A sign \in {0, 1} : \A e \in 0 .. 255, m \in Upper : Widened(sign, e, m) # d
<1> DEFINE bytes == FloatBytes(d)
           s == bytes \o rest
           ib == s[1]
           width == ArgWidth(ib)
           behind == SubSeq(s, 2, Len(s))
           argument == Argument(ib, behind)
<1>1. PICK w, x : /\ ReadsAs(bytes, x, w, d)
                  /\ \/ x = 249 /\ w = 2
                     \/ x = 250 /\ w = 4 /\ ~HasHalf(d)
                     \/ x = 251 /\ w = 8 /\ ~HasHalf(d) /\ ~HasSingle(d)
  <2> HIDE DEF bytes
  <2>1. \/ ReadsAs(bytes, 249, 2, d)
        \/ ReadsAs(bytes, 250, 4, d) /\ ~HasHalf(d)
        \/ ReadsAs(bytes, 251, 8, d) /\ ~HasHalf(d) /\ ~HasSingle(d)
    BY FloatReads DEF bytes
  <2> QED BY <2>1
<1> HIDE DEF bytes
<1>2. bytes \in Seq(Byte) /\ Len(bytes) = 1 + w /\ bytes[1] = x /\ Float(Behind(bytes)) = d /\ w \in Nat
  BY <1>1 DEF ReadsAs
<1>3. ib = x /\ SubSeq(behind, 1, w) = Behind(bytes)
  <2>1. Starts(bytes \o rest, bytes, w)
    BY <1>2, HeadCut
  <2> QED BY <1>2, <2>1 DEF Starts
<1> HIDE DEF s, ib, behind
<1>4. /\ MajorType(ib) = Prim /\ AI(ib) \in 25 .. 27 /\ width = w
  BY <1>1, <1>3 DEF MajorType, AI, ArgWidth, Prim
<1>5. argument = Behind(bytes)
  BY <1>1, <1>3, <1>4 DEF Argument
<1> HIDE DEF width, argument
<1>6. SimpleValue(AI(ib), argument) = <<"float", d>>
  <2> DEFINE ai == AI(ib)
             G1 == ai = 20
             G2 == ai = 21
             G3 == ai = 22
             G4 == ai \in 25 .. 27
             r1 == <<"bool", FALSE>>
             r2 == <<"bool", TRUE>>
             r4 == <<"float", Float(argument)>>
             r5 == <<"simple", BigEndian(argument)>>
             v == SimpleValue(ai, argument)
  <2>1. v = CASE G1 -> r1 [] G2 -> r2 [] G3 -> Nil [] G4 -> r4 [] OTHER -> r5
    BY Zenon DEF SimpleValue
  <2>2. ~G1 /\ ~G2 /\ ~G3 /\ G4
    BY <1>4
  <2> HIDE DEF G1, G2, G3, G4, r1, r2, r4, r5, v, ai
  <2>3. v = r4
    BY <2>1, <2>2, Zenon
  <2> QED BY <1>2, <1>5, <2>3 DEF v, r4, ai
<1>7. width > 2 => \A n \in 0 .. 2 ^ 16 - 1 : FromHalf(n) # d
  <2>1. width > 2 => ~HasHalf(d)
    BY <1>1, <1>4
  <2> QED BY <2>1, HalfValue
<1>8. width > 4 => \A sign \in {0, 1} : \A e \in 0 .. 255, m \in Upper : Widened(sign, e, m) # d
  <2>1. width > 4 => ~HasSingle(d)
    BY <1>1, <1>4
  <2> QED BY <2>1, SingleValue
<1>9. Len(bytes) = 1 + width /\ width \in {2, 4, 8}
  BY <1>1, <1>2, <1>4
<1> QED BY <1>4, <1>6, <1>7, <1>8, <1>9 DEF bytes, s, ib, width, behind, argument

-----------------------------------------------------------------------------
(* Initial bytes and where they lie *)

\* An initial byte is followed by 0, 1, 2, 4 or 8 bytes of argument.
LEMMA WidthAt ==
  ASSUME NEW ib
  PROVE  ArgWidth(ib) \in {0, 1, 2, 4, 8} /\ ArgWidth(ib) \in Nat
<1> DEFINE ai == AI(ib)
<1>1. CASE ai \in 24 .. 27
  <2>1. ai - 23 \in 1 .. 4
    BY <1>1
  <2> DEFINE j == ai - 23
  <2>2. ArgWidth(ib) = <<1, 2, 4, 8>>[j]
    BY <1>1 DEF ArgWidth
  <2>3. j = 1 \/ j = 2 \/ j = 3 \/ j = 4
    BY <2>1
  <2> HIDE DEF j
  <2> QED BY <2>2, <2>3
<1>2. CASE ai \notin 24 .. 27
  BY <1>2 DEF ArgWidth
<1> QED BY <1>1, <1>2

\* The bytes behind a are those of s behind b, so many of them.
SameFrom(r, a, s, b, w) ==
  a + w <= Len(r) /\ b + w <= Len(s) /\ \A i \in 1 .. w : r[a + i] = s[b + i]

\* so many bytes behind k
CutBehind(s, k, w) == SubSeq(s, k + 1, k + w)

\* These bytes, cut out of both.
LEMMA SameCut ==
  ASSUME NEW r, NEW s, NEW a, NEW b, NEW w, SameFrom(r, a, s, b, w),
         r \in Seq(Byte), s \in Seq(Byte), a \in Nat, b \in Nat, w \in Nat
  PROVE  CutBehind(r, a, w) = CutBehind(s, b, w)
<1> DEFINE x == SubSeq(r, a + 1, a + w)
           y == SubSeq(s, b + 1, b + w)
<1>0. a + w <= Len(r) /\ b + w <= Len(s)
  BY DEF SameFrom
<1>1. \A i \in 1 .. Len(r) : r[i] \in Byte
  BY ElementOfSeq
<1>2. \A i \in 1 .. Len(s) : s[i] \in Byte
  BY ElementOfSeq
<1>3. Len(r) \in Nat /\ Len(s) \in Nat
  BY LenProperties
<1>4. \A i \in a + 1 .. a + w : r[i] \in Byte
  BY <1>0, <1>1, <1>3
<1>5. \A i \in b + 1 .. b + w : s[i] \in Byte
  BY <1>0, <1>2, <1>3
<1>6. a + 1 \in Int /\ a + w \in Int /\ b + 1 \in Int /\ b + w \in Int
  OBVIOUS
<1>7. /\ x \in Seq(Byte) /\ Len(x) = IF a + 1 <= a + w THEN (a + w) - (a + 1) + 1 ELSE 0
      /\ \A i \in 1 .. (a + w) - (a + 1) + 1 : x[i] = r[a + 1 + i - 1]
  BY <1>4, <1>6, SubSeqProperties
<1>8. /\ y \in Seq(Byte) /\ Len(y) = IF b + 1 <= b + w THEN (b + w) - (b + 1) + 1 ELSE 0
      /\ \A i \in 1 .. (b + w) - (b + 1) + 1 : y[i] = s[b + 1 + i - 1]
  BY <1>5, <1>6, SubSeqProperties
<1> HIDE DEF x, y
<1>9. Len(x) = w /\ Len(y) = w
  BY <1>7, <1>8
<1>10. \A i \in 1 .. w : x[i] = r[a + i] /\ y[i] = s[b + i]
  <2> SUFFICES ASSUME NEW i \in 1 .. w PROVE x[i] = r[a + i] /\ y[i] = s[b + i]
    OBVIOUS
  <2>1. /\ i \in 1 .. (a + w) - (a + 1) + 1 /\ a + 1 + i - 1 = a + i
        /\ i \in 1 .. (b + w) - (b + 1) + 1 /\ b + 1 + i - 1 = b + i
    OBVIOUS
  <2> QED BY <1>7, <1>8, <2>1
<1>11. \A i \in 1 .. w : x[i] = y[i]
  BY <1>10 DEF SameFrom
<1>12. x = y
  BY <1>7, <1>8, <1>9, <1>11, SeqEqual
<1> QED BY <1>12 DEF x, y, CutBehind

\* The same initial byte and argument.
SameAt(r, j, s, k) == r[j] = s[k] /\ ArgAt(r, j) = ArgAt(s, k)

\* Bytes that are appended change no head before them.
LEMMA HeadBefore ==
  ASSUME NEW s, NEW x, NEW k, s \in Seq(Byte), x \in Seq(Byte), k \in 1 .. Len(s),
         k + ArgWidth(s[k]) <= Len(s)
  PROVE  SameAt(s \o x, k, s, k)
<1> DEFINE r == s \o x
           w == ArgWidth(s[k])
<1>1. r = s \o x
  OBVIOUS
<1> HIDE DEF r
<1>2. IsJoin(s, x, r)
  BY <1>1, JoinedIs
<1>3. Len(s) \in Nat /\ Len(x) \in Nat /\ w \in Nat
  BY LenProperties, WidthAt
<1>4. r[k] = s[k]
  BY <1>2 DEF IsJoin
<1>5. SameFrom(r, k, s, k, w)
  <2>1. k + w <= Len(s) /\ k + w <= Len(r)
    BY <1>2, <1>3 DEF IsJoin
  <2>2. \A i \in 1 .. w : k + i \in 1 .. Len(s)
    BY <1>3, <2>1
  <2> QED BY <1>2, <2>1, <2>2 DEF IsJoin, SameFrom
<1>6. r \in Seq(Byte) /\ k \in Nat /\ k + w <= Len(r)
  BY <1>2, <1>3 DEF IsJoin
<1>7. CutBehind(r, k, w) = CutBehind(s, k, w)
  <2>1. k \in Nat
    OBVIOUS
  <2> HIDE DEF w
  <2> QED BY <1>3, <1>5, <1>6, <2>1, SameCut
<1>8. ArgAt(r, k) = ArgAt(s, k)
  BY <1>4, <1>7 DEF ArgAt, CutBehind
<1> QED BY <1>4, <1>8 DEF SameAt, r

\* The head of what is appended is found behind the rest.
LEMMA HeadBehind ==
  ASSUME NEW s, NEW x, s \in Seq(Byte), x \in Seq(Byte), x # <<>>,
         1 + ArgWidth(x[1]) <= Len(x)
  PROVE  SameAt(s \o x, Len(s) + 1, x, 1)
<1> DEFINE r == s \o x
           w == ArgWidth(x[1])
           n == Len(s)
<1>1. r = s \o x
  OBVIOUS
<1> HIDE DEF r
<1>2. IsJoin(s, x, r)
  BY <1>1, JoinedIs
<1>3. n \in Nat /\ Len(x) \in Nat /\ w \in Nat /\ 1 \in 1 .. Len(x)
  BY LenProperties, WidthAt
<1>4. r[n + 1] = x[1]
  BY <1>2, <1>3 DEF IsJoin
<1>5. SameFrom(r, n + 1, x, 1, w)
  <2> SUFFICES ASSUME NEW i \in 1 .. w PROVE r[n + 1 + i] = x[1 + i]
    BY <1>2, <1>3 DEF SameFrom, IsJoin
  <2>1. 1 + i \in 1 .. Len(x) /\ n + (1 + i) = n + 1 + i
    BY <1>3
  <2>2. r[n + (1 + i)] = x[1 + i]
    BY <1>2, <2>1 DEF IsJoin
  <2> QED BY <2>1, <2>2
<1>6. r \in Seq(Byte) /\ n + 1 \in Nat /\ n + 1 + w <= Len(r)
  BY <1>2, <1>3 DEF IsJoin
<1>7. CutBehind(r, n + 1, w) = CutBehind(x, 1, w)
  <2> DEFINE a == n + 1
             b == 1
  <2>1. a \in Nat /\ b \in Nat /\ SameFrom(r, a, x, b, w)
    BY <1>5, <1>6
  <2> HIDE DEF w, a, b
  <2>2. CutBehind(r, a, w) = CutBehind(x, b, w)
    BY <1>3, <1>6, <2>1, SameCut
  <2> QED BY <2>2 DEF a, b
<1>8. ArgAt(r, n + 1) = ArgAt(x, 1)
  BY <1>4, <1>7 DEF ArgAt, CutBehind
<1> QED BY <1>4, <1>8 DEF SameAt, r

\* The argument of an initial byte at the end of the bytes.
LEMMA ArgBehind ==
  ASSUME NEW h, h \in Seq(Byte), Len(h) = 1 + ArgWidth(h[1])
  PROVE  ArgAt(h, 1) = Behind(h)
BY DEF ArgAt, Behind

\* It is all that is behind the initial byte, if there is any.
LEMMA ArgumentIs ==
  ASSUME NEW h, h \in Seq(Byte), Len(h) = 1 + ArgWidth(h[1])
  PROVE  /\ Behind(h) \in Seq(Byte) /\ Len(Behind(h)) = ArgWidth(h[1])
         /\ ArgWidth(h[1]) # 0 => Argument(h[1], Behind(h)) = Behind(h)
<1> DEFINE b == Behind(h)
           w == ArgWidth(h[1])
<1>1. w \in Nat
  BY WidthAt
<1>2. b \in Seq(Byte) /\ Len(b) = w
  <2>1. h # <<>>
    BY <1>1, EmptySeq
  <2>2. SubSeq(h, 2, Len(h)) \in Seq(Byte) /\ Len(SubSeq(h, 2, Len(h))) = Len(h) - 1
    BY <2>1, RestOf
  <2> QED BY <1>1, <2>2 DEF Behind
<1>3. w # 0 => Argument(h[1], b) = SubSeq(b, 1, w)
  BY DEF Argument
<1> HIDE DEF b, w
<1>4. SubSeq(b \o <<>>, 1, Len(b)) = b
  BY ONLY <1>2, EmptySeq, ConcatCut
<1>5. b \o <<>> = b
  BY ONLY <1>2, ConcatEmptySeq
<1>6. SubSeq(b, 1, w) = b
  BY <1>2, <1>4, <1>5
<1> QED BY <1>2, <1>3, <1>6 DEF b, w

-----------------------------------------------------------------------------
(* Readings *)

At(k, o, w) == [at |-> k, open |-> o, items |-> w]

IsContainer(c) ==
  c = [type |-> c.type, need |-> c.need, tag |-> c.tag, seen |-> c.seen] /\ IsSeq(c.seen)
AreContainers(o) == IsSeq(o) /\ \A k \in 1 .. Len(o) : IsContainer(o[k])
IsReading(r) ==
  r = At(r.at, r.open, r.items) /\ r.at \in Nat \ {0} /\ AreContainers(r.open) /\ IsSeq(r.items)

\* the innermost container waits for an object
Waiting(o) == o # <<>> => ~IsFull(Last(o))

\* Lists of the same elements are the same.
LEMMA SameList ==
  ASSUME NEW p, NEW q, IsSeq(p), IsSeq(q), Len(p) = Len(q), \A i \in 1 .. Len(p) : p[i] = q[i]
  PROVE  p = q
<1>1. PICK S : p \in Seq(S)
  BY DEF IsSeq
<1>2. PICK T : q \in Seq(T)
  BY DEF IsSeq
<1> DEFINE U == S \cup T
<1>3. p \in Seq(U)
  BY <1>1, SeqMonotonic
<1>4. q \in Seq(U)
  BY <1>2, SeqMonotonic
<1> HIDE DEF U
<1> QED BY <1>3, <1>4, SeqEqual

\* What is put behind a list is its last element, before which the list is.
LEMMA AppendedIs ==
  ASSUME NEW o, IsSeq(o), NEW c
  PROVE  LET t == Append(o, c)
         IN IsSeq(t) /\ Len(t) = Len(o) + 1 /\ t # <<>> /\ Last(t) = c /\ Front(t) = o
<1> DEFINE t == Append(o, c)
           n == Len(o)
           f == Front(t)
<1>1. n \in Nat
  BY LengthOf
<1>2. IsSeq(t) /\ Len(t) = n + 1 /\ t[n + 1] = c /\ \A i \in 1 .. n : t[i] = o[i]
  BY AppendOf
<1> HIDE DEF t
<1>3. t # <<>> /\ Last(t) = t[n + 1]
  BY <1>1, <1>2, LengthOf
<1>4. IsSeq(f) /\ Len(f) = n + 1 - 1 /\ \A i \in 1 .. n + 1 - 1 : f[i] = t[i]
  BY <1>2, <1>3, FrontOf
<1>5. Len(f) = n /\ \A i \in 1 .. n : f[i] = o[i]
  BY <1>1, <1>2, <1>4
<1> HIDE DEF f
<1>6. f = o
  BY <1>4, <1>5, SameList DEF n
<1> QED BY <1>2, <1>3, <1>6 DEF t, f, n

\* An object goes into the last container; nothing else changes.
LEMMA PutIs ==
  ASSUME NEW o, AreContainers(o), o # <<>>, NEW v
  PROVE  LET t == Put(o, v)
         IN /\ AreContainers(t) /\ Len(t) = Len(o) /\ t # <<>> /\ Front(t) = Front(o)
            /\ Last(t) = [Last(o) EXCEPT !.seen = Append(Last(o).seen, v)]
            /\ AreContainers(Front(o)) /\ IsContainer(Last(o)) /\ IsContainer(Last(t))
<1> DEFINE n == Len(o)
           f == Front(o)
           c == Last(o)
           d == [c EXCEPT !.seen = Append(c.seen, v)]
           t == Append(f, d)
<1>1. IsSeq(o) /\ n \in Nat /\ n > 0 /\ c = o[n] /\ n \in 1 .. Len(o)
  BY LengthOf DEF AreContainers
<1>2. IsSeq(f) /\ Len(f) = n - 1 /\ \A i \in 1 .. n - 1 : f[i] = o[i]
  BY <1>1, FrontOf
<1>3. IsContainer(c)
  BY <1>1 DEF AreContainers
<1>4. IsContainer(d)
  <2> HIDE DEF c
  <2> DEFINE s == Append(c.seen, v)
  <2>1. IsSeq(s)
    BY <1>3, AppendOf DEF IsContainer
  <2>2. c = [type |-> c.type, need |-> c.need, tag |-> c.tag, seen |-> c.seen]
    BY <1>3 DEF IsContainer
  <2> HIDE DEF s
  <2>3. d = [type |-> c.type, need |-> c.need, tag |-> c.tag, seen |-> s]
    BY <2>2 DEF s
  <2> HIDE DEF d
  <2>4. d.type = c.type /\ d.need = c.need /\ d.tag = c.tag /\ d.seen = s
    BY <2>3
  <2> QED BY <2>1, <2>3, <2>4 DEF IsContainer
<1> HIDE DEF f, d
<1>5. IsSeq(t) /\ Len(t) = Len(f) + 1 /\ t # <<>> /\ Last(t) = d /\ Front(t) = f
  BY <1>2, AppendedIs
<1>6. t[Len(f) + 1] = d /\ \A i \in 1 .. Len(f) : t[i] = f[i]
  BY <1>2, AppendOf
<1> HIDE DEF t, n, c
<1>7. Len(t) = n /\ Len(f) \in Nat
  BY <1>1, <1>2, <1>5
<1>8. \A i \in 1 .. Len(t) : IsContainer(t[i])
  <2> SUFFICES ASSUME NEW i \in 1 .. Len(t) PROVE IsContainer(t[i])
    OBVIOUS
  <2>1. i = Len(f) + 1 \/ i \in 1 .. Len(f)
    BY <1>5, <1>7
  <2>2. i \in 1 .. Len(f) => i \in 1 .. n - 1 /\ i \in 1 .. Len(o)
    BY <1>1, <1>2 DEF n
  <2> QED BY <1>2, <1>4, <1>6, <2>1, <2>2 DEF AreContainers
<1>9. \A i \in 1 .. Len(f) : IsContainer(f[i])
  <2>1. \A i \in 1 .. Len(f) : i \in 1 .. n - 1 /\ i \in 1 .. Len(o)
    BY <1>1, <1>2 DEF n
  <2> QED BY <1>2, <2>1 DEF AreContainers
<1>10. AreContainers(t) /\ AreContainers(f)
  BY <1>2, <1>5, <1>8, <1>9 DEF AreContainers
<1>11. Last(t) = d /\ IsContainer(d)
  BY <1>4, <1>5
<1> QED BY <1>3, <1>5, <1>7, <1>10, <1>11 DEF t, f, d, c, n, Put

\* The parts of a reading.
LEMMA AtIs ==
  ASSUME NEW k, NEW o, NEW w
  PROVE  At(k, o, w).at = k /\ At(k, o, w).open = o /\ At(k, o, w).items = w
BY DEF At

\* An object goes into the innermost container, or is an item.
LEMMA WithIs ==
  ASSUME NEW k, NEW o, NEW w, NEW v
  PROVE  /\ o = <<>> => With(At(k, o, w), v) = At(k, o, Append(w, v))
         /\ o # <<>> => With(At(k, o, w), v) = At(k, Put(o, v), w)
<1> DEFINE r == At(k, o, w)
<1>1. r.at = k /\ r.open = o /\ r.items = w
  BY AtIs
<1>2. CASE o = <<>>
  <2> DEFINE x == Append(w, v)
  <2>1. With(r, v) = [r EXCEPT !.items = x]
    BY <1>1, <1>2 DEF With
  <2> HIDE DEF x
  <2>2. [r EXCEPT !.items = x] = At(k, o, x)
    BY DEF At
  <2> QED BY <1>2, <2>1, <2>2 DEF x
<1>3. CASE o # <<>>
  <2>1. With(r, v) = [r EXCEPT !.open = Put(o, v)]
    BY <1>1, <1>3 DEF With
  <2> DEFINE p == Put(o, v)
  <2> HIDE DEF p
  <2>2. [r EXCEPT !.open = p] = At(k, p, w)
    BY DEF At
  <2> QED BY <1>3, <2>1, <2>2 DEF p
<1> QED BY <1>2, <1>3

\* It stays a reading, of as many containers.
LEMMA WithType ==
  ASSUME NEW k \in Nat \ {0}, NEW o, AreContainers(o), NEW w, IsSeq(w), NEW v
  PROVE  LET r == With(At(k, o, w), v)
         IN IsReading(r) /\ r.at = k /\ Len(r.open) = Len(o)
<1> DEFINE r == With(At(k, o, w), v)
<1>1. CASE o = <<>>
  <2> DEFINE x == Append(w, v)
  <2>1. IsSeq(x)
    BY AppendOf
  <2>2. r = At(k, o, x)
    BY <1>1, WithIs
  <2> HIDE DEF x, r
  <2>3. r.at = k /\ r.open = o /\ r.items = x
    BY <2>2, AtIs
  <2>4. IsReading(r) /\ r.at = k /\ Len(r.open) = Len(o)
    BY <2>1, <2>2, <2>3 DEF IsReading
  <2> QED BY <2>4 DEF r
<1>2. CASE o # <<>>
  <2> DEFINE t == Put(o, v)
  <2>1. AreContainers(t) /\ Len(t) = Len(o)
    BY <1>2, PutIs
  <2>2. r = At(k, t, w)
    BY <1>2, WithIs
  <2> HIDE DEF t, r
  <2>3. r.at = k /\ r.open = t /\ r.items = w
    BY <2>2, AtIs
  <2>4. IsReading(r) /\ r.at = k /\ Len(r.open) = Len(o)
    BY <2>1, <2>2, <2>3 DEF IsReading
  <2> QED BY <2>4 DEF r
<1> QED BY <1>1, <1>2

\* A container is entered.
LEMMA EntersType ==
  ASSUME NEW k \in Nat \ {0}, NEW o, AreContainers(o), NEW w, IsSeq(w), NEW c, IsContainer(c)
  PROVE  LET r == Enters(At(k, o, w), c)
         IN /\ IsReading(r) /\ r = At(k, Append(o, c), w) /\ r.at = k
            /\ Len(r.open) = Len(o) + 1 /\ AreContainers(Append(o, c))
<1> DEFINE r == Enters(At(k, o, w), c)
           t == Append(o, c)
           n == Len(o)
<1>1. r = At(k, t, w)
  <2>1. At(k, o, w).open = o
    BY AtIs
  <2>2. r = [At(k, o, w) EXCEPT !.open = t]
    BY <2>1 DEF Enters
  <2> HIDE DEF t
  <2>3. [At(k, o, w) EXCEPT !.open = t] = At(k, t, w)
    BY DEF At
  <2> QED BY <2>2, <2>3
<1>2. IsSeq(o) /\ n \in Nat
  BY LengthOf DEF AreContainers
<1>3. IsSeq(t) /\ Len(t) = n + 1 /\ t[n + 1] = c /\ \A i \in 1 .. n : t[i] = o[i]
  BY <1>2, AppendOf
<1> HIDE DEF r, t
<1>6. r.at = k /\ r.open = t /\ r.items = w
  BY <1>1, AtIs
<1>7. \A i \in 1 .. Len(t) : IsContainer(t[i])
  <2> SUFFICES ASSUME NEW i \in 1 .. Len(t) PROVE IsContainer(t[i])
    OBVIOUS
  <2>1. i = n + 1 \/ i \in 1 .. n
    BY <1>2, <1>3
  <2> QED BY <1>3, <2>1 DEF AreContainers
<1>8. IsReading(r) /\ AreContainers(t)
  BY <1>1, <1>3, <1>6, <1>7 DEF IsReading, AreContainers
<1>9. Len(r.open) = n + 1
  BY <1>3, <1>6
<1> QED BY <1>1, <1>6, <1>8, <1>9 DEF r, t, n

\* The innermost container gives its object.
LEMMA ClosesType ==
  ASSUME NEW k \in Nat \ {0}, NEW o, AreContainers(o), NEW w, IsSeq(w), o # <<>>
  PROVE  LET r == Closes(At(k, o, w))
         IN /\ IsReading(r) /\ r.at = k /\ Len(r.open) = Len(o) - 1
            /\ r = With(At(k, Front(o), w), ObjectOf(Last(o)))
<1> DEFINE r == Closes(At(k, o, w))
           f == Front(o)
           v == ObjectOf(Last(o))
<1>1. r = With(At(k, f, w), v)
  <2>1. At(k, o, w).open = o
    BY AtIs
  <2>2. r = With([At(k, o, w) EXCEPT !.open = f], v)
    BY <2>1 DEF Closes
  <2> HIDE DEF f
  <2>3. [At(k, o, w) EXCEPT !.open = f] = At(k, f, w)
    BY DEF At
  <2> QED BY <2>2, <2>3
<1>2. IsSeq(o) /\ AreContainers(f)
  BY PutIs DEF AreContainers
<1>3. Len(f) = Len(o) - 1
  BY <1>2, FrontOf
<1> HIDE DEF v, f
<1> DEFINE x == With(At(k, f, w), v)
<1>4. IsReading(x) /\ x.at = k /\ Len(x.open) = Len(f)
  BY <1>2, WithType
<1> HIDE DEF r, x
<1>5. r = x
  BY <1>1 DEF x
<1>6. IsReading(r) /\ r.at = k /\ Len(r.open) = Len(o) - 1
  BY <1>3, <1>4, <1>5
<1> QED BY <1>1, <1>6 DEF r, f, v

-----------------------------------------------------------------------------
(* Turns *)

\* The cases of a turn.
LEMMA TurnIs ==
  ASSUME NEW s, NEW r
  PROVE  /\ ~Waiting(r.open) => Turn(s, r) = Closes(r)
         /\ Waiting(r.open) /\ ~HeadAt(s, r.at) => Turn(s, r) = r
         /\ Waiting(r.open) /\ HeadAt(s, r.at) =>
              IF AI(s[r.at]) < 28 THEN Turn(s, r) = DefiniteItem(s, r)
              ELSE IF AI(s[r.at]) = AI_INDEF THEN Turn(s, r) = IndefiniteItem(s, r)
              ELSE Turn(s, r) = r
<1>1. CASE ~Waiting(r.open)
  <2>1. Turn(s, r) = Closes(r)
    BY <1>1 DEF Turn, Waiting
  <2> QED BY <1>1, <2>1
<1>2. CASE Waiting(r.open)
  <2>1. Turn(s, r) = IF ~HeadAt(s, r.at) THEN r
                     ELSE IF AI(s[r.at]) < 28 THEN DefiniteItem(s, r)
                     ELSE IF AI(s[r.at]) = AI_INDEF THEN IndefiniteItem(s, r)
                     ELSE r
    BY <1>2 DEF Turn, Waiting
  <2>2. CASE ~HeadAt(s, r.at)
    BY <1>2, <2>1, <2>2
  <2>3. CASE HeadAt(s, r.at)
    <3>1. CASE AI(s[r.at]) < 28
      BY <1>2, <2>1, <2>3, <3>1
    <3>2. CASE ~(AI(s[r.at]) < 28) /\ AI(s[r.at]) = AI_INDEF
      BY <1>2, <2>1, <2>3, <3>2
    <3>3. CASE ~(AI(s[r.at]) < 28) /\ AI(s[r.at]) # AI_INDEF
      BY <1>2, <2>1, <2>3, <3>3
    <3> QED BY <3>1, <3>2, <3>3
  <2> QED BY <2>2, <2>3
<1> QED BY <1>1, <1>2

\* the first byte behind the head at k, and what the head's argument is
BodyAt(s, k) == k + 1 + ArgWidth(s[k])
ArgumentAt(s, k) == Argument(s[k], ArgAt(s, k))

\* the objects of integers and strings
Plus(arg) == Integer(FALSE, arg)
Minus(arg) == Integer(TRUE, arg)
StrOf(type, bytes) == Str(type = TextString, bytes)

\* The cases of an item whose head has an argument.
LEMMA DefiniteIs ==
  ASSUME NEW s, NEW k, NEW o, NEW w
  PROVE  LET type == MajorType(s[k])
             arg == ArgumentAt(s, k)
             body == BodyAt(s, k)
             d == DefiniteItem(s, At(k, o, w))
         IN /\ type = 0 => d = With(At(body, o, w), Plus(arg))
            /\ type = 1 => d = With(At(body, o, w), Minus(arg))
            /\ type \in {2, 3} =>
                 d = IF body + Count(arg) - 1 > Len(s) THEN At(k, o, w)
                     ELSE With(At(body + Count(arg), o, w),
                               StrOf(type, SubSeq(s, body, body + Count(arg) - 1)))
            /\ type = 4 => d = Enters(At(body, o, w), Container(4, Count(arg), 0))
            /\ type = 5 => d = Enters(At(body, o, w), Container(5, 2 * Count(arg), 0))
            /\ type = 6 => d = Enters(At(body, o, w), Container(6, 1, Count(arg)))
            /\ type = 7 => d = With(At(body, o, w), SimpleValue(AI(s[k]), arg))
<1> DEFINE r == At(k, o, w)
           type == MajorType(s[k])
           arg == ArgumentAt(s, k)
           body == BodyAt(s, k)
           d == DefiniteItem(s, r)
<1>1. r.at = k /\ r.open = o /\ r.items = w
  BY AtIs
<1>2. \A j : [r EXCEPT !.at = j] = At(j, o, w)
  BY DEF At
<1> HIDE DEF r
<1>3. /\ body = k + 1 + ArgWidth(s[k]) /\ arg = Argument(s[k], ArgAt(s, k))
      /\ type = MajorType(s[k])
  BY DEF BodyAt, ArgumentAt
<1>4. d = CASE type = 0 -> With([r EXCEPT !.at = body], Plus(arg))
            [] type = 1 -> With([r EXCEPT !.at = body], Minus(arg))
            [] type \in {2, 3} ->
                 IF body + Count(arg) - 1 > Len(s) THEN r
                 ELSE With([r EXCEPT !.at = body + Count(arg)],
                           StrOf(type, SubSeq(s, body, body + Count(arg) - 1)))
            [] type = 4 -> Enters([r EXCEPT !.at = body], Container(type, Count(arg), 0))
            [] type = 5 -> Enters([r EXCEPT !.at = body], Container(type, 2 * Count(arg), 0))
            [] type = 6 -> Enters([r EXCEPT !.at = body], Container(type, 1, Count(arg)))
            [] type = 7 -> With([r EXCEPT !.at = body], SimpleValue(AI(s[k]), arg))
  BY <1>1 DEF DefiniteItem, Unsigned, Negative, ByteString, TextString, ArrayType, MapType, TagType, Prim,
     BodyAt, ArgumentAt, Plus, Minus, StrOf
<1> HIDE DEF type, arg, body, d
<1>5. /\ [r EXCEPT !.at = body] = At(body, o, w)
      /\ [r EXCEPT !.at = body + Count(arg)] = At(body + Count(arg), o, w)
  BY <1>2
<1>6. type = 0 => d = With(At(body, o, w), Plus(arg))
  BY <1>4, <1>5
<1>7. type = 1 => d = With(At(body, o, w), Minus(arg))
  BY <1>4, <1>5
<1>8. type \in {2, 3} =>
        d = IF body + Count(arg) - 1 > Len(s) THEN r
            ELSE With(At(body + Count(arg), o, w),
                      StrOf(type, SubSeq(s, body, body + Count(arg) - 1)))
  BY <1>4, <1>5
<1>9. type = 4 => d = Enters(At(body, o, w), Container(4, Count(arg), 0))
  BY <1>4, <1>5
<1>10. type = 5 => d = Enters(At(body, o, w), Container(5, 2 * Count(arg), 0))
  BY <1>4, <1>5
<1>11. type = 6 => d = Enters(At(body, o, w), Container(6, 1, Count(arg)))
  BY <1>4, <1>5
<1>12. type = 7 => d = With(At(body, o, w), SimpleValue(AI(s[k]), arg))
  BY <1>4, <1>5
<1> QED BY <1>6, <1>7, <1>8, <1>9, <1>10, <1>11, <1>12 DEF type, arg, body, d, r

\* The head at k is all there.
LEMMA HeadAtIs ==
  ASSUME NEW s, NEW k, HeadAt(s, k), s \in Seq(Byte), k \in Nat \ {0}
  PROVE  k \in 1 .. Len(s) /\ k + ArgWidth(s[k]) <= Len(s) /\ BodyAt(s, k) <= Len(s) + 1 /\ BodyAt(s, k) \in Nat \ {0}
<1>1. Len(s) \in Nat /\ ArgWidth(s[k]) \in Nat
  BY LenProperties, WidthAt
<1>2. k <= Len(s) /\ k + ArgWidth(s[k]) <= Len(s)
  BY DEF HeadAt
<1> QED BY <1>1, <1>2 DEF BodyAt

\* Type and additional information of an initial byte.
LEMMA ByteParts ==
  ASSUME NEW b, b \in Byte
  PROVE  MajorType(b) \in 0 .. 7 /\ AI(b) \in 0 .. 31 /\ AI(b) \in Byte
<1>1. b \in Nat /\ b <= 255
  BY ByteIs
<1>2. b \div 32 \in 0 .. 7 /\ b % 32 \in 0 .. 31
  BY <1>1
<1> QED BY <1>2 DEF MajorType, AI, Byte

\* Its argument is a string of bytes, and gives a count.
LEMMA ArgumentType ==
  ASSUME NEW s, NEW k, HeadAt(s, k), s \in Seq(Byte), k \in Nat \ {0}
  PROVE  ArgumentAt(s, k) \in Seq(Byte) /\ Count(ArgumentAt(s, k)) \in Nat
<1> DEFINE w == ArgWidth(s[k])
           a == ArgAt(s, k)
           arg == ArgumentAt(s, k)
<1>1. k \in 1 .. Len(s) /\ k + w <= Len(s) /\ w \in Nat /\ Len(s) \in Nat
  BY HeadAtIs, WidthAt, LenProperties
<1>2. \A i \in 1 .. Len(s) : s[i] \in Byte
  BY ElementOfSeq
<1>3. a \in Seq(Byte) /\ Len(a) = w
  <2>1. \A i \in k + 1 .. k + w : s[i] \in Byte
    BY <1>1, <1>2
  <2>2. k + 1 \in Int /\ k + w \in Int
    BY <1>1
  <2>3. /\ SubSeq(s, k + 1, k + w) \in Seq(Byte)
        /\ Len(SubSeq(s, k + 1, k + w)) = IF k + 1 <= k + w THEN (k + w) - (k + 1) + 1 ELSE 0
    BY <2>1, <2>2, SubSeqProperties
  <2> QED BY <1>1, <2>3 DEF ArgAt
<1>4. arg \in Seq(Byte)
  <2>1. CASE w = 0
    <3>1. arg = <<AI(s[k])>>
      BY <2>1 DEF ArgumentAt, Argument
    <3>2. AI(s[k]) \in Byte
      BY <1>1, <1>2, ByteParts
    <3> QED BY <3>1, <3>2, OneByte
  <2>2. CASE w # 0
    <3>1. arg = SubSeq(a, 1, w)
      BY <2>2 DEF ArgumentAt, Argument
    <3>2. w \in 0 .. Len(a)
      BY <1>1, <1>3
    <3> HIDE DEF a, w
    <3> QED BY <1>3, <3>1, <3>2, CutOf
  <2> QED BY <2>1, <2>2
<1>5. Count(arg) \in Nat
  <2> HIDE DEF arg
  <2> DEFINE n == Significant(arg)
  <2>1. n \in Seq(Byte) /\ Len(n) \in Nat
    BY <1>4, SignificantType, LenProperties
  <2>2. \A i \in 1 .. Len(n) : n[i] \in Nat
    BY <2>1, ElementOfSeq, ByteIs
  <2> HIDE DEF n
  <2>3. CountOf(n) \in Nat
    <3>1. CASE Len(n) = 0
      BY <3>1 DEF CountOf
    <3>2. CASE Len(n) = 1
      BY <2>2, <3>2 DEF CountOf
    <3>3. CASE Len(n) = 2
      BY <2>2, <3>3 DEF CountOf
    <3>4. CASE Len(n) = 3
      BY <2>2, <3>4 DEF CountOf
    <3>5. CASE Len(n) \notin 0 .. 3
      BY <2>1, <3>5 DEF CountOf, Huge
    <3> QED BY <2>1, <3>1, <3>2, <3>3, <3>4, <3>5
  <2> QED BY <2>3 DEF n, Count
<1> QED BY <1>4, <1>5

\* A head that is there stays when bytes are appended.
LEMMA HeadStays ==
  ASSUME NEW s, NEW x, NEW k, HeadAt(s, k), s \in Seq(Byte), x \in Seq(Byte), k \in Nat \ {0}
  PROVE  /\ HeadAt(s \o x, k) /\ (s \o x)[k] = s[k] /\ ArgumentAt(s \o x, k) = ArgumentAt(s, k)
         /\ BodyAt(s \o x, k) = BodyAt(s, k) /\ Len(s) <= Len(s \o x)
<1> DEFINE r == s \o x
<1>1. k \in 1 .. Len(s) /\ k + ArgWidth(s[k]) <= Len(s)
  BY HeadAtIs
<1>2. r[k] = s[k] /\ ArgAt(r, k) = ArgAt(s, k)
  BY <1>1, HeadBefore DEF SameAt
<1>3. Len(r) \in Nat /\ Len(s) \in Nat /\ Len(s) <= Len(r) /\ ArgWidth(s[k]) \in Nat
  BY ConcatCut, LenProperties, WidthAt
<1> HIDE DEF r
<1>4. k <= Len(r) /\ k + ArgWidth(r[k]) <= Len(r)
  BY <1>1, <1>2, <1>3
<1>5. HeadAt(r, k)
  BY <1>4 DEF HeadAt
<1>6. ArgumentAt(r, k) = ArgumentAt(s, k) /\ BodyAt(r, k) = BodyAt(s, k)
  BY <1>2 DEF ArgumentAt, BodyAt
<1> QED BY <1>2, <1>3, <1>5, <1>6 DEF r

\* Bytes before the end stay the same when bytes are appended.
LEMMA CutStays ==
  ASSUME NEW s, NEW x, NEW k, NEW n, s \in Seq(Byte), x \in Seq(Byte), k \in Nat \ {0}, n \in Nat,
         k + n - 1 <= Len(s)
  PROVE  SubSeq(s \o x, k, k + n - 1) = SubSeq(s, k, k + n - 1)
<1> DEFINE r == s \o x
           a == k - 1
<1>1. r = s \o x
  OBVIOUS
<1> HIDE DEF r
<1>2. IsJoin(s, x, r)
  BY <1>1, JoinedIs
<1>3. Len(s) \in Nat /\ Len(x) \in Nat
  BY LenProperties
<1>4. a \in Nat /\ a + 1 = k /\ a + n = k + n - 1
  OBVIOUS
<1>5. SameFrom(r, a, s, a, n)
  <2>1. a + n <= Len(s) /\ a + n <= Len(r)
    BY <1>2, <1>3 DEF IsJoin
  <2>2. \A i \in 1 .. n : a + i \in 1 .. Len(s)
    BY <1>3, <1>4, <2>1
  <2> QED BY <1>2, <2>1, <2>2 DEF IsJoin, SameFrom
<1> HIDE DEF a
<1>6. r \in Seq(Byte)
  BY <1>2 DEF IsJoin
<1>7. CutBehind(r, a, n) = CutBehind(s, a, n)
  BY <1>4, <1>5, <1>6, SameCut
<1> QED BY <1>4, <1>7 DEF CutBehind, r

\* Nor does it matter to an item what else there is, unless it is a string.
LEMMA DefiniteStays ==
  ASSUME NEW s, NEW z, NEW k, NEW o, NEW w, z[k] = s[k], ArgumentAt(z, k) = ArgumentAt(s, k),
         BodyAt(z, k) = BodyAt(s, k), MajorType(s[k]) \in {0, 1, 4, 5, 6, 7}
  PROVE  DefiniteItem(z, At(k, o, w)) = DefiniteItem(s, At(k, o, w))
<1>1. MajorType(z[k]) = MajorType(s[k]) /\ AI(z[k]) = AI(s[k])
  OBVIOUS
<1>2. CASE MajorType(s[k]) = 0
  BY <1>1, <1>2, DefiniteIs
<1>3. CASE MajorType(s[k]) = 1
  BY <1>1, <1>3, DefiniteIs
<1>4. CASE MajorType(s[k]) = 4
  BY <1>1, <1>4, DefiniteIs
<1>5. CASE MajorType(s[k]) = 5
  BY <1>1, <1>5, DefiniteIs
<1>6. CASE MajorType(s[k]) = 6
  BY <1>1, <1>6, DefiniteIs
<1>7. CASE MajorType(s[k]) = 7
  BY <1>1, <1>7, DefiniteIs
<1> QED BY <1>2, <1>3, <1>4, <1>5, <1>6, <1>7

\* Nor to a string, if it is there.
LEMMA StringStays ==
  ASSUME NEW s, NEW x, NEW k, NEW o, NEW w, HeadAt(s, k), s \in Seq(Byte), x \in Seq(Byte),
         k \in Nat \ {0}, MajorType(s[k]) \in {2, 3}, DefiniteItem(s, At(k, o, w)) # At(k, o, w)
  PROVE  DefiniteItem(s \o x, At(k, o, w)) = DefiniteItem(s, At(k, o, w))
<1> DEFINE z == s \o x
           type == MajorType(s[k])
           body == BodyAt(s, k)
           n == Count(ArgumentAt(s, k))
<1>1. /\ HeadAt(z, k) /\ z[k] = s[k] /\ ArgumentAt(z, k) = ArgumentAt(s, k)
      /\ BodyAt(z, k) = body /\ Len(s) <= Len(z)
  BY HeadStays
<1>2. n \in Nat /\ body \in Nat \ {0} /\ body <= Len(s) + 1
  BY ArgumentType, HeadAtIs
<1>3. Len(s) \in Nat /\ Len(z) \in Nat
  BY Joined, LenProperties
<1>4. DefiniteItem(s, At(k, o, w)) =
        IF body + n - 1 > Len(s) THEN At(k, o, w)
        ELSE With(At(body + n, o, w), StrOf(type, SubSeq(s, body, body + n - 1)))
  BY DefiniteIs
<1>5. MajorType(z[k]) = type /\ Count(ArgumentAt(z, k)) = n
  BY <1>1
<1> HIDE DEF z, type, body, n
<1>6. DefiniteItem(z, At(k, o, w)) =
        IF body + n - 1 > Len(z) THEN At(k, o, w)
        ELSE With(At(body + n, o, w), StrOf(type, SubSeq(z, body, body + n - 1)))
  <2>1. type \in {2, 3}
    BY DEF type
  <2> QED BY <1>1, <1>5, <2>1, DefiniteIs
<1>7. ~ (body + n - 1 > Len(s))
  BY <1>4
<1>8. ~ (body + n - 1 > Len(z)) /\ body + n - 1 <= Len(s)
  BY <1>1, <1>2, <1>3, <1>7
<1>9. SubSeq(z, body, body + n - 1) = SubSeq(s, body, body + n - 1)
  BY <1>2, <1>8, CutStays DEF z
<1>10. DefiniteItem(z, At(k, o, w)) = DefiniteItem(s, At(k, o, w))
  BY <1>4, <1>6, <1>7, <1>8, <1>9
<1> QED BY <1>10 DEF z

\* A turn that is made is the same when bytes are appended.
LEMMA TurnMore ==
  ASSUME NEW s, NEW x, NEW r, IsReading(r), s \in Seq(Byte), x \in Seq(Byte), Turn(s, r) # r
  PROVE  Turn(s \o x, r) = Turn(s, r)
<1> DEFINE z == s \o x
           k == r.at
           o == r.open
           w == r.items
<1>1. r = At(k, o, w) /\ k \in Nat \ {0}
  BY DEF IsReading
<1>2. CASE ~Waiting(o)
  BY <1>2, TurnIs
<1>3. CASE Waiting(o)
  <2>1. HeadAt(s, k)
    BY <1>3, TurnIs
  <2>2. /\ HeadAt(z, k) /\ z[k] = s[k] /\ ArgumentAt(z, k) = ArgumentAt(s, k)
        /\ BodyAt(z, k) = BodyAt(s, k)
    <3>1. s \in Seq(Byte) /\ x \in Seq(Byte) /\ k \in Nat \ {0} /\ HeadAt(s, k)
      BY <1>1, <2>1
    <3> HIDE DEF k, o, w
    <3> QED BY <3>1, HeadStays
  <2> HIDE DEF z
  <2>3. /\ Turn(s, r) = IF AI(s[k]) < 28 THEN DefiniteItem(s, r)
                        ELSE IF AI(s[k]) = AI_INDEF THEN IndefiniteItem(s, r) ELSE r
        /\ Turn(z, r) = IF AI(s[k]) < 28 THEN DefiniteItem(z, r)
                        ELSE IF AI(s[k]) = AI_INDEF THEN IndefiniteItem(z, r) ELSE r
    <3>1. Waiting(r.open) /\ HeadAt(s, r.at) /\ HeadAt(z, r.at) /\ z[r.at] = s[r.at]
      BY <1>3, <2>1, <2>2
    <3> QED BY <3>1, TurnIs
  <2>4. CASE AI(s[k]) < 28
    <3>1. DefiniteItem(s, At(k, o, w)) # At(k, o, w)
      BY <1>1, <2>3, <2>4
    <3>2. MajorType(s[k]) \in 0 .. 7
      <4>1. s[k] \in Byte
        BY <1>1, <2>1, HeadAtIs, ElementOfSeq
      <4> QED BY <4>1, ByteParts
    <3>3. CASE MajorType(s[k]) \in {2, 3}
      <4>1. DefiniteItem(z, At(k, o, w)) = DefiniteItem(s, At(k, o, w))
        BY <1>1, <2>1, <3>1, <3>3, StringStays DEF z
      <4> QED BY <1>1, <2>3, <2>4, <4>1 DEF z
    <3>4. CASE MajorType(s[k]) \notin {2, 3}
      <4>1. MajorType(s[k]) \in {0, 1, 4, 5, 6, 7}
        BY <3>2, <3>4
      <4>2. DefiniteItem(z, At(k, o, w)) = DefiniteItem(s, At(k, o, w))
        BY <2>2, <4>1, DefiniteStays
      <4> QED BY <1>1, <2>3, <2>4, <4>2 DEF z
    <3> QED BY <3>3, <3>4
  <2>5. CASE ~(AI(s[k]) < 28)
    <3>1. IndefiniteItem(z, r) = IndefiniteItem(s, r)
      BY <2>2 DEF IndefiniteItem
    <3> QED BY <2>3, <2>5, <3>1 DEF z
  <2> QED BY <2>4, <2>5
<1> QED BY <1>2, <1>3

-----------------------------------------------------------------------------
(* Where a reading comes *)

\* What has been read takes no more turns than it has bytes to begin and to end
\* containers.
InTime(s, r, i) == r.at <= Len(s) + 1 /\ i + Len(r.open) <= 2 * (r.at - 1)

\* The next item is a map whose head has eight bytes.
LongMap(s, r) == Waiting(r.open) /\ HeadAt(s, r.at) /\ s[r.at] = 187

\* The first n turns of a reading, none of which takes such a head.
IsRun(f, s, n) ==
  /\ n \in Nat /\ f[0] = Start
  /\ \A i \in 0 .. n : IsReading(f[i]) /\ InTime(s, f[i], i)
  /\ \A i \in 1 .. n : f[i] = Turn(s, f[i - 1]) /\ f[i] # f[i - 1] /\ ~LongMap(s, f[i - 1])

\* The reading of s comes to r, and past no map whose head has eight bytes.
Reaches(s, r) == \E f, n : IsRun(f, s, n) /\ f[n] = r

\* It starts at the first byte.
LEMMA ReachesStart ==
  ASSUME NEW s, s \in Seq(Byte)
  PROVE  Reaches(s, Start) /\ Start = At(1, <<>>, <<>>)
<1> DEFINE f == [i \in {0} |-> Start]
<1>1. f[0] = Start
  OBVIOUS
<1> HIDE DEF f
<1>2. Start = At(1, <<>>, <<>>)
  BY DEF Start, At
<1>3. IsReading(Start)
  <2>1. Start.at = 1 /\ Start.open = <<>> /\ Start.items = <<>>
    BY <1>2, AtIs
  <2>2. IsSeq(<<>>) /\ Len(<<>>) = 0
    BY EmptyIsSeq
  <2>3. AreContainers(<<>>)
    BY <2>2 DEF AreContainers
  <2>4. 1 \in Nat \ {0}
    OBVIOUS
  <2> QED BY <1>2, <2>1, <2>2, <2>3, <2>4 DEF IsReading
<1>4. InTime(s, Start, 0)
  <2>1. Start.at = 1 /\ Start.open = <<>>
    BY <1>2, AtIs
  <2> QED BY <2>1, LenProperties, EmptyIsSeq DEF InTime
<1>5. IsRun(f, s, 0)
  <2>1. \A i \in 0 .. 0 : i = 0
    OBVIOUS
  <2>2. \A i \in 1 .. 0 : FALSE
    OBVIOUS
  <2> QED BY <1>1, <1>3, <1>4, <2>1, <2>2 DEF IsRun
<1> QED BY <1>1, <1>2, <1>5 DEF Reaches

\* What it comes to is a reading.
LEMMA ReachedIs ==
  ASSUME NEW s, NEW r, Reaches(s, r)
  PROVE  IsReading(r) /\ r.at <= Len(s) + 1
<1>1. PICK f, n : IsRun(f, s, n) /\ f[n] = r
  BY DEF Reaches
<1>2. n \in 0 .. n
  BY <1>1 DEF IsRun
<1> QED BY <1>1, <1>2 DEF IsRun, InTime

\* It comes to what the next turn gives.
LEMMA ReachesOn ==
  ASSUME NEW s, NEW r, NEW q, Reaches(s, r), q = Turn(s, r), q # r, ~LongMap(s, r), IsReading(q),
         q.at <= Len(s) + 1, Len(q.open) - Len(r.open) + 1 <= 2 * (q.at - r.at), Len(s) \in Nat
  PROVE  Reaches(s, q)
<1>1. PICK f, n : IsRun(f, s, n) /\ f[n] = r
  BY DEF Reaches
<1>2. n \in Nat /\ IsReading(r) /\ InTime(s, r, n)
  <2>1. n \in Nat /\ n \in 0 .. n
    BY <1>1 DEF IsRun
  <2> QED BY <1>1, <2>1 DEF IsRun
<1> DEFINE m == n + 1
           g == [i \in 0 .. m |-> IF i <= n THEN f[i] ELSE q]
<1>3. (\A i \in 0 .. n : g[i] = f[i]) /\ g[m] = q
  <2>1. \A i \in 0 .. n : i \in 0 .. m /\ i <= n
    BY <1>2
  <2>2. m \in 0 .. m /\ ~(m <= n)
    BY <1>2
  <2> QED BY <2>1, <2>2
<1>4. m \in Nat /\ 0 \in 0 .. n /\ m - 1 = n /\ n \in 0 .. n
  BY <1>2
<1> HIDE DEF g
<1>5. InTime(s, q, m)
  <2>1. Len(r.open) \in Nat /\ Len(q.open) \in Nat /\ r.at \in Nat /\ q.at \in Nat
    BY <1>2, LengthOf DEF IsReading, AreContainers
  <2>2. n + Len(r.open) <= 2 * (r.at - 1) /\ n \in Nat
    BY <1>2 DEF InTime
  <2> DEFINE a == r.at
             b == q.at
             c == Len(r.open)
             d == Len(q.open)
  <2>3. n + c <= 2 * (a - 1) /\ d - c + 1 <= 2 * (b - a)
    BY <2>2
  <2>4. a \in Nat /\ b \in Nat /\ c \in Nat /\ d \in Nat
    BY <2>1
  <2> HIDE DEF a, b, c, d
  <2>5. n + 1 + d <= 2 * (b - 1)
    BY <2>2, <2>3, <2>4
  <2> QED BY <2>5 DEF InTime, b, d
<1>6. \A i \in 0 .. m : IsReading(g[i]) /\ InTime(s, g[i], i)
  <2> SUFFICES ASSUME NEW i \in 0 .. m PROVE IsReading(g[i]) /\ InTime(s, g[i], i)
    OBVIOUS
  <2>1. CASE i = m
    BY <1>3, <1>5, <2>1
  <2>2. CASE i # m
    <3>1. i \in 0 .. n
      BY <1>2, <2>2
    <3> QED BY <1>1, <1>3, <3>1 DEF IsRun
  <2> QED BY <2>1, <2>2
<1>7. \A i \in 1 .. m : g[i] = Turn(s, g[i - 1]) /\ g[i] # g[i - 1] /\ ~LongMap(s, g[i - 1])
  <2> SUFFICES ASSUME NEW i \in 1 .. m
               PROVE  g[i] = Turn(s, g[i - 1]) /\ g[i] # g[i - 1] /\ ~LongMap(s, g[i - 1])
    OBVIOUS
  <2>1. CASE i = m
    BY <1>1, <1>3, <1>4, <2>1
  <2>2. CASE i # m
    <3>1. i \in 1 .. n /\ i \in 0 .. n /\ i - 1 \in 0 .. n
      BY <1>2, <2>2
    <3>2. g[i] = f[i] /\ g[i - 1] = f[i - 1]
      BY <1>3, <3>1
    <3> QED BY <1>1, <3>1, <3>2 DEF IsRun
  <2> QED BY <2>1, <2>2
<1>8. g[0] = Start
  BY <1>1, <1>3, <1>4 DEF IsRun
<1> HIDE DEF m
<1>9. IsRun(g, s, m)
  BY <1>4, <1>6, <1>7, <1>8 DEF IsRun
<1> QED BY <1>3, <1>9 DEF Reaches

\* A map whose head has eight bytes does not come of more bytes.
LEMMA LongMapMore ==
  ASSUME NEW s, NEW x, NEW r, s \in Seq(Byte), x \in Seq(Byte), IsReading(r), Turn(s, r) # r,
         ~LongMap(s, r)
  PROVE  ~LongMap(s \o x, r)
<1> SUFFICES ASSUME Waiting(r.open) PROVE ~((s \o x)[r.at] = 187)
  BY DEF LongMap
<1>1. HeadAt(s, r.at)
  BY TurnIs
<1>2. (s \o x)[r.at] = s[r.at]
  BY <1>1, HeadStays DEF IsReading
<1> QED BY <1>1, <1>2 DEF LongMap

\* It comes as far if there are more bytes.
LEMMA ReachesMore ==
  ASSUME NEW s, NEW x, NEW r, s \in Seq(Byte), x \in Seq(Byte), Reaches(s, r)
  PROVE  Reaches(s \o x, r)
<1>1. PICK f, n : IsRun(f, s, n) /\ f[n] = r
  BY DEF Reaches
<1> DEFINE z == s \o x
<1>2. Len(s) \in Nat /\ Len(z) \in Nat /\ Len(s) <= Len(z)
  BY ConcatCut, LenProperties
<1> HIDE DEF z
<1>3. \A i \in 0 .. n : IsReading(f[i]) /\ InTime(z, f[i], i)
  <2> SUFFICES ASSUME NEW i \in 0 .. n PROVE IsReading(f[i]) /\ InTime(z, f[i], i)
    OBVIOUS
  <2>1. IsReading(f[i]) /\ InTime(s, f[i], i)
    BY <1>1 DEF IsRun
  <2>2. f[i].at \in Nat
    BY <2>1 DEF IsReading
  <2>3. f[i].at <= Len(z) + 1
    BY <1>2, <2>1, <2>2 DEF InTime
  <2> QED BY <2>1, <2>3 DEF InTime
<1>4. \A i \in 1 .. n : f[i] = Turn(z, f[i - 1]) /\ f[i] # f[i - 1] /\ ~LongMap(z, f[i - 1])
  <2> SUFFICES ASSUME NEW i \in 1 .. n
               PROVE  f[i] = Turn(z, f[i - 1]) /\ f[i] # f[i - 1] /\ ~LongMap(z, f[i - 1])
    OBVIOUS
  <2>1. f[i] = Turn(s, f[i - 1]) /\ f[i] # f[i - 1] /\ ~LongMap(s, f[i - 1]) /\ n \in Nat
    BY <1>1 DEF IsRun
  <2>2. i - 1 \in 0 .. n
    BY <2>1
  <2>3. IsReading(f[i - 1])
    BY <1>3, <2>2
  <2>4. Turn(z, f[i - 1]) = Turn(s, f[i - 1])
    BY <2>1, <2>3, TurnMore DEF z
  <2>5. ~LongMap(z, f[i - 1])
    BY <2>1, <2>3, LongMapMore DEF z
  <2> QED BY <2>1, <2>4, <2>5
<1>5. IsRun(f, z, n)
  BY <1>1, <1>3, <1>4 DEF IsRun
<1> QED BY <1>1, <1>5 DEF Reaches, z

\* The function that Reading takes the last value of, up to n.
IsReadingUpTo(f, s, n) == f = [i \in 0 .. n |-> IF i = 0 THEN Start ELSE Turn(s, f[i - 1])]

\* There is such a function.
LEMMA ReadingExists ==
  ASSUME NEW s, NEW n \in Nat
  PROVE  \E f : IsReadingUpTo(f, s, n)
<1> DEFINE T == {m \in Nat : ~ \E f : IsReadingUpTo(f, s, m)}
<1> SUFFICES ASSUME T # {} PROVE FALSE
  OBVIOUS
<1> DEFINE m == Min(T)
<1>1. m \in T /\ \A y \in T : m <= y
  <2>1. T \subseteq Nat
    OBVIOUS
  <2> HIDE DEF T
  <2> QED BY <2>1, MinOfNaturals
<1> HIDE DEF m
<1>2. m \in Nat /\ ~ \E f : IsReadingUpTo(f, s, m)
  BY <1>1
<1>3. CASE m = 0
  <2> DEFINE f == [i \in 0 .. 0 |-> Start]
  <2>1. IsReadingUpTo(f, s, 0)
    BY DEF IsReadingUpTo
  <2> QED BY <1>2, <1>3, <2>1
<1>4. CASE m # 0
  <2>1. m - 1 \in Nat /\ m - 1 \notin T
    BY <1>1, <1>2, <1>4
  <2>2. PICK f : IsReadingUpTo(f, s, m - 1)
    BY <2>1
  <2> DEFINE g == [i \in 0 .. m |-> IF i = 0 THEN Start ELSE Turn(s, f[i - 1])]
  <2>3. \A i \in 0 .. m - 1 : g[i] = f[i]
    <3> SUFFICES ASSUME NEW i \in 0 .. m - 1 PROVE g[i] = f[i]
      OBVIOUS
    <3>1. f[i] = IF i = 0 THEN Start ELSE Turn(s, f[i - 1])
      BY <2>2 DEF IsReadingUpTo
    <3>2. i \in 0 .. m
      BY <1>2
    <3> QED BY <3>1, <3>2
  <2>4. \A i \in 0 .. m : g[i] = IF i = 0 THEN Start ELSE Turn(s, g[i - 1])
    <3> SUFFICES ASSUME NEW i \in 0 .. m PROVE g[i] = IF i = 0 THEN Start ELSE Turn(s, g[i - 1])
      OBVIOUS
    <3>1. i # 0 => i - 1 \in 0 .. m - 1
      BY <1>2
    <3>2. i # 0 => g[i - 1] = f[i - 1]
      BY <2>3, <3>1, Zenon
    <3> QED BY <3>2
  <2>5. g = [i \in 0 .. m |-> g[i]]
    OBVIOUS
  <2> HIDE DEF g
  <2>6. g = [i \in 0 .. m |-> IF i = 0 THEN Start ELSE Turn(s, g[i - 1])]
    BY <2>4, <2>5
  <2> QED BY <1>2, <2>6 DEF IsReadingUpTo
<1> QED BY <1>3, <1>4

\* Reading is its last value.
LEMMA ReadingLast ==
  ASSUME NEW s, Len(s) \in Nat
  PROVE  \E f : IsReadingUpTo(f, s, 2 * Len(s)) /\ Reading(s) = f[2 * Len(s)]
<1> DEFINE f == CHOOSE f : IsReadingUpTo(f, s, 2 * Len(s))
<1>1. IsReadingUpTo(f, s, 2 * Len(s))
  BY ReadingExists
<1>2. Reading(s) = f[2 * Len(s)]
  BY DEF Reading, IsReadingUpTo
<1> QED BY <1>1, <1>2

\* What a reading comes to, and has no turn from, is the reading.
LEMMA ReadingIs ==
  ASSUME NEW s, NEW r, s \in Seq(Byte), Reaches(s, r), Turn(s, r) = r
  PROVE  Reading(s) = r
<1>1. PICK f, n : IsRun(f, s, n) /\ f[n] = r
  BY DEF Reaches
<1> DEFINE m == 2 * Len(s)
<1>2. Len(s) \in Nat /\ m \in Nat
  BY LenProperties
<1>3. PICK g : IsReadingUpTo(g, s, m) /\ Reading(s) = g[m]
  BY <1>2, ReadingLast
<1>4. \A i \in 0 .. m : g[i] = IF i = 0 THEN Start ELSE Turn(s, g[i - 1])
  BY <1>3 DEF IsReadingUpTo
<1>5. n \in Nat /\ n <= m
  <2>1. n \in Nat /\ n \in 0 .. n
    BY <1>1 DEF IsRun
  <2>2. IsReading(r) /\ InTime(s, r, n)
    BY <1>1, <2>1 DEF IsRun
  <2>3. r.at \in Nat /\ Len(r.open) \in Nat
    BY <2>2, LengthOf DEF IsReading, AreContainers
  <2> QED BY <1>2, <2>1, <2>2, <2>3 DEF InTime
<1> HIDE DEF m
<1> DEFINE Right(i) == IF i <= n THEN g[i] = f[i] ELSE g[i] = r
           T == {i \in 0 .. m : ~Right(i)}
           j == Min(T)
<1>6. T = {}
  <2> SUFFICES ASSUME T # {} PROVE FALSE
    OBVIOUS
  <2>1. j \in T /\ \A y \in T : j <= y
    <3>1. T \subseteq Nat
      OBVIOUS
    <3> HIDE DEF T
    <3> QED BY <3>1, MinOfNaturals
  <2> HIDE DEF j
  <2>2. j \in 0 .. m /\ ~Right(j)
    BY <2>1
  <2>3. CASE j = 0
    <3>1. g[j] = Start /\ f[j] = Start /\ j <= n
      BY <1>1, <1>4, <1>5, <2>2, <2>3 DEF IsRun
    <3> QED BY <2>2, <3>1
  <2>4. CASE j # 0
    <3>1. j - 1 \in 0 .. m /\ ~ (j <= j - 1)
      BY <1>2, <2>2, <2>4
    <3>2. Right(j - 1)
      BY <2>1, <3>1
    <3>3. g[j] = Turn(s, g[j - 1])
      BY <1>4, <2>2, <2>4
    <3>4. CASE j <= n
      <4>1. j \in 1 .. n /\ j - 1 <= n
        BY <1>5, <2>2, <2>4, <3>4
      <4>2. f[j] = Turn(s, f[j - 1])
        BY <1>1, <4>1 DEF IsRun
      <4> QED BY <2>2, <3>2, <3>3, <3>4, <4>1, <4>2
    <3>5. CASE ~(j <= n)
      <4>1. g[j - 1] = r
        <5>1. CASE j - 1 <= n
          <6>1. j - 1 = n
            BY <1>5, <2>2, <3>5, <5>1
          <6> QED BY <1>1, <3>2, <5>1, <6>1
        <5>2. CASE ~(j - 1 <= n)
          BY <3>2, <5>2
        <5> QED BY <5>1, <5>2
      <4> QED BY <2>2, <3>3, <3>5, <4>1
    <3> QED BY <3>4, <3>5
  <2> QED BY <2>3, <2>4
<1>7. Right(m)
  <2>1. m \in 0 .. m
    BY <1>2 DEF m
  <2> QED BY <1>6, <2>1
<1>8. g[m] = r
  <2>1. CASE m <= n
    <3>1. m = n
      BY <1>2, <1>5, <2>1
    <3> QED BY <1>1, <1>7, <2>1, <3>1
  <2>2. CASE ~(m <= n)
    BY <1>7, <2>2
  <2> QED BY <2>1, <2>2
<1> QED BY <1>3, <1>8

-----------------------------------------------------------------------------
(* Items appended to what has been read *)

\* All bytes of s have been read, and an object may come.
Ready(s, o, w) == s \in Seq(Byte) /\ Reaches(s, At(Len(s) + 1, o, w)) /\ Waiting(o)

\* What a reading consists of.
LEMMA ReadyIs ==
  ASSUME NEW s, NEW k, NEW o, NEW w, Reaches(s, At(k, o, w))
  PROVE  AreContainers(o) /\ IsSeq(w) /\ k \in Nat \ {0} /\ Len(o) \in Nat
<1> DEFINE r == At(k, o, w)
<1>1. IsReading(r)
  BY ReachedIs
<1>2. r.at = k /\ r.open = o /\ r.items = w
  BY AtIs
<1> HIDE DEF r
<1>3. AreContainers(o) /\ IsSeq(w) /\ k \in Nat \ {0}
  BY <1>1, <1>2 DEF IsReading
<1>4. Len(o) \in Nat
  BY <1>3, LengthOf DEF AreContainers
<1> QED BY <1>3, <1>4

\* x begins with a head.
HeadFirst(x) == x \in Seq(Byte) /\ x # <<>> /\ 1 + ArgWidth(x[1]) <= Len(x) /\ AI(x[1]) < 28

\* The bytes z are s and then x, which begins at k.
HeadLies(s, x, z, k) ==
  /\ z \in Seq(Byte) /\ Len(z) = Len(s) + Len(x) /\ Len(s) \in Nat /\ Len(x) \in Nat /\ Len(z) \in Nat
  /\ HeadAt(z, k) /\ z[k] = x[1] /\ ArgumentAt(z, k) = ArgumentAt(x, 1)
  /\ BodyAt(z, k) = Len(s) + BodyAt(x, 1) /\ ArgWidth(x[1]) \in Nat

\* It is the next that is read.
LEMMA NextHeadIs ==
  ASSUME NEW s, NEW x, s \in Seq(Byte), HeadFirst(x)
  PROVE  HeadLies(s, x, s \o x, Len(s) + 1)
<1> DEFINE z == s \o x
           k == Len(s) + 1
<1>1. IsJoin(s, x, z)
  BY JoinedIs DEF HeadFirst
<1>2. Len(s) \in Nat /\ Len(x) \in Nat /\ ArgWidth(x[1]) \in Nat
  BY LenProperties, WidthAt DEF HeadFirst
<1>3. z[k] = x[1] /\ ArgAt(z, k) = ArgAt(x, 1)
  BY HeadBehind DEF SameAt, HeadFirst
<1>4. z \in Seq(Byte) /\ Len(z) = Len(s) + Len(x) /\ Len(z) \in Nat
  BY <1>1, <1>2 DEF IsJoin
<1> HIDE DEF z
<1>5. k <= Len(z) /\ k + ArgWidth(z[k]) <= Len(z)
  BY <1>2, <1>3, <1>4 DEF HeadFirst
<1>6. HeadAt(z, k)
  BY <1>5 DEF HeadAt
<1>7. ArgumentAt(z, k) = ArgumentAt(x, 1) /\ BodyAt(z, k) = Len(s) + BodyAt(x, 1)
  BY <1>2, <1>3 DEF ArgumentAt, BodyAt
<1> HIDE DEF k
<1>8. HeadLies(s, x, z, k)
  BY <1>2, <1>3, <1>4, <1>6, <1>7 DEF HeadLies
<1> QED BY <1>8 DEF z, k

\* The turn that takes it.
LEMMA ReadsItem ==
  ASSUME NEW s, NEW x, NEW o, NEW w, Ready(s, o, w), HeadFirst(x),
         x[1] # 187, NEW q, q = DefiniteItem(s \o x, At(Len(s) + 1, o, w)), IsReading(q),
         q.at = Len(s \o x) + 1, Len(q.open) <= Len(o) + 1
  PROVE  Reaches(s \o x, q)
<1> DEFINE z == s \o x
           k == Len(s) + 1
           r == At(k, o, w)
<1>1. /\ z \in Seq(Byte) /\ Len(z) = Len(s) + Len(x) /\ Len(s) \in Nat /\ Len(x) \in Nat
      /\ Len(z) \in Nat /\ HeadAt(z, k) /\ z[k] = x[1] /\ ArgWidth(x[1]) \in Nat
  <2>1. HeadLies(s, x, z, k)
    BY NextHeadIs DEF Ready
  <2> HIDE DEF z, k, r
  <2> QED BY <2>1 DEF HeadLies
<1>2. Reaches(z, r)
  BY ReachesMore DEF Ready, HeadFirst
<1> HIDE DEF z
<1>3. r.at = k /\ r.open = o
  BY AtIs
<1> HIDE DEF r
<1>4. Turn(z, r) = q
  <2>1. Waiting(r.open) /\ HeadAt(z, r.at) /\ AI(z[r.at]) < 28
    BY <1>1, <1>3 DEF Ready, HeadFirst
  <2>2. Turn(z, r) = DefiniteItem(z, r)
    BY <2>1, TurnIs
  <2> QED BY <2>2 DEF z, r
<1>5. Len(x) > 0
  BY <1>1 DEF HeadFirst
<1>6. q # r
  BY <1>1, <1>3, <1>5 DEF z
<1>7. Len(q.open) - Len(r.open) + 1 <= 2 * (q.at - r.at)
  <2>1. Len(o) \in Nat /\ Len(q.open) \in Nat
    <3>1. Len(q.open) \in Nat
      BY LengthOf DEF IsReading, AreContainers
    <3>2. Len(o) \in Nat
      BY ReadyIs DEF Ready
    <3> QED BY <3>1, <3>2
  <2> DEFINE c == Len(q.open)
             d == Len(o)
             n == Len(x)
             a == q.at
  <2>2. a = k + n
    BY <1>1 DEF z
  <2>3. c <= d + 1 /\ c \in Nat /\ d \in Nat /\ n \in Nat /\ n > 0 /\ k \in Nat
    BY <1>1, <1>5, <2>1
  <2> HIDE DEF c, d, n, a, k
  <2>4. c - d + 1 <= 2 * (a - k)
    BY <2>2, <2>3
  <2> QED BY <1>3, <2>4 DEF c, d, a
<1>8. q.at <= Len(z) + 1
  <2>1. q.at = Len(z) + 1
    BY DEF z
  <2> QED BY <1>1, <2>1
<1>9. ~LongMap(z, r)
  BY <1>1, <1>3 DEF LongMap
<1> HIDE DEF k
<1>10. Reaches(z, q)
  BY <1>1, <1>2, <1>4, <1>6, <1>7, <1>8, <1>9, ReachesOn
<1> QED BY <1>10 DEF z

\* The major type of 187 is that of maps.
LEMMA LongMapHead == MajorType(187) = 5 /\ AI(187) = 27
BY DEF MajorType, AI

\* An integer, a float, or a simple value.
LEMMA ReadsScalar ==
  ASSUME NEW s, NEW x, NEW o, NEW w, Ready(s, o, w), HeadFirst(x), Len(x) = 1 + ArgWidth(x[1]),
         NEW v, MajorType(x[1]) \in {0, 1, 7},
         MajorType(x[1]) = 0 => v = Plus(ArgumentAt(x, 1)),
         MajorType(x[1]) = 1 => v = Minus(ArgumentAt(x, 1)),
         MajorType(x[1]) = 7 => v = SimpleValue(AI(x[1]), ArgumentAt(x, 1))
  PROVE  Reaches(s \o x, With(At(Len(s \o x) + 1, o, w), v))
<1> DEFINE z == s \o x
           k == Len(s) + 1
           q == With(At(Len(z) + 1, o, w), v)
           body == BodyAt(z, k)
<1>1. /\ z \in Seq(Byte) /\ Len(z) = Len(s) + Len(x) /\ Len(s) \in Nat /\ Len(x) \in Nat
      /\ z[k] = x[1] /\ ArgumentAt(z, k) = ArgumentAt(x, 1)
      /\ body = Len(s) + BodyAt(x, 1) /\ ArgWidth(x[1]) \in Nat
  <2>1. HeadLies(s, x, z, k)
    BY NextHeadIs DEF Ready
  <2> HIDE DEF z, k, q, body
  <2> QED BY <2>1 DEF HeadLies, body
<1>2. body = Len(z) + 1
  BY <1>1 DEF BodyAt
<1> HIDE DEF z
<1>3. q = DefiniteItem(z, At(k, o, w))
  <2>1. MajorType(z[k]) = MajorType(x[1]) /\ AI(z[k]) = AI(x[1])
    BY <1>1
  <2> HIDE DEF k, q, body
  <2>2. /\ MajorType(z[k]) = 0 => DefiniteItem(z, At(k, o, w)) = With(At(body, o, w), Plus(ArgumentAt(z, k)))
        /\ MajorType(z[k]) = 1 => DefiniteItem(z, At(k, o, w)) = With(At(body, o, w), Minus(ArgumentAt(z, k)))
        /\ MajorType(z[k]) = 7 =>
             DefiniteItem(z, At(k, o, w)) = With(At(body, o, w), SimpleValue(AI(z[k]), ArgumentAt(z, k)))
    BY DefiniteIs DEF body
  <2>3. DefiniteItem(z, At(k, o, w)) = With(At(body, o, w), v)
    BY <1>1, <2>1, <2>2
  <2> QED BY <1>2, <2>3 DEF q
<1>4. IsReading(q) /\ q.at = Len(z) + 1 /\ Len(q.open) = Len(o)
  <2>1. AreContainers(o) /\ IsSeq(w)
    BY ReadyIs DEF Ready
  <2>2. Len(z) + 1 \in Nat \ {0}
    BY <1>1
  <2> QED BY <2>1, <2>2, WithType
<1>5. Len(q.open) <= Len(o) + 1
  <2>1. Len(o) \in Nat
    BY ReadyIs DEF Ready
  <2> QED BY <1>4, <2>1
<1> HIDE DEF q
<1>6. x[1] # 187
  BY LongMapHead
<1>7. Reaches(z, q)
  BY <1>3, <1>4, <1>5, <1>6, ReadsItem DEF z
<1> QED BY <1>7 DEF z, q

\* The head of a container.
LEMMA ReadsHead ==
  ASSUME NEW s, NEW x, NEW o, NEW w, Ready(s, o, w), HeadFirst(x), Len(x) = 1 + ArgWidth(x[1]),
         NEW c, MajorType(x[1]) \in {4, 5, 6}, x[1] # 187,
         MajorType(x[1]) = 4 => c = Container(4, Count(ArgumentAt(x, 1)), 0),
         MajorType(x[1]) = 5 => c = Container(5, 2 * Count(ArgumentAt(x, 1)), 0),
         MajorType(x[1]) = 6 => c = Container(6, 1, Count(ArgumentAt(x, 1)))
  PROVE  Reaches(s \o x, At(Len(s \o x) + 1, Append(o, c), w))
<1> DEFINE z == s \o x
           k == Len(s) + 1
           q == Enters(At(Len(z) + 1, o, w), c)
           body == BodyAt(z, k)
<1>1. /\ z \in Seq(Byte) /\ Len(z) = Len(s) + Len(x) /\ Len(s) \in Nat /\ Len(x) \in Nat
      /\ z[k] = x[1] /\ ArgumentAt(z, k) = ArgumentAt(x, 1)
      /\ body = Len(s) + BodyAt(x, 1) /\ ArgWidth(x[1]) \in Nat
  <2>1. HeadLies(s, x, z, k)
    BY NextHeadIs DEF Ready
  <2> HIDE DEF z, k, q, body
  <2> QED BY <2>1 DEF HeadLies, body
<1>2. body = Len(z) + 1
  BY <1>1 DEF BodyAt
<1> HIDE DEF z
<1>3. q = DefiniteItem(z, At(k, o, w))
  <2>1. MajorType(z[k]) = MajorType(x[1])
    BY <1>1
  <2> HIDE DEF k, q, body
  <2>2. /\ MajorType(z[k]) = 4 =>
             DefiniteItem(z, At(k, o, w)) = Enters(At(body, o, w), Container(4, Count(ArgumentAt(z, k)), 0))
        /\ MajorType(z[k]) = 5 =>
             DefiniteItem(z, At(k, o, w)) = Enters(At(body, o, w), Container(5, 2 * Count(ArgumentAt(z, k)), 0))
        /\ MajorType(z[k]) = 6 =>
             DefiniteItem(z, At(k, o, w)) = Enters(At(body, o, w), Container(6, 1, Count(ArgumentAt(z, k))))
    BY DefiniteIs DEF body
  <2>3. DefiniteItem(z, At(k, o, w)) = Enters(At(body, o, w), c)
    BY <1>1, <2>1, <2>2
  <2> QED BY <1>2, <2>3 DEF q
<1>4. IsContainer(c)
  <2>1. \A type, need, tag : IsContainer(Container(type, need, tag))
    BY EmptyIsSeq DEF Container, IsContainer
  <2> QED BY <2>1
<1>5. /\ IsReading(q) /\ q = At(Len(z) + 1, Append(o, c), w) /\ q.at = Len(z) + 1
      /\ Len(q.open) = Len(o) + 1
  <2>1. AreContainers(o) /\ IsSeq(w)
    BY ReadyIs DEF Ready
  <2>2. Len(z) + 1 \in Nat \ {0}
    BY <1>1
  <2> QED BY <1>4, <2>1, <2>2, EntersType
<1>6. Len(q.open) <= Len(o) + 1
  <2>1. Len(o) \in Nat
    BY ReadyIs DEF Ready
  <2> QED BY <1>5, <2>1
<1> HIDE DEF q
<1>7. Reaches(z, q)
  BY <1>3, <1>5, <1>6, ReadsItem DEF z
<1> QED BY <1>5, <1>7 DEF z

\* A string: its head, and its bytes behind it.
LEMMA ReadsString ==
  ASSUME NEW s, NEW h, NEW b, NEW o, NEW w, Ready(s, o, w), HeadFirst(h), Len(h) = 1 + ArgWidth(h[1]),
         b \in Seq(Byte), Count(ArgumentAt(h, 1)) = Len(b), MajorType(h[1]) \in {2, 3}
  PROVE  LET z == s \o (h \o b)
         IN  Reaches(z, With(At(Len(z) + 1, o, w), StrOf(MajorType(h[1]), b)))
<1> DEFINE x == h \o b
           z == s \o x
           k == Len(s) + 1
           n == Len(b)
           v == StrOf(MajorType(h[1]), b)
           q == With(At(Len(z) + 1, o, w), v)
           body == BodyAt(z, k)
<1>0. h \in Seq(Byte) /\ h # <<>> /\ Len(h) \in Nat /\ n \in Nat /\ ArgWidth(h[1]) \in Nat
  BY LenProperties, WidthAt DEF HeadFirst
<1>1. IsJoin(h, b, x)
  BY <1>0, JoinedIs
<1> HIDE DEF x
<1>2. x[1] = h[1] /\ Len(x) = Len(h) + n /\ x \in Seq(Byte)
  BY <1>0, <1>1 DEF IsJoin
<1>3. ArgAt(x, 1) = ArgAt(h, 1)
  <2>1. 1 \in 1 .. Len(h) /\ 1 + ArgWidth(h[1]) <= Len(h)
    BY <1>0
  <2> QED BY <1>0, <2>1, HeadBefore DEF SameAt, x
<1>4. HeadFirst(x)
  <2>1. x # <<>>
    BY <1>0, <1>2, EmptySeq
  <2>2. 1 + ArgWidth(x[1]) <= Len(x)
    BY <1>0, <1>2
  <2> QED BY <1>2, <2>1, <2>2 DEF HeadFirst
<1>5. ArgumentAt(x, 1) = ArgumentAt(h, 1) /\ BodyAt(x, 1) = Len(h) + 1
  BY <1>0, <1>2, <1>3 DEF ArgumentAt, BodyAt
<1>6. /\ z \in Seq(Byte) /\ Len(z) = Len(s) + Len(x) /\ Len(s) \in Nat
      /\ z[k] = x[1] /\ ArgumentAt(z, k) = ArgumentAt(x, 1)
      /\ body = Len(s) + BodyAt(x, 1)
  <2>1. HeadLies(s, x, z, k)
    BY <1>4, NextHeadIs DEF Ready
  <2> HIDE DEF z, k, q, body
  <2> QED BY <2>1 DEF HeadLies, body
<1>7. body + n = Len(z) + 1 /\ body + n - 1 = Len(z) /\ body = Len(s) + Len(h) + 1
  <2>1. /\ Len(z) = Len(s) + (Len(h) + n) /\ body = Len(s) + (Len(h) + 1)
        /\ Len(s) \in Nat /\ Len(h) \in Nat /\ n \in Nat
    BY <1>0, <1>2, <1>5, <1>6
  <2> HIDE DEF z, n, body
  <2> QED BY <2>1
<1>8. SubSeq(z, body, Len(z)) = b
  <2> DEFINE a == s \o h
  <2>1. s \in Seq(Byte)
    BY DEF Ready
  <2>2. a \in Seq(Byte) /\ Len(a) = Len(s) + Len(h)
    BY <1>0, <2>1, RowType DEF Row
  <2>3. z = a \o b
    BY <1>0, <2>1, RowAssociative DEF Row, x
  <2> HIDE DEF a, z
  <2>4. SubSeq(a \o b, Len(a) + 1, Len(a \o b)) = b
    BY ONLY <2>2, b \in Seq(Byte), ConcatCut
  <2> QED BY <1>7, <2>2, <2>3, <2>4
<1> HIDE DEF z
<1>9. q = DefiniteItem(z, At(k, o, w))
  <2>1. MajorType(z[k]) = MajorType(h[1]) /\ Count(ArgumentAt(z, k)) = n
    BY <1>2, <1>5, <1>6
  <2> HIDE DEF k, q, body, n, v
  <2>2. DefiniteItem(z, At(k, o, w)) =
          IF body + n - 1 > Len(z) THEN At(k, o, w)
          ELSE With(At(body + n, o, w), StrOf(MajorType(h[1]), SubSeq(z, body, body + n - 1)))
    BY <2>1, DefiniteIs DEF body
  <2>3. ~(Len(z) > Len(z))
    BY <1>0, <1>2, <1>6
  <2>4. DefiniteItem(z, At(k, o, w)) = With(At(Len(z) + 1, o, w), StrOf(MajorType(h[1]), b))
    BY <1>7, <1>8, <2>2, <2>3
  <2> QED BY <2>4 DEF q, v
<1>10. IsReading(q) /\ q.at = Len(z) + 1 /\ Len(q.open) = Len(o)
  <2>1. AreContainers(o) /\ IsSeq(w)
    BY ReadyIs DEF Ready
  <2>2. Len(z) + 1 \in Nat \ {0}
    <3>1. Len(z) \in Nat
      BY <1>6, LenProperties
    <3> QED BY <3>1
  <2> QED BY <2>1, <2>2, WithType
<1>11. Len(q.open) <= Len(o) + 1
  <2>1. Len(o) \in Nat
    BY ReadyIs DEF Ready
  <2> QED BY <1>10, <2>1
<1> HIDE DEF q
<1>12. x[1] # 187
  BY <1>2, LongMapHead
<1>13. Reaches(z, q)
  BY <1>4, <1>9, <1>10, <1>11, <1>12, ReadsItem DEF z
<1> QED BY <1>13 DEF z, q, v, x

\* A container that is full gives its object, without any byte.
LEMMA ReadsEnd ==
  ASSUME NEW s, NEW k, NEW o, NEW w, s \in Seq(Byte), Reaches(s, At(k, o, w)), ~Waiting(o)
  PROVE  Reaches(s, With(At(k, Front(o), w), ObjectOf(Last(o))))
<1> DEFINE r == At(k, o, w)
           q == Closes(r)
<1>1. AreContainers(o) /\ IsSeq(w) /\ k \in Nat \ {0} /\ Len(o) \in Nat
  BY ReadyIs
<1>2. o # <<>>
  BY DEF Waiting
<1>3. /\ IsReading(q) /\ q.at = k /\ Len(q.open) = Len(o) - 1
      /\ q = With(At(k, Front(o), w), ObjectOf(Last(o)))
  BY <1>1, <1>2, ClosesType
<1>4. r.at = k /\ r.open = o
  BY AtIs
<1>5. Len(s) \in Nat /\ r.at <= Len(s) + 1
  BY LenProperties, ReachedIs
<1> HIDE DEF q, r
<1>6. q = Turn(s, r)
  BY <1>4, TurnIs DEF q
<1>7. q # r
  BY <1>1, <1>3, <1>4
<1>8. Len(q.open) - Len(r.open) + 1 <= 2 * (q.at - r.at)
  <2>1. Len(q.open) = Len(o) - 1 /\ Len(r.open) = Len(o) /\ q.at = k /\ r.at = k
    BY <1>3, <1>4
  <2>2. Len(o) - 1 - Len(o) + 1 <= 2 * (k - k)
    BY <1>1
  <2> QED BY <2>1, <2>2
<1>9. q.at <= Len(s) + 1
  BY <1>3, <1>4, <1>5
<1>10. Reaches(s, r)
  BY DEF r
<1>11. ~LongMap(s, r)
  BY <1>4 DEF LongMap
<1>12. Reaches(s, q)
  BY <1>3, <1>5, <1>6, <1>7, <1>8, <1>9, <1>10, <1>11, ReachesOn
<1> QED BY <1>3, <1>12

\* There is no more to read.
LEMMA ReadsAll ==
  ASSUME NEW s, NEW o, NEW w, Ready(s, o, w)
  PROVE  Reading(s) = At(Len(s) + 1, o, w)
<1> DEFINE r == At(Len(s) + 1, o, w)
<1>1. r.at = Len(s) + 1 /\ r.open = o
  BY AtIs
<1>2. s \in Seq(Byte) /\ Len(s) \in Nat /\ Reaches(s, r) /\ Waiting(o)
  BY LenProperties DEF Ready
<1> HIDE DEF r
<1>3. ~(r.at <= Len(s))
  BY <1>1, <1>2
<1>4. ~HeadAt(s, r.at)
  BY <1>3 DEF HeadAt
<1>5. Turn(s, r) = r
  BY <1>1, <1>2, <1>4, TurnIs
<1>6. Reading(s) = r
  BY <1>2, <1>5, ReadingIs
<1> QED BY <1>6 DEF r

-----------------------------------------------------------------------------
(* Two places of one reading *)

\* The cases of a container without an end, and of the end of one.
LEMMA IndefiniteIs ==
  ASSUME NEW s, NEW k, NEW o, NEW w
  PROVE  LET type == MajorType(s[k])
             d == IndefiniteItem(s, At(k, o, w))
         IN /\ type \in {2, 3, 4, 5} => d = Enters(At(k + 1, o, w), Container(type, Endless, 0))
            /\ type \notin {2, 3, 4, 5} =>
                 d = IF type = 7 /\ o # <<>> /\ MayBreak(Last(o)) THEN Closes(At(k + 1, o, w))
                     ELSE At(k, o, w)
<1> DEFINE r == At(k, o, w)
<1>1. r.at = k /\ r.open = o /\ r.items = w
  BY AtIs
<1>2. [r EXCEPT !.at = k + 1] = At(k + 1, o, w)
  BY DEF At
<1>3. [r EXCEPT !.at = r.at + 1] = At(k + 1, o, w)
  BY <1>1, <1>2
<1> HIDE DEF r
<1>4. CASE MajorType(s[k]) \in {2, 3, 4, 5}
  BY <1>1, <1>3, <1>4 DEF IndefiniteItem, ByteString, TextString, ArrayType, MapType, r
<1>5. CASE MajorType(s[k]) \notin {2, 3, 4, 5}
  BY <1>1, <1>3, <1>5 DEF IndefiniteItem, ByteString, TextString, ArrayType, MapType, Prim, r
<1> QED BY <1>4, <1>5

\* A turn goes on, and gives an item more or leaves a container open.
Advances(r, q) ==
  /\ q.at >= r.at
  /\ (\E v : q.items = Append(r.items, v)) \/ (q.items = r.items /\ q.open # <<>>)

\* In parts.
LEMMA AtAdvances ==
  ASSUME NEW k, NEW o, NEW x, NEW r, k >= r.at,
         (\E v : x = Append(r.items, v)) \/ (x = r.items /\ o # <<>>)
  PROVE  Advances(r, At(k, o, x))
<1> DEFINE q == At(k, o, x)
<1>1. q.at = k /\ q.open = o /\ q.items = x
  BY AtIs
<1> HIDE DEF q
<1>2. CASE \E v : x = Append(r.items, v)
  <2>1. PICK v : x = Append(r.items, v)
    BY <1>2
  <2>2. \E u : q.items = Append(r.items, u)
    BY <1>1, <2>1
  <2>3. Advances(r, q)
    BY <1>1, <2>2 DEF Advances
  <2> QED BY <2>3 DEF q
<1>3. CASE x = r.items /\ o # <<>>
  <2>1. Advances(r, q)
    BY <1>1, <1>3 DEF Advances
  <2> QED BY <2>1 DEF q
<1> QED BY <1>2, <1>3

\* An object that is complete.
LEMMA WithAdvances ==
  ASSUME NEW k, k \in Nat \ {0}, NEW o, AreContainers(o), NEW w, NEW v, NEW r, r.items = w, k >= r.at
  PROVE  Advances(r, With(At(k, o, w), v))
<1>1. CASE o = <<>>
  <2>1. With(At(k, o, w), v) = At(k, o, Append(w, v))
    BY <1>1, WithIs
  <2> DEFINE x == Append(w, v)
  <2>2. \E u : x = Append(r.items, u)
    OBVIOUS
  <2> HIDE DEF x
  <2>3. Advances(r, At(k, o, x))
    BY <2>2, AtAdvances
  <2> QED BY <2>1, <2>3 DEF x
<1>2. CASE o # <<>>
  <2>1. With(At(k, o, w), v) = At(k, Put(o, v), w)
    BY <1>2, WithIs
  <2> DEFINE p == Put(o, v)
  <2>2. p # <<>>
    BY <1>2, PutIs
  <2> HIDE DEF p
  <2>3. Advances(r, At(k, p, w))
    BY <2>2, AtAdvances
  <2> QED BY <2>1, <2>3 DEF p
<1> QED BY <1>1, <1>2

\* A container that is entered.
LEMMA EntersAdvances ==
  ASSUME NEW k, k \in Nat \ {0}, NEW o, AreContainers(o), NEW w, IsSeq(w), NEW c, IsContainer(c),
         NEW r, r.items = w, k >= r.at
  PROVE  Advances(r, Enters(At(k, o, w), c))
<1> DEFINE p == Append(o, c)
<1>1. Enters(At(k, o, w), c) = At(k, p, w)
  BY EntersType
<1>2. p # <<>>
  BY AppendedIs DEF AreContainers
<1> HIDE DEF p
<1>3. Advances(r, At(k, p, w))
  BY <1>2, AtAdvances
<1> QED BY <1>1, <1>3

\* Every turn does.
LEMMA TurnAdvances ==
  ASSUME NEW s, s \in Seq(Byte), NEW r, IsReading(r), Turn(s, r) # r
  PROVE  Advances(r, Turn(s, r))
<1> DEFINE k == r.at
           o == r.open
           w == r.items
<1>1. r = At(k, o, w) /\ k \in Nat \ {0} /\ AreContainers(o) /\ IsSeq(w)
  BY DEF IsReading
<1>2. \A type, need, tag : IsContainer(Container(type, need, tag))
  BY EmptyIsSeq DEF Container, IsContainer
<1>3. \A j : j \in Nat /\ j >= k /\ o # <<>> => Advances(r, Closes(At(j, o, w)))
  <2> SUFFICES ASSUME NEW j, j \in Nat, j >= k, o # <<>> PROVE Advances(r, Closes(At(j, o, w)))
    OBVIOUS
  <2>1. j \in Nat \ {0}
    BY <1>1
  <2>2. Closes(At(j, o, w)) = With(At(j, Front(o), w), ObjectOf(Last(o)))
    BY <1>1, <2>1, ClosesType
  <2>3. AreContainers(Front(o))
    BY <1>1, PutIs
  <2> QED BY <1>1, <2>1, <2>2, <2>3, WithAdvances
<1>4. CASE ~Waiting(o)
  <2>1. o # <<>> /\ Turn(s, r) = Closes(r)
    BY <1>4, TurnIs DEF Waiting
  <2> QED BY <1>1, <1>3, <2>1
<1>5. CASE Waiting(o)
  <2>1. HeadAt(s, k)
    BY <1>5, TurnIs
  <2> DEFINE body == BodyAt(s, k)
             n == Count(ArgumentAt(s, k))
  <2>2. body \in Nat \ {0} /\ body >= k /\ n \in Nat
    <3>1. k \in 1 .. Len(s) /\ ArgWidth(s[k]) \in Nat /\ n \in Nat
      BY <1>1, <2>1, HeadAtIs, ArgumentType, WidthAt
    <3> QED BY <3>1 DEF BodyAt
  <2>3. s[k] \in Byte
    BY <1>1, <2>1, HeadAtIs, ElementOfSeq
  <2>4. MajorType(s[k]) \in 0 .. 7
    BY <2>3, ByteParts
  <2>5. CASE AI(s[k]) < 28
    <3>1. Turn(s, r) = DefiniteItem(s, At(k, o, w))
      BY <1>1, <1>5, <2>1, <2>5, TurnIs
    <3>2. body + n \in Nat \ {0} /\ body + n >= k
      BY <1>1, <2>2
    <3> HIDE DEF body, n, k, o, w
    <3>3. DefiniteItem(s, At(k, o, w)) # r
      BY <3>1
    <3>4. r.items = w /\ r.at = k /\ r.at \in Nat
      BY <1>1 DEF k, w
    <3>5. CASE MajorType(s[k]) \in {0, 1, 7}
      <4>1. \E v : DefiniteItem(s, At(k, o, w)) = With(At(body, o, w), v)
        BY <3>5, DefiniteIs DEF body
      <4> QED BY <1>1, <2>2, <3>1, <3>4, <4>1, WithAdvances
    <3>6. CASE MajorType(s[k]) \in {2, 3}
      <4>1. \E v : DefiniteItem(s, At(k, o, w)) = With(At(body + n, o, w), v)
        BY <1>1, <3>3, <3>6, DefiniteIs DEF body, n
      <4> QED BY <1>1, <3>1, <3>2, <3>4, <4>1, WithAdvances
    <3>7. CASE MajorType(s[k]) \in {4, 5, 6}
      <4>1. \E type, need, tag : DefiniteItem(s, At(k, o, w)) = Enters(At(body, o, w), Container(type, need, tag))
        BY <3>7, DefiniteIs DEF body
      <4> QED BY <1>1, <1>2, <2>2, <3>1, <3>4, <4>1, EntersAdvances
    <3> QED BY <2>4, <3>5, <3>6, <3>7
  <2>6. CASE ~(AI(s[k]) < 28)
    <3>1. Turn(s, r) = IndefiniteItem(s, At(k, o, w))
      BY <1>1, <1>5, <2>1, <2>6, TurnIs
    <3>2. k + 1 \in Nat \ {0} /\ k + 1 >= k /\ k \in Nat
      BY <1>1
    <3> HIDE DEF body, n, k, o, w
    <3>4. r.items = w /\ r.at = k
      BY DEF k, w
    <3>5. CASE MajorType(s[k]) \in {2, 3, 4, 5}
      <4>1. IndefiniteItem(s, At(k, o, w)) = Enters(At(k + 1, o, w), Container(MajorType(s[k]), Endless, 0))
        BY <3>5, IndefiniteIs
      <4> QED BY <1>1, <1>2, <3>1, <3>2, <3>4, <4>1, EntersAdvances
    <3>6. CASE MajorType(s[k]) \notin {2, 3, 4, 5}
      <4>1. IndefiniteItem(s, At(k, o, w)) = Closes(At(k + 1, o, w)) /\ o # <<>>
        BY <1>1, <3>1, <3>6, IndefiniteIs
      <4>2. Advances(r, Closes(At(k + 1, o, w)))
        BY <1>3, <3>2, <4>1
      <4> QED BY <3>1, <4>1, <4>2
    <3> QED BY <3>5, <3>6
  <2> QED BY <2>5, <2>6
<1> QED BY <1>4, <1>5

\* The values of p are the first of q.
Leads(p, q) ==
  /\ IsSeq(p) /\ IsSeq(q) /\ Len(p) <= Len(q)
  /\ \A i \in 1 .. Len(p) : q[i] = p[i]

\* A list begins itself, and what goes on with it.
LEMMA LeadsAll ==
  ASSUME NEW p, IsSeq(p), NEW v
  PROVE  Leads(p, p) /\ Leads(p, Append(p, v)) /\ Len(Append(p, v)) > Len(p)
<1>1. Len(p) \in Nat
  BY LengthOf
<1> DEFINE q == Append(p, v)
<1>2. IsSeq(q) /\ Len(q) = Len(p) + 1 /\ \A i \in 1 .. Len(p) : q[i] = p[i]
  BY AppendOf
<1> HIDE DEF q
<1>3. Leads(p, p) /\ Leads(p, q) /\ Len(q) > Len(p)
  BY <1>1, <1>2 DEF Leads
<1> QED BY <1>3 DEF q

\* What begins a list begins every list that one begins.
LEMMA LeadsOn ==
  ASSUME NEW p, NEW q, NEW r, Leads(p, q), Leads(q, r)
  PROVE  Leads(p, r)
<1>1. Len(p) \in Nat /\ Len(q) \in Nat /\ Len(r) \in Nat
  BY LengthOf DEF Leads
<1>2. \A i \in 1 .. Len(p) : i \in 1 .. Len(q)
  BY <1>1 DEF Leads
<1> QED BY <1>1, <1>2 DEF Leads

\* Two runs over the same bytes agree as far as both go.
LEMMA RunsAgree ==
  ASSUME NEW s, NEW f, NEW n, NEW g, NEW m, IsRun(f, s, n), IsRun(g, s, m)
  PROVE  \A i \in Nat : i <= n /\ i <= m => f[i] = g[i]
<1> DEFINE T == {i \in Nat : i <= n /\ i <= m /\ f[i] # g[i]}
           j == Min(T)
<1> SUFFICES ASSUME T # {} PROVE FALSE
  OBVIOUS
<1>1. j \in T /\ \A y \in T : j <= y
  BY MinOfNaturals
<1> HIDE DEF j
<1>2. n \in Nat /\ m \in Nat /\ f[0] = g[0]
  BY DEF IsRun
<1>3. j \in Nat /\ j <= n /\ j <= m /\ f[j] # g[j] /\ j # 0
  BY <1>1, <1>2
<1>4. j - 1 \in Nat /\ j - 1 <= n /\ j - 1 <= m /\ j \in 1 .. n /\ j \in 1 .. m /\ ~(j <= j - 1)
  BY <1>2, <1>3
<1>5. f[j - 1] = g[j - 1]
  BY <1>1, <1>4
<1> HIDE DEF T
<1>6. f[j] = Turn(s, f[j - 1]) /\ g[j] = Turn(s, g[j - 1])
  BY <1>4 DEF IsRun
<1> QED BY <1>3, <1>5, <1>6

\* q is later than r: it has more items, or a container is open.
Later(r, q) == q.at >= r.at /\ Leads(r.items, q.items) /\ (q.open = <<>> => Len(q.items) > Len(r.items))

\* A turn comes later than what its reading comes later than.
LEMMA LaterOn ==
  ASSUME NEW r, NEW p, NEW q, IsReading(r), IsReading(p), IsReading(q), Advances(p, q),
         Later(r, p) \/ r = p
  PROVE  Later(r, q)
<1>1. /\ r.at \in Nat /\ p.at \in Nat /\ q.at \in Nat
      /\ IsSeq(r.items) /\ IsSeq(p.items) /\ IsSeq(q.items)
  BY DEF IsReading
<1>2. Len(r.items) \in Nat /\ Len(p.items) \in Nat /\ Len(q.items) \in Nat
  BY <1>1, LengthOf
<1>3. Leads(r.items, p.items) /\ p.at >= r.at /\ Len(p.items) >= Len(r.items)
  <2>1. Leads(r.items, r.items)
    BY <1>1, LeadsAll
  <2> QED BY <1>1, <1>2, <2>1 DEF Later, Leads
<1>4. q.at >= p.at
  BY DEF Advances
<1>5. CASE \E v : q.items = Append(p.items, v)
  <2>1. Leads(p.items, q.items) /\ Len(q.items) > Len(p.items)
    BY <1>1, <1>5, LeadsAll
  <2> QED BY <1>1, <1>2, <1>3, <1>4, <2>1, LeadsOn DEF Later
<1>6. CASE q.items = p.items /\ q.open # <<>>
  BY <1>1, <1>3, <1>4, <1>6 DEF Later
<1> QED BY <1>5, <1>6 DEF Advances

\* The turns of a run come later and later.
LEMMA RunLater ==
  ASSUME NEW s, s \in Seq(Byte), NEW f, NEW n, IsRun(f, s, n), NEW k \in 0 .. n
  PROVE  \A i \in 0 .. n : k < i => Later(f[k], f[i])
<1> DEFINE T == {i \in Nat : i <= n /\ k < i /\ ~Later(f[k], f[i])}
           j == Min(T)
<1>n. n \in Nat
  BY DEF IsRun
<1> SUFFICES ASSUME T # {} PROVE FALSE
  BY <1>n
<1>1. j \in T /\ \A y \in T : j <= y
  BY MinOfNaturals
<1> HIDE DEF j
<1>2. j \in Nat /\ j <= n /\ k < j /\ ~Later(f[k], f[j])
  BY <1>1
<1> DEFINE h == j - 1
<1>3. h \in 0 .. n /\ j \in 0 .. n /\ j \in 1 .. n /\ ~(j <= h) /\ (k < h \/ k = h)
  BY <1>2, <1>n
<1>4. Later(f[k], f[h]) \/ f[k] = f[h]
  BY <1>1, <1>3, <1>n
<1> HIDE DEF T
<1>5. IsReading(f[k]) /\ IsReading(f[h]) /\ IsReading(f[j])
  BY <1>3 DEF IsRun
<1>6. f[j] = Turn(s, f[h]) /\ f[j] # f[h]
  BY <1>3 DEF IsRun
<1>7. Advances(f[h], f[j])
  <2> DEFINE r == f[h]
             q == f[j]
  <2>1. IsReading(r) /\ Turn(s, r) # r /\ q = Turn(s, r)
    BY <1>5, <1>6
  <2> HIDE DEF r, q
  <2>2. Advances(r, q)
    BY <2>1, TurnAdvances
  <2> QED BY <2>2 DEF r, q
<1>8. Later(f[k], f[j])
  BY <1>4, <1>5, <1>7, LaterOn
<1> QED BY <1>2, <1>8

\* Of two places of a reading the one before the other.
LEMMA EarlierIs ==
  ASSUME NEW s, s \in Seq(Byte), NEW p, NEW e, Reaches(s, p), Reaches(s, e), p.at < e.at
  PROVE  Later(p, e) /\ ~LongMap(s, p)
<1>1. PICK f, n : IsRun(f, s, n) /\ f[n] = p
  BY DEF Reaches
<1>2. PICK g, m : IsRun(g, s, m) /\ g[m] = e
  BY DEF Reaches
<1>3. n \in Nat /\ m \in Nat /\ n \in 0 .. n /\ m \in 0 .. m
  BY <1>1, <1>2 DEF IsRun
<1>4. \A i \in Nat : i <= n /\ i <= m => f[i] = g[i]
  BY <1>1, <1>2, RunsAgree
<1>5. p.at \in Nat /\ e.at \in Nat
  BY ReachedIs DEF IsReading
<1>6. n < m
  <2>1. CASE m < n
    <3>1. f[m] = e /\ m \in 0 .. n
      BY <1>2, <1>3, <1>4, <2>1
    <3>2. Later(e, p)
      BY <1>1, <1>3, <2>1, <3>1, RunLater
    <3> QED BY <1>5, <3>2 DEF Later
  <2>2. CASE m = n
    <3>1. p = e
      BY <1>1, <1>2, <1>3, <1>4, <2>2
    <3> QED BY <1>5, <3>1
  <2> QED BY <1>3, <2>1, <2>2
<1>7. g[n] = p /\ n \in 0 .. m /\ n + 1 \in 1 .. m /\ n + 1 - 1 = n
  BY <1>1, <1>3, <1>4, <1>6
<1>8. Later(p, e)
  BY <1>2, <1>3, <1>6, <1>7, RunLater
<1>9. ~LongMap(s, p)
  BY <1>2, <1>7 DEF IsRun
<1> QED BY <1>8, <1>9

\* What a reading of bytes gives that are all read.
LEMMA ReadyEarlier ==
  ASSUME NEW s, NEW o, NEW w, Ready(s, o, w), NEW p, Reaches(s, p)
  PROVE  Leads(p.items, w) /\ ~LongMap(s, p)
<1> DEFINE k == Len(s) + 1
           e == At(k, o, w)
<1>1. s \in Seq(Byte) /\ Reaches(s, e) /\ Waiting(o)
  BY DEF Ready
<1>2. e.at = k /\ e.open = o /\ e.items = w
  BY AtIs
<1>3. Len(s) \in Nat /\ k = Len(s) + 1
  BY <1>1, LenProperties
<1> HIDE DEF e, k
<1>4. p.at <= k /\ p.at \in Nat /\ IsSeq(p.items)
  BY <1>3, ReachedIs DEF IsReading
<1>5. CASE p.at < k
  BY <1>1, <1>2, <1>5, EarlierIs DEF Later
<1>6. CASE p.at = k
  <2>1. ~HeadAt(s, k)
    BY <1>3 DEF HeadAt
  <2>2. ~LongMap(s, p)
    BY <1>6, <2>1 DEF LongMap
  <2>3. Turn(s, e) = e
    BY <1>1, <1>2, <2>1, TurnIs
  <2>4. PICK f, n : IsRun(f, s, n) /\ f[n] = p
    BY DEF Reaches
  <2>5. PICK g, m : IsRun(g, s, m) /\ g[m] = e
    BY <1>1 DEF Reaches
  <2>6. n \in Nat /\ m \in Nat /\ n \in 0 .. n /\ m \in 0 .. m
    BY <2>4, <2>5 DEF IsRun
  <2>7. \A i \in Nat : i <= n /\ i <= m => f[i] = g[i]
    BY <2>4, <2>5, RunsAgree
  <2>8. n <= m
    <3> SUFFICES ASSUME ~(n <= m) PROVE FALSE
      OBVIOUS
    <3> DEFINE j == m + 1
    <3>1. f[m] = e /\ j \in 1 .. n /\ j - 1 = m
      BY <2>5, <2>6, <2>7
    <3> HIDE DEF j
    <3>2. f[j] = Turn(s, f[j - 1]) /\ f[j] # f[j - 1]
      BY <2>4, <3>1 DEF IsRun
    <3> QED BY <2>3, <3>1, <3>2
  <2>9. g[n] = p /\ n \in 0 .. m
    BY <2>4, <2>6, <2>7, <2>8
  <2>10. Leads(p.items, w)
    <3>1. CASE n = m
      BY <1>2, <1>4, <2>5, <2>9, <3>1, LeadsAll
    <3>2. CASE n < m
      <4>1. Later(p, e)
        BY <1>1, <2>5, <2>6, <2>9, <3>2, RunLater
      <4> QED BY <1>2, <4>1 DEF Later
    <3> QED BY <2>6, <2>8, <3>1, <3>2
  <2> QED BY <2>2, <2>10
<1> QED BY <1>3, <1>4, <1>5, <1>6

-----------------------------------------------------------------------------
(* Bytes behind others that are read to their end *)

\* Lists behind each other.
LEMMA JoinOf ==
  ASSUME NEW p, NEW q, IsSeq(p), IsSeq(q)
  PROVE  LET t == p \o q
         IN /\ IsSeq(t) /\ Len(t) = Len(p) + Len(q)
            /\ \A i \in 1 .. Len(p) : t[i] = p[i]
            /\ \A i \in 1 .. Len(q) : t[Len(p) + i] = q[i]
<1>1. PICK S : p \in Seq(S)
  BY DEF IsSeq
<1>2. PICK T : q \in Seq(T)
  BY DEF IsSeq
<1> DEFINE U == S \cup T
           t == p \o q
<1>3. p \in Seq(U) /\ q \in Seq(U)
  <2>1. S \subseteq U /\ T \subseteq U
    OBVIOUS
  <2> HIDE DEF U
  <2> QED BY <1>1, <1>2, <2>1, SeqMonotonic
<1> HIDE DEF U
<1>4. /\ t \in Seq(U) /\ Len(t) = Len(p) + Len(q)
      /\ \A i \in 1 .. Len(p) + Len(q) : t[i] = IF i <= Len(p) THEN p[i] ELSE q[i - Len(p)]
  BY <1>3, ConcatProperties
<1>5. Len(p) \in Nat /\ Len(q) \in Nat
  BY <1>3, LenProperties
<1> HIDE DEF t
<1>6. \A i \in 1 .. Len(p) : i \in 1 .. Len(p) + Len(q) /\ i <= Len(p)
  BY <1>5
<1>7. \A i \in 1 .. Len(q) : Len(p) + i \in 1 .. Len(p) + Len(q) /\ ~(Len(p) + i <= Len(p)) /\ Len(p) + i - Len(p) = i
  BY <1>5
<1>8. IsSeq(t) /\ \A i \in 1 .. Len(p) : t[i] = p[i]
  BY <1>4, <1>6 DEF IsSeq
<1>9. \A i \in 1 .. Len(q) : t[Len(p) + i] = q[i]
  BY <1>4, <1>7
<1> QED BY <1>4, <1>8, <1>9 DEF t

\* An element behind the second.
LEMMA JoinAppend ==
  ASSUME NEW p, NEW q, IsSeq(p), IsSeq(q), NEW v
  PROVE  p \o Append(q, v) = Append(p \o q, v)
<1> DEFINE a == Append(q, v)
           t == p \o q
           x == p \o a
           y == Append(t, v)
           n == Len(p)
           m == Len(q)
<1>1. IsSeq(a) /\ Len(a) = m + 1 /\ a[m + 1] = v /\ \A i \in 1 .. m : a[i] = q[i]
  BY AppendOf
<1>2. n \in Nat /\ m \in Nat
  BY LengthOf
<1>3. /\ IsSeq(t) /\ Len(t) = n + m /\ \A i \in 1 .. n : t[i] = p[i]
      /\ \A i \in 1 .. m : t[n + i] = q[i]
  BY JoinOf
<1> HIDE DEF a, t
<1>4. /\ IsSeq(x) /\ Len(x) = n + (m + 1) /\ \A i \in 1 .. n : x[i] = p[i]
      /\ \A i \in 1 .. m + 1 : x[n + i] = a[i]
  BY <1>1, JoinOf
<1>5. IsSeq(y) /\ Len(y) = n + m + 1 /\ y[n + m + 1] = v /\ \A i \in 1 .. n + m : y[i] = t[i]
  BY <1>3, AppendOf
<1> HIDE DEF x, y, n, m
<1>6. \A i \in 1 .. n + m + 1 : x[i] = y[i]
  <2> SUFFICES ASSUME NEW i \in 1 .. n + m + 1 PROVE x[i] = y[i]
    OBVIOUS
  <2>1. CASE i \in 1 .. n
    <3>1. i \in 1 .. n + m
      BY <1>2, <2>1
    <3> QED BY <1>3, <1>4, <1>5, <2>1, <3>1
  <2>2. CASE i \in n + 1 .. n + m
    <3> DEFINE j == i - n
    <3>1. j \in 1 .. m /\ j \in 1 .. m + 1 /\ i = n + j /\ i \in 1 .. n + m
      BY <1>2, <2>2
    <3> HIDE DEF j
    <3> QED BY <1>1, <1>3, <1>4, <1>5, <3>1
  <2>3. CASE i = n + m + 1
    <3>1. i = n + (m + 1) /\ m + 1 \in 1 .. m + 1
      BY <1>2, <2>3
    <3> QED BY <1>1, <1>4, <1>5, <2>3, <3>1
  <2> QED BY <1>2, <2>1, <2>2, <2>3
<1>7. x = y
  <2>1. Len(x) = n + m + 1 /\ Len(y) = n + m + 1
    BY <1>2, <1>4, <1>5
  <2> QED BY <1>4, <1>5, <1>6, <2>1, SameList
<1> QED BY <1>7 DEF x, y, a, t

\* No element behind.
LEMMA JoinNone ==
  ASSUME NEW p, IsSeq(p)
  PROVE  p \o <<>> = p
<1>1. PICK S : p \in Seq(S)
  BY DEF IsSeq
<1> QED BY <1>1, ConcatEmptySeq

\* A reading of bytes that begin behind so many others, from which came w.
Moved(s, w, r) == At(Len(s) + r.at, r.open, w \o r.items)

LEMMA MovedIs ==
  ASSUME NEW s, NEW w, NEW k, NEW o, NEW x
  PROVE  Moved(s, w, At(k, o, x)) = At(Len(s) + k, o, w \o x)
BY AtIs DEF Moved

\* An object that comes.
LEMMA WithMoved ==
  ASSUME NEW s, NEW w, IsSeq(w), NEW k, NEW o, NEW x, IsSeq(x), NEW v
  PROVE  With(At(Len(s) + k, o, w \o x), v) = Moved(s, w, With(At(k, o, x), v))
<1> DEFINE j == Len(s) + k
           y == w \o x
<1>1. CASE o = <<>>
  <2> DEFINE a == Append(x, v)
  <2>1. With(At(k, o, x), v) = At(k, o, a) /\ With(At(j, o, y), v) = At(j, o, Append(y, v))
    BY <1>1, WithIs
  <2>2. Append(y, v) = w \o a
    BY JoinAppend
  <2>3. Moved(s, w, At(k, o, a)) = At(j, o, w \o a)
    BY MovedIs
  <2> QED BY <2>1, <2>2, <2>3
<1>2. CASE o # <<>>
  <2> DEFINE p == Put(o, v)
  <2>1. With(At(k, o, x), v) = At(k, p, x) /\ With(At(j, o, y), v) = At(j, p, y)
    BY <1>2, WithIs
  <2>2. Moved(s, w, At(k, p, x)) = At(j, p, y)
    BY MovedIs
  <2> QED BY <2>1, <2>2
<1> QED BY <1>1, <1>2

\* A container that is entered.
LEMMA EntersMoved ==
  ASSUME NEW s, NEW w, NEW k, NEW o, NEW x, NEW c
  PROVE  Enters(At(Len(s) + k, o, w \o x), c) = Moved(s, w, Enters(At(k, o, x), c))
<1> DEFINE p == Append(o, c)
<1>1. \A j, y : Enters(At(j, o, y), c) = At(j, p, y)
  <2> SUFFICES ASSUME NEW j, NEW y PROVE Enters(At(j, o, y), c) = At(j, p, y)
    OBVIOUS
  <2>1. Enters(At(j, o, y), c) = [At(j, o, y) EXCEPT !.open = p]
    BY AtIs DEF Enters
  <2> HIDE DEF p
  <2>2. [At(j, o, y) EXCEPT !.open = p] = At(j, p, y)
    BY DEF At
  <2> QED BY <2>1, <2>2
<1>2. Moved(s, w, At(k, p, x)) = At(Len(s) + k, p, w \o x)
  BY MovedIs
<1> HIDE DEF p
<1> QED BY <1>1, <1>2

\* A container that gives its object.
LEMMA ClosesMoved ==
  ASSUME NEW s, NEW w, IsSeq(w), NEW k, NEW o, NEW x, IsSeq(x)
  PROVE  Closes(At(Len(s) + k, o, w \o x)) = Moved(s, w, Closes(At(k, o, x)))
<1> DEFINE f == Front(o)
           v == ObjectOf(Last(o))
<1>1. \A j, y : Closes(At(j, o, y)) = With(At(j, f, y), v)
  <2> SUFFICES ASSUME NEW j, NEW y PROVE Closes(At(j, o, y)) = With(At(j, f, y), v)
    OBVIOUS
  <2>1. At(j, o, y).open = o
    BY AtIs
  <2>2. Closes(At(j, o, y)) = With([At(j, o, y) EXCEPT !.open = f], v)
    BY <2>1 DEF Closes
  <2> HIDE DEF f
  <2>3. [At(j, o, y) EXCEPT !.open = f] = At(j, f, y)
    BY DEF At
  <2> QED BY <2>2, <2>3
<1> HIDE DEF f, v
<1>2. With(At(Len(s) + k, f, w \o x), v) = Moved(s, w, With(At(k, f, x), v))
  BY WithMoved
<1> QED BY <1>1, <1>2

\* So many bytes behind k in t are so many behind the same in s and t.
LEMMA SameBehind ==
  ASSUME NEW s \in Seq(Byte), NEW t \in Seq(Byte), NEW k \in Nat, NEW n \in Nat, k + n <= Len(t)
  PROVE  /\ SameFrom(s \o t, Len(s) + k, t, k, n)
         /\ s \o t \in Seq(Byte) /\ Len(s \o t) = Len(s) + Len(t) /\ Len(s) \in Nat /\ Len(t) \in Nat
<1> DEFINE z == s \o t
           l == Len(s)
<1>1. IsJoin(s, t, z)
  BY JoinedIs
<1>2. l \in Nat /\ Len(t) \in Nat
  BY LenProperties
<1> HIDE DEF z
<1>3. z \in Seq(Byte) /\ Len(z) = l + Len(t) /\ \A i \in 1 .. Len(t) : z[l + i] = t[i]
  BY <1>1 DEF IsJoin
<1> HIDE DEF l
<1>4. ASSUME NEW i \in 1 .. n PROVE z[l + k + i] = t[k + i]
  <2>1. k + i \in 1 .. Len(t) /\ l + (k + i) = l + k + i
    BY <1>2
  <2>2. z[l + (k + i)] = t[k + i]
    BY <1>3, <2>1
  <2> QED BY <2>1, <2>2
<1>5. SameFrom(z, l + k, t, k, n)
  BY <1>2, <1>3, <1>4 DEF SameFrom
<1> QED BY <1>2, <1>3, <1>5 DEF z, l

\* The head at k in t.
HeadMoved(s, t, z, k, j) ==
  /\ HeadAt(z, j) /\ z[j] = t[k] /\ ArgumentAt(z, j) = ArgumentAt(t, k)
  /\ BodyAt(z, j) = Len(s) + BodyAt(t, k)
  /\ Len(z) = Len(s) + Len(t) /\ Len(s) \in Nat /\ Len(t) \in Nat

\* It is found behind s.
LEMMA HeadMovedIs ==
  ASSUME NEW s \in Seq(Byte), NEW t \in Seq(Byte), NEW k \in Nat \ {0}, HeadAt(t, k)
  PROVE  HeadMoved(s, t, s \o t, k, Len(s) + k)
<1> DEFINE z == s \o t
           n == ArgWidth(t[k])
           j == Len(s) + k
<1>1. k \in 1 .. Len(t) /\ k + n <= Len(t) /\ n \in Nat
  BY HeadAtIs, WidthAt
<1> HIDE DEF n
<1>2. SameFrom(z, j, t, k, n) /\ z \in Seq(Byte) /\ Len(z) = Len(s) + Len(t) /\ Len(s) \in Nat /\ Len(t) \in Nat
  BY <1>1, SameBehind
<1>3. SameFrom(z, Len(s) + (k - 1), t, k - 1, 1)
  <2> DEFINE h == k - 1
  <2>1. h \in Nat /\ h + 1 <= Len(t) /\ 1 \in Nat
    BY <1>1
  <2> HIDE DEF h
  <2>2. SameFrom(s \o t, Len(s) + h, t, h, 1)
    BY <2>1, SameBehind
  <2> QED BY <2>2 DEF h
<1> HIDE DEF z
<1>4. z[j] = t[k]
  <2>1. Len(s) + (k - 1) + 1 = j /\ k - 1 + 1 = k /\ 1 \in 1 .. 1
    BY <1>2
  <2>2. z[Len(s) + (k - 1) + 1] = t[k - 1 + 1]
    BY <1>3, <2>1 DEF SameFrom
  <2> QED BY <2>1, <2>2
<1>5. j \in Nat /\ j + n <= Len(z) /\ j <= Len(z) /\ BodyAt(t, k) = k + 1 + n
  BY <1>1, <1>2 DEF BodyAt, n
<1>6. ArgWidth(z[j]) = n
  BY <1>4 DEF n
<1> HIDE DEF j
<1>7. CutBehind(z, j, n) = CutBehind(t, k, n)
  BY <1>1, <1>2, <1>5, SameCut
<1>8. ArgAt(z, j) = ArgAt(t, k)
  <2>1. ArgAt(z, j) = CutBehind(z, j, n)
    BY <1>6 DEF ArgAt, CutBehind
  <2>2. ArgAt(t, k) = CutBehind(t, k, n)
    BY DEF ArgAt, CutBehind, n
  <2> QED BY <1>7, <2>1, <2>2
<1>9. ArgumentAt(z, j) = ArgumentAt(t, k)
  BY <1>4, <1>8 DEF ArgumentAt
<1>10. HeadAt(z, j)
  BY <1>5, <1>6 DEF HeadAt
<1>11. BodyAt(z, j) = Len(s) + BodyAt(t, k)
  <2>1. BodyAt(z, j) = j + 1 + n
    BY <1>6 DEF BodyAt
  <2> QED BY <1>1, <1>2, <1>5, <2>1 DEF j
<1> QED BY <1>2, <1>4, <1>9, <1>10, <1>11 DEF HeadMoved, z, j

\* And so is an item that has a head with an argument.
LEMMA DefiniteMoved ==
  ASSUME NEW s \in Seq(Byte), NEW t \in Seq(Byte), NEW k \in Nat \ {0}, HeadAt(t, k),
         NEW o, NEW x, IsSeq(x), NEW w, IsSeq(w),
         DefiniteItem(t, At(k, o, x)) # At(k, o, x)
  PROVE  DefiniteItem(s \o t, At(Len(s) + k, o, w \o x)) = Moved(s, w, DefiniteItem(t, At(k, o, x)))
<1> DEFINE z == s \o t
           l == Len(s)
           j == l + k
           y == w \o x
           body == BodyAt(t, k)
           n == Count(ArgumentAt(t, k))
           type == MajorType(t[k])
           r == At(k, o, x)
           q == At(j, o, y)
<1>1. HeadMoved(s, t, z, k, j)
  BY HeadMovedIs
<1>2. l \in Nat /\ Len(t) \in Nat /\ Len(z) = l + Len(t)
  BY <1>1 DEF HeadMoved
<1>3. MajorType(z[j]) = type /\ AI(z[j]) = AI(t[k]) /\ BodyAt(z, j) = l + body /\ ArgumentAt(z, j) = ArgumentAt(t, k)
  BY <1>1 DEF HeadMoved
<1>4. body \in Nat \ {0} /\ n \in Nat /\ body <= Len(t) + 1
  BY HeadAtIs, ArgumentType
<1>5. \A b, v : With(At(l + b, o, y), v) = Moved(s, w, With(At(b, o, x), v))
  BY WithMoved
<1>6. \A b, c : Enters(At(l + b, o, y), c) = Moved(s, w, Enters(At(b, o, x), c))
  BY EntersMoved
<1>7. type \in 0 .. 7
  <2>1. t[k] \in Byte
    BY HeadAtIs, ElementOfSeq
  <2> QED BY <2>1, ByteParts
<1> SUFFICES DefiniteItem(z, q) = Moved(s, w, DefiniteItem(t, r))
  OBVIOUS
<1> HIDE DEF z, j, y, l
<1>z. CASE type = 0
  <2>1. DefiniteItem(t, r) = With(At(body, o, x), Plus(ArgumentAt(t, k)))
    BY <1>z, DefiniteIs
  <2>2. DefiniteItem(z, q) = With(At(l + body, o, y), Plus(ArgumentAt(t, k)))
    BY <1>3, <1>z, DefiniteIs
  <2> QED BY <1>5, <2>1, <2>2
<1>8. CASE type = 1
  <2>1. DefiniteItem(t, r) = With(At(body, o, x), Minus(ArgumentAt(t, k)))
    BY <1>8, DefiniteIs
  <2>2. DefiniteItem(z, q) = With(At(l + body, o, y), Minus(ArgumentAt(t, k)))
    BY <1>3, <1>8, DefiniteIs
  <2> QED BY <1>5, <2>1, <2>2
<1>9. CASE type \in {2, 3}
  <2>1. DefiniteItem(t, r) = IF body + n - 1 > Len(t) THEN r
                             ELSE With(At(body + n, o, x), StrOf(type, SubSeq(t, body, body + n - 1)))
    BY <1>9, DefiniteIs
  <2>2. DefiniteItem(z, q) = IF l + body + n - 1 > Len(z) THEN q
                             ELSE With(At(l + body + n, o, y), StrOf(type, SubSeq(z, l + body, l + body + n - 1)))
    BY <1>3, <1>9, DefiniteIs
  <2>3. ~(body + n - 1 > Len(t)) /\ body + n - 1 <= Len(t)
    BY <1>2, <1>4, <2>1
  <2>4. ~(l + body + n - 1 > Len(z)) /\ l + body + n = l + (body + n)
    BY <1>2, <1>4, <2>3
  <2>5. SubSeq(z, l + body, l + body + n - 1) = SubSeq(t, body, body + n - 1)
    <3> DEFINE h == body - 1
    <3>1. h \in Nat /\ h + n <= Len(t)
      BY <1>2, <1>4, <2>3
    <3> HIDE DEF h
    <3>2. SameFrom(z, l + h, t, h, n) /\ z \in Seq(Byte)
      BY <1>4, <3>1, SameBehind DEF z, l
    <3>3. l + h \in Nat
      BY <1>2, <3>1
    <3> HIDE DEF n
    <3> DEFINE a == l + h
    <3>4. CutBehind(z, a, n) = CutBehind(t, h, n)
      <4> HIDE DEF a
      <4>1. a \in Nat /\ SameFrom(z, a, t, h, n)
        BY <3>2, <3>3 DEF a
      <4> QED BY <1>4, <3>1, <3>2, <4>1, SameCut
    <3>5. a + 1 = l + body /\ a + n = l + body + n - 1 /\ h + 1 = body /\ h + n = body + n - 1
      <4> HIDE DEF body
      <4>1. l \in Nat /\ body \in Nat /\ n \in Nat
        BY <1>2, <1>4
      <4> QED BY <4>1 DEF h, a
    <3> QED BY <3>4, <3>5 DEF CutBehind
  <2> DEFINE v == StrOf(type, SubSeq(t, body, body + n - 1))
  <2>6. DefiniteItem(t, r) = With(At(body + n, o, x), v) /\ DefiniteItem(z, q) = With(At(l + (body + n), o, y), v)
    BY <2>1, <2>2, <2>3, <2>4, <2>5
  <2> QED BY <1>5, <2>6
<1>10. CASE type \in {4, 5, 6}
  <2>1. PICK c : DefiniteItem(t, r) = Enters(At(body, o, x), c) /\ DefiniteItem(z, q) = Enters(At(l + body, o, y), c)
    <3>1. CASE type = 4
      <4>1. DefiniteItem(t, r) = Enters(At(body, o, x), Container(4, n, 0))
        BY <3>1, DefiniteIs
      <4>2. DefiniteItem(z, q) = Enters(At(l + body, o, y), Container(4, n, 0))
        BY <1>3, <3>1, DefiniteIs
      <4> QED BY <4>1, <4>2
    <3>2. CASE type = 5
      <4>1. DefiniteItem(t, r) = Enters(At(body, o, x), Container(5, 2 * n, 0))
        BY <3>2, DefiniteIs
      <4>2. DefiniteItem(z, q) = Enters(At(l + body, o, y), Container(5, 2 * n, 0))
        BY <1>3, <3>2, DefiniteIs
      <4> QED BY <4>1, <4>2
    <3>3. CASE type = 6
      <4>1. DefiniteItem(t, r) = Enters(At(body, o, x), Container(6, 1, n))
        BY <3>3, DefiniteIs
      <4>2. DefiniteItem(z, q) = Enters(At(l + body, o, y), Container(6, 1, n))
        BY <1>3, <3>3, DefiniteIs
      <4> QED BY <4>1, <4>2
    <3> QED BY <1>10, <3>1, <3>2, <3>3
  <2> QED BY <1>6, <2>1
<1>11. CASE type = 7
  <2>1. DefiniteItem(t, r) = With(At(body, o, x), SimpleValue(AI(t[k]), ArgumentAt(t, k)))
    BY <1>11, DefiniteIs
  <2>2. DefiniteItem(z, q) = With(At(l + body, o, y), SimpleValue(AI(t[k]), ArgumentAt(t, k)))
    BY <1>3, <1>11, DefiniteIs
  <2> QED BY <1>5, <2>1, <2>2
<1> QED BY <1>7, <1>z, <1>8, <1>9, <1>10, <1>11

\* And a container without an end, or the end of one.
LEMMA IndefiniteMoved ==
  ASSUME NEW s \in Seq(Byte), NEW t \in Seq(Byte), NEW k \in Nat \ {0}, HeadAt(t, k),
         NEW o, NEW x, IsSeq(x), NEW w, IsSeq(w),
         IndefiniteItem(t, At(k, o, x)) # At(k, o, x)
  PROVE  IndefiniteItem(s \o t, At(Len(s) + k, o, w \o x)) = Moved(s, w, IndefiniteItem(t, At(k, o, x)))
<1> DEFINE z == s \o t
           l == Len(s)
           j == l + k
           h == k + 1
           y == w \o x
           type == MajorType(t[k])
           r == At(k, o, x)
           q == At(j, o, y)
<1>1. HeadMoved(s, t, z, k, j)
  BY HeadMovedIs
<1>2. l \in Nat /\ z[j] = t[k]
  BY <1>1 DEF HeadMoved
<1>3. MajorType(z[j]) = type /\ j + 1 = l + h
  BY <1>2
<1>4. Closes(At(l + h, o, y)) = Moved(s, w, Closes(At(h, o, x)))
  BY ClosesMoved
<1>5. \A c : Enters(At(l + h, o, y), c) = Moved(s, w, Enters(At(h, o, x), c))
  BY EntersMoved
<1> SUFFICES IndefiniteItem(z, q) = Moved(s, w, IndefiniteItem(t, r))
  OBVIOUS
<1> HIDE DEF z, j, y, l
<1>6. CASE type \in {2, 3, 4, 5}
  <2>1. IndefiniteItem(t, r) = Enters(At(h, o, x), Container(type, Endless, 0))
    BY <1>6, IndefiniteIs
  <2>2. IndefiniteItem(z, q) = Enters(At(l + h, o, y), Container(type, Endless, 0))
    <3>1. IndefiniteItem(z, q) = Enters(At(j + 1, o, y), Container(type, Endless, 0))
      BY <1>3, <1>6, IndefiniteIs
    <3> QED BY <1>3, <3>1
  <2> QED BY <1>5, <2>1, <2>2
<1>7. CASE type \notin {2, 3, 4, 5}
  <2>1. IndefiniteItem(t, r) = IF type = 7 /\ o # <<>> /\ MayBreak(Last(o)) THEN Closes(At(h, o, x)) ELSE r
    BY <1>7, IndefiniteIs
  <2>2. IndefiniteItem(z, q) = IF type = 7 /\ o # <<>> /\ MayBreak(Last(o)) THEN Closes(At(l + h, o, y)) ELSE q
    <3>1. IndefiniteItem(z, q) = IF type = 7 /\ o # <<>> /\ MayBreak(Last(o)) THEN Closes(At(j + 1, o, y)) ELSE q
      BY <1>3, <1>7, IndefiniteIs
    <3> QED BY <1>3, <3>1
  <2> QED BY <1>4, <2>1, <2>2
<1> QED BY <1>6, <1>7

\* So every turn is the same behind other bytes.
LEMMA TurnMoved ==
  ASSUME NEW s \in Seq(Byte), NEW t \in Seq(Byte), NEW r, IsReading(r), NEW w, IsSeq(w), Turn(t, r) # r
  PROVE  Turn(s \o t, Moved(s, w, r)) = Moved(s, w, Turn(t, r))
<1> DEFINE k == r.at
           o == r.open
           x == r.items
           z == s \o t
           j == Len(s) + k
           y == w \o x
           q == At(j, o, y)
<1>1. r = At(k, o, x) /\ k \in Nat \ {0} /\ AreContainers(o) /\ IsSeq(x)
  BY DEF IsReading
<1>2. Moved(s, w, r) = q
  BY DEF Moved
<1>3. q.at = j /\ q.open = o /\ q.items = y
  <2> HIDE DEF j, o, y
  <2> QED BY AtIs
<1>4. CASE ~Waiting(o)
  <2>1. Turn(t, r) = Closes(r) /\ Turn(z, q) = Closes(q)
    BY <1>3, <1>4, TurnIs
  <2>2. Closes(q) = Moved(s, w, Closes(At(k, o, x)))
    <3> HIDE DEF k, o, x
    <3> QED BY <1>1, ClosesMoved
  <2> QED BY <1>1, <1>2, <2>1, <2>2
<1>5. CASE Waiting(o)
  <2>1. HeadAt(t, k)
    BY <1>5, TurnIs
  <2>2. HeadMoved(s, t, z, k, j)
    <3> HIDE DEF k, o, x
    <3> QED BY <1>1, <2>1, HeadMovedIs
  <2>3. HeadAt(z, j) /\ z[j] = t[k]
    BY <2>2 DEF HeadMoved
  <2> HIDE DEF z
  <2>4. /\ Turn(t, r) = IF AI(t[k]) < 28 THEN DefiniteItem(t, r)
                        ELSE IF AI(t[k]) = AI_INDEF THEN IndefiniteItem(t, r) ELSE r
        /\ Turn(z, q) = IF AI(t[k]) < 28 THEN DefiniteItem(z, q)
                        ELSE IF AI(t[k]) = AI_INDEF THEN IndefiniteItem(z, q) ELSE q
    <3>1. Waiting(r.open) /\ HeadAt(t, r.at)
      BY <1>5, <2>1
    <3>2. Waiting(q.open) /\ HeadAt(z, q.at) /\ z[q.at] = t[r.at]
      BY <1>3, <1>5, <2>3
    <3> QED BY <3>1, <3>2, TurnIs
  <2>5. CASE AI(t[k]) < 28
    <3>1. DefiniteItem(t, At(k, o, x)) # At(k, o, x)
      BY <1>1, <2>4, <2>5
    <3>2. DefiniteItem(z, q) = Moved(s, w, DefiniteItem(t, At(k, o, x)))
      <4> HIDE DEF k, o, x
      <4> QED BY <1>1, <2>1, <3>1, DefiniteMoved DEF z
    <3> QED BY <1>1, <1>2, <2>4, <2>5, <3>2 DEF z
  <2>6. CASE ~(AI(t[k]) < 28)
    <3>1. IndefiniteItem(t, At(k, o, x)) # At(k, o, x) /\ AI(t[k]) = AI_INDEF
      BY <1>1, <2>4, <2>6
    <3>2. IndefiniteItem(z, q) = Moved(s, w, IndefiniteItem(t, At(k, o, x)))
      <4> HIDE DEF k, o, x
      <4> QED BY <1>1, <2>1, <3>1, IndefiniteMoved DEF z
    <3> QED BY <1>1, <1>2, <2>4, <2>6, <3>1, <3>2 DEF z
  <2> QED BY <2>5, <2>6
<1> QED BY <1>4, <1>5

\* What has been moved.
LEMMA MovedType ==
  ASSUME NEW s \in Seq(Byte), NEW w, IsSeq(w), NEW r, IsReading(r)
  PROVE  LET q == Moved(s, w, r)
         IN  IsReading(q) /\ q.at = Len(s) + r.at /\ q.open = r.open /\ q.items = w \o r.items
<1> DEFINE j == Len(s) + r.at
           o == r.open
           y == w \o r.items
           q == At(j, o, y)
<1>1. r.at \in Nat \ {0} /\ Len(s) \in Nat /\ IsSeq(r.items) /\ AreContainers(o)
  BY LenProperties DEF IsReading
<1>2. IsSeq(y) /\ j \in Nat \ {0}
  BY <1>1, JoinOf
<1>3. q.at = j /\ q.open = o /\ q.items = y
  <2> HIDE DEF j, o, y
  <2> QED BY AtIs
<1>4. Moved(s, w, r) = q
  BY DEF Moved
<1> HIDE DEF j, o, y
<1>5. IsReading(q)
  BY <1>1, <1>2, <1>3 DEF IsReading
<1> QED BY <1>3, <1>4, <1>5 DEF j, o, y

\* What differs differs.
LEMMA MovedOther ==
  ASSUME NEW s \in Seq(Byte), NEW w, IsSeq(w), NEW p, NEW q, IsReading(p), IsReading(q), p # q
  PROVE  Moved(s, w, p) # Moved(s, w, q)
<1> SUFFICES ASSUME Moved(s, w, p) = Moved(s, w, q) PROVE FALSE
  OBVIOUS
<1>1. /\ Len(s) + p.at = Len(s) + q.at /\ p.open = q.open /\ w \o p.items = w \o q.items
  <2>1. Moved(s, w, p).at = Len(s) + p.at /\ Moved(s, w, p).open = p.open /\ Moved(s, w, p).items = w \o p.items
    BY MovedType
  <2>2. Moved(s, w, q).at = Len(s) + q.at /\ Moved(s, w, q).open = q.open /\ Moved(s, w, q).items = w \o q.items
    BY MovedType
  <2> QED BY <2>1, <2>2
<1> DEFINE x == p.items
           y == q.items
           n == Len(w)
<1>2. /\ p = At(p.at, p.open, x) /\ q = At(q.at, q.open, y) /\ IsSeq(x) /\ IsSeq(y)
      /\ p.at \in Nat /\ q.at \in Nat
  BY DEF IsReading
<1>3. Len(s) \in Nat /\ n \in Nat /\ Len(x) \in Nat /\ Len(y) \in Nat
  BY <1>2, LenProperties, LengthOf
<1> HIDE DEF x, y
<1>4. Len(w \o x) = n + Len(x) /\ \A i \in 1 .. Len(x) : (w \o x)[n + i] = x[i]
  BY <1>2, JoinOf
<1>5. Len(w \o y) = n + Len(y) /\ \A i \in 1 .. Len(y) : (w \o y)[n + i] = y[i]
  BY <1>2, JoinOf
<1>6. w \o x = w \o y
  BY <1>1 DEF x, y
<1>7. n + Len(x) = n + Len(y)
  BY <1>4, <1>5, <1>6
<1>8. Len(x) = Len(y)
  BY <1>3, <1>7
<1>9. \A i \in 1 .. Len(x) : x[i] = y[i]
  BY <1>4, <1>5, <1>6, <1>8
<1>10. x = y
  BY <1>2, <1>8, <1>9, SameList
<1>11. p.at = q.at
  BY <1>1, <1>2, <1>3
<1>12. p = q
  <2>1. At(p.at, p.open, x) = At(q.at, q.open, y)
    BY <1>1, <1>10, <1>11
  <2> QED BY <1>2, <2>1
<1> QED BY <1>12

\* A map is as long as it is.
LEMMA LongMapMoved ==
  ASSUME NEW s \in Seq(Byte), NEW t \in Seq(Byte), NEW w, IsSeq(w), NEW r, NEW v, IsReading(r), IsReading(v),
         v = Turn(t, r), v # r, ~LongMap(t, r)
  PROVE  ~LongMap(s \o t, Moved(s, w, r))
<1> DEFINE z == s \o t
           k == r.at
           j == Len(s) + k
           q == Moved(s, w, r)
<1>1. q.at = j /\ q.open = r.open
  BY MovedType
<1>2. CASE ~Waiting(r.open)
  BY <1>1, <1>2 DEF LongMap
<1>3. CASE Waiting(r.open)
  <2>1. HeadAt(t, k) /\ k \in Nat \ {0}
    BY <1>3, TurnIs DEF IsReading
  <2>2. HeadMoved(s, t, z, k, j)
    <3> HIDE DEF k
    <3> QED BY <2>1, HeadMovedIs
  <2>3. z[j] = t[k]
    BY <2>2 DEF HeadMoved
  <2>4. t[k] # 187
    BY <1>3, <2>1 DEF LongMap
  <2> HIDE DEF z, j, k, q
  <2>5. z[q.at] # 187
    BY <1>1, <2>3, <2>4
  <2>6. ~LongMap(z, q)
    BY <2>5 DEF LongMap
  <2> QED BY <2>6 DEF z, q
<1> QED BY <1>2, <1>3

\* A reading of bytes behind others that are read to their end, as far as one
\* by itself comes.
LEMMA ReachesBehind ==
  ASSUME NEW s \in Seq(Byte), NEW t \in Seq(Byte), NEW w,
         Reaches(s, At(Len(s) + 1, <<>>, w)), NEW r, Reaches(t, r)
  PROVE  Reaches(s \o t, Moved(s, w, r))
<1> DEFINE z == s \o t
           l == Len(s)
           e == At(l + 1, <<>>, w)
<1>1. e.at = l + 1 /\ e.open = <<>> /\ e.items = w
  BY AtIs
<1>2. l \in Nat /\ Len(t) \in Nat /\ Len(z) = l + Len(t) /\ z \in Seq(Byte)
  <2>1. IsJoin(s, t, z)
    BY JoinedIs
  <2> QED BY <2>1, LenProperties DEF IsJoin
<1>3. IsReading(e) /\ IsSeq(w)
  BY <1>1, ReachedIs DEF IsReading
<1>4. Reaches(z, e)
  BY ReachesMore
<1> DEFINE M(q) == Moved(s, w, q)
<1>5. PICK f, n : IsRun(f, z, n) /\ f[n] = e
  BY <1>4 DEF Reaches
<1>6. PICK g, m : IsRun(g, t, m) /\ g[m] = r
  BY DEF Reaches
<1> HIDE DEF z, e
<1> DEFINE h == [i \in 0 .. n + m |-> IF i <= n THEN f[i] ELSE M(g[i - n])]
<1>7. n \in Nat /\ m \in Nat /\ f[0] = Start /\ g[0] = Start
  BY <1>5, <1>6 DEF IsRun
<1>8. M(Start) = e
  <2>1. Start = At(1, <<>>, <<>>)
    BY DEF Start, At
  <2>2. M(At(1, <<>>, <<>>)) = At(l + 1, <<>>, w \o <<>>)
    <3>1. Moved(s, w, At(1, <<>>, <<>>)) = At(Len(s) + 1, <<>>, w \o <<>>)
      <4> DEFINE k == 1
                 o == <<>>
                 x == <<>>
      <4> HIDE DEF k, o, x
      <4>1. Moved(s, w, At(k, o, x)) = At(Len(s) + k, o, w \o x)
        BY MovedIs
      <4> QED BY <4>1 DEF k, o, x
    <3> QED BY <3>1 DEF M, l
  <2>3. w \o <<>> = w
    BY <1>3, JoinNone
  <2> QED BY <2>1, <2>2, <2>3 DEF e
<1>9. \A i \in 0 .. n : i \in 0 .. n + m /\ h[i] = f[i]
  BY <1>7
<1>10. \A j \in 0 .. m : n + j \in 0 .. n + m /\ h[n + j] = M(g[j])
  <2> SUFFICES ASSUME NEW j \in 0 .. m PROVE n + j \in 0 .. n + m /\ h[n + j] = M(g[j])
    OBVIOUS
  <2>1. n + j \in 0 .. n + m /\ n + j - n = j /\ n \in 0 .. n
    BY <1>7
  <2>2. CASE j = 0
    <3>1. n + j = n
      BY <1>7, <2>2
    <3> HIDE DEF h, M
    <3> QED BY <1>5, <1>7, <1>8, <1>9, <2>1, <2>2, <3>1
  <2>3. CASE j # 0
    <3>1. ~(n + j <= n)
      BY <1>7, <2>3
    <3> HIDE DEF M
    <3> QED BY <2>1, <3>1
  <2> QED BY <2>2, <2>3
<1> HIDE DEF h
<1>11. InTime(z, e, n)
  <2>1. n \in 0 .. n
    BY <1>7
  <2> QED BY <1>5, <2>1 DEF IsRun
<1>12. n <= 2 * l
  <2>1. Len(e.open) = 0
    BY <1>1
  <2>2. n + 0 <= 2 * (l + 1 - 1)
    BY <1>1, <1>11, <2>1 DEF InTime
  <2> HIDE DEF l
  <2> QED BY <1>2, <1>7, <2>2
<1>13. ASSUME NEW j \in 0 .. m PROVE IsReading(M(g[j])) /\ InTime(z, M(g[j]), n + j)
  <2> DEFINE p == g[j]
             q == M(p)
             a == p.at
             c == Len(p.open)
  <2>1. IsReading(p) /\ a <= Len(t) + 1 /\ j + c <= 2 * (a - 1)
    BY <1>6 DEF IsRun, InTime
  <2>2. IsReading(q) /\ q.at = l + a /\ q.open = p.open
    <3> HIDE DEF p
    <3> QED BY <1>3, <2>1, MovedType
  <2>3. a \in Nat /\ c \in Nat
    BY <2>1, LengthOf DEF IsReading, AreContainers
  <2> HIDE DEF a, c, l, q
  <2>4. l + a <= Len(z) + 1 /\ n + j + c <= 2 * (l + a - 1)
    BY <1>2, <1>7, <1>12, <2>1, <2>3
  <2>5. q.at <= Len(z) + 1 /\ n + j + Len(q.open) <= 2 * (q.at - 1)
    <3>1. q.at = l + a /\ Len(q.open) = c
      BY <2>2 DEF c, a
    <3> DEFINE y == l + a
               b == q.at
               d == Len(q.open)
    <3>3. b = y /\ d = c
      BY <3>1
    <3>4. y <= Len(z) + 1 /\ n + j + c <= 2 * (y - 1)
      BY <1>2, <1>7, <2>3, <2>4
    <3> HIDE DEF y, b, d
    <3>5. b <= Len(z) + 1 /\ n + j + d <= 2 * (b - 1)
      BY <3>3, <3>4
    <3> QED BY <3>5 DEF b, d
  <2> QED BY <2>2, <2>5 DEF InTime, q
<1>14. ASSUME NEW j \in 1 .. m
       PROVE  M(g[j]) = Turn(z, M(g[j - 1])) /\ M(g[j]) # M(g[j - 1]) /\ ~LongMap(z, M(g[j - 1]))
  <2> DEFINE p == g[j - 1]
             q == g[j]
  <2>1. q = Turn(t, p) /\ q # p /\ ~LongMap(t, p)
    BY <1>6 DEF IsRun
  <2>2. IsReading(p) /\ IsReading(q)
    <3>1. j - 1 \in 0 .. m /\ j \in 0 .. m
      BY <1>7
    <3> QED BY <1>6, <3>1 DEF IsRun
  <2> HIDE DEF p, q
  <2>3. M(q) = Turn(z, M(p))
    BY <1>3, <2>1, <2>2, TurnMoved DEF z
  <2>4. M(q) # M(p)
    BY <1>3, <2>1, <2>2, MovedOther
  <2>5. ~LongMap(z, M(p))
    BY <1>3, <2>1, <2>2, LongMapMoved DEF z
  <2> QED BY <2>3, <2>4, <2>5 DEF p, q
<1> HIDE DEF M
<1>15. ASSUME NEW i \in 0 .. n + m PROVE IsReading(h[i]) /\ InTime(z, h[i], i)
  <2>1. CASE i \in 0 .. n
    BY <1>5, <1>9, <2>1 DEF IsRun
  <2>2. CASE i \notin 0 .. n
    <3> DEFINE j == i - n
    <3>1. j \in 0 .. m /\ i = n + j
      BY <1>7, <2>2
    <3> HIDE DEF j
    <3> QED BY <1>10, <1>13, <3>1
  <2> QED BY <2>1, <2>2
<1>16. ASSUME NEW i \in 1 .. n + m
       PROVE  h[i] = Turn(z, h[i - 1]) /\ h[i] # h[i - 1] /\ ~LongMap(z, h[i - 1])
  <2>1. CASE i \in 1 .. n
    <3>1. i \in 0 .. n /\ i - 1 \in 0 .. n
      BY <1>7, <2>1
    <3>2. h[i] = f[i] /\ h[i - 1] = f[i - 1]
      BY <1>9, <3>1
    <3>3. f[i] = Turn(z, f[i - 1]) /\ f[i] # f[i - 1] /\ ~LongMap(z, f[i - 1])
      BY <1>5, <2>1 DEF IsRun
    <3> QED BY <3>2, <3>3
  <2>2. CASE i \notin 1 .. n
    <3> DEFINE j == i - n
               k == j - 1
    <3>1. j \in 0 .. m /\ k \in 0 .. m /\ j \in 1 .. m /\ i = n + j /\ i - 1 = n + k
      BY <1>7, <2>2
    <3>2. M(g[j]) = Turn(z, M(g[k])) /\ M(g[j]) # M(g[k]) /\ ~LongMap(z, M(g[k]))
      BY <1>14, <3>1
    <3> HIDE DEF j, k
    <3>3. h[i] = M(g[j]) /\ h[i - 1] = M(g[k])
      BY <1>10, <3>1
    <3> QED BY <3>2, <3>3
  <2> QED BY <2>1, <2>2
<1> DEFINE v == n + m
<1>17. v \in Nat /\ h[0] = Start /\ h[v] = M(r)
  BY <1>6, <1>7, <1>9, <1>10
<1>18. IsRun(h, z, v)
  <2>1. \A i \in 0 .. v : IsReading(h[i]) /\ InTime(z, h[i], i)
    BY <1>15
  <2>2. \A i \in 1 .. v : h[i] = Turn(z, h[i - 1]) /\ h[i] # h[i - 1] /\ ~LongMap(z, h[i - 1])
    BY <1>16
  <2> HIDE DEF v
  <2> QED BY <1>17, <2>1, <2>2 DEF IsRun
<1> HIDE DEF v
<1> QED BY <1>17, <1>18 DEF Reaches, M, z

\* The bytes s are those of the items w, to the last.
HoldsItems(s, w) == s \in Seq(Byte) /\ Reaches(s, At(Len(s) + 1, <<>>, w))

\* Items, and one more behind their bytes.
LEMMA ItemBehind ==
  ASSUME NEW s, NEW w, HoldsItems(s, w), NEW t, NEW v, HoldsItems(t, <<v>>)
  PROVE  HoldsItems(s \o t, Append(w, v))
<1>1. s \in Seq(Byte) /\ t \in Seq(Byte) /\ Reaches(s, At(Len(s) + 1, <<>>, w))
      /\ Reaches(t, At(Len(t) + 1, <<>>, <<v>>))
  BY DEF HoldsItems
<1> DEFINE k == Len(t) + 1
           o == <<>>
           x == <<v>>
           r == At(k, o, x)
           y == <<>>
<1>2. Reaches(t, r)
  BY <1>1
<1>3. Reaches(s \o t, Moved(s, w, r))
  <2> HIDE DEF r
  <2> QED BY <1>1, <1>2, ReachesBehind
<1>4. x = Append(y, v) /\ IsSeq(y)
  BY EmptyIsSeq
<1>5. IsSeq(w)
  <2> DEFINE j == Len(s) + 1
             q == At(j, o, w)
  <2>1. IsReading(q)
    BY <1>1, ReachedIs
  <2> HIDE DEF j, o
  <2>2. q.items = w
    BY AtIs
  <2> QED BY <2>1, <2>2 DEF IsReading
<1> HIDE DEF k, o, x, y
<1>6. Moved(s, w, r) = At(Len(s) + k, o, w \o x)
  BY MovedIs
<1>7. w \o x = Append(w, v)
  <2>1. w \o Append(y, v) = Append(w \o y, v)
    BY <1>4, <1>5, JoinAppend
  <2>2. w \o y = w
    BY <1>5, JoinNone DEF y
  <2> QED BY <1>4, <2>1, <2>2
<1>8. s \o t \in Seq(Byte) /\ Len(s) + k = Len(s \o t) + 1
  <2>1. Len(s \o t) = Len(s) + Len(t) /\ s \o t \in Seq(Byte)
    BY <1>1, ConcatProperties
  <2>2. Len(s) \in Nat /\ Len(t) \in Nat
    BY <1>1, LenProperties
  <2> QED BY <2>1, <2>2 DEF k
<1> QED BY <1>3, <1>6, <1>7, <1>8 DEF o, HoldsItems

\* No bytes, and no items.
LEMMA NoneRead == HoldsItems(<<>>, <<>>)
<1>1. <<>> \in Seq(Byte) /\ Len(<<>>) + 1 = 1
  BY EmptySeq
<1> QED BY <1>1, ReachesStart DEF HoldsItems
=============================================================================
