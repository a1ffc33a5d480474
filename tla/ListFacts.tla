----------------------------- MODULE ListFacts ------------------------------
(***************************************************************************)
(* What the operators on sequences and sets that the modules use return,   *)
(* for sequences of anything.                                              *)
(***************************************************************************)
EXTENDS Integers, SequencesExt, SequenceTheorems, WellFoundedInduction, TLAPS

IsSeq(q) == \E S : q \in Seq(S)

\* A set of naturals that is not empty has a least element, and Min is it.
LEMMA MinOfNaturals ==
  ASSUME NEW T, T \subseteq Nat, T # {}
  PROVE  Min(T) \in T /\ \A y \in T : Min(T) <= y
<1> DEFINE R == {r \in Nat \X Nat : r[1] < r[2]}
<1>1. IsWellFoundedOn(R, Nat)
  BY NatLessThanWellFounded DEF OpToRel
<1> HIDE DEF R
<1>2. PICK x \in T : \A y \in T : <<y, x>> \notin R
  BY <1>1, WFMin
<1>3. \A y \in T : x <= y
  <2> SUFFICES ASSUME NEW y \in T PROVE x <= y
    OBVIOUS
  <2>1. x \in Nat /\ y \in Nat /\ <<y, x>> \notin R
    BY <1>2
  <2>2. ~(y < x)
    BY <2>1 DEF R
  <2> QED BY <2>1, <2>2
<1> QED BY <1>3, Zenon DEF Min

\* The length and the indices of a sequence.
LEMMA LengthOf ==
  ASSUME NEW q, IsSeq(q)
  PROVE  /\ Len(q) \in Nat /\ DOMAIN q = 1 .. Len(q)
         /\ q # <<>> <=> Len(q) > 0
         /\ q # <<>> => Last(q) = q[Len(q)] /\ Len(q) \in 1 .. Len(q)
<1>1. PICK S : q \in Seq(S)
  BY DEF IsSeq
<1>2. Len(q) \in Nat /\ DOMAIN q = 1 .. Len(q)
  BY <1>1, LenProperties
<1>3. q # <<>> => Len(q) > 0
  BY <1>1, EmptySeq
<1>4. q = <<>> => Len(q) = 0
  BY EmptySeq
<1> QED BY <1>2, <1>3, <1>4 DEF Last

\* The empty sequence is one.
LEMMA EmptyIsSeq == IsSeq(<<>>) /\ Len(<<>>) = 0
<1>1. <<>> \in Seq({})
  BY EmptySeq
<1> QED BY <1>1, EmptySeq DEF IsSeq

\* An element put behind the others.
LEMMA AppendOf ==
  ASSUME NEW q, IsSeq(q), NEW e
  PROVE  LET t == Append(q, e)
         IN /\ IsSeq(t) /\ Len(t) = Len(q) + 1 /\ t[Len(q) + 1] = e
            /\ \A i \in 1 .. Len(q) : t[i] = q[i]
<1>1. PICK S : q \in Seq(S)
  BY DEF IsSeq
<1> DEFINE T == S \cup {e}
<1>2. q \in Seq(T) /\ e \in T
  BY <1>1, SeqMonotonic
<1> HIDE DEF T
<1>3. /\ Append(q, e) \in Seq(T) /\ Len(Append(q, e)) = Len(q) + 1
      /\ Append(q, e)[Len(q) + 1] = e /\ \A i \in 1 .. Len(q) : Append(q, e)[i] = q[i]
  BY <1>2, AppendProperties
<1> QED BY <1>3 DEF IsSeq

\* All elements but the last.
LEMMA FrontOf ==
  ASSUME NEW q, IsSeq(q), q # <<>>
  PROVE  /\ IsSeq(Front(q)) /\ Len(Front(q)) = Len(q) - 1
         /\ \A i \in 1 .. Len(q) - 1 : Front(q)[i] = q[i]
<1>1. PICK S : q \in Seq(S)
  BY DEF IsSeq
<1> DEFINE n == Len(q) - 1
           f == SubSeq(q, 1, n)
<1>2. n \in Nat /\ \A i \in 1 .. n : q[i] \in S
  BY <1>1, LengthOf, ElementOfSeq
<1> HIDE DEF n
<1>3. f \in Seq(S) /\ Len(f) = (IF 1 <= n THEN n - 1 + 1 ELSE 0)
      /\ \A i \in 1 .. n - 1 + 1 : f[i] = q[1 + i - 1]
  BY <1>2, SubSeqProperties
<1> HIDE DEF f
<1>4. f \in Seq(S) /\ Len(f) = n /\ \A i \in 1 .. n : f[i] = q[i]
  BY <1>2, <1>3
<1>5. Front(q) = f
  BY DEF Front, f, n
<1> QED BY <1>4, <1>5 DEF IsSeq, n

\* Another element in place of the last.
LEMMA LastReplaced ==
  ASSUME NEW q, IsSeq(q), q # <<>>, NEW e
  PROVE  LET t == Front(q) \o <<e>>
         IN /\ IsSeq(t) /\ Len(t) = Len(q) /\ t[Len(q)] = e
            /\ \A i \in 1 .. Len(q) - 1 : t[i] = q[i]
<1> DEFINE f == Front(q)
           n == Len(q) - 1
<1>1. IsSeq(f) /\ Len(f) = n /\ \A i \in 1 .. n : f[i] = q[i]
  BY FrontOf
<1>2. n \in Nat /\ Len(q) = n + 1
  BY LengthOf
<1> HIDE DEF f, n
<1>3. PICK S : f \in Seq(S)
  BY <1>1 DEF IsSeq
<1> DEFINE T == S \cup {e}
<1>4. f \in Seq(T) /\ e \in T
  BY <1>3, SeqMonotonic
<1> HIDE DEF T
<1>5. f \o <<e>> = Append(f, e)
  BY <1>4, AppendIsConcat
<1>6. LET t == Append(f, e)
      IN /\ IsSeq(t) /\ Len(t) = n + 1 /\ t[n + 1] = e
         /\ \A i \in 1 .. n : t[i] = f[i]
  BY <1>1, AppendOf
<1> QED BY <1>1, <1>2, <1>5, <1>6 DEF f, n

\* What is left of a sequence behind its first k elements, and these.
LEMMA CutOf ==
  ASSUME NEW S, NEW q \in Seq(S), NEW k \in 0 .. Len(q)
  PROVE  /\ SubSeq(q, k + 1, Len(q)) \in Seq(S)
         /\ Len(SubSeq(q, k + 1, Len(q))) = Len(q) - k
         /\ \A i \in 1 .. Len(q) - k : SubSeq(q, k + 1, Len(q))[i] = q[i + k]
         /\ SubSeq(q, 1, k) \in Seq(S)
         /\ Len(SubSeq(q, 1, k)) = k
<1>1. Len(q) \in Nat /\ \A i \in 1 .. Len(q) : q[i] \in S
  BY LenProperties, ElementOfSeq
<1> DEFINE r == SubSeq(q, k + 1, Len(q))
           f == SubSeq(q, 1, k)
           n == Len(q)
<1>2. \A i \in k + 1 .. n : q[i] \in S
  BY <1>1
<1>3. \A i \in 1 .. k : q[i] \in S
  BY <1>1
<1>4. k + 1 \in Int /\ n \in Int /\ k \in Int /\ 1 \in Int
  BY <1>1
<1>5. /\ r \in Seq(S) /\ Len(r) = IF k + 1 <= n THEN n - (k + 1) + 1 ELSE 0
      /\ \A i \in 1 .. n - (k + 1) + 1 : r[i] = q[k + 1 + i - 1]
  BY <1>2, <1>4, SubSeqProperties
<1>6. f \in Seq(S) /\ Len(f) = IF 1 <= k THEN k - 1 + 1 ELSE 0
  BY <1>3, <1>4, SubSeqProperties
<1> HIDE DEF r, f
<1>7. Len(r) = n - k /\ Len(f) = k
  BY <1>1, <1>4, <1>5, <1>6
<1>8. \A i \in 1 .. n - k : r[i] = q[i + k]
  <2> SUFFICES ASSUME NEW i \in 1 .. n - k PROVE r[i] = q[i + k]
    OBVIOUS
  <2>1. i \in 1 .. n - (k + 1) + 1 /\ k + 1 + i - 1 = i + k
    BY <1>1, <1>4
  <2> QED BY <1>5, <2>1
<1> QED BY <1>5, <1>6, <1>7, <1>8 DEF r, f

\* Another element in place of the k-th.
LEMMA ElementReplaced ==
  ASSUME NEW q, IsSeq(q), NEW k \in 1 .. Len(q), NEW e
  PROVE  LET t == [q EXCEPT ![k] = e]
         IN /\ IsSeq(t) /\ Len(t) = Len(q) /\ t[k] = e
            /\ \A i \in 1 .. Len(q) : i # k => t[i] = q[i]
<1>1. PICK S : q \in Seq(S)
  BY DEF IsSeq
<1> DEFINE T == S \cup {e}
<1>2. q \in Seq(T) /\ e \in T
  BY <1>1, SeqMonotonic
<1> HIDE DEF T
<1>3. /\ [q EXCEPT ![k] = e] \in Seq(T) /\ Len([q EXCEPT ![k] = e]) = Len(q)
      /\ \A j \in 1 .. Len(q) : [q EXCEPT ![k] = e][j] = IF j = k THEN e ELSE q[j]
  BY <1>2, ExceptSeq
<1> QED BY <1>3 DEF IsSeq
-----------------------------------------------------------------------------
(* Sequences put together.  FlattenSeq is recursive; what it returns is       *)
(* proved by least counterexample, with MinOfNaturals.                        *)

\* The function that FlattenSeq takes the last value of, up to index n.
IsFlatten(f, q, n) == f = [i \in 1 .. n |-> IF i = 1 THEN q[i] ELSE f[i - 1] \o q[i]]

\* There is such a function.
LEMMA FlattenExists ==
  ASSUME NEW q, NEW n \in Nat
  PROVE  \E f : IsFlatten(f, q, n)
<1> DEFINE T == {m \in Nat : ~ \E f : IsFlatten(f, q, m)}
<1> SUFFICES ASSUME T # {} PROVE FALSE
  OBVIOUS
<1> DEFINE m == Min(T)
<1>1. m \in T /\ \A y \in T : m <= y
  <2>1. T \subseteq Nat
    OBVIOUS
  <2> HIDE DEF T
  <2> QED BY <2>1, MinOfNaturals
<1> HIDE DEF m
<1>2. m \in Nat /\ ~ \E f : IsFlatten(f, q, m)
  BY <1>1
<1>3. CASE m = 0
  <2> DEFINE f == [i \in 1 .. 0 |-> q]
  <2>1. IsFlatten(f, q, 0)
    BY DEF IsFlatten
  <2> QED BY <1>2, <1>3, <2>1
<1>4. CASE m # 0
  <2>1. m - 1 \in Nat /\ m - 1 \notin T
    BY <1>1, <1>2, <1>4
  <2>2. PICK f : IsFlatten(f, q, m - 1)
    BY <2>1
  <2> DEFINE g == [i \in 1 .. m |-> IF i = 1 THEN q[i] ELSE f[i - 1] \o q[i]]
  <2>3. \A i \in 1 .. m - 1 : g[i] = f[i]
    <3> SUFFICES ASSUME NEW i \in 1 .. m - 1 PROVE g[i] = f[i]
      OBVIOUS
    <3>1. f[i] = IF i = 1 THEN q[i] ELSE f[i - 1] \o q[i]
      BY <2>2 DEF IsFlatten
    <3>2. i \in 1 .. m
      BY <1>2
    <3> QED BY <3>1, <3>2
  <2>4. \A i \in 1 .. m : g[i] = IF i = 1 THEN q[i] ELSE g[i - 1] \o q[i]
    <3> SUFFICES ASSUME NEW i \in 1 .. m PROVE g[i] = IF i = 1 THEN q[i] ELSE g[i - 1] \o q[i]
      OBVIOUS
    <3>1. i # 1 => i - 1 \in 1 .. m - 1
      BY <1>2
    <3>2. i # 1 => g[i - 1] = f[i - 1]
      BY <2>3, <3>1, Zenon
    <3> QED BY <3>2
  <2>5. g = [i \in 1 .. m |-> g[i]]
    OBVIOUS
  <2> HIDE DEF g
  <2>6. g = [i \in 1 .. m |-> IF i = 1 THEN q[i] ELSE g[i - 1] \o q[i]]
    BY <2>4, <2>5
  <2> QED BY <1>2, <2>6 DEF IsFlatten
<1> QED BY <1>3, <1>4

\* FlattenSeq is the last value of such a function.
LEMMA FlattenIs ==
  ASSUME NEW q, Len(q) \in Nat, Len(q) # 0
  PROVE  \E f : IsFlatten(f, q, Len(q)) /\ FlattenSeq(q) = f[Len(q)]
<1> DEFINE f == CHOOSE f : IsFlatten(f, q, Len(q))
<1>1. IsFlatten(f, q, Len(q))
  BY FlattenExists
<1>2. FlattenSeq(q) = f[Len(q)]
  BY DEF FlattenSeq, IsFlatten
<1> QED BY <1>1, <1>2

\* The values of that function, whatever the index it goes up to.
LEMMA FlattenSteps ==
  ASSUME NEW q, NEW n \in Nat, NEW f, IsFlatten(f, q, n)
  PROVE  \A i \in 1 .. n : f[i] = IF i = 1 THEN q[i] ELSE f[i - 1] \o q[i]
BY DEF IsFlatten

\* the same first k elements
SameUpTo(q, r, k) == \A i \in 1 .. k : q[i] = r[i]

\* It depends only on the sequences it has put together so far.
LEMMA FlattenAgrees ==
  ASSUME NEW q, NEW r, NEW n \in Nat, NEW k \in 1 .. n, NEW f, NEW g,
         IsFlatten(f, q, n), IsFlatten(g, r, k), SameUpTo(q, r, k)
  PROVE  SameUpTo(f, g, k)
<1> DEFINE T == {i \in 1 .. k : f[i] # g[i]}
           j == Min(T)
<1> SUFFICES ASSUME T # {} PROVE FALSE
  BY DEF SameUpTo
<1>1. j \in T /\ \A y \in T : j <= y
  <2>1. T \subseteq Nat
    OBVIOUS
  <2> HIDE DEF T
  <2> QED BY <2>1, MinOfNaturals
<1> HIDE DEF j
<1>2. j \in 1 .. k /\ f[j] # g[j] /\ q[j] = r[j] /\ j \in 1 .. n
  BY <1>1 DEF SameUpTo
<1>3. /\ f[j] = IF j = 1 THEN q[j] ELSE f[j - 1] \o q[j]
      /\ g[j] = IF j = 1 THEN r[j] ELSE g[j - 1] \o r[j]
  BY <1>2, FlattenSteps
<1>4. j # 1 => j - 1 \in 1 .. k /\ ~ (j <= j - 1)
  BY <1>2
<1>5. j # 1 => f[j - 1] = g[j - 1]
  BY <1>1, <1>4
<1> QED BY <1>2, <1>3, <1>5

\* No sequence.
LEMMA FlattenNone == FlattenSeq(<<>>) = <<>>
BY EmptyIsSeq DEF FlattenSeq

\* One sequence more.
LEMMA FlattenAppend ==
  ASSUME NEW S, NEW q \in Seq(Seq(S)), NEW e \in Seq(S), FlattenSeq(q) \in Seq(S)
  PROVE  FlattenSeq(Append(q, e)) = FlattenSeq(q) \o e
<1> DEFINE r == Append(q, e)
           n == Len(q)
           m == n + 1
<1>1. /\ r \in Seq(Seq(S)) /\ Len(r) = m /\ r[m] = e
      /\ \A i \in 1 .. n : r[i] = q[i]
  BY AppendProperties, LenProperties
<1>2. /\ n = Len(q) /\ n \in Nat /\ m \in Nat /\ m # 0 /\ m - 1 = n
      /\ m \in 1 .. m /\ (n # 0 => n \in 1 .. m /\ n \in 1 .. n /\ m # 1) /\ (n = 0 => m = 1)
  BY LenProperties
<1> HIDE DEF r, n, m
<1>3. PICK f : IsFlatten(f, r, m) /\ FlattenSeq(r) = f[m]
  BY <1>1, <1>2, FlattenIs
<1>4. f[m] = IF m = 1 THEN r[m] ELSE f[m - 1] \o r[m]
  BY <1>2, <1>3, FlattenSteps
<1>5. CASE n = 0
  <2>1. q = <<>> /\ FlattenSeq(q) = <<>>
    BY <1>2, <1>5, EmptySeq, FlattenNone
  <2>2. FlattenSeq(r) = e
    BY <1>1, <1>2, <1>3, <1>4, <1>5
  <2>3. <<>> \o e = e
    BY ConcatEmptySeq
  <2> QED BY <2>1, <2>2, <2>3 DEF r
<1>6. CASE n # 0
  <2>1. PICK g : IsFlatten(g, q, n) /\ FlattenSeq(q) = g[n]
    BY <1>2, <1>6, FlattenIs
  <2>2. SameUpTo(f, g, n)
    <3>1. m \in Nat /\ n \in 1 .. m /\ IsFlatten(f, r, m) /\ IsFlatten(g, q, n)
      BY <1>2, <1>3, <1>6, <2>1
    <3>2. SameUpTo(r, q, n)
      BY <1>1 DEF SameUpTo
    <3> QED BY <3>1, <3>2, FlattenAgrees
  <2>3. f[n] = g[n]
    BY <1>2, <1>6, <2>2 DEF SameUpTo
  <2>4. f[m] = f[n] \o e
    BY <1>1, <1>2, <1>4, <1>6
  <2> QED BY <1>3, <2>1, <2>3, <2>4 DEF r
<1> QED BY <1>5, <1>6

\* The first k + 1 elements are the first k and one more.
LEMMA FirstOneMore ==
  ASSUME NEW S, NEW q \in Seq(S), NEW k \in 0 .. Len(q) - 1
  PROVE  /\ SubSeq(q, 1, k) \in Seq(S) /\ q[k + 1] \in S
         /\ SubSeq(q, 1, k + 1) = Append(SubSeq(q, 1, k), q[k + 1])
<1>1. Len(q) \in Nat /\ k \in Nat /\ k + 1 \in 1 .. Len(q) /\ k \in 0 .. Len(q) /\ 1 \in 1 .. Len(q)
  BY LenProperties
<1>2. q[k + 1] \in S
  BY <1>1, ElementOfSeq
<1>3. SubSeq(q, 1, k) \in Seq(S)
  BY <1>1, CutOf
<1>4. SubSeq(q, 1, k + 1) = SubSeq(q, 1, k + 1 - 1) \o <<q[k + 1]>>
  <2>1. k + 1 \in 1 .. Len(q) /\ k + 1 >= 1
    BY <1>1
  <2> QED BY <1>1, <2>1, SubSeqRecursiveSecond
<1>5. k + 1 - 1 = k
  BY <1>1
<1>6. Append(SubSeq(q, 1, k), q[k + 1]) = SubSeq(q, 1, k) \o <<q[k + 1]>>
  BY <1>2, <1>3, AppendIsConcat
<1> QED BY <1>2, <1>3, <1>4, <1>5, <1>6

\* Sequences of a set's elements make one of them.
LEMMA FlattenType ==
  ASSUME NEW S, NEW q \in Seq(Seq(S))
  PROVE  FlattenSeq(q) \in Seq(S)
<1> DEFINE n == Len(q)
           T == {k \in 0 .. n : FlattenSeq(SubSeq(q, 1, k)) \notin Seq(S)}
           j == Min(T)
<1>n. n \in Nat /\ SubSeq(q, 1, n) = q
  BY LenProperties, SubSeqFull
<1> SUFFICES ASSUME T # {} PROVE FALSE
  <2>1. n \in 0 .. n
    BY <1>n
  <2>2. T = {} => FlattenSeq(SubSeq(q, 1, n)) \in Seq(S)
    BY <2>1
  <2> HIDE DEF T
  <2> QED BY <1>n, <2>2
<1>1. j \in T /\ \A y \in T : j <= y
  <2>1. T \subseteq Nat
    BY <1>n
  <2> HIDE DEF T
  <2> QED BY <2>1, MinOfNaturals
<1> HIDE DEF j
<1>2. j \in 0 .. n /\ FlattenSeq(SubSeq(q, 1, j)) \notin Seq(S)
  BY <1>1
<1>3. CASE j = 0
  <2>1. SubSeq(q, 1, 0) = <<>>
    BY SubSeqEmpty
  <2> QED BY <1>2, <1>3, <2>1, FlattenNone, EmptySeq
<1>4. CASE j # 0
  <2> DEFINE k == j - 1
  <2>1. k \in 0 .. n - 1 /\ k \in 0 .. n /\ k + 1 = j /\ ~ (j <= k)
    BY <1>2, <1>4, <1>n
  <2>2. FlattenSeq(SubSeq(q, 1, k)) \in Seq(S)
    BY <1>1, <2>1
  <2> HIDE DEF k
  <2>3. /\ SubSeq(q, 1, k) \in Seq(Seq(S)) /\ q[j] \in Seq(S)
        /\ SubSeq(q, 1, j) = Append(SubSeq(q, 1, k), q[j])
    <3> DEFINE SS == Seq(S)
    <3>1. q \in Seq(SS)
      OBVIOUS
    <3> HIDE DEF SS
    <3>2. /\ SubSeq(q, 1, k) \in Seq(SS) /\ q[k + 1] \in SS
          /\ SubSeq(q, 1, k + 1) = Append(SubSeq(q, 1, k), q[k + 1])
      BY <2>1, <3>1, FirstOneMore
    <3> QED BY <2>1, <3>2 DEF SS
  <2>4. FlattenSeq(SubSeq(q, 1, j)) = FlattenSeq(SubSeq(q, 1, k)) \o q[j]
    BY <2>2, <2>3, FlattenAppend
  <2> QED BY <1>2, <2>2, <2>3, <2>4, ConcatProperties
<1> QED BY <1>3, <1>4

\* The first k + 1 sequences are the first k and one more.
LEMMA FlattenOneMore ==
  ASSUME NEW S, NEW q \in Seq(Seq(S)), NEW k \in 0 .. Len(q) - 1
  PROVE  /\ FlattenSeq(SubSeq(q, 1, k)) \in Seq(S) /\ q[k + 1] \in Seq(S)
         /\ FlattenSeq(SubSeq(q, 1, k + 1)) = FlattenSeq(SubSeq(q, 1, k)) \o q[k + 1]
<1> DEFINE SS == Seq(S)
<1>1. q \in Seq(SS)
  OBVIOUS
<1> HIDE DEF SS
<1>2. /\ SubSeq(q, 1, k) \in Seq(SS) /\ q[k + 1] \in SS
      /\ SubSeq(q, 1, k + 1) = Append(SubSeq(q, 1, k), q[k + 1])
  BY <1>1, FirstOneMore
<1> USE DEF SS
<1>3. FlattenSeq(SubSeq(q, 1, k)) \in Seq(S)
  BY <1>2, FlattenType
<1> QED BY <1>2, <1>3, FlattenAppend

\* The first sequences, and the others behind them.
LEMMA FlattenSplit ==
  ASSUME NEW S, NEW q \in Seq(Seq(S)), NEW k \in 0 .. Len(q)
  PROVE  /\ FlattenSeq(SubSeq(q, 1, k)) \in Seq(S)
         /\ FlattenSeq(SubSeq(q, k + 1, Len(q))) \in Seq(S)
         /\ FlattenSeq(q) = FlattenSeq(SubSeq(q, 1, k)) \o FlattenSeq(SubSeq(q, k + 1, Len(q)))
<1> DEFINE n == Len(q)
           SS == Seq(S)
           first == FlattenSeq(SubSeq(q, 1, k))
           next(j) == FlattenSeq(SubSeq(q, k + 1, j))
           T == {j \in k .. n : ~ (next(j) \in Seq(S) /\ FlattenSeq(SubSeq(q, 1, j)) = first \o next(j))}
           m == Min(T)
<1>1. n \in Nat /\ k \in 0 .. n /\ q \in Seq(SS)
  BY LenProperties
<1>2. SubSeq(q, 1, n) = q /\ SubSeq(q, 1, k) \in Seq(SS)
  <2> HIDE DEF SS
  <2> QED BY <1>1, CutOf, SubSeqFull
<1>3. first \in Seq(S)
  BY <1>2, FlattenType
<1>4. SUFFICES ASSUME T # {} PROVE FALSE
  <2>1. n \in k .. n
    BY <1>1
  <2>2. T = {} => next(n) \in Seq(S) /\ FlattenSeq(SubSeq(q, 1, n)) = first \o next(n)
    BY <2>1
  <2> HIDE DEF T
  <2> QED BY <1>2, <1>3, <2>2
<1>5. m \in T /\ \A y \in T : m <= y
  <2>1. T \subseteq Nat
    BY <1>1
  <2> HIDE DEF T
  <2> QED BY <1>4, <2>1, MinOfNaturals
<1> HIDE DEF m
<1>6. m \in k .. n /\ ~ (next(m) \in Seq(S) /\ FlattenSeq(SubSeq(q, 1, m)) = first \o next(m))
  BY <1>5
<1>7. CASE m = k
  <2>1. SubSeq(q, k + 1, k) = <<>>
    BY <1>1, SubSeqEmpty
  <2>2. next(m) = <<>>
    BY <1>7, <2>1, FlattenNone
  <2> HIDE DEF next
  <2>3. first \o <<>> = first /\ <<>> \in Seq(S)
    BY <1>3, ConcatEmptySeq, EmptySeq
  <2> QED BY <1>6, <1>7, <2>2, <2>3
<1>8. CASE m # k
  <2> DEFINE h == m - 1
  <2>1. /\ h \in k .. n /\ h \in 0 .. n - 1 /\ h + 1 = m /\ ~ (m <= h) /\ m \in 1 .. n /\ k + 1 \in 1 .. n
        /\ m \in k + 1 .. n /\ h \in Int /\ k + 1 \in Int /\ m - 1 = h
    BY <1>1, <1>6, <1>8
  <2>2. next(h) \in Seq(S) /\ FlattenSeq(SubSeq(q, 1, h)) = first \o next(h)
    BY <1>5, <2>1
  <2>3. q[m] \in Seq(S) /\ FlattenSeq(SubSeq(q, 1, m)) = FlattenSeq(SubSeq(q, 1, h)) \o q[m]
    <3> HIDE DEF h
    <3> QED BY <2>1, FlattenOneMore
  <2> HIDE DEF h
  <2>4. SubSeq(q, k + 1, h) \in Seq(SS)
    <3>1. \A i \in k + 1 .. h : q[i] \in SS
      <4> SUFFICES ASSUME NEW i \in k + 1 .. h PROVE q[i] \in SS
        OBVIOUS
      <4>1. i \in 1 .. Len(q)
        BY <1>1, <2>1
      <4> HIDE DEF SS
      <4> QED BY <1>1, <4>1, ElementOfSeq
    <3> HIDE DEF SS
    <3> QED BY <2>1, <3>1, SubSeqProperties
  <2>5. SubSeq(q, k + 1, m) = Append(SubSeq(q, k + 1, h), q[m])
    <3>1. SubSeq(q, k + 1, m) = SubSeq(q, k + 1, m - 1) \o <<q[m]>>
      <4> HIDE DEF SS
      <4> QED BY <1>1, <2>1, SubSeqRecursiveSecond
    <3>2. q[m] \in SS
      BY <2>3
    <3> HIDE DEF SS
    <3>3. Append(SubSeq(q, k + 1, h), q[m]) = SubSeq(q, k + 1, h) \o <<q[m]>>
      BY <2>4, <3>2, AppendIsConcat
    <3> QED BY <2>1, <3>1, <3>3
  <2>6. next(m) = next(h) \o q[m]
    BY <2>2, <2>3, <2>4, <2>5, FlattenAppend
  <2> HIDE DEF next, first
  <2>7. (first \o next(h)) \o q[m] = first \o (next(h) \o q[m])
    <3> DEFINE x == first
               y == next(h)
               z == q[m]
    <3>1. x \in Seq(S) /\ y \in Seq(S) /\ z \in Seq(S)
      BY <1>3, <2>2, <2>3
    <3> HIDE DEF x, y, z
    <3>2. (x \o y) \o z = x \o (y \o z)
      BY ONLY <3>1, ConcatAssociative
    <3> QED BY <3>2 DEF x, y, z
  <2>8. next(h) \o q[m] \in Seq(S)
    BY <2>2, <2>3, ConcatProperties
  <2> QED BY <1>6, <2>2, <2>3, <2>6, <2>7, <2>8
<1> QED BY <1>7, <1>8

\* The first sequence, and the others behind it.
LEMMA FlattenFirst ==
  ASSUME NEW S, NEW q \in Seq(Seq(S)), q # <<>>
  PROVE  /\ q[1] \in Seq(S) /\ FlattenSeq(SubSeq(q, 2, Len(q))) \in Seq(S)
         /\ FlattenSeq(q) = q[1] \o FlattenSeq(SubSeq(q, 2, Len(q)))
<1>1. Len(q) \in Nat \ {0}
  BY EmptySeq
<1>2. 0 \in 0 .. Len(q) - 1 /\ 1 \in 0 .. Len(q) /\ 0 + 1 = 1 /\ 1 + 1 = 2
  BY <1>1
<1>3. /\ FlattenSeq(SubSeq(q, 1, 0)) \in Seq(S) /\ q[1] \in Seq(S)
      /\ FlattenSeq(SubSeq(q, 1, 1)) = FlattenSeq(SubSeq(q, 1, 0)) \o q[1]
  BY <1>2, FlattenOneMore
<1>4. SubSeq(q, 1, 0) = <<>>
  BY SubSeqEmpty
<1>5. FlattenSeq(SubSeq(q, 1, 1)) = q[1]
  BY <1>3, <1>4, FlattenNone, ConcatEmptySeq
<1> QED BY <1>2, <1>3, <1>5, FlattenSplit

\* The last sequence grows, and with it the whole.
LEMMA FlattenLastGrown ==
  ASSUME NEW S, NEW q \in Seq(Seq(S)), q # <<>>, NEW r \in Seq(Seq(S)), NEW e \in Seq(S),
         Len(r) = Len(q), r[Len(q)] = q[Len(q)] \o e,
         \A i \in 1 .. Len(q) - 1 : r[i] = q[i]
  PROVE  FlattenSeq(r) = FlattenSeq(q) \o e
<1> DEFINE n == Len(q)
           k == n - 1
           SS == Seq(S)
<1>1. n \in Nat \ {0} /\ q \in Seq(SS) /\ r \in Seq(SS)
  BY EmptySeq
<1>2. k \in 0 .. n - 1 /\ k \in 0 .. n /\ k + 1 = n /\ k = n - 1 /\ n = Len(q) /\ n = Len(r)
  BY <1>1
<1> HIDE DEF n, k
<1>3. /\ SubSeq(q, 1, n) = q /\ SubSeq(r, 1, n) = r
      /\ SubSeq(q, 1, k) \in Seq(SS) /\ Len(SubSeq(q, 1, k)) = k
      /\ SubSeq(r, 1, k) \in Seq(SS) /\ Len(SubSeq(r, 1, k)) = k
  <2> HIDE DEF SS
  <2> QED BY <1>1, <1>2, CutOf, SubSeqFull
<1>4. SubSeq(r, 1, k) = SubSeq(q, 1, k)
  <2>1. \A i \in 1 .. k : q[i] \in SS /\ r[i] \in SS
    <3> HIDE DEF SS
    <3> QED BY <1>1, <1>2, ElementOfSeq
  <2>2. \A i \in 1 .. k : SubSeq(r, 1, k)[i] = r[i] /\ SubSeq(q, 1, k)[i] = q[i]
    <3> SUFFICES ASSUME NEW i \in 1 .. k PROVE SubSeq(r, 1, k)[i] = r[i] /\ SubSeq(q, 1, k)[i] = q[i]
      OBVIOUS
    <3>1. i \in 1 .. k - 1 + 1 /\ 1 + i - 1 = i /\ k \in Int /\ 1 \in Int
      BY <1>2
    <3> HIDE DEF SS
    <3>2. SubSeq(r, 1, k)[i] = r[1 + i - 1] /\ SubSeq(q, 1, k)[i] = q[1 + i - 1]
      BY <2>1, <3>1, SubSeqProperties
    <3> QED BY <3>1, <3>2
  <2>3. \A i \in 1 .. k : SubSeq(r, 1, k)[i] = SubSeq(q, 1, k)[i]
    BY <1>2, <2>2
  <2> HIDE DEF SS
  <2> QED BY <1>3, <2>3, SeqEqual
<1>5. /\ FlattenSeq(SubSeq(q, 1, k)) \in Seq(S) /\ q[n] \in Seq(S)
      /\ FlattenSeq(q) = FlattenSeq(SubSeq(q, 1, k)) \o q[n]
      /\ FlattenSeq(r) = FlattenSeq(SubSeq(r, 1, k)) \o r[n]
  <2>1. /\ FlattenSeq(SubSeq(q, 1, k)) \in Seq(S) /\ q[k + 1] \in Seq(S)
        /\ FlattenSeq(SubSeq(q, 1, k + 1)) = FlattenSeq(SubSeq(q, 1, k)) \o q[k + 1]
    BY <1>2, FlattenOneMore
  <2>2. FlattenSeq(SubSeq(r, 1, k + 1)) = FlattenSeq(SubSeq(r, 1, k)) \o r[k + 1]
    BY <1>2, FlattenOneMore
  <2> QED BY <1>2, <1>3, <2>1, <2>2
<1>6. FlattenSeq(r) = FlattenSeq(SubSeq(q, 1, k)) \o (q[n] \o e)
  BY <1>2, <1>4, <1>5
<1>7. (FlattenSeq(SubSeq(q, 1, k)) \o q[n]) \o e = FlattenSeq(SubSeq(q, 1, k)) \o (q[n] \o e)
  <2> DEFINE x == FlattenSeq(SubSeq(q, 1, k))
             y == q[n]
  <2>1. x \in Seq(S) /\ y \in Seq(S) /\ e \in Seq(S)
    BY <1>5
  <2> HIDE DEF x, y
  <2>2. (x \o y) \o e = x \o (y \o e)
    BY ONLY <2>1, ConcatAssociative
  <2> QED BY <2>2 DEF x, y
<1> QED BY <1>5, <1>6, <1>7

\* A sequence in front of another can be taken off.
LEMMA ConcatCut ==
  ASSUME NEW S, NEW s \in Seq(S), NEW t \in Seq(S)
  PROVE  /\ s \o t \in Seq(S) /\ Len(s) <= Len(s \o t)
         /\ SubSeq(s \o t, 1, Len(s)) = s
         /\ SubSeq(s \o t, Len(s) + 1, Len(s \o t)) = t
<1> DEFINE c == s \o t
           n == Len(s)
           m == Len(t)
<1>1. /\ n \in Nat /\ m \in Nat /\ c \in Seq(S) /\ Len(c) = n + m
      /\ \A i \in 1 .. n + m : c[i] = IF i <= n THEN s[i] ELSE t[i - n]
  BY ConcatProperties, LenProperties
<1> HIDE DEF c
<1>2. n \in 0 .. Len(c) /\ n <= Len(c)
  BY <1>1
<1>3. /\ SubSeq(c, n + 1, Len(c)) \in Seq(S) /\ Len(SubSeq(c, n + 1, Len(c))) = Len(c) - n
      /\ \A i \in 1 .. Len(c) - n : SubSeq(c, n + 1, Len(c))[i] = c[i + n]
      /\ SubSeq(c, 1, n) \in Seq(S) /\ Len(SubSeq(c, 1, n)) = n
  BY <1>1, <1>2, CutOf
<1>4. \A i \in 1 .. n : SubSeq(c, 1, n)[i] = c[i]
  <2> SUFFICES ASSUME NEW i \in 1 .. n PROVE SubSeq(c, 1, n)[i] = c[i]
    OBVIOUS
  <2>1. \A j \in 1 .. n : c[j] \in S
    BY <1>1, ElementOfSeq
  <2>2. n \in Int /\ 1 \in Int /\ i \in 1 .. n - 1 + 1 /\ 1 + i - 1 = i
    BY <1>1
  <2>3. SubSeq(c, 1, n)[i] = c[1 + i - 1]
    <3> HIDE DEF n
    <3> QED BY <2>1, <2>2, SubSeqProperties
  <2> QED BY <2>2, <2>3
<1>5. SubSeq(c, 1, n) = s
  <2>1. \A i \in 1 .. n : SubSeq(c, 1, n)[i] = s[i]
    BY <1>1, <1>4
  <2> QED BY <1>3, <2>1, SeqEqual
<1>6. SubSeq(c, n + 1, Len(c)) = t
  <2> DEFINE d == SubSeq(c, n + 1, Len(c))
  <2>1. d \in Seq(S) /\ Len(d) = m /\ \A i \in 1 .. m : d[i] = c[i + n]
    BY <1>1, <1>3
  <2> HIDE DEF d
  <2>2. \A i \in 1 .. m : c[i + n] = t[i]
    <3> SUFFICES ASSUME NEW i \in 1 .. m PROVE c[i + n] = t[i]
      OBVIOUS
    <3>1. i + n \in 1 .. n + m /\ ~ (i + n <= n) /\ i + n - n = i
      BY <1>1
    <3> QED BY <1>1, <3>1
  <2>3. d = t
    BY <2>1, <2>2, SeqEqual
  <2> QED BY <2>3 DEF d
<1> QED BY <1>1, <1>2, <1>5, <1>6 DEF c

\* A sequence cut in two is the two pieces in a row.
LEMMA CutConcat ==
  ASSUME NEW S, NEW c \in Seq(S), NEW n \in 0 .. Len(c)
  PROVE  /\ SubSeq(c, 1, n) \in Seq(S) /\ Len(SubSeq(c, 1, n)) = n
         /\ SubSeq(c, n + 1, Len(c)) \in Seq(S) /\ Len(SubSeq(c, n + 1, Len(c))) = Len(c) - n
         /\ c = SubSeq(c, 1, n) \o SubSeq(c, n + 1, Len(c))
<1>1. Len(c) \in Nat
  BY LenProperties
<1>2. 1 \in 1 .. Len(c) + 1 /\ n \in 1 - 1 .. Len(c) /\ Len(c) \in n .. Len(c)
  BY <1>1
<1>3. SubSeq(c, 1, n) \o SubSeq(c, n + 1, Len(c)) = SubSeq(c, 1, Len(c))
  BY <1>2, ConcatAdjacentSubSeq
<1> QED BY <1>3, CutOf, SubSeqFull

\* Min of two.
LEMMA MinOfTwo ==
  ASSUME NEW m \in Nat, NEW n \in Nat
  PROVE  Min({m, n}) = IF m <= n THEN m ELSE n
<1>1. Min({m, n}) \in {m, n} /\ \A y \in {m, n} : Min({m, n}) <= y
  BY MinOfNaturals
<1> QED BY <1>1

\* The others behind the first, element by element.
LEMMA RestOf ==
  ASSUME NEW S, NEW q \in Seq(S), q # <<>>
  PROVE  /\ SubSeq(q, 2, Len(q)) \in Seq(S) /\ Len(SubSeq(q, 2, Len(q))) = Len(q) - 1
         /\ \A i \in 1 .. Len(q) - 1 : SubSeq(q, 2, Len(q))[i] = q[i + 1]
<1>1. Len(q) \in Nat \ {0}
  BY EmptySeq
<1>2. 1 \in 0 .. Len(q)
  BY <1>1
<1>3. /\ SubSeq(q, 1 + 1, Len(q)) \in Seq(S) /\ Len(SubSeq(q, 1 + 1, Len(q))) = Len(q) - 1
      /\ \A i \in 1 .. Len(q) - 1 : SubSeq(q, 1 + 1, Len(q))[i] = q[i + 1]
  BY <1>2, CutOf
<1>4. 1 + 1 = 2
  OBVIOUS
<1> QED BY ONLY <1>3, <1>4, Zenon

\* s and t in a row, as an operator the provers do not look into
Row(s, t) == s \o t

\* Its type and length.
LEMMA RowType ==
  \A S : \A s, t \in Seq(S) : Row(s, t) \in Seq(S) /\ Len(Row(s, t)) = Len(s) + Len(t)
BY ConcatProperties DEF Row

\* Where three sequences in a row are cut does not matter.
LEMMA RowAssociative ==
  \A S : \A s, t, u \in Seq(S) : Row(Row(s, t), u) = Row(s, Row(t, u))
BY ConcatAssociative DEF Row

\* What is left of c when its first n elements are gone.
Remains(S, c, n, w) == \E x \in Seq(S) : c = x \o w /\ Len(x) = n

\* r is q without the first k sequences and d elements of the next.
IsCut(r, q, k, d) ==
  /\ k \in 0 .. Len(q) - 1 /\ d \in 0 .. Len(q[k + 1])
  /\ Len(r) = Len(q) - k
  /\ r[1] = SubSeq(q[k + 1], d + 1, Len(q[k + 1]))
  /\ \A i \in 2 .. Len(r) : r[i] = q[i + k]

\* What is left of the whole when they are.
LEMMA FlattenCut ==
  ASSUME NEW S, NEW q \in Seq(Seq(S)), NEW r \in Seq(Seq(S)), NEW k, NEW d, IsCut(r, q, k, d)
  PROVE  Remains(S, FlattenSeq(q), Len(FlattenSeq(SubSeq(q, 1, k))) + d, FlattenSeq(r))
<1> SUFFICES ASSUME k \in 0 .. Len(q) - 1, d \in 0 .. Len(q[k + 1]), Len(r) = Len(q) - k,
                    r[1] = SubSeq(q[k + 1], d + 1, Len(q[k + 1])),
                    \A i \in 2 .. Len(r) : r[i] = q[i + k]
             PROVE  \E x \in Seq(S) : /\ FlattenSeq(q) = x \o FlattenSeq(r)
                                      /\ Len(x) = Len(FlattenSeq(SubSeq(q, 1, k))) + d
  BY Zenon DEF IsCut, Remains
<1> DEFINE n == Len(q)
           SS == Seq(S)
           t == SubSeq(q, k + 1, n)
           a == FlattenSeq(SubSeq(q, 1, k))
           g == SubSeq(q[k + 1], 1, d)
           c == FlattenSeq(SubSeq(t, 2, Len(t)))
<1>1. n \in Nat /\ k \in 0 .. n /\ k \in Nat /\ k < n /\ n = Len(q) /\ k + 1 \in 1 .. n /\ Len(r) \in Nat \ {0}
  BY LenProperties
<1>2. q \in Seq(SS) /\ r \in Seq(SS)
  OBVIOUS
<1> HIDE DEF SS
<1>3. t \in Seq(SS) /\ Len(t) = n - k /\ \A i \in 1 .. n - k : t[i] = q[i + k]
  BY <1>1, <1>2, CutOf, SMTT(30)
<1>4. t # <<>> /\ r # <<>> /\ t[1] = q[k + 1] /\ 1 \in 1 .. n - k
  <2>1. 1 \in 1 .. n - k /\ Len(t) # 0 /\ Len(r) # 0
    BY <1>1, <1>3
  <2>2. t[1] = q[1 + k] /\ 1 + k = k + 1
    BY <1>1, <1>3, <2>1
  <2> HIDE DEF t
  <2> QED BY <2>1, <2>2, EmptySeq
<1>5. a \in Seq(S) /\ FlattenSeq(q) = a \o FlattenSeq(t)
  BY <1>1, FlattenSplit
<1>6. t[1] \in Seq(S) /\ c \in Seq(S) /\ FlattenSeq(t) = t[1] \o c
  <2> HIDE DEF t
  <2> QED BY <1>3, <1>4, FlattenFirst DEF SS
<1>7. r[1] \in Seq(S) /\ FlattenSeq(r) = r[1] \o FlattenSeq(SubSeq(r, 2, Len(r)))
  BY <1>4, FlattenFirst
<1> HIDE DEF n, t
<1>8. SubSeq(r, 2, Len(r)) = SubSeq(t, 2, Len(t))
  <2> DEFINE x == SubSeq(r, 2, Len(r))
             y == SubSeq(t, 2, Len(t))
  <2>1. x \in Seq(SS) /\ Len(x) = Len(r) - 1 /\ \A i \in 1 .. Len(r) - 1 : x[i] = r[i + 1]
    BY <1>2, <1>4, RestOf
  <2>2. y \in Seq(SS) /\ Len(y) = Len(t) - 1 /\ \A i \in 1 .. Len(t) - 1 : y[i] = t[i + 1]
    BY <1>3, <1>4, RestOf
  <2> HIDE DEF x, y
  <2>3. Len(r) = Len(t)
    BY <1>1, <1>3
  <2>4. \A i \in 1 .. Len(r) - 1 : x[i] = y[i]
    <3> SUFFICES ASSUME NEW i \in 1 .. Len(r) - 1 PROVE x[i] = y[i]
      OBVIOUS
    <3>1. x[i] = r[i + 1] /\ y[i] = t[i + 1]
      BY <2>1, <2>2, <2>3
    <3>2. i + 1 \in 2 .. Len(r) /\ i + 1 \in 1 .. n - k
      BY <1>1, <1>3
    <3> QED BY <1>3, <3>1, <3>2
  <2>5. x = y
    BY <2>1, <2>2, <2>3, <2>4, SeqEqual
  <2> QED BY <2>5 DEF x, y
<1>9. g \in Seq(S) /\ Len(g) = d /\ t[1] = g \o r[1]
  <2> DEFINE e == q[k + 1]
  <2>1. e \in Seq(S) /\ d \in 0 .. Len(e) /\ t[1] = e
    BY <1>4, <1>6
  <2>2. r[1] = SubSeq(e, d + 1, Len(e)) /\ g = SubSeq(e, 1, d)
    OBVIOUS
  <2> HIDE DEF e, g
  <2>3. /\ SubSeq(e, 1, d) \in Seq(S) /\ Len(SubSeq(e, 1, d)) = d
        /\ e = SubSeq(e, 1, d) \o SubSeq(e, d + 1, Len(e))
    BY ONLY <2>1, CutConcat
  <2>4. e = g \o r[1]
    BY ONLY <2>2, <2>3, Zenon
  <2> QED BY ONLY <2>1, <2>2, <2>3, <2>4, Zenon
<1> HIDE DEF a, g, c
<1>10. FlattenSeq(r) = r[1] \o c
  BY <1>7, <1>8 DEF c
<1>11. \E x \in Seq(S) : FlattenSeq(q) = x \o FlattenSeq(r) /\ Len(x) = Len(a) + Len(g)
  <2> DEFINE h == r[1]
             b == t[1]
             u == FlattenSeq(t)
             f == FlattenSeq(q)
             w == FlattenSeq(r)
  <2>1. /\ a \in Seq(S) /\ g \in Seq(S) /\ h \in Seq(S) /\ c \in Seq(S)
        /\ b = Row(g, h) /\ u = Row(b, c) /\ f = Row(a, u) /\ w = Row(h, c)
    BY <1>5, <1>6, <1>7, <1>9, <1>10 DEF Row
  <2> HIDE DEF h, b, u, f, w, a, g, c
  <2>2. a \in Seq(S) /\ g \in Seq(S) /\ h \in Seq(S) /\ c \in Seq(S)
    BY ONLY <2>1, Zenon
  <2>3. Row(h, c) \in Seq(S) /\ Row(a, g) \in Seq(S) /\ Len(Row(a, g)) = Len(a) + Len(g)
    BY ONLY <2>2, RowType, Zenon
  <2>4. Row(Row(g, h), c) = Row(g, Row(h, c))
    BY ONLY <2>2, RowAssociative
  <2>5. Row(a, Row(g, Row(h, c))) = Row(Row(a, g), Row(h, c))
    BY ONLY <2>2, <2>3, RowAssociative
  <2>6. f = Row(Row(a, g), w)
    BY ONLY <2>1, <2>4, <2>5, Zenon
  <2>7. \E x \in Seq(S) : f = Row(x, w) /\ Len(x) = Len(a) + Len(g)
    BY ONLY <2>3, <2>6, Zenon
  <2> QED BY <2>7 DEF f, w, Row, a, g
<1> QED BY <1>9, <1>11 DEF a

\* A sequence of one element.
LEMMA OneElement ==
  ASSUME NEW S, NEW q \in Seq(S), Len(q) = 1, NEW e, q[1] = e
  PROVE  q = <<e>>
OBVIOUS

\* A sequence cut twice from the front.
LEMMA CutTwice ==
  ASSUME NEW S, NEW s \in Seq(S), NEW a \in 0 .. Len(s), NEW d \in 0 .. Len(s) - a
  PROVE  LET t == SubSeq(s, a + 1, Len(s))
         IN  SubSeq(t, d + 1, Len(t)) = SubSeq(s, a + d + 1, Len(s))
<1> DEFINE n == Len(s)
           t == SubSeq(s, a + 1, n)
           k == a + d
           u == SubSeq(t, d + 1, Len(t))
           v == SubSeq(s, k + 1, n)
<1>1. n \in Nat /\ k \in 0 .. n /\ n - a \in Nat
  BY LenProperties
<1>2. t \in Seq(S) /\ Len(t) = n - a /\ \A i \in 1 .. n - a : t[i] = s[i + a]
  BY CutOf
<1>3. v \in Seq(S) /\ Len(v) = n - k /\ \A i \in 1 .. n - k : v[i] = s[i + k]
  BY <1>1, CutOf
<1> HIDE DEF t, v
<1>4. u \in Seq(S) /\ Len(u) = Len(t) - d /\ \A i \in 1 .. Len(t) - d : u[i] = t[i + d]
  <2>1. d \in 0 .. Len(t)
    BY <1>2
  <2> QED BY <1>2, <2>1, CutOf
<1> HIDE DEF u
<1>5. Len(u) = Len(v) /\ \A i \in 1 .. Len(u) : u[i] = v[i]
  <2>1. Len(u) = n - k /\ Len(t) - d = n - k
    BY <1>1, <1>2, <1>4
  <2>2. ASSUME NEW i \in 1 .. n - k PROVE u[i] = v[i]
    <3>1. u[i] = t[i + d]
      BY <1>4, <2>1
    <3>2. i + d \in 1 .. n - a /\ (i + d) + a = i + k
      BY <1>1
    <3>3. t[i + d] = s[(i + d) + a]
      BY <1>2, <3>2
    <3> QED BY <1>3, <3>1, <3>2, <3>3
  <2> QED BY <1>3, <2>1, <2>2
<1>6. u = v
  BY <1>3, <1>4, <1>5, SeqEqual
<1> QED BY <1>6 DEF u, v, t

\* What is cut from a sequence that another follows.
LEMMA GrownCut ==
  ASSUME NEW S, NEW s \in Seq(S), NEW t \in Seq(S), NEW a \in 0 .. Len(s)
  PROVE  SubSeq(s \o t, a + 1, Len(s \o t)) = SubSeq(s, a + 1, Len(s)) \o t
<1> DEFINE c == s \o t
           n == Len(s)
           m == Len(t)
           u == SubSeq(c, a + 1, Len(c))
           v == SubSeq(s, a + 1, n)
           w == v \o t
<1>1. /\ n \in Nat /\ m \in Nat /\ c \in Seq(S) /\ Len(c) = n + m
      /\ \A i \in 1 .. n + m : c[i] = IF i <= n THEN s[i] ELSE t[i - n]
  BY ConcatProperties, LenProperties
<1>2. v \in Seq(S) /\ Len(v) = n - a /\ \A i \in 1 .. n - a : v[i] = s[i + a]
  BY CutOf
<1> HIDE DEF v
<1>3. /\ w \in Seq(S) /\ Len(w) = Len(v) + m
      /\ \A i \in 1 .. Len(v) + m : w[i] = IF i <= Len(v) THEN v[i] ELSE t[i - Len(v)]
  BY <1>2, ConcatProperties
<1> HIDE DEF c, w
<1>4. u \in Seq(S) /\ Len(u) = Len(c) - a /\ \A i \in 1 .. Len(c) - a : u[i] = c[i + a]
  <2>1. a \in 0 .. Len(c)
    BY <1>1
  <2> QED BY <1>1, <2>1, CutOf
<1> HIDE DEF u
<1>5. Len(u) = Len(w) /\ \A i \in 1 .. Len(u) : u[i] = w[i]
  <2>1. Len(u) = n + m - a /\ Len(w) = n + m - a
    BY <1>1, <1>2, <1>3, <1>4
  <2>2. ASSUME NEW i \in 1 .. n + m - a PROVE u[i] = w[i]
    <3>1. i \in 1 .. Len(c) - a /\ i + a \in 1 .. n + m /\ i \in 1 .. Len(v) + m
      BY <1>1, <1>2
    <3>2. u[i] = IF i + a <= n THEN s[i + a] ELSE t[i + a - n]
      BY <1>1, <1>4, <3>1
    <3>3. w[i] = IF i <= n - a THEN v[i] ELSE t[i - (n - a)]
      BY <1>2, <1>3, <3>1
    <3>4. CASE i <= n - a
      <4>1. i + a <= n /\ i \in 1 .. n - a
        BY <1>1, <3>4
      <4> QED BY <1>2, <3>2, <3>3, <3>4, <4>1
    <3>5. CASE ~(i <= n - a)
      <4>1. ~(i + a <= n) /\ i + a - n = i - (n - a)
        BY <1>1, <3>5
      <4> QED BY <3>2, <3>3, <3>5, <4>1
    <3> QED BY <3>4, <3>5
  <2> QED BY <2>1, <2>2
<1>6. u = w
  BY <1>3, <1>4, <1>5, SeqEqual
<1> QED BY <1>6 DEF u, w, v, c

\* The first n elements of c are gone, and w is the rest.
CutOff(S, c, n, w) ==
  /\ n \in Nat /\ Len(c) \in Nat /\ Len(w) \in Nat /\ Len(c) = n + Len(w)
  /\ SubSeq(c, 1, n) \in Seq(S) /\ Len(SubSeq(c, 1, n)) = n
  /\ c = SubSeq(c, 1, n) \o w

\* What is gone, and how long it and the rest are.
LEMMA RemainsCut ==
  ASSUME NEW S, NEW c \in Seq(S), NEW w \in Seq(S), NEW n, Remains(S, c, n, w)
  PROVE  CutOff(S, c, n, w)
<1>1. PICK x \in Seq(S) : c = x \o w /\ Len(x) = n
  BY DEF Remains
<1>2. SubSeq(x \o w, 1, Len(x)) = x
  BY ConcatCut
<1>3. Len(c) = n + Len(w) /\ n \in Nat /\ Len(w) \in Nat
  BY <1>1, ConcatProperties, LenProperties
<1>4. SubSeq(c, 1, n) = x
  BY <1>1, <1>2
<1> QED BY <1>1, <1>3, <1>4 DEF CutOff
=============================================================================
