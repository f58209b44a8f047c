---------------------------- MODULE PrintfProofs -----------------------------
(***************************************************************************)
(* Proofs about _vsnprintf for every width of long, every buffer, format   *)
(* and arguments.                                                          *)
(***************************************************************************)
EXTENDS Printf, SequenceTheorems, FiniteSetTheorems, WellFoundedInduction, TLAPS

-----------------------------------------------------------------------------
(* A sequence, of whatever characters. *)
IsText(s) == \E S : s \in Seq(S)

LEMMA TextType ==
  ASSUME NEW s, IsText(s)
  PROVE  Len(s) \in Nat /\ DOMAIN s = 1 .. Len(s)
BY DEF IsText

LEMMA JoinText ==
  ASSUME NEW s, NEW t, IsText(s), IsText(t)
  PROVE  /\ IsText(s \o t) /\ Len(s \o t) = Len(s) + Len(t)
         /\ \A i \in 1 .. Len(s) : (s \o t)[i] = s[i]
         /\ \A i \in 1 .. Len(t) : (s \o t)[Len(s) + i] = t[i]
<1>1. PICK S, T : s \in Seq(S) /\ t \in Seq(T)
  BY DEF IsText
<1>2. s \in Seq(S \cup T) /\ t \in Seq(S \cup T)
  BY <1>1
<1>3. s \o t \in Seq(S \cup T)
  BY <1>2
<1> QED BY <1>1, <1>2, <1>3 DEF IsText

LEMMA RepeatText ==
  ASSUME NEW c, NEW n \in Nat
  PROVE  IsText(Repeat(c, n)) /\ Len(Repeat(c, n)) = n
<1>1. Repeat(c, n) \in [1 .. n -> {c}]
  BY DEF Repeat
<1>2. Repeat(c, n) \in Seq({c}) /\ Len(Repeat(c, n)) = n
  BY <1>1
<1> QED BY <1>2 DEF IsText

LEMMA RestText ==
  ASSUME NEW S, NEW s \in Seq(S), NEW k \in Nat
  PROVE  Rest(s, k) \in Seq(S) /\ Len(Rest(s, k)) <= Len(s)
BY DEF Rest

LEMMA TailText ==
  ASSUME NEW S, NEW s \in Seq(S), s # <<>>
  PROVE  Tail(s) \in Seq(S) /\ Len(Tail(s)) <= Len(s)
OBVIOUS

LEMMA PrefixText ==
  ASSUME NEW s, IsText(s), NEW n \in Int, n <= Len(s)
  PROVE  IsText(SubSeq(s, 1, n)) /\ Len(SubSeq(s, 1, n)) <= Len(s)
<1>1. PICK S : s \in Seq(S)
  BY DEF IsText
<1>2. SubSeq(s, 1, n) \in Seq(S) /\ Len(SubSeq(s, 1, n)) <= Len(s)
  BY <1>1
<1> QED BY <1>2 DEF IsText

LEMMA ReverseText ==
  ASSUME NEW s, IsText(s)
  PROVE  IsText(Reverse(s))
<1>1. Len(s) \in Nat
  BY TextType
<1> DEFINE S == {s[(Len(s) - i) + 1] : i \in 1 .. Len(s)}
<1>2. Reverse(s) \in [1 .. Len(s) -> S]
  BY DEF Reverse
<1> HIDE DEF S
<1>3. Reverse(s) \in Seq(S)
  BY <1>1, <1>2
<1> QED BY <1>3 DEF IsText

LEMMA MaxOfTwo ==
  ASSUME NEW a \in Int, NEW b \in Int
  PROVE  Max({a, b}) = (IF a >= b THEN a ELSE b) /\ Min({a, b}) = (IF a <= b THEN a ELSE b)
BY DEF Max, Min

LEMMA PaddedText ==
  ASSUME NEW s, IsText(s), NEW left, NEW w \in Nat
  PROVE  IsText(Padded(s, left, w))
<1>1. Len(s) \in Nat
  BY TextType
<1> DEFINE n == Max({0, w - Len(s)})
<1>2. n \in Nat
  BY <1>1, MaxOfTwo
<1> HIDE DEF n
<1>3. IsText(Repeat(" ", n))
  BY <1>2, RepeatText
<1>4. IsText(s \o Repeat(" ", n)) /\ IsText(Repeat(" ", n) \o s)
  BY <1>3, JoinText
<1> QED BY <1>4 DEF Padded, n

(* A text that fits into the conversion buffer. *)
Fits(s) == IsText(s) /\ Len(s) <= PRINTF_NTOA_BUFFER_SIZE

LEMMA ZeroesFit ==
  ASSUME NEW s, Fits(s), NEW len \in Nat
  PROVE  Fits(ZeroesTo(s, len))
<1> DEFINE n == Max({0, Min({len, PRINTF_NTOA_BUFFER_SIZE}) - Len(s)})
<1>1. PRINTF_NTOA_BUFFER_SIZE \in Nat /\ Len(s) \in Nat /\ Len(s) <= PRINTF_NTOA_BUFFER_SIZE
  BY TextType, PrintfAssumption DEF PRINTF_NTOA_BUFFER_SIZE, Fits
<1>a. len \in Int /\ PRINTF_NTOA_BUFFER_SIZE \in Int
  BY <1>1
<1>2. Min({len, PRINTF_NTOA_BUFFER_SIZE})
        = IF len <= PRINTF_NTOA_BUFFER_SIZE THEN len ELSE PRINTF_NTOA_BUFFER_SIZE
  BY <1>a, MaxOfTwo, Zenon
<1> DEFINE m == Min({len, PRINTF_NTOA_BUFFER_SIZE})
<1>3. m \in Nat /\ m <= PRINTF_NTOA_BUFFER_SIZE
  BY <1>1, <1>2
<1> HIDE DEF m
<1>4. m - Len(s) \in Int
  BY <1>1, <1>3
<1>5. Max({0, m - Len(s)}) = IF 0 >= m - Len(s) THEN 0 ELSE m - Len(s)
  BY <1>4, MaxOfTwo
<1>6. n \in Nat /\ Len(s) + n <= PRINTF_NTOA_BUFFER_SIZE
  BY <1>1, <1>3, <1>5 DEF m
<1> HIDE DEF n
<1>7. IsText(Repeat("0", n)) /\ Len(Repeat("0", n)) = n
  BY <1>6, RepeatText
<1>8. IsText(s \o Repeat("0", n)) /\ Len(s \o Repeat("0", n)) = Len(s) + n
  BY <1>7, JoinText DEF Fits
<1> QED BY <1>6, <1>8 DEF ZeroesTo, Fits, n

LEMMA PushFits ==
  ASSUME NEW s, Fits(s), NEW c
  PROVE  Fits(Push(s, c))
<1>1. PICK S : s \in Seq(S)
  BY DEF Fits, IsText
<1>2. s \in Seq(S \cup {c})
  BY <1>1
<1>3. Append(s, c) \in Seq(S \cup {c}) /\ Len(Append(s, c)) = Len(s) + 1
  BY <1>2
<1>4. PRINTF_NTOA_BUFFER_SIZE \in Nat /\ Len(s) \in Nat
  BY <1>1, PrintfAssumption DEF PRINTF_NTOA_BUFFER_SIZE
<1> QED BY <1>3, <1>4 DEF Push, Fits, IsText

LEMMA NumeralFits ==
  ASSUME NEW value, NEW b, NEW table
  PROVE  Fits(Numeral(value, b, table))
<1> DEFINE B == PRINTF_NTOA_BUFFER_SIZE
           places == {n \in 1 .. B : n = 1 \/ value >= b ^ (n - 1)}
           len == Cardinality(places)
<1>1. B \in Nat
  BY PrintfAssumption DEF PRINTF_NTOA_BUFFER_SIZE
<1>2. IsFiniteSet(1 .. B) /\ Cardinality(1 .. B) = B
  BY <1>1, FS_Interval
<1>3. places \subseteq 1 .. B
  OBVIOUS
<1>4. Numeral(value, b, table) = [i \in 1 .. len |-> table[((value \div (b ^ (i - 1))) % b) + 1]]
  BY Zenon DEF Numeral
<1> HIDE DEF places
<1>5. len \in Nat /\ len <= B
  <2>1. IsFiniteSet(places) /\ Cardinality(places) <= Cardinality(1 .. B)
    BY <1>2, <1>3, FS_Subset
  <2> QED BY <1>2, <2>1, FS_CardinalityType
<1> HIDE DEF len
<1> DEFINE S == {table[((value \div (b ^ (i - 1))) % b) + 1] : i \in 1 .. len}
<1>6. Numeral(value, b, table) \in [1 .. len -> S]
  BY <1>4
<1> HIDE DEF S
<1>7. Numeral(value, b, table) \in Seq(S) /\ Len(Numeral(value, b, table)) = len
  BY <1>5, <1>6
<1> QED BY <1>5, <1>7 DEF Fits, IsText

-----------------------------------------------------------------------------
(* Numbers in the format. *)
LEMMA LeastOf ==
  ASSUME NEW S \in SUBSET Nat, S # {}
  PROVE  \E x \in S : \A y \in S : x <= y
<1>1. PICK x \in S : \A y \in S : ~ (<<y, x>> \in OpToRel(<, Nat))
  BY NatLessThanWellFounded, WFMin, Zenon
<1>2. ASSUME NEW y \in S PROVE x <= y
  <2>1. <<y, x>> \in Nat \X Nat
    OBVIOUS
  <2>2. ~ (y < x)
    BY <1>1, <2>1 DEF OpToRel
  <2> QED BY <2>2
<1> QED BY <1>2

(* The scan over leading characters stops, within the string. *)
LEMMA LeadingType ==
  ASSUME NEW S, NEW s \in Seq(S), NEW D
  PROVE  Leading(s, D) \in 0 .. Len(s) /\ \A i \in 1 .. Leading(s, D) : s[i] \in D
<1> DEFINE Stop == {n \in 0 .. Len(s) : n < Len(s) => s[n + 1] \notin D}
           Good(n) == /\ \A i \in 1 .. n : s[i] \in D
                      /\ n < Len(s) => s[n + 1] \notin D
<1>1. Stop \in SUBSET Nat /\ Len(s) \in Stop
  OBVIOUS
<1>2. PICK n \in Stop : \A y \in Stop : n <= y
  <2> HIDE DEF Stop
  <2> QED BY <1>1, LeastOf
<1>3. n \in 0 .. Len(s) /\ (n < Len(s) => s[n + 1] \notin D)
  OBVIOUS
<1>4. ASSUME NEW i \in 1 .. n PROVE s[i] \in D
  <2>1. i - 1 \in 0 .. Len(s) /\ i - 1 < n /\ i - 1 < Len(s) /\ (i - 1) + 1 = i
    BY <1>3
  <2>2. i - 1 \notin Stop
    <3> HIDE DEF Stop
    <3> QED BY <1>2, <1>3, <2>1
  <2> QED BY <2>1, <2>2
<1>5. Good(n)
  BY <1>3, <1>4
<1>6. Leading(s, D) = CHOOSE m \in 0 .. Len(s) : Good(m)
  BY Zenon DEF Leading
<1> HIDE DEF Good
<1>7. Leading(s, D) \in 0 .. Len(s) /\ Good(Leading(s, D))
  BY <1>3, <1>5, <1>6
<1> QED BY <1>7 DEF Good

LEMMA DigitType ==
  ASSUME NEW c \in ToSet(Digits)
  PROVE  DigitValue(c) \in 0 .. 9
<1>1. PICK i \in 1 .. 10 : Digits[i] = c
  BY DEF ToSet, Digits
<1>2. i - 1 \in 0 .. 9 /\ Digits[(i - 1) + 1] = c
  BY <1>1
<1> HIDE DEF Digits
<1> QED BY <1>2 DEF DigitValue

(* _atoi returns an unsigned int, whatever the number of digits: the values *)
(* of the loop exist for every number of iterations.                       *)
LEMMA AtoiType ==
  ASSUME NEW s \in Seq(ToSet(Digits))
  PROVE  _atoi(s) \in 0 .. UINT_RANGE - 1
<1> DEFINE L == Len(s)
           d(n) == DigitValue(s[n])
           U == 0 .. UINT_RANGE - 1
           Rec(g) == [n \in 0 .. L |-> IF n = 0 THEN 0 ELSE UInt((g[n - 1] * 10) + d(n))]
           i == CHOOSE g : g = Rec(g)
           Good(m, g) == /\ g \in [0 .. m -> U]
                         /\ \A n \in 0 .. m : g[n] = IF n = 0 THEN 0 ELSE UInt((g[n - 1] * 10) + d(n))
           Bad == {m \in 0 .. L : ~ \E g : Good(m, g)}
<1>1. _atoi(s) = i[L]
  BY Zenon DEF _atoi
<1>2. L \in Nat /\ \A n \in 1 .. L : d(n) \in 0 .. 9
  BY DigitType
<1>3. UINT_RANGE \in Nat \ {0} /\ 0 \in U
  BY RangeAssumption, PrintfAssumption
<1>4. \A x \in Int : UInt(x) \in U
  BY <1>3 DEF UInt
<1> HIDE DEF L, d
<1>5. \A x \in U, n \in 1 .. L : UInt((x * 10) + d(n)) \in U
  <2>1. \A x \in U, n \in 1 .. L : (x * 10) + d(n) \in Int
    BY <1>2
  <2> HIDE DEF U
  <2> QED BY <1>4, <2>1
<1> HIDE DEF U
<1>6. Bad = {}
  <2> SUFFICES ASSUME Bad # {} PROVE FALSE
    OBVIOUS
  <2>1. PICK m \in Bad : \A y \in Bad : m <= y
    <3>1. Bad \in SUBSET Nat
      BY <1>2
    <3> HIDE DEF Bad
    <3> QED BY <3>1, LeastOf
  <2>2. m \in 0 .. L
    OBVIOUS
  <2>3. m # 0
    <3> SUFFICES ASSUME m = 0 PROVE \E g : Good(m, g)
      OBVIOUS
    <3> DEFINE g == [n \in 0 .. 0 |-> 0]
    <3>1. Good(0, g)
      BY <1>3
    <3> HIDE DEF Good, g
    <3> QED BY <3>1
  <2>4. m - 1 \in 0 .. L /\ m - 1 \notin Bad
    <3> HIDE DEF Bad
    <3> QED BY <1>2, <2>1, <2>2, <2>3
  <2>5. PICK h : Good(m - 1, h)
    BY <2>4
  <2> DEFINE g == [n \in 0 .. m |-> IF n = m THEN UInt((h[m - 1] * 10) + d(m)) ELSE h[n]]
  <2>6. h[m - 1] \in U /\ m \in 1 .. L
    BY <1>2, <2>2, <2>3, <2>5
  <2>7. g \in [0 .. m -> U]
    <3>1. \A n \in 0 .. m : n # m => n \in 0 .. m - 1
      BY <1>2, <2>2
    <3> QED BY <1>5, <2>5, <2>6, <3>1
  <2>8. ASSUME NEW n \in 0 .. m
        PROVE  g[n] = IF n = 0 THEN 0 ELSE UInt((g[n - 1] * 10) + d(n))
    <3>1. CASE n = m
      <4>1. g[m - 1] = h[m - 1] /\ g[m] = UInt((h[m - 1] * 10) + d(m))
        BY <1>2, <2>2, <2>3
      <4> HIDE DEF g
      <4> QED BY <2>3, <3>1, <4>1
    <3>2. CASE n # m
      <4>1. n \in 0 .. m - 1 /\ g[n] = h[n] /\ (n # 0 => g[n - 1] = h[n - 1])
        BY <1>2, <2>2, <3>2
      <4> HIDE DEF g
      <4> QED BY <2>5, <4>1
    <3> QED BY <3>1, <3>2
  <2>9. Good(m, g)
    <3> HIDE DEF g
    <3> QED BY <2>7, <2>8
  <2> HIDE DEF Good, g
  <2> QED BY <2>9
<1>7. PICK g : Good(L, g)
  <2>1. L \in 0 .. L /\ L \notin Bad
    <3> HIDE DEF Bad, L
    <3> QED BY <1>2, <1>6
  <2> HIDE DEF Good
  <2> QED BY <2>1
<1>8. g = Rec(g)
  BY <1>7
<1>9. i = Rec(i)
  <2> HIDE DEF Rec
  <2> QED BY <1>8
<1> HIDE DEF i
<1>10. \A n \in 0 .. L : i[n] = IF n = 0 THEN 0 ELSE UInt((i[n - 1] * 10) + d(n))
  BY <1>9
<1> DEFINE Wrong == {n \in 0 .. L : i[n] \notin U}
<1>11. Wrong = {}
  <2> SUFFICES ASSUME Wrong # {} PROVE FALSE
    OBVIOUS
  <2>1. PICK n \in Wrong : \A y \in Wrong : n <= y
    <3>1. Wrong \in SUBSET Nat
      BY <1>2
    <3> HIDE DEF Wrong
    <3> QED BY <3>1, LeastOf
  <2>2. n \in 0 .. L /\ i[n] \notin U
    OBVIOUS
  <2>3. n # 0
    BY <1>3, <1>10, <2>2
  <2>4. n - 1 \in 0 .. L /\ n - 1 \notin Wrong /\ n \in 1 .. L
    <3> HIDE DEF Wrong
    <3> QED BY <1>2, <2>1, <2>2, <2>3
  <2>5. i[n - 1] \in U
    BY <2>4
  <2> QED BY <1>5, <1>10, <2>2, <2>3, <2>4, <2>5
<1>12. i[L] \in U
  BY <1>2, <1>11
<1> QED BY <1>1, <1>12 DEF U

(* The field widths and precisions that the format spells out. *)
LEMMA DecimalType ==
  ASSUME NEW f \in Seq(STRING)
  PROVE  /\ _atoi(Decimal(f)) \in 0 .. UINT_RANGE - 1
         /\ Len(Decimal(f)) \in Nat
<1> DEFINE n == Leading(f, ToSet(Digits))
<1>1. n \in 0 .. Len(f) /\ \A i \in 1 .. n : f[i] \in ToSet(Digits)
  BY LeadingType
<1>2. Decimal(f) = SubSeq(f, 1, n)
  BY DEF Decimal
<1> HIDE DEF n
<1>3. Decimal(f) \in Seq(ToSet(Digits)) /\ Len(Decimal(f)) = n
  BY <1>1, <1>2
<1>4. _atoi(Decimal(f)) \in 0 .. UINT_RANGE - 1
  BY <1>3, AtoiType
<1> QED BY <1>1, <1>3, <1>4

(* A number read as a signed int. *)
LEMMA SignedType ==
  ASSUME NEW x \in Nat
  PROVE  /\ Signed(x, UINT_RANGE) \in -UINT_RANGE .. UINT_RANGE /\ Signed(x, UINT_RANGE) < UINT_RANGE
         /\ UInt(- Signed(x, UINT_RANGE)) \in 0 .. UINT_RANGE - 1
<1>1. UINT_RANGE \in Nat \ {0}
  BY RangeAssumption, PrintfAssumption
<1>2. x % UINT_RANGE \in 0 .. UINT_RANGE - 1
  BY <1>1
<1>3. Signed(x, UINT_RANGE) \in -UINT_RANGE .. UINT_RANGE /\ Signed(x, UINT_RANGE) < UINT_RANGE
  BY <1>1, <1>2 DEF Signed
<1> QED BY <1>1, <1>3 DEF UInt

LEMMA OneText ==
  ASSUME NEW c
  PROVE  IsText(<<c>>) /\ Len(<<c>>) = 1 /\ <<c>>[1] = c
<1>1. <<c>> \in Seq({c})
  OBVIOUS
<1> QED BY <1>1 DEF IsText

-----------------------------------------------------------------------------
(* The arguments that a format asks for. *)

(* What is left of what is left. *)
LEMMA RestOfRest ==
  ASSUME NEW S, NEW s \in Seq(S), NEW k \in 0 .. Len(s)
  PROVE  /\ Rest(s, k) \in Seq(S) /\ Len(Rest(s, k)) = Len(s) - k
         /\ \A m \in 0 .. Len(s) - k : Rest(Rest(s, k), m) = Rest(s, k + m)
<1>0. ASSUME NEW t \in Seq(S), NEW n \in 0 .. Len(t)
      PROVE  /\ Rest(t, n) \in Seq(S) /\ Len(Rest(t, n)) = Len(t) - n
             /\ \A i \in 1 .. Len(t) - n : Rest(t, n)[i] = t[n + i]
  BY DEF Rest
<1>1. Rest(s, k) \in Seq(S) /\ Len(Rest(s, k)) = Len(s) - k
  BY <1>0
<1>2. ASSUME NEW m \in 0 .. Len(s) - k
      PROVE  Rest(Rest(s, k), m) = Rest(s, k + m)
  <2> DEFINE l == Rest(Rest(s, k), m)
             n == k + m
             r == Rest(s, n)
  <2>1. l \in Seq(S) /\ Len(l) = Len(s) - k - m /\ \A i \in 1 .. Len(l) : l[i] = Rest(s, k)[m + i]
    <3>1. m \in 0 .. Len(Rest(s, k))
      BY <1>1
    <3> QED BY <1>0, <1>1, <3>1
  <2>2. r \in Seq(S) /\ Len(r) = Len(s) - k - m /\ \A i \in 1 .. Len(r) : r[i] = s[k + m + i]
    <3>1. n \in 0 .. Len(s) /\ Len(s) - n = Len(s) - k - m
      OBVIOUS
    <3>2. r \in Seq(S) /\ Len(r) = Len(s) - n /\ \A i \in 1 .. Len(s) - n : r[i] = s[n + i]
      <4> HIDE DEF n
      <4> QED BY <1>0, <3>1
    <3> HIDE DEF r
    <3> QED BY <3>1, <3>2
  <2>3. \A i \in 1 .. Len(s) - k : Rest(s, k)[i] = s[k + i]
    BY <1>0
  <2>4. \A i \in 1 .. Len(l) : l[i] = r[i]
    <3> SUFFICES ASSUME NEW i \in 1 .. Len(l) PROVE l[i] = r[i]
      OBVIOUS
    <3>1. m + i \in 1 .. Len(s) - k /\ k + (m + i) = k + m + i /\ i \in 1 .. Len(r)
      BY <2>1, <2>2
    <3> HIDE DEF l, r
    <3> QED BY <2>1, <2>2, <2>3, <3>1
  <2> HIDE DEF l, r
  <2>5. l = r
    BY <2>1, <2>2, <2>4, SeqEqual
  <2> QED BY <2>5 DEF l, r
<1> QED BY <1>1, <1>2

LEMMA TailIsRest ==
  ASSUME NEW S, NEW s \in Seq(S), s # <<>>
  PROVE  Tail(s) = Rest(s, 1)
BY DEF Rest

(* A part of a format that is left of it. *)
Ending(t, f) == \E k \in 0 .. Len(f) : t = Rest(f, k)

LEMMA EndingType ==
  ASSUME NEW f \in Seq(STRING), NEW t, Ending(t, f)
  PROVE  t \in Seq(STRING) /\ Len(t) \in 0 .. Len(f) /\ t = Rest(f, Len(f) - Len(t))
<1>1. PICK k \in 0 .. Len(f) : t = Rest(f, k)
  BY DEF Ending
<1>2. t \in Seq(STRING) /\ Len(t) = Len(f) - k
  BY <1>1, RestOfRest
<1>3. Len(f) - Len(t) = k /\ Len(t) \in 0 .. Len(f)
  BY <1>2
<1> QED BY <1>1, <1>2, <1>3

LEMMA EndingOfEnding ==
  ASSUME NEW f \in Seq(STRING), NEW t, Ending(t, f), NEW u, Ending(u, t)
  PROVE  Ending(u, f)
<1>1. PICK k \in 0 .. Len(f) : t = Rest(f, k)
  BY DEF Ending
<1>2. PICK m \in 0 .. Len(t) : u = Rest(t, m)
  BY DEF Ending
<1>3. t \in Seq(STRING) /\ Len(t) = Len(f) - k
  BY <1>1, RestOfRest
<1>4. m \in 0 .. Len(f) - k
  BY <1>2, <1>3
<1>5. u = Rest(f, k + m) /\ k + m \in 0 .. Len(f)
  BY <1>1, <1>2, <1>4, RestOfRest
<1> QED BY <1>5 DEF Ending

(* Each field of a conversion ends in the format. *)
LEMMA FieldsEnd ==
  ASSUME NEW f \in Seq(STRING)
  PROVE  /\ Ending(f, f) /\ Ending(AfterFlags(f), f) /\ Ending(AfterNumber(f), f)
         /\ Ending(AfterPrecision(f), f) /\ Ending(AfterLength(f), f)
         /\ f # <<>> => Ending(Rest(f, 1), f)
<1>1. ASSUME NEW g \in Seq(STRING) PROVE At(g) # NUL => g # <<>> /\ Len(g) >= 1 /\ 1 \in 0 .. Len(g)
  BY DEF At
<1>2. f = Rest(f, 0) /\ 0 \in 0 .. Len(f)
  BY DEF Rest
<1>3. Ending(f, f)
  BY <1>2 DEF Ending
<1>4. f # <<>> => Ending(Rest(f, 1), f)
  <2>1. f # <<>> => 1 \in 0 .. Len(f)
    OBVIOUS
  <2> QED BY <2>1 DEF Ending
<1>5. Ending(AfterFlags(f), f)
  BY LeadingType DEF AfterFlags, Ending
<1>6. ASSUME NEW g \in Seq(STRING) PROVE Ending(AfterNumber(g), g)
  <2>1. Leading(g, ToSet(Digits)) \in 0 .. Len(g)
    BY LeadingType
  <2>2. At(g) = "*" => 1 \in 0 .. Len(g)
    BY <1>1 DEF NUL
  <2> QED BY <2>1, <2>2 DEF AfterNumber, Ending
<1>7. Ending(AfterPrecision(f), f)
  <2>1. CASE At(f) = "."
    <3>1. f # <<>> /\ Ending(Rest(f, 1), f)
      BY <1>1, <1>4, <2>1 DEF NUL
    <3>2. Rest(f, 1) \in Seq(STRING)
      BY <3>1, EndingType
    <3>3. Ending(AfterNumber(Rest(f, 1)), f)
      BY <1>6, <3>1, <3>2, EndingOfEnding
    <3> QED BY <2>1, <3>3 DEF AfterPrecision
  <2> QED BY <1>3, <2>1 DEF AfterPrecision
<1>8. Ending(AfterLength(f), f)
  <2>1. CASE At(f) \in {"l", "h"} /\ At(Rest(f, 1)) = At(f)
    <3>1. 1 \in 0 .. Len(f) /\ At(Rest(f, 1)) # NUL
      BY <1>1, <2>1 DEF NUL
    <3>2. Rest(f, 1) \in Seq(STRING) /\ Len(Rest(f, 1)) = Len(f) - 1
      BY <3>1, RestOfRest
    <3>3. Len(Rest(f, 1)) >= 1
      BY <1>1, <3>1, <3>2
    <3>4. 2 \in 0 .. Len(f)
      BY <3>2, <3>3
    <3>5. AfterLength(f) = Rest(f, 2)
      BY <2>1 DEF AfterLength
    <3> QED BY <3>4, <3>5 DEF Ending
  <2>2. CASE ~ (At(f) \in {"l", "h"} /\ At(Rest(f, 1)) = At(f))
    <3>1. At(f) \in {"t", "z", "j", "l", "h"} => 1 \in 0 .. Len(f)
      BY <1>1 DEF NUL
    <3>2. AfterLength(f) = Rest(f, IF At(f) \in {"t", "z", "j", "l", "h"} THEN 1 ELSE 0)
      BY <2>2 DEF AfterLength
    <3> QED BY <1>2, <3>1, <3>2 DEF Ending
  <2> QED BY <2>1, <2>2
<1> QED BY <1>3, <1>4, <1>5, <1>6, <1>7, <1>8

LEMMA AsksType ==
  ASSUME NEW f \in Seq(STRING)
  PROVE  /\ SpecifierAsks(f) \in Nat /\ SpecifierLeaves(f) \in 0 .. Len(f)
         /\ LengthAsks(f) \in Nat /\ LengthLeaves(f) \in 0 .. Len(f)
         /\ PrecisionAsks(f) \in Nat /\ PrecisionLeaves(f) \in 0 .. Len(f)
         /\ WidthAsks(f) \in Nat /\ WidthLeaves(f) \in 0 .. Len(f)
<1>1. ASSUME NEW g \in Seq(STRING) PROVE SpecifierAsks(g) \in Nat /\ SpecifierLeaves(g) \in 0 .. Len(g)
  BY DEF SpecifierAsks, SpecifierLeaves
<1>2. ASSUME NEW g \in Seq(STRING) PROVE LengthAsks(g) \in Nat /\ LengthLeaves(g) \in 0 .. Len(g)
  <2> DEFINE h == AfterLength(g)
  <2>1. h \in Seq(STRING) /\ Len(h) \in 0 .. Len(g)
    BY FieldsEnd, EndingType
  <2>2. LengthAsks(g) = SpecifierAsks(h) /\ LengthLeaves(g) = SpecifierLeaves(h)
    BY DEF LengthAsks, LengthLeaves
  <2> HIDE DEF h
  <2> QED BY <1>1, <2>1, <2>2
<1>3. \A g : Asterisk(g) \in {0, 1}
  BY DEF Asterisk
<1>4. ASSUME NEW g \in Seq(STRING) PROVE PrecisionAsks(g) \in Nat /\ PrecisionLeaves(g) \in 0 .. Len(g)
  <2> DEFINE h == AfterPrecision(g)
             star == IF At(g) = "." THEN Asterisk(Rest(g, 1)) ELSE 0
  <2>1. h \in Seq(STRING) /\ Len(h) \in 0 .. Len(g)
    BY FieldsEnd, EndingType
  <2>2. PrecisionAsks(g) = star + LengthAsks(h) /\ PrecisionLeaves(g) = LengthLeaves(h) /\ star \in Nat
    BY <1>3 DEF PrecisionAsks, PrecisionLeaves
  <2> HIDE DEF h, star
  <2> QED BY <1>2, <2>1, <2>2
<1>5. WidthAsks(f) \in Nat /\ WidthLeaves(f) \in 0 .. Len(f)
  <2> DEFINE h == AfterNumber(f)
             star == Asterisk(f)
  <2>1. h \in Seq(STRING) /\ Len(h) \in 0 .. Len(f)
    BY FieldsEnd, EndingType
  <2>2. WidthAsks(f) = star + PrecisionAsks(h) /\ WidthLeaves(f) = PrecisionLeaves(h) /\ star \in Nat
    BY <1>3 DEF WidthAsks, WidthLeaves
  <2> HIDE DEF h, star
  <2> QED BY <1>4, <2>1, <2>2
<1> QED BY <1>1, <1>2, <1>4, <1>5

(* A sum over a chain of numbers that go down. *)
LEMMA ChainSum ==
  ASSUME NEW L \in Nat, NEW a \in [1 .. L -> Nat], NEW p \in [1 .. L -> Nat],
         \A j \in 1 .. L : p[j] < j
  PROVE  \E g \in [0 .. L -> Nat] : \A j \in 0 .. L : g[j] = IF j = 0 THEN 0 ELSE a[j] + g[p[j]]
<1> DEFINE Good(m, g) == /\ g \in [0 .. m -> Nat]
                         /\ \A j \in 0 .. m : g[j] = IF j = 0 THEN 0 ELSE a[j] + g[p[j]]
           Bad == {m \in 0 .. L : ~ \E g : Good(m, g)}
<1>1. Bad = {}
  <2> SUFFICES ASSUME Bad # {} PROVE FALSE
    OBVIOUS
  <2>1. PICK m \in Bad : \A y \in Bad : m <= y
    <3>1. Bad \in SUBSET Nat
      OBVIOUS
    <3> HIDE DEF Bad
    <3> QED BY <3>1, LeastOf
  <2>2. m \in 0 .. L
    OBVIOUS
  <2>3. m # 0
    <3> SUFFICES ASSUME m = 0 PROVE \E g : Good(m, g)
      OBVIOUS
    <3> DEFINE g == [j \in 0 .. 0 |-> 0]
    <3>1. Good(0, g)
      OBVIOUS
    <3> HIDE DEF Good, g
    <3> QED BY <3>1
  <2>4. m - 1 \in 0 .. L /\ m - 1 \notin Bad
    <3> HIDE DEF Bad
    <3> QED BY <2>1, <2>2, <2>3
  <2>5. PICK h : Good(m - 1, h)
    BY <2>4
  <2> DEFINE g == [j \in 0 .. m |-> IF j = m THEN a[m] + h[p[m]] ELSE h[j]]
  <2>6. m \in 1 .. L /\ p[m] \in 0 .. m - 1
    BY <2>2, <2>3
  <2>7. h[p[m]] \in Nat /\ a[m] \in Nat
    BY <2>5, <2>6
  <2>8. \A j \in 0 .. m : j # m => j \in 0 .. m - 1
    BY <2>2
  <2>9. g \in [0 .. m -> Nat]
    BY <2>5, <2>7, <2>8
  <2>10. ASSUME NEW j \in 0 .. m
         PROVE  g[j] = IF j = 0 THEN 0 ELSE a[j] + g[p[j]]
    <3>1. CASE j = m
      <4>1. g[p[m]] = h[p[m]] /\ g[m] = a[m] + h[p[m]]
        BY <2>6
      <4> HIDE DEF g
      <4> QED BY <2>3, <3>1, <4>1
    <3>2. CASE j # m
      <4>1. j \in 0 .. m - 1 /\ (j # 0 => j \in 1 .. L /\ p[j] \in 0 .. m - 1)
        BY <2>2, <3>2
      <4>2. g[j] = h[j] /\ (j # 0 => g[p[j]] = h[p[j]])
        BY <3>2, <4>1
      <4> HIDE DEF g
      <4> QED BY <2>5, <4>1, <4>2
    <3> QED BY <3>1, <3>2
  <2>11. Good(m, g)
    <3> HIDE DEF g
    <3> QED BY <2>9, <2>10
  <2> HIDE DEF Good, g
  <2> QED BY <2>11
<1>2. L \notin Bad
  BY <1>1
<1>3. PICK g : Good(L, g)
  BY <1>2
<1> QED BY <1>3

(* Asked is defined for every format. *)
LEMMA AskedSums ==
  ASSUME NEW f \in Seq(STRING)
  PROVE  /\ Asked(f)[0] = 0
         /\ \A j \in 0 .. Len(f) : Asked(f)[j] \in Nat
         /\ \A j \in 1 .. Len(f) :
              LET rest == AfterFlags(Rest(f, Len(f) - j + 1))
              IN  Asked(f)[j] = IF f[Len(f) - j + 1] # "%" THEN Asked(f)[j - 1]
                                ELSE WidthAsks(rest) + Asked(f)[WidthLeaves(rest)]
<1> DEFINE L == Len(f)
           field(j) == AfterFlags(Rest(f, L - j + 1))
           plain(j) == f[L - j + 1] # "%"
           Rec(g) == [j \in 0 .. L |->
                        IF j = 0 THEN 0
                        ELSE IF plain(j) THEN g[j - 1]
                        ELSE WidthAsks(field(j)) + g[WidthLeaves(field(j))]]
           c == CHOOSE g : g = Rec(g)
           a == [j \in 1 .. L |-> IF plain(j) THEN 0 ELSE WidthAsks(field(j))]
           p == [j \in 1 .. L |-> IF plain(j) THEN j - 1 ELSE WidthLeaves(field(j))]
<1>1. Asked(f) = c
  BY Zenon DEF Asked
<1>2. L \in Nat
  OBVIOUS
<1>3. \A j \in 1 .. L : WidthAsks(field(j)) \in Nat /\ WidthLeaves(field(j)) \in 0 .. j - 1
  <2> SUFFICES ASSUME NEW j \in 1 .. L
               PROVE  WidthAsks(field(j)) \in Nat /\ WidthLeaves(field(j)) \in 0 .. j - 1
    OBVIOUS
  <2>1. L - j + 1 \in 0 .. L
    OBVIOUS
  <2> DEFINE r == Rest(f, L - j + 1)
             h == AfterFlags(r)
  <2>2. r \in Seq(STRING) /\ Len(r) = j - 1
    <3>1. Len(f) - (L - j + 1) = j - 1
      OBVIOUS
    <3> QED BY <2>1, <3>1, RestOfRest
  <2> HIDE DEF r
  <2>3. h \in Seq(STRING) /\ Len(h) \in 0 .. Len(r)
    BY <2>2, FieldsEnd, EndingType
  <2> HIDE DEF h
  <2>4. WidthAsks(h) \in Nat /\ WidthLeaves(h) \in 0 .. Len(h)
    BY <2>3, AsksType
  <2>5. WidthLeaves(h) \in 0 .. j - 1
    BY <2>2, <2>3, <2>4
  <2>6. h = field(j)
    BY DEF h, r
  <2> HIDE DEF field
  <2> QED BY <2>4, <2>5, <2>6
<1> HIDE DEF field, plain, L
<1>4. /\ a \in [1 .. L -> Nat] /\ p \in [1 .. L -> Nat]
      /\ \A j \in 1 .. L : p[j] < j
  BY <1>2, <1>3
<1>5. PICK g \in [0 .. L -> Nat] : \A j \in 0 .. L : g[j] = IF j = 0 THEN 0 ELSE a[j] + g[p[j]]
  <2> HIDE DEF a, p
  <2> QED BY <1>2, <1>4, ChainSum
<1>6. g = Rec(g)
  <2>1. ASSUME NEW j \in 0 .. L PROVE g[j] = Rec(g)[j]
    <3>1. CASE j = 0
      BY <1>5, <3>1
    <3>2. CASE j # 0
      <4>1. j \in 1 .. L /\ j - 1 \in 0 .. L
        BY <1>2, <3>2
      <4>2. g[j] = a[j] + g[p[j]]
        <5> HIDE DEF a, p
        <5> QED BY <1>5, <3>2
      <4>3. CASE plain(j)
        <5>1. a[j] = 0 /\ p[j] = j - 1
          BY <4>1, <4>3
        <5>2. g[j - 1] \in Nat
          BY <4>1
        <5>3. g[j] = g[j - 1]
          BY <4>2, <5>1, <5>2
        <5> QED BY <3>2, <4>3, <5>3
      <4>4. CASE ~ plain(j)
        BY <3>2, <4>1, <4>2, <4>4
      <4> QED BY <4>3, <4>4
    <3> QED BY <3>1, <3>2
  <2>2. DOMAIN g = 0 .. L /\ DOMAIN Rec(g) = 0 .. L
    OBVIOUS
  <2> HIDE DEF a, p
  <2> QED BY <2>1, <2>2
<1>7. c = Rec(c)
  <2> HIDE DEF Rec
  <2> QED BY <1>6
<1> HIDE DEF c
<1>8. \A j \in 0 .. L : c[j] = IF j = 0 THEN 0
                               ELSE IF plain(j) THEN c[j - 1]
                               ELSE WidthAsks(field(j)) + c[WidthLeaves(field(j))]
  BY <1>7
<1>9. c[0] = 0
  BY <1>2, <1>8
<1> DEFINE Wrong == {j \in 0 .. L : c[j] \notin Nat}
<1>10. Wrong = {}
  <2> SUFFICES ASSUME Wrong # {} PROVE FALSE
    OBVIOUS
  <2>1. PICK j \in Wrong : \A y \in Wrong : j <= y
    <3>1. Wrong \in SUBSET Nat
      BY <1>2
    <3> HIDE DEF Wrong
    <3> QED BY <3>1, LeastOf
  <2>2. j \in 0 .. L /\ c[j] \notin Nat /\ j # 0
    BY <1>9
  <2>3. \A i \in 0 .. j - 1 : c[i] \in Nat
    <3> SUFFICES ASSUME NEW i \in 0 .. j - 1 PROVE c[i] \in Nat
      OBVIOUS
    <3>1. i \in 0 .. L /\ ~ (j <= i)
      BY <1>2, <2>2
    <3>2. i \notin Wrong
      <4> HIDE DEF Wrong
      <4> QED BY <2>1, <3>1
    <3> QED BY <3>1, <3>2
  <2>4. j \in 1 .. L /\ j - 1 \in 0 .. j - 1
    BY <1>2, <2>2
  <2>5. WidthAsks(field(j)) \in Nat /\ c[WidthLeaves(field(j))] \in Nat /\ c[j - 1] \in Nat
    BY <1>3, <2>3, <2>4
  <2> QED BY <1>8, <2>2, <2>5
<1>11. \A j \in 1 .. L : c[j] = IF plain(j) THEN c[j - 1]
                                ELSE WidthAsks(field(j)) + c[WidthLeaves(field(j))]
  <2>1. \A j \in 1 .. L : j \in 0 .. L /\ j # 0
    BY <1>2
  <2> QED BY <1>8, <2>1
<1>12. \A j \in 0 .. L : c[j] \in Nat
  BY <1>10
<1> QED BY <1>1, <1>9, <1>11, <1>12, Zenon DEF field, plain, L

-----------------------------------------------------------------------------
(* The inductive invariant: the locals of _vsnprintf, what is left of its   *)
(* input, and how the buffer relates to the text so far.                   *)
Argument == [n : Nat, s : Seq(STRING)]
Buffered == {"sprintf_", "snprintf_"}

Locals ==
  /\ call \in Calls
  /\ pc \in {"format", "width", "precision", "length", "specifier", "done", "overrun",
            "zeros", "hash", "sign", "out"}
  /\ format \in Seq(STRING) /\ Len(format) <= Len(call.format)
  /\ args \in Seq(Argument) /\ Len(args) <= Len(call.args)
  /\ width \in 0 .. UINT_RANGE - 1 /\ precision \in 0 .. UINT_RANGE - 1
  /\ Fits(buf)

Counted ==
  /\ IsText(text) /\ idx = UInt(Len(text))
  /\ DOMAIN memory = 0 .. MEMORY_SIZE - 1 /\ ret \in -UINT_RANGE .. UINT_RANGE

(* As long as the call runs, nothing is outside of the buffer, which holds  *)
(* what fits of the text while idx has not wrapped.                        *)
Written ==
  /\ \A a \in DOMAIN memory : (call.function \in Buffered /\ a < maxlen) \/ memory[a] = UNWRITTEN
  /\ Len(text) < UINT_RANGE =>
       \A a \in DOMAIN memory :
         memory[a] = IF call.function \in Buffered /\ a < Len(text) /\ a < maxlen THEN text[a + 1] ELSE UNWRITTEN

IInv ==
  /\ Locals /\ Counted
  /\ pc # "done" => Written
  /\ pc = "done" => StoresWhatFits

LEMMA MaxlenType ==
  ASSUME call \in Calls
  PROVE  maxlen \in 0 .. UINT_RANGE - 1 /\ UINT_RANGE \in Nat \ {0}
<1>1. UINT_RANGE \in Nat \ {0}
  BY RangeAssumption, PrintfAssumption
<1>2. IsCall(call)
  BY CallsAssumption
<1>3. call.count \in 0 .. SIZE_MAX /\ SIZE_MAX = UINT_RANGE - 1
  BY <1>2 DEF IsCall, SIZE_MAX
<1>4. maxlen = call.count \/ maxlen = SIZE_MAX
  BY DEF maxlen
<1>5. SIZE_MAX \in 0 .. UINT_RANGE - 1
  BY <1>1, <1>3
<1> QED BY <1>1, <1>3, <1>4, <1>5

(* While idx does not wrap, an index is meant for one character. *)
LEMMA ForOne ==
  ASSUME NEW s, IsText(s), NEW i \in Nat, i + Len(s) <= UINT_RANGE, NEW a \in Nat
  PROVE  /\ For(s, i, a) # {} <=> a - i + 1 \in 1 .. Len(s)
         /\ For(s, i, a) # {} => Max(For(s, i, a)) = a - i + 1
<1>1. Len(s) \in Nat /\ DOMAIN s = 1 .. Len(s) /\ UINT_RANGE \in Nat \ {0}
  BY TextType, RangeAssumption, PrintfAssumption
<1>2. ASSUME NEW k \in 1 .. Len(s)
      PROVE  UInt(i + k - 1) = a <=> k = a - i + 1
  <2>1. i + k - 1 \in 0 .. UINT_RANGE - 1
    BY <1>1
  <2>2. UInt(i + k - 1) = i + k - 1
    BY <1>1, <2>1 DEF UInt
  <2> QED BY <1>1, <2>2
<1>3. For(s, i, a) = IF a - i + 1 \in 1 .. Len(s) THEN {a - i + 1} ELSE {}
  BY <1>1, <1>2 DEF For
<1>4. ASSUME NEW k \in Int
      PROVE  Max({k}) = k
  BY DEF Max
<1> QED BY <1>1, <1>3, <1>4

(* Sums of indices wrap as the sum does. *)
LEMMA UIntSum ==
  ASSUME NEW x \in Nat, NEW y \in Nat
  PROVE  /\ UInt(UInt(x) + y) = UInt(x + y)
         /\ x < UINT_RANGE => UInt(x) = x
         /\ UInt(x) \in 0 .. UINT_RANGE - 1
<1> DEFINE R == UINT_RANGE
           q == x \div R
           r == x % R
           p == (r + y) \div R
           t == (r + y) % R
           u == (x + y) \div R
           v == (x + y) % R
<1>1. R \in Nat \ {0}
  BY RangeAssumption, PrintfAssumption
<1>2. ASSUME NEW n \in Nat
      PROVE  /\ n \div R \in Nat /\ n % R \in 0 .. R - 1
             /\ n = R * (n \div R) + (n % R)
             /\ n < R => n % R = n
  <2> HIDE DEF R
  <2> QED BY <1>1
<1>3. q \in Nat /\ r \in 0 .. R - 1 /\ x = R * q + r /\ (x < R => r = x)
  BY <1>2
<1>4. r + y \in Nat /\ x + y \in Nat
  BY <1>1, <1>3
<1>5. p \in Nat /\ t \in 0 .. R - 1 /\ r + y = R * p + t
  BY <1>2, <1>4
<1>6. u \in Nat /\ v \in 0 .. R - 1 /\ x + y = R * u + v
  BY <1>2, <1>4
<1>7. UInt(x) = r /\ UInt(UInt(x) + y) = t /\ UInt(x + y) = v
  BY DEF UInt
<1> HIDE DEF R, q, r, p, t, u, v
<1>8. R * (q + p) = R * q + R * p
  BY <1>1, <1>3, <1>5
<1>9. R * (q + p) + t = R * u + v
  BY <1>1, <1>3, <1>5, <1>6, <1>8
<1>10. ASSUME NEW i \in Nat, NEW j \in Nat, NEW o \in 0 .. R - 1, NEW w \in 0 .. R - 1,
              R * i + o = R * j + w
       PROVE  o = w
  BY <1>1, <1>10
<1>11. t = v
  BY <1>3, <1>5, <1>6, <1>9, <1>10
<1> QED BY <1>3, <1>7, <1>11 DEF R

(* The step that all output goes through. *)
LEMMA EmitKeeps ==
  ASSUME IInv, pc # "done", NEW s, IsText(s), Emit(s), UNCHANGED <<call, ret>>
  PROVE  Counted' /\ Written'
<1> DEFINE f == call.function
           m == maxlen
<1>1. /\ Len(s) \in Nat /\ DOMAIN s = 1 .. Len(s) /\ Len(text) \in Nat
      /\ idx = UInt(Len(text)) /\ IsText(text)
  BY TextType DEF IInv, Counted
<1>2. /\ IsText(text \o s) /\ Len(text \o s) = Len(text) + Len(s)
      /\ \A i \in 1 .. Len(text) : (text \o s)[i] = text[i]
      /\ \A i \in 1 .. Len(s) : (text \o s)[Len(text) + i] = s[i]
  BY <1>1, JoinText
<1>3. /\ text' = text \o s /\ idx' = UInt(Len(text')) /\ maxlen' = m /\ (call.function)' = f
      /\ maxlen' = maxlen
  BY <1>1, <1>2, UIntSum DEF Emit, maxlen
<1>4. m \in Nat /\ MEMORY_SIZE \in Nat /\ UINT_RANGE \in Nat \ {0}
  BY MaxlenType, PrintfAssumption DEF IInv, Locals
<1>5. memory' = IF f \in Buffered
                THEN [a \in DOMAIN memory |->
                        IF For(s, idx, a) # {} /\ a < m THEN s[Max(For(s, idx, a))] ELSE memory[a]]
                ELSE memory
  BY DEF Emit, Out, _out_buffer, Buffered
<1>6. DOMAIN memory = 0 .. MEMORY_SIZE - 1 /\ ret \in -UINT_RANGE .. UINT_RANGE
  BY DEF IInv, Counted
<1>a. \A a \in DOMAIN memory : (f \in Buffered /\ a < m) \/ memory[a] = UNWRITTEN
  BY DEF IInv, Written
<1>7. Len(text) < UINT_RANGE => \A a \in DOMAIN memory :
        memory[a] = IF f \in Buffered /\ a < Len(text) /\ a < m THEN text[a + 1] ELSE UNWRITTEN
  BY DEF IInv, Written
<1> HIDE DEF f, m
<1>8. DOMAIN memory' = 0 .. MEMORY_SIZE - 1
  BY <1>5, <1>6
<1>9. Counted'
  BY <1>1, <1>2, <1>3, <1>6, <1>8 DEF Counted
<1>b. \A a \in DOMAIN memory : (f \in Buffered /\ a < m) \/ memory'[a] = UNWRITTEN
  BY <1>5, <1>a
<1>10. ASSUME Len(text \o s) < UINT_RANGE, NEW a \in DOMAIN memory
       PROVE  memory'[a] = IF f \in Buffered /\ a < Len(text \o s) /\ a < m
                           THEN (text \o s)[a + 1] ELSE UNWRITTEN
  <2> DEFINE i == Len(text)
  <2>1. a \in Nat /\ i \in Nat /\ i < UINT_RANGE /\ i + Len(s) <= UINT_RANGE /\ i = Len(text)
    BY <1>1, <1>2, <1>4, <1>6, <1>10
  <2>a. idx = i
    BY <1>1, <2>1, UIntSum
  <2> HIDE DEF i
  <2>b. /\ For(s, i, a) # {} <=> a - i + 1 \in 1 .. Len(s)
        /\ For(s, i, a) # {} => Max(For(s, i, a)) = a - i + 1
    BY <2>1, ForOne
  <2>c. f \in Buffered =>
          memory'[a] = IF a - i + 1 \in 1 .. Len(s) /\ a < m THEN s[a - i + 1] ELSE memory[a]
    BY <1>5, <2>a, <2>b
  <2>2. CASE f \notin Buffered
    BY <1>b, <2>2
  <2>3. CASE f \in Buffered /\ a < i
    <3>1. a + 1 \in 1 .. Len(text) /\ a - i + 1 \notin 1 .. Len(s) /\ a < Len(text \o s)
      BY <1>1, <1>2, <2>1, <2>3
    <3>2. memory'[a] = memory[a]
      BY <2>c, <2>3, <3>1
    <3> QED BY <1>2, <1>7, <2>1, <2>3, <3>1, <3>2
  <2>4. CASE f \in Buffered /\ ~ (a < i) /\ a < Len(text \o s)
    <3>1. a - i + 1 \in 1 .. Len(s) /\ Len(text) + (a - i + 1) = a + 1
      BY <1>1, <1>2, <2>1, <2>4
    <3>2. s[a - i + 1] = (text \o s)[a + 1]
      <4> DEFINE k == a - i + 1
      <4>1. k \in 1 .. Len(s) /\ Len(text) + k = a + 1
        BY <3>1
      <4> HIDE DEF k
      <4>2. (text \o s)[Len(text) + k] = s[k]
        BY <1>2, <4>1
      <4> QED BY <4>1, <4>2 DEF k
    <3> QED BY <1>7, <2>1, <2>c, <2>4, <3>1, <3>2
  <2>5. CASE f \in Buffered /\ ~ (a < Len(text \o s))
    <3>1. a - i + 1 \notin 1 .. Len(s) /\ ~ (a < i)
      BY <1>1, <1>2, <2>1, <2>5
    <3> QED BY <1>7, <2>1, <2>c, <2>5, <3>1
  <2> QED BY <2>2, <2>3, <2>4, <2>5
<1>11. Written'
  BY <1>3, <1>6, <1>8, <1>10, <1>b DEF Written, f, m
<1> QED BY <1>9, <1>11

(* A step without output. *)
LEMMA QuietKeeps ==
  ASSUME IInv, pc # "done", UNCHANGED <<call, output, ret>>
  PROVE  Counted' /\ Written'
BY DEF IInv, Counted, Written, maxlen, output

(* A step that goes on with the call keeps the invariant if it keeps the    *)
(* locals and passes its output on.                                        *)
LEMMA Onward ==
  ASSUME Locals', Counted', Written', pc' # "done"
  PROVE  IInv'
BY DEF IInv

(* The fields of an argument that was passed. *)
LEMMA Passed ==
  ASSUME args \in Seq(Argument), args # <<>>
  PROVE  /\ args[1].n \in Nat /\ IsText(args[1].s)
         /\ Tail(args) \in Seq(Argument) /\ Len(Tail(args)) <= Len(args) /\ Len(args) \in Nat
<1>1. args[1] \in Argument
  OBVIOUS
<1>2. args[1].n \in Nat /\ args[1].s \in Seq(STRING)
  BY <1>1 DEF Argument
<1> QED BY <1>2, TailText DEF IsText

LEMMA CallType ==
  ASSUME call \in Calls
  PROVE  Len(call.format) \in Nat /\ Len(call.args) \in Nat
<1>1. IsCall(call)
  BY CallsAssumption
<1>2. call.format \in Seq(STRING) /\ call.args \in Seq([n : Nat, s : Seq(STRING)])
  BY <1>1 DEF IsCall
<1> QED BY <1>2

(* What is left of the input after some of it. *)
LEMMA Shorter ==
  ASSUME Locals, NEW k \in Nat
  PROVE  /\ Rest(format, k) \in Seq(STRING) /\ Len(Rest(format, k)) <= Len(call.format)
         /\ Rest(args, k) \in Seq(Argument) /\ Len(Rest(args, k)) <= Len(call.args)
         /\ format # <<>> => Tail(format) \in Seq(STRING) /\ Len(Tail(format)) <= Len(call.format)
         /\ args # <<>> => Tail(args) \in Seq(Argument) /\ Len(Tail(args)) <= Len(call.args)
<1>1. /\ format \in Seq(STRING) /\ Len(format) <= Len(call.format) /\ Len(call.format) \in Nat
      /\ args \in Seq(Argument) /\ Len(args) <= Len(call.args) /\ Len(call.args) \in Nat
  BY CallType DEF Locals
<1>2. Rest(format, k) \in Seq(STRING) /\ Len(Rest(format, k)) <= Len(format)
  BY <1>1, RestText
<1>3. Rest(args, k) \in Seq(Argument) /\ Len(Rest(args, k)) <= Len(args)
  BY <1>1, RestText
<1>4. ASSUME format # <<>> PROVE Tail(format) \in Seq(STRING) /\ Len(Tail(format)) <= Len(format)
  BY <1>1, <1>4, TailText
<1>5. ASSUME args # <<>> PROVE Tail(args) \in Seq(Argument) /\ Len(Tail(args)) <= Len(args)
  BY <1>1, <1>5, TailText
<1>6. /\ Len(Rest(format, k)) <= Len(call.format) /\ Len(Rest(args, k)) <= Len(call.args)
      /\ format # <<>> => Len(Tail(format)) <= Len(call.format)
      /\ args # <<>> => Len(Tail(args)) <= Len(call.args)
  BY <1>1, <1>2, <1>3, <1>4, <1>5
<1> QED BY <1>2, <1>3, <1>4, <1>5, <1>6

-----------------------------------------------------------------------------
(* One lemma per action. *)
LEMMA LiteralKeeps ==
  ASSUME IInv, Literal
  PROVE  IInv'
<1>1. pc # "done" /\ Emit(<<format[1]>>) /\ UNCHANGED <<call, ret>> /\ pc' # "done"
  BY DEF Literal
<1>2. Counted' /\ Written'
  BY <1>1, OneText, EmitKeeps
<1>3. Locals'
  BY Shorter DEF Literal, IInv, Locals, conversion, number
<1> QED BY <1>1, <1>2, <1>3, Onward

LEMMA FlagsKeep ==
  ASSUME IInv, EvaluateFlags
  PROVE  IInv'
<1>1. Counted' /\ Written' /\ pc' # "done"
  BY QuietKeeps DEF EvaluateFlags
<1>2. format # <<>>
  BY DEF EvaluateFlags, At, NUL
<1> DEFINE n == Leading(Tail(format), DOMAIN FlagOf)
<1>3. n \in Nat
  <2>1. Tail(format) \in Seq(STRING)
    BY <1>2, Shorter DEF IInv
  <2>2. n \in 0 .. Len(Tail(format))
    BY <2>1, LeadingType
  <2> QED BY <2>1, <2>2
<1>4. format' = Rest(format, n + 1)
  BY DEF EvaluateFlags
<1> HIDE DEF n
<1>5. format' \in Seq(STRING) /\ Len(format') <= Len(call.format)
  <2>1. n + 1 \in Nat
    BY <1>3
  <2> QED BY <1>4, <2>1, Shorter DEF IInv
<1>6. 0 \in 0 .. UINT_RANGE - 1
  BY RangeAssumption, PrintfAssumption
<1>7. Locals'
  BY <1>5, <1>6 DEF EvaluateFlags, IInv, Locals, number
<1> QED BY <1>1, <1>7, Onward

LEMMA WidthKeeps ==
  ASSUME IInv, FetchesPassed, EvaluateWidth
  PROVE  IInv'
<1>1. Counted' /\ Written' /\ pc' # "done"
  BY QuietKeeps DEF EvaluateWidth
<1>2. CASE At(format) = "*"
  <2>1. format # <<>> /\ args # <<>>
    BY <1>2 DEF At, NUL, EvaluateWidth, FetchesPassed
  <2> DEFINE w == Signed(args[1].n, UINT_RANGE)
  <2>2. w \in Int /\ w < UINT_RANGE /\ UInt(- w) \in 0 .. UINT_RANGE - 1
    <3>1. args[1].n \in Nat /\ UINT_RANGE \in Nat
      BY <2>1, Passed, RangeAssumption DEF IInv, Locals
    <3> QED BY <3>1, SignedType
  <2>3. width' = IF w < 0 THEN UInt(- w) ELSE w
    BY <1>2 DEF EvaluateWidth
  <2> HIDE DEF w
  <2>4. width' \in 0 .. UINT_RANGE - 1
    BY <2>2, <2>3, RangeAssumption
  <2>5. Locals'
    BY <1>2, <2>1, <2>4, Shorter DEF EvaluateWidth, IInv, Locals, number
  <2> QED BY <1>1, <2>5, Onward
<1>3. CASE At(format) # "*"
  <2>1. _atoi(Decimal(format)) \in 0 .. UINT_RANGE - 1 /\ Len(Decimal(format)) \in Nat
    BY DecimalType DEF IInv, Locals
  <2>2. Locals'
    BY <1>3, <2>1, Shorter DEF EvaluateWidth, IInv, Locals, number
  <2> QED BY <1>1, <2>2, Onward
<1> QED BY <1>2, <1>3

LEMMA PrecisionKeeps ==
  ASSUME IInv, FetchesPassed, EvaluatePrecision
  PROVE  IInv'
<1>1. Counted' /\ Written' /\ pc' # "done"
  BY QuietKeeps DEF EvaluatePrecision
<1>2. CASE At(format) # "."
  <2>1. Locals'
    BY <1>2 DEF EvaluatePrecision, IInv, Locals, number
  <2> QED BY <1>1, <2>1, Onward
<1>3. CASE At(format) = "." /\ At(Tail(format)) = "*"
  <2>1. args # <<>>
    BY <1>3 DEF EvaluatePrecision, FetchesPassed
  <2> DEFINE w == Signed(args[1].n, UINT_RANGE)
  <2>2. w \in Int /\ w < UINT_RANGE
    BY <2>1, Passed, SignedType DEF IInv, Locals
  <2>3. precision' = IF w > 0 THEN w ELSE 0
    BY <1>3 DEF EvaluatePrecision
  <2> HIDE DEF w
  <2>4. precision' \in 0 .. UINT_RANGE - 1
    BY <2>2, <2>3, RangeAssumption, PrintfAssumption
  <2>5. Locals'
    BY <1>3, <2>1, <2>4, Shorter DEF EvaluatePrecision, IInv, Locals, number
  <2> QED BY <1>1, <2>5, Onward
<1>4. CASE At(format) = "." /\ At(Tail(format)) # "*"
  <2>1. Tail(format) \in Seq(STRING)
    BY <1>4, Shorter DEF At, NUL, IInv
  <2>2. _atoi(Decimal(Tail(format))) \in 0 .. UINT_RANGE - 1 /\ Len(Decimal(Tail(format))) \in Nat
    BY <2>1, DecimalType
  <2>3. 1 + Len(Decimal(Tail(format))) \in Nat
    BY <2>2
  <2>4. Locals'
    BY <1>4, <2>2, <2>3, Shorter DEF EvaluatePrecision, IInv, Locals, number
  <2> QED BY <1>1, <2>4, Onward
<1> QED BY <1>2, <1>3, <1>4

LEMMA LengthKeeps ==
  ASSUME IInv, EvaluateLength
  PROVE  IInv'
<1>1. Counted' /\ Written' /\ pc' # "done"
  BY QuietKeeps DEF EvaluateLength
<1>2. \E k \in {0, 1, 2} : format' = Rest(format, k)
  BY Zenon DEF EvaluateLength
<1>3. format' \in Seq(STRING) /\ Len(format') <= Len(call.format)
  BY <1>2, Shorter DEF IInv
<1>4. UNCHANGED <<call, args, width, precision, buf>> /\ pc' = "specifier"
  BY DEF EvaluateLength, number
<1>5. Locals'
  BY <1>3, <1>4 DEF IInv, Locals
<1> QED BY <1>1, <1>5, Onward

(* The end of a conversion other than a number. *)
LEMMA ConvertedKeeps ==
  ASSUME IInv, pc # "done", format # <<>>, NEW s, IsText(s), NEW k \in Nat, Converted(s, k)
  PROVE  IInv'
<1>1. Emit(s) /\ UNCHANGED <<call, ret>> /\ pc' # "done"
  BY DEF Converted
<1>2. Counted' /\ Written'
  BY <1>1, EmitKeeps
<1>3. Locals'
  BY Shorter DEF Converted, IInv, Locals, conversion, number
<1> QED BY <1>1, <1>2, <1>3, Onward

LEMMA NtoaKeeps ==
  ASSUME IInv, pc # "done", format # <<>>, args # <<>>, width' \in 0 .. UINT_RANGE - 1,
         NEW value, NEW neg, NEW b, NEW f, _ntoa_long(value, neg, b, f)
  PROVE  IInv'
<1>1. Counted' /\ Written' /\ pc' # "done"
  BY QuietKeeps DEF _ntoa_long
<1>2. Fits(<<>>)
  <2>1. <<>> \in Seq({}) /\ Len(<<>>) = 0
    OBVIOUS
  <2> QED BY <2>1, PrintfAssumption DEF Fits, IsText, PRINTF_NTOA_BUFFER_SIZE
<1>3. Fits(buf')
  <2>1. \E d : buf' = Numeral(value, b, d) \/ buf' = <<>>
    BY Zenon DEF _ntoa_long
  <2> QED BY <1>2, <2>1, NumeralFits
<1>4. Locals'
  BY <1>3, Shorter DEF _ntoa_long, IInv, Locals
<1> QED BY <1>1, <1>4, Onward

LEMMA IntegerKeeps ==
  ASSUME IInv, FetchesPassed, PrintInteger
  PROVE  IInv'
<1>1. pc = "specifier" /\ At(format) \in INTEGERS /\ format # <<>>
  BY DEF PrintInteger, INTEGERS, At, NUL
<1>2. CASE "LONG_LONG" \in flags /\ Converted(<<>>, 0)
  <2>1. <<>> \in Seq({})
    OBVIOUS
  <2>2. IsText(<<>>)
    BY <2>1 DEF IsText
  <2> QED BY <1>1, <1>2, <2>2, ConvertedKeeps
<1>3. CASE "LONG_LONG" \notin flags
  <2>1. args # <<>>
    BY <1>1, <1>3 DEF FetchesPassed
  <2>2. \E v, neg, b, f : _ntoa_long(v, neg, b, f)
    BY <1>3, Zenon DEF PrintInteger
  <2>3. width' \in 0 .. UINT_RANGE - 1
    BY <1>3 DEF PrintInteger, IInv, Locals
  <2> QED BY <1>1, <2>1, <2>2, <2>3, NtoaKeeps
<1> QED BY <1>2, <1>3 DEF PrintInteger

LEMMA PointerKeeps ==
  ASSUME IInv, FetchesPassed, PrintPointer
  PROVE  IInv'
<1>1. pc # "done" /\ format # <<>> /\ args # <<>>
  BY DEF PrintPointer, At, NUL, FetchesPassed
<1>2. width' \in 0 .. UINT_RANGE - 1
  BY PrintfAssumption, RangeAssumption DEF PrintPointer
<1> QED BY <1>1, <1>2, NtoaKeeps DEF PrintPointer

LEMMA PadZerosKeeps ==
  ASSUME IInv, PadZeros
  PROVE  IInv'
<1>1. Counted' /\ Written' /\ pc' # "done"
  BY QuietKeeps DEF PadZeros
<1>2. width \in 0 .. UINT_RANGE - 1 /\ precision \in 0 .. UINT_RANGE - 1 /\ Fits(buf) /\ UINT_RANGE \in Nat
  BY RangeAssumption DEF IInv, Locals
<1>3. width' \in 0 .. UINT_RANGE - 1
  BY <1>2 DEF PadZeros
<1>4. Fits(buf')
  <2> DEFINE inner == ZeroesTo(buf, precision)
             to == IF "ZEROPAD" \in flags THEN width' ELSE 0
  <2>1. to \in Nat /\ precision \in Nat
    BY <1>2, <1>3
  <2>2. buf' = buf \/ buf' = ZeroesTo(inner, to)
    BY DEF PadZeros
  <2> HIDE DEF to
  <2>3. Fits(inner)
    BY <1>2, <2>1, ZeroesFit
  <2> HIDE DEF inner
  <2>4. Fits(ZeroesTo(inner, to))
    BY <2>1, <2>3, ZeroesFit
  <2> QED BY <1>2, <2>2, <2>4
<1>5. Locals'
  BY <1>3, <1>4 DEF PadZeros, IInv, Locals
<1> QED BY <1>1, <1>5, Onward

(* The prefix takes the place of one or two characters at most. *)
LEMMA UncoveredFits ==
  ASSUME Fits(buf)
  PROVE  Fits(Uncovered)
<1>1. Len(buf) \in Nat /\ Len(buf) <= PRINTF_NTOA_BUFFER_SIZE /\ PRINTF_NTOA_BUFFER_SIZE \in Nat
  BY TextType, PrintfAssumption DEF Fits, PRINTF_NTOA_BUFFER_SIZE
<1> DEFINE n == Len(buf) - (IF base = 16 /\ Len(buf) > 1 THEN 2 ELSE 1)
<1>2. n \in Int /\ n <= Len(buf)
  BY <1>1
<1>3. Uncovered = buf \/ Uncovered = SubSeq(buf, 1, n)
  BY DEF Uncovered
<1> HIDE DEF n
<1>4. IsText(SubSeq(buf, 1, n)) /\ Len(SubSeq(buf, 1, n)) <= Len(buf)
  BY <1>2, PrefixText DEF Fits
<1>5. Len(SubSeq(buf, 1, n)) \in Nat
  BY <1>4, TextType
<1>6. Len(SubSeq(buf, 1, n)) <= PRINTF_NTOA_BUFFER_SIZE
  <2> DEFINE t == Len(SubSeq(buf, 1, n))
  <2>1. t \in Nat /\ t <= Len(buf)
    BY <1>4, <1>5, Zenon
  <2> HIDE DEF t
  <2>2. t <= PRINTF_NTOA_BUFFER_SIZE
    BY <1>1, <2>1
  <2> QED BY <2>2 DEF t
<1> QED BY <1>3, <1>4, <1>6, Zenon DEF Fits

LEMMA HashKeeps ==
  ASSUME IInv, HandleHash
  PROVE  IInv'
<1>1. Counted' /\ Written' /\ pc' # "done"
  BY QuietKeeps DEF HandleHash
<1>2. \/ buf' = buf
      \/ \E letter : /\ letter = Uncovered \/ \E c : letter = Push(Uncovered, c)
                     /\ buf' = Push(letter, "0")
  BY Zenon DEF HandleHash
<1>3. Fits(buf) /\ Fits(Uncovered)
  BY UncoveredFits DEF IInv, Locals
<1>4. Fits(buf')
  BY <1>2, <1>3, PushFits
<1>5. Locals'
  BY <1>4 DEF HandleHash, IInv, Locals, conversion
<1> QED BY <1>1, <1>5, Onward

LEMMA SignKeeps ==
  ASSUME IInv, PushSign
  PROVE  IInv'
<1>1. Counted' /\ Written' /\ pc' # "done"
  BY QuietKeeps DEF PushSign
<1>2. buf' = buf \/ \E c : buf' = Push(buf, c)
  BY Zenon DEF PushSign
<1>3. Fits(buf')
  BY <1>2, PushFits DEF IInv, Locals
<1>4. Locals'
  BY <1>3 DEF PushSign, IInv, Locals, conversion
<1> QED BY <1>1, <1>4, Onward

LEMMA OutRevKeeps ==
  ASSUME IInv, _out_rev
  PROVE  IInv'
<1>1. pc # "done" /\ pc' # "done" /\ UNCHANGED <<call, ret>>
  BY DEF _out_rev
<1>2. PICK s : /\ s = Reverse(buf) \/ s = Padded(Reverse(buf), "LEFT" \in flags, width)
               /\ Emit(s)
  BY Zenon DEF _out_rev
<1>3. IsText(Reverse(buf)) /\ width \in Nat
  BY ReverseText, RangeAssumption DEF IInv, Locals, Fits
<1>4. IsText(s)
  BY <1>2, <1>3, PaddedText
<1>5. Counted' /\ Written'
  BY <1>1, <1>2, <1>4, EmitKeeps
<1>6. Locals'
  BY DEF _out_rev, IInv, Locals, conversion, number
<1> QED BY <1>1, <1>5, <1>6, Onward

LEMMA CharKeeps ==
  ASSUME IInv, FetchesPassed, PrintChar
  PROVE  IInv'
<1>1. pc # "done" /\ format # <<>> /\ args # <<>>
  BY DEF PrintChar, At, NUL, FetchesPassed
<1>2. IsText(args[1].s) /\ width \in Nat
  BY <1>1, Passed, RangeAssumption DEF IInv, Locals
<1>3. IsText(Padded(args[1].s, "LEFT" \in flags, width))
  BY <1>2, PaddedText
<1> QED BY <1>1, <1>3, ConvertedKeeps DEF PrintChar

LEMMA StringKeeps ==
  ASSUME IInv, FetchesPassed, PrintString
  PROVE  IInv'
<1>1. pc # "done" /\ format # <<>> /\ args # <<>>
  BY DEF PrintString, At, NUL, FetchesPassed
<1> DEFINE s == args[1].s
           cut == IF "PRECISION" \in flags /\ precision < Len(s) THEN SubSeq(s, 1, precision) ELSE s
<1>2. IsText(s) /\ width \in Nat /\ precision \in Int
  BY <1>1, Passed, RangeAssumption DEF IInv, Locals
<1>3. Converted(Padded(cut, "LEFT" \in flags, width), 1)
  BY DEF PrintString
<1> HIDE DEF s
<1>4. Len(s) \in Nat
  BY <1>2, TextType
<1>5. IsText(cut)
  BY <1>2, <1>4, PrefixText
<1> HIDE DEF cut
<1>6. IsText(Padded(cut, "LEFT" \in flags, width))
  BY <1>2, <1>5, PaddedText
<1> QED BY <1>1, <1>3, <1>6, ConvertedKeeps

LEMMA OtherKeeps ==
  ASSUME IInv, PrintOther
  PROVE  IInv'
<1>1. pc # "done" /\ format # <<>> /\ Converted(<<At(format)>>, 0)
  BY DEF PrintOther, OtherSpecifier, At
<1> QED BY <1>1, OneText, ConvertedKeeps

LEMMA NulKeeps ==
  ASSUME IInv, PrintNul
  PROVE  IInv'
<1>1. pc # "done" /\ Emit(<<NUL>>) /\ UNCHANGED <<call, ret>> /\ pc' # "done"
  BY DEF PrintNul
<1>2. Counted' /\ Written'
  BY <1>1, OneText, EmitKeeps
<1>3. Locals'
  BY DEF PrintNul, IInv, Locals, conversion, number
<1> QED BY <1>1, <1>2, <1>3, Onward

(* The NUL: behind the text, or in the last place, or nowhere. *)
LEMMA TerminateKeeps ==
  ASSUME IInv, Terminate
  PROVE  IInv'
<1> DEFINE f == call.function
           m == maxlen
           p == IF idx < m THEN idx ELSE UInt(m - 1)
<1>1. /\ Len(text) \in Nat /\ idx = UInt(Len(text)) /\ DOMAIN memory = 0 .. MEMORY_SIZE - 1
      /\ m \in 0 .. UINT_RANGE - 1 /\ UINT_RANGE \in Nat \ {0} /\ MEMORY_SIZE \in Nat
  BY TextType, MaxlenType, PrintfAssumption DEF IInv, Counted, Locals
<1>2. /\ text' = text /\ idx' = idx /\ maxlen' = m /\ call' = call /\ ret' = Signed(idx, UINT_RANGE)
      /\ pc' = "done" /\ pc = "format"
  BY DEF Terminate, maxlen
<1>a. idx \in 0 .. UINT_RANGE - 1 /\ idx \in Nat /\ (Len(text) < UINT_RANGE => idx = Len(text))
  BY <1>1, UIntSum
<1>b. ret' \in -UINT_RANGE .. UINT_RANGE
  BY <1>2, <1>a, SignedType
<1>3. memory' = IF f \in Buffered
                THEN [a \in DOMAIN memory |->
                        IF For(<<NUL>>, p, a) # {} /\ a < m THEN <<NUL>>[Max(For(<<NUL>>, p, a))] ELSE memory[a]]
                ELSE memory
  BY DEF Terminate, Out, _out_buffer, Buffered
<1>c. \A a \in DOMAIN memory : (f \in Buffered /\ a < m) \/ memory[a] = UNWRITTEN
  BY <1>2 DEF IInv, Written
<1>4. Len(text) < UINT_RANGE => \A a \in DOMAIN memory :
        memory[a] = IF f \in Buffered /\ a < Len(text) /\ a < m THEN text[a + 1] ELSE UNWRITTEN
  BY <1>2 DEF IInv, Written
<1>5. p \in 0 .. UINT_RANGE - 1 /\ p \in Nat /\ (m > 0 => p = IF idx < m THEN idx ELSE m - 1)
  BY <1>1, <1>a DEF UInt
<1> HIDE DEF f, m, p
<1>6. DOMAIN memory' = DOMAIN memory
  BY <1>3
<1>7. ASSUME NEW a \in DOMAIN memory, f \in Buffered
      PROVE  memory'[a] = IF a = p /\ a < m THEN NUL ELSE memory[a]
  <2>1. a \in Nat
    BY <1>1
  <2>a. IsText(<<NUL>>) /\ Len(<<NUL>>) = 1 /\ p + Len(<<NUL>>) <= UINT_RANGE
    BY <1>1, <1>5, OneText
  <2>b. /\ For(<<NUL>>, p, a) # {} <=> a - p + 1 \in 1 .. 1
        /\ For(<<NUL>>, p, a) # {} => Max(For(<<NUL>>, p, a)) = a - p + 1
    BY <1>5, <2>1, <2>a, ForOne
  <2>2. For(<<NUL>>, p, a) # {} <=> a = p
    BY <1>5, <2>1, <2>b
  <2>3. a = p => <<NUL>>[Max(For(<<NUL>>, p, a))] = NUL
    BY <1>5, <2>1, <2>b
  <2> QED BY <1>3, <1>7, <2>2, <2>3
<1>8. \A a \in DOMAIN memory' : a >= m => memory'[a] = UNWRITTEN
  <2> SUFFICES ASSUME NEW a \in DOMAIN memory, a >= m PROVE memory'[a] = UNWRITTEN
    BY <1>6
  <2>1. ~ (a < m)
    BY <1>1
  <2> QED BY <1>3, <1>c, <1>7, <2>1
<1>9. f \notin Buffered => \A a \in DOMAIN memory' : memory'[a] = UNWRITTEN
  BY <1>3, <1>c
<1>10. ASSUME f \in Buffered, m > 0, Len(text) < UINT_RANGE, NEW a \in DOMAIN memory, a <= p
       PROVE  memory'[a] = IF a = p THEN NUL ELSE text[a + 1]
  <2>1. a < m /\ (a # p => a < Len(text))
    BY <1>1, <1>5, <1>a, <1>10
  <2> QED BY <1>4, <1>7, <1>10, <2>1
<1>11. StoresWhatFits'
  BY <1>1, <1>2, <1>5, <1>6, <1>8, <1>9, <1>10, <1>a DEF StoresWhatFits, f, m, Buffered
<1>12. Counted'
  BY <1>1, <1>2, <1>6, <1>b DEF Counted, IInv
<1>13. Locals'
  BY DEF Terminate, IInv, Locals, conversion, number
<1> QED BY <1>2, <1>11, <1>12, <1>13 DEF IInv

-----------------------------------------------------------------------------
LEMMA InitKeeps == Init => IInv
<1> SUFFICES ASSUME Init PROVE IInv
  OBVIOUS
<1>1. IsCall(call)
  BY CallsAssumption DEF Init
<1>2. call.format \in Seq(STRING) /\ call.args \in Seq(Argument)
  BY <1>1 DEF IsCall, Argument
<1>a. /\ format = call.format /\ format \in Seq(STRING) /\ Len(format) <= Len(call.format)
      /\ args = call.args /\ args \in Seq(Argument) /\ Len(args) <= Len(call.args)
  BY <1>2 DEF Init
<1>3. <<>> \in Seq({}) /\ Len(<<>>) = 0
  OBVIOUS
<1>4. IsText(<<>>) /\ Fits(<<>>)
  BY <1>3, PrintfAssumption DEF IsText, Fits, PRINTF_NTOA_BUFFER_SIZE
<1>5. 0 \in 0 .. UINT_RANGE - 1
  BY RangeAssumption, PrintfAssumption
<1>6. Locals
  BY <1>a, <1>4, <1>5 DEF Init, Locals
<1>7. Counted
  <2>1. 0 < UINT_RANGE /\ UINT_RANGE \in Nat
    BY RangeAssumption, PrintfAssumption
  <2>2. UInt(0) = 0 /\ 0 \in -UINT_RANGE .. UINT_RANGE
    BY <2>1, UIntSum
  <2> QED BY <1>3, <1>4, <2>2 DEF Init, Counted
<1>8. Written
  <2>1. \A a \in DOMAIN memory : a \in Nat /\ ~ (a < 0)
    BY PrintfAssumption DEF Init
  <2> QED BY <2>1 DEF Init, Written
<1> QED BY <1>6, <1>7, <1>8 DEF IInv, Init

LEMMA NextKeeps == IInv /\ FetchesPassed /\ [Next]_vars => IInv'
<1> SUFFICES ASSUME IInv, FetchesPassed, [Next]_vars PROVE IInv'
  OBVIOUS
<1>1. CASE Next
  BY <1>1, LiteralKeeps, FlagsKeep, WidthKeeps, PrecisionKeeps, LengthKeeps, IntegerKeeps,
     PointerKeeps, PadZerosKeeps, HashKeeps, SignKeeps, OutRevKeeps, CharKeeps, StringKeeps,
     OtherKeeps, NulKeeps, TerminateKeeps, Zenon DEF Next
<1>2. CASE UNCHANGED vars
  BY <1>2 DEF vars, conversion, number, output, IInv, Locals, Counted, Written, StoresWhatFits, maxlen
<1> QED BY <1>1, <1>2

LEMMA WrittenFits == IInv => StoresWhatFits
<1> SUFFICES ASSUME IInv, pc # "done" PROVE StoresWhatFits
  BY DEF IInv
<1>1. maxlen \in Nat /\ \A a \in DOMAIN memory : a \in Nat
  BY MaxlenType, PrintfAssumption DEF IInv, Locals, Counted
<1>2. \A a \in DOMAIN memory : a >= maxlen => ~ (a < maxlen)
  BY <1>1
<1> HIDE DEF maxlen
<1> QED BY <1>2 DEF IInv, Written, StoresWhatFits, Buffered

-----------------------------------------------------------------------------
(* The arguments that are left are at least those that the rest of the       *)
(* format asks for: A is what the whole format asks for, stage the field   *)
(* that is looked at next and f the format from there on.                  *)
Debt(A, stage, f) ==
  IF stage = "width" THEN WidthAsks(f) + A[WidthLeaves(f)]
  ELSE IF stage = "precision" THEN PrecisionAsks(f) + A[PrecisionLeaves(f)]
  ELSE IF stage = "length" THEN LengthAsks(f) + A[LengthLeaves(f)]
  ELSE IF stage = "specifier" THEN SpecifierAsks(f) + A[SpecifierLeaves(f)]
  ELSE IF stage \in {"done", "overrun"} THEN 0
  ELSE A[Len(f)]

Owed == Ending(format, call.format) /\ Len(args) >= Debt(Asked(call.format), pc, format)

(* The numbers in Owed. *)
LEMMA OwedTypes ==
  ASSUME Locals, Owed
  PROVE  /\ call.format \in Seq(STRING) /\ format \in Seq(STRING) /\ Len(args) \in Nat
         /\ Len(format) \in 0 .. Len(call.format) /\ Len(call.format) \in Nat
         /\ Asked(call.format)[0] = 0
         /\ \A j \in 0 .. Len(format) : Asked(call.format)[j] \in Nat
<1>1. IsCall(call)
  BY CallsAssumption DEF Locals
<1>2. call.format \in Seq(STRING) /\ args \in Seq(Argument)
  BY <1>1 DEF IsCall, Locals
<1>3. format \in Seq(STRING) /\ Len(format) \in 0 .. Len(call.format)
  BY <1>2, EndingType DEF Owed
<1>4. Asked(call.format)[0] = 0 /\ \A j \in 0 .. Len(call.format) : Asked(call.format)[j] \in Nat
  BY <1>2, AskedSums
<1> QED BY <1>2, <1>3, <1>4

(* What is owed before a character of the format. *)
LEMMA OwedAt ==
  ASSUME Locals, Owed, format # <<>>
  PROVE  LET A == Asked(call.format)
             rest == AfterFlags(Rest(format, 1))
         IN  A[Len(format)] = IF At(format) # "%" THEN A[Len(format) - 1]
                              ELSE WidthAsks(rest) + A[WidthLeaves(rest)]
<1> DEFINE F == call.format
           L == Len(F)
           j == Len(format)
<1>1. F \in Seq(STRING) /\ format \in Seq(STRING) /\ j \in 1 .. L /\ L \in Nat
  BY OwedTypes
<1>2. format = Rest(F, L - j)
  BY <1>1, EndingType DEF Owed
<1>3. Rest(F, L - j + 1) = Rest(format, 1)
  <2>1. L - j \in 0 .. Len(F) /\ 1 \in 0 .. Len(F) - (L - j)
    BY <1>1
  <2> DEFINE k == L - j
  <2> HIDE DEF k
  <2>2. k \in 0 .. Len(F) /\ 1 \in 0 .. Len(F) - k /\ format = Rest(F, k)
    BY <1>2, <2>1 DEF k
  <2>3. Rest(Rest(F, k), 1) = Rest(F, k + 1)
    BY <1>1, <2>2, RestOfRest
  <2> QED BY <2>2, <2>3 DEF k
<1>4. F[L - j + 1] = At(format)
  <2> DEFINE k == L - j
  <2>1. k \in 0 .. L - 1 /\ format = Rest(F, k) /\ k + 1 = L - j + 1
    BY <1>1, <1>2
  <2> HIDE DEF k
  <2>2. Rest(F, k)[1] = F[k + 1]
    BY <1>1, <2>1 DEF Rest
  <2>3. format[1] = F[L - j + 1]
    BY <2>1, <2>2
  <2> QED BY <2>3 DEF At
<1> HIDE DEF F, L, j
<1>5. LET rest == AfterFlags(Rest(F, L - j + 1))
      IN  Asked(F)[j] = IF F[L - j + 1] # "%" THEN Asked(F)[j - 1]
                        ELSE WidthAsks(rest) + Asked(F)[WidthLeaves(rest)]
  BY <1>1, AskedSums, Zenon DEF L
<1> QED BY <1>3, <1>4, <1>5 DEF F, L, j

(* Whoever owes an argument has it. *)
LEMMA Fetches ==
  ASSUME Locals, Owed
  PROVE  FetchesPassed
<1> DEFINE A == Asked(call.format)
           D == Debt(A, pc, format)
<1>1. /\ format \in Seq(STRING) /\ Len(args) \in Nat /\ Len(args) >= D
      /\ \A j \in 0 .. Len(format) : A[j] \in Nat
  BY OwedTypes DEF Owed
<1> HIDE DEF A
<1>2. ASSUME D >= 1, D \in Nat PROVE args # <<>>
  BY <1>1, <1>2
<1>3. CASE pc = "width" /\ At(format) = "*"
  <2>1. D = WidthAsks(format) + A[WidthLeaves(format)]
    BY <1>3 DEF Debt
  <2>2. AfterNumber(format) \in Seq(STRING) /\ A[WidthLeaves(format)] \in Nat
    BY <1>1, FieldsEnd, EndingType, AsksType
  <2>3. WidthAsks(format) = 1 + PrecisionAsks(AfterNumber(format))
    BY <1>3 DEF WidthAsks, Asterisk
  <2>4. PrecisionAsks(AfterNumber(format)) \in Nat
    BY <2>2, AsksType
  <2>5. D \in Nat /\ D >= 1
    BY <2>1, <2>2, <2>3, <2>4
  <2> QED BY <1>2, <2>5 DEF FetchesPassed
<1>4. CASE pc = "precision" /\ At(format) = "." /\ At(Tail(format)) = "*"
  <2>1. D = PrecisionAsks(format) + A[PrecisionLeaves(format)]
    BY <1>4 DEF Debt
  <2>2. AfterPrecision(format) \in Seq(STRING) /\ A[PrecisionLeaves(format)] \in Nat
    BY <1>1, FieldsEnd, EndingType, AsksType
  <2>3. Tail(format) = Rest(format, 1)
    BY <1>1, <1>4, TailIsRest DEF At, NUL
  <2>4. PrecisionAsks(format) = 1 + LengthAsks(AfterPrecision(format))
    BY <1>4, <2>3 DEF PrecisionAsks, Asterisk
  <2>5. LengthAsks(AfterPrecision(format)) \in Nat
    BY <2>2, AsksType
  <2>6. D \in Nat /\ D >= 1
    BY <2>1, <2>2, <2>4, <2>5
  <2> QED BY <1>2, <2>6 DEF FetchesPassed
<1>5. CASE pc = "specifier" /\ At(format) \in INTEGERS \cup {"p", "c", "s"}
  <2>1. D = SpecifierAsks(format) + A[SpecifierLeaves(format)]
    BY <1>5 DEF Debt
  <2>2. SpecifierAsks(format) = 1
    BY <1>5 DEF SpecifierAsks
  <2>3. A[SpecifierLeaves(format)] \in Nat
    BY <1>1, AsksType
  <2>4. D \in Nat /\ D >= 1
    BY <2>1, <2>2, <2>3
  <2> QED BY <1>2, <2>4 DEF FetchesPassed
<1> QED BY <1>3, <1>4, <1>5 DEF FetchesPassed

(* A step that goes on in the format without fetching an argument keeps Owed *)
(* if it owes no more; one that fetches an argument owes one less.         *)
LEMMA OwesOn ==
  ASSUME Locals, Owed, call' = call, Ending(format', format),
         Len(args') >= Debt(Asked(call.format), pc', format')
  PROVE  Owed'
<1>1. Ending(format', call.format)
  BY OwedTypes, EndingOfEnding DEF Owed
<1> QED BY <1>1 DEF Owed

LEMMA OwedLiteral ==
  ASSUME Locals, Owed, Literal
  PROVE  Owed'
<1>1. format \in Seq(STRING) /\ format # <<>> /\ At(format) # "%" /\ pc = "format"
  BY OwedTypes DEF Literal
<1>2. format' = Rest(format, 1) /\ call' = call /\ args' = args /\ pc' = "format"
  BY <1>1, TailIsRest DEF Literal
<1>3. Ending(format', format) /\ Len(format') = Len(format) - 1
  <2>1. 1 \in 0 .. Len(format)
    BY <1>1
  <2> QED BY <1>1, <1>2, <2>1, FieldsEnd, RestOfRest
<1>4. Asked(call.format)[Len(format)] = Asked(call.format)[Len(format')]
  BY <1>1, <1>3, OwedAt
<1>5. Debt(Asked(call.format), pc', format') = Debt(Asked(call.format), pc, format)
  BY <1>1, <1>2, <1>4 DEF Debt
<1> QED BY <1>2, <1>3, <1>5, OwesOn DEF Owed

LEMMA OwedFlags ==
  ASSUME Locals, Owed, EvaluateFlags
  PROVE  Owed'
<1> DEFINE r == Rest(format, 1)
           n == Leading(r, DOMAIN FlagOf)
<1>1. format \in Seq(STRING) /\ format # <<>> /\ At(format) = "%" /\ pc = "format"
  BY OwedTypes DEF EvaluateFlags, At, NUL
<1>2. Tail(format) = r /\ 1 \in 0 .. Len(format)
  BY <1>1, TailIsRest
<1>3. format' = Rest(format, n + 1) /\ call' = call /\ args' = args /\ pc' = "width"
  BY <1>2 DEF EvaluateFlags
<1>4. r \in Seq(STRING) /\ Len(r) = Len(format) - 1
  BY <1>1, <1>2, RestOfRest
<1>5. n \in 0 .. Len(format) - 1
  <2> HIDE DEF r
  <2> QED BY <1>4, LeadingType
<1>6. format' = AfterFlags(r)
  <2> HIDE DEF n
  <2>1. Rest(r, n) = Rest(format, 1 + n)
    BY <1>1, <1>2, <1>5, RestOfRest
  <2>2. 1 + n = n + 1
    BY <1>5
  <2> QED BY <1>3, <2>1, <2>2 DEF AfterFlags, n
<1>7. Ending(format', format)
  <2>1. n + 1 \in 0 .. Len(format)
    BY <1>1, <1>5
  <2> QED BY <1>3, <2>1 DEF Ending
<1>8. Debt(Asked(call.format), pc', format') = Debt(Asked(call.format), pc, format)
  BY <1>1, <1>3, <1>6, OwedAt DEF Debt
<1> QED BY <1>3, <1>7, <1>8, OwesOn DEF Owed

(* A number, spelled out or as an asterisk. *)
LEMMA NumberRead ==
  ASSUME NEW f \in Seq(STRING)
  PROVE  /\ At(f) = "*" => Tail(f) = AfterNumber(f)
         /\ At(f) # "*" => Rest(f, Len(Decimal(f))) = AfterNumber(f)
         /\ Len(Decimal(f)) \in 0 .. Len(f)
<1> DEFINE n == Leading(f, ToSet(Digits))
<1>1. n \in 0 .. Len(f)
  BY LeadingType
<1>2. Decimal(f) = SubSeq(f, 1, n)
  BY DEF Decimal
<1>3. At(f) # "*" => AfterNumber(f) = Rest(f, n)
  BY DEF AfterNumber
<1> HIDE DEF n
<1>4. Len(Decimal(f)) = n
  BY <1>1, <1>2
<1>5. At(f) = "*" => Tail(f) = AfterNumber(f)
  BY TailIsRest DEF At, NUL, AfterNumber
<1> QED BY <1>1, <1>3, <1>4, <1>5

LEMMA OwedWidth ==
  ASSUME Locals, Owed, EvaluateWidth
  PROVE  Owed'
<1> DEFINE A == Asked(call.format)
           f == AfterNumber(format)
<1>1. format \in Seq(STRING) /\ Len(args) \in Nat /\ pc = "width" /\ call' = call /\ pc' = "precision"
  BY OwedTypes DEF EvaluateWidth
<1>2. format' = f
  BY <1>1, NumberRead DEF EvaluateWidth
<1>3. Ending(f, format) /\ f \in Seq(STRING) /\ Len(f) \in 0 .. Len(format)
  BY <1>1, FieldsEnd, EndingType
<1> HIDE DEF A
<1>4. Debt(A, pc, format) = Asterisk(format) + PrecisionAsks(f) + A[PrecisionLeaves(f)]
  BY <1>1 DEF Debt, WidthAsks, WidthLeaves
<1>5. Debt(A, pc', format') = PrecisionAsks(f) + A[PrecisionLeaves(f)]
  BY <1>1, <1>2 DEF Debt
<1>6. PrecisionAsks(f) \in Nat /\ A[PrecisionLeaves(f)] \in Nat
  <2>1. PrecisionAsks(f) \in Nat /\ PrecisionLeaves(f) \in 0 .. Len(f)
    <3> HIDE DEF f
    <3> QED BY <1>3, AsksType
  <2>2. PrecisionLeaves(f) \in 0 .. Len(format)
    BY <1>1, <1>3, <2>1
  <2> QED BY <2>1, <2>2, OwedTypes DEF A
<1> HIDE DEF f
<1>7. Len(args') >= Debt(A, pc', format')
  <2>1. CASE At(format) = "*"
    <3>1. args # <<>> /\ args \in Seq(Argument)
      BY <1>1, <2>1, Fetches DEF FetchesPassed, Locals
    <3>2. Len(args') = Len(args) - 1
      BY <2>1, <3>1 DEF EvaluateWidth
    <3>3. Asterisk(format) = 1 /\ Len(args) >= Debt(A, pc, format)
      BY <2>1 DEF Asterisk, Owed, A
    <3> QED BY <1>1, <1>4, <1>5, <1>6, <3>2, <3>3
  <2>2. CASE At(format) # "*"
    <3>1. args' = args /\ Asterisk(format) = 0 /\ Len(args) >= Debt(A, pc, format)
      BY <2>2 DEF EvaluateWidth, Asterisk, Owed, A
    <3> QED BY <1>1, <1>4, <1>5, <1>6, <3>1
  <2> QED BY <2>1, <2>2
<1> QED BY <1>1, <1>2, <1>3, <1>7, OwesOn DEF A

LEMMA OwedPrecision ==
  ASSUME Locals, Owed, EvaluatePrecision
  PROVE  Owed'
<1> DEFINE A == Asked(call.format)
           f == AfterPrecision(format)
           star == IF At(format) = "." THEN Asterisk(Rest(format, 1)) ELSE 0
           r == Rest(format, 1)
<1>1. format \in Seq(STRING) /\ Len(args) \in Nat /\ pc = "precision" /\ call' = call /\ pc' = "length"
  BY OwedTypes DEF EvaluatePrecision
<1>2. At(format) = "." => /\ format # <<>> /\ 1 \in 0 .. Len(format) /\ Tail(format) = r
                          /\ r \in Seq(STRING) /\ Len(r) = Len(format) - 1
  <2>1. At(format) = "." => format # <<>> /\ 1 \in 0 .. Len(format)
    BY <1>1 DEF At, NUL
  <2> QED BY <1>1, <2>1, TailIsRest, RestOfRest
<1>3. format' = f
  <2>1. CASE At(format) # "."
    BY <2>1 DEF EvaluatePrecision, AfterPrecision
  <2>2. CASE At(format) = "." /\ At(Tail(format)) = "*"
    <3>1. Tail(r) = Rest(r, 1) /\ Len(r) >= 1
      BY <1>2, <2>2, TailIsRest DEF At, NUL
    <3>2. 1 \in 0 .. Len(format) - 1
      BY <1>1, <1>2, <2>2, <3>1
    <3>3. Rest(r, 1) = Rest(format, 1 + 1)
      BY <1>1, <1>2, <2>2, <3>2, RestOfRest
    <3>4. format' = Rest(format, 2) /\ 1 + 1 = 2
      BY <2>2 DEF EvaluatePrecision
    <3> QED BY <1>2, <2>2, <3>3, <3>4 DEF AfterPrecision, AfterNumber
  <2>3. CASE At(format) = "." /\ At(Tail(format)) # "*"
    <3> DEFINE n == Len(Decimal(r))
    <3>1. Rest(r, n) = AfterNumber(r) /\ n \in 0 .. Len(format) - 1
      <4> HIDE DEF r
      <4> QED BY <1>2, <2>3, NumberRead
    <3>2. format' = Rest(format, 1 + n)
      BY <1>2, <2>3 DEF EvaluatePrecision
    <3> HIDE DEF n
    <3>3. Rest(r, n) = Rest(format, 1 + n)
      BY <1>1, <1>2, <2>3, <3>1, RestOfRest
    <3> QED BY <2>3, <3>1, <3>2, <3>3 DEF AfterPrecision
  <2> QED BY <2>1, <2>2, <2>3
<1>4. Ending(f, format) /\ f \in Seq(STRING) /\ Len(f) \in 0 .. Len(format)
  BY <1>1, FieldsEnd, EndingType
<1> HIDE DEF A
<1>5. Debt(A, pc, format) = star + LengthAsks(f) + A[LengthLeaves(f)]
  BY <1>1 DEF Debt, PrecisionAsks, PrecisionLeaves
<1>6. Debt(A, pc', format') = LengthAsks(f) + A[LengthLeaves(f)]
  BY <1>1, <1>3 DEF Debt
<1>7. LengthAsks(f) \in Nat /\ A[LengthLeaves(f)] \in Nat
  <2>1. LengthAsks(f) \in Nat /\ LengthLeaves(f) \in 0 .. Len(f)
    <3> HIDE DEF f
    <3> QED BY <1>4, AsksType
  <2>2. LengthLeaves(f) \in 0 .. Len(format)
    BY <1>1, <1>4, <2>1
  <2> QED BY <2>1, <2>2, OwedTypes DEF A
<1> HIDE DEF f
<1>8. Len(args') >= Debt(A, pc', format')
  <2>1. CASE At(format) = "." /\ At(Tail(format)) = "*"
    <3>1. args # <<>> /\ args \in Seq(Argument)
      BY <1>1, <2>1, Fetches DEF FetchesPassed, Locals
    <3>2. Len(args') = Len(args) - 1
      BY <2>1, <3>1 DEF EvaluatePrecision
    <3>3. star = 1 /\ Len(args) >= Debt(A, pc, format)
      BY <1>2, <2>1 DEF Asterisk, Owed, A
    <3> QED BY <1>1, <1>5, <1>6, <1>7, <3>2, <3>3
  <2>2. CASE ~ (At(format) = "." /\ At(Tail(format)) = "*")
    <3>1. args' = args
      BY <2>2 DEF EvaluatePrecision
    <3>2. star = 0
      BY <1>2, <2>2 DEF Asterisk
    <3>3. Len(args) >= Debt(A, pc, format)
      BY DEF Owed, A
    <3> QED BY <1>1, <1>5, <1>6, <1>7, <3>1, <3>2, <3>3
  <2> QED BY <2>1, <2>2
<1> QED BY <1>1, <1>3, <1>4, <1>8, OwesOn DEF A

LEMMA OwedLength ==
  ASSUME Locals, Owed, EvaluateLength
  PROVE  Owed'
<1> DEFINE A == Asked(call.format)
           c == At(format)
           doubled == c \in {"l", "h"} /\ At(Rest(format, 1)) = c
           len == CASE c \in {"t", "z"} -> {"LONG"}
                    [] c = "j" -> {"LONG_LONG"}
                    [] c = "l" -> {"LONG"} \cup (IF doubled THEN {"LONG_LONG"} ELSE {})
                    [] c = "h" -> {"SHORT"} \cup (IF doubled THEN {"CHAR"} ELSE {})
                    [] OTHER -> {}
<1>1. /\ format \in Seq(STRING) /\ pc = "length" /\ call' = call /\ args' = args /\ pc' = "specifier"
      /\ format' = Rest(format, IF doubled THEN 2 ELSE IF len # {} THEN 1 ELSE 0)
  BY OwedTypes DEF EvaluateLength
<1>2. len # {} <=> c \in {"t", "z", "j", "l", "h"}
  <2>1. CASE c \in {"t", "z", "j", "l", "h"}
    <3>1. c # "t" /\ c # "z" /\ c # "j" /\ c # "l" => c = "h"
      BY <2>1
    <3>2. c = "t" => len = {"LONG"}
      BY Zenon
    <3>3. c = "z" => len = {"LONG"}
      BY Zenon
    <3>4. c = "j" => len = {"LONG_LONG"}
      <4>1. "j" # "t" /\ "j" # "z"
        OBVIOUS
      <4> QED BY <4>1, Zenon
    <3>5. c = "l" => len = {"LONG"} \cup (IF doubled THEN {"LONG_LONG"} ELSE {})
      <4>1. "l" # "t" /\ "l" # "z" /\ "l" # "j"
        OBVIOUS
      <4> QED BY <4>1, Zenon
    <3>6. c = "h" => len = {"SHORT"} \cup (IF doubled THEN {"CHAR"} ELSE {})
      <4>1. "h" # "t" /\ "h" # "z" /\ "h" # "j" /\ "h" # "l"
        OBVIOUS
      <4> QED BY <4>1, Zenon
    <3> HIDE DEF len, c
    <3> QED BY <2>1, <3>1, <3>2, <3>3, <3>4, <3>5, <3>6
  <2>2. CASE c \notin {"t", "z", "j", "l", "h"}
    <3>1. c # "t" /\ c # "z" /\ c # "j" /\ c # "l" /\ c # "h"
      BY <2>2
    <3>2. len = {}
      BY <3>1, Zenon
    <3> QED BY <2>2, <3>2
  <2> QED BY <2>1, <2>2
<1>3. format' = AfterLength(format)
  <2> HIDE DEF len
  <2> QED BY <1>1, <1>2 DEF AfterLength
<1>4. Debt(A, pc', format') = Debt(A, pc, format)
  BY <1>1, <1>3 DEF Debt, LengthAsks, LengthLeaves
<1>5. Ending(format', format)
  BY <1>1, <1>3, FieldsEnd
<1> QED BY <1>1, <1>4, <1>5, OwesOn DEF Owed

(* Behind the specifier, which fetches k arguments and goes on with stage. *)
LEMMA OwedSpecifier ==
  ASSUME Locals, Owed, pc = "specifier", format # <<>>, call' = call,
         format' = Tail(format), pc' \in {"format", "zeros"},
         NEW k \in 0 .. 1, Len(args') = Len(args) - k, k <= SpecifierAsks(format)
  PROVE  Owed'
<1> DEFINE A == Asked(call.format)
<1>1. format \in Seq(STRING) /\ Len(args) \in Nat
  BY OwedTypes
<1>2. format' = Rest(format, 1) /\ Ending(format', format) /\ 1 \in 0 .. Len(format)
  <2>1. format' = Rest(format, 1)
    BY <1>1, TailIsRest
  <2>2. Ending(Rest(format, 1), format)
    BY <1>1, FieldsEnd
  <2>3. 1 \in 0 .. Len(format)
    BY <1>1
  <2> QED BY <2>1, <2>2, <2>3
<1>3. Len(format') = Len(format) - 1
  BY <1>1, <1>2, RestOfRest
<1>4. SpecifierLeaves(format) = Len(format') /\ Len(format') \in 0 .. Len(format)
  BY <1>1, <1>2, <1>3 DEF SpecifierLeaves
<1>5. A[Len(format')] \in Nat /\ SpecifierAsks(format) \in Nat
  BY <1>1, <1>4, OwedTypes, AsksType
<1> HIDE DEF A
<1>6. Debt(A, pc, format) = SpecifierAsks(format) + A[Len(format')]
  BY <1>4 DEF Debt
<1>7. Debt(A, pc', format') = A[Len(format')]
  BY DEF Debt
<1>8. Len(args) >= Debt(A, pc, format)
  BY DEF Owed, A
<1>9. Len(args') >= Debt(A, pc', format')
  BY <1>1, <1>5, <1>6, <1>7, <1>8
<1> QED BY <1>2, <1>9, OwesOn DEF A

LEMMA OwedNtoa ==
  ASSUME Locals, Owed, pc = "specifier", At(format) \in INTEGERS \cup {"p"}, args # <<>>,
         NEW value, NEW neg, NEW b, NEW f, _ntoa_long(value, neg, b, f)
  PROVE  Owed'
<1>1. args \in Seq(Argument) /\ args' = Tail(args) /\ format' = Tail(format) /\ call' = call /\ pc' = "zeros"
  BY DEF Locals, _ntoa_long
<1>2. Len(args') = Len(args) - 1
  BY <1>1
<1>3. format # <<>> /\ SpecifierAsks(format) = 1
  BY DEF At, NUL, INTEGERS, SpecifierAsks
<1> QED BY <1>1, <1>2, <1>3, OwedSpecifier

LEMMA OwedConverted ==
  ASSUME Locals, Owed, pc = "specifier", format # <<>>,
         NEW k \in 0 .. 1, k <= SpecifierAsks(format), k = 1 => args # <<>>,
         NEW s, Converted(s, k)
  PROVE  Owed'
<1>1. args \in Seq(Argument) /\ args' = Rest(args, k) /\ format' = Tail(format) /\ call' = call /\ pc' = "format"
  BY DEF Locals, Converted
<1>2. k \in 0 .. Len(args)
  BY <1>1
<1>3. Len(args') = Len(args) - k
  BY <1>1, <1>2, RestOfRest
<1> QED BY <1>1, <1>3, OwedSpecifier

LEMMA OwedStep == Locals /\ Owed /\ [Next]_vars => Owed'
<1> SUFFICES ASSUME Locals, Owed, [Next]_vars PROVE Owed'
  OBVIOUS
<1>1. FetchesPassed /\ format \in Seq(STRING) /\ Len(args) \in Nat
  BY Fetches, OwedTypes
<1>2. SpecifierAsks(format) \in Nat
  BY <1>1, AsksType
<1>3. CASE PrintInteger
  <2>1. pc = "specifier" /\ At(format) \in INTEGERS /\ format # <<>>
    BY <1>3 DEF PrintInteger, INTEGERS, At, NUL
  <2>2. CASE "LONG_LONG" \in flags /\ Converted(<<>>, 0)
    BY <1>2, <2>1, <2>2, OwedConverted
  <2>3. CASE "LONG_LONG" \notin flags
    <3>1. args # <<>>
      BY <1>1, <2>1, <2>3 DEF FetchesPassed
    <3>2. \E v, neg, b, f : _ntoa_long(v, neg, b, f)
      BY <1>3, <2>3, Zenon DEF PrintInteger
    <3> QED BY <2>1, <3>1, <3>2, OwedNtoa
  <2> QED BY <1>3, <2>2, <2>3 DEF PrintInteger
<1>4. CASE PrintPointer
  BY <1>1, <1>4, OwedNtoa DEF PrintPointer, FetchesPassed
<1>5. CASE PrintChar
  <2>1. pc = "specifier" /\ format # <<>> /\ args # <<>> /\ SpecifierAsks(format) = 1
    BY <1>1, <1>5 DEF PrintChar, FetchesPassed, At, NUL, SpecifierAsks
  <2>2. \E s : Converted(s, 1)
    BY <1>5, Zenon DEF PrintChar
  <2> QED BY <2>1, <2>2, OwedConverted
<1>6. CASE PrintString
  <2>1. pc = "specifier" /\ format # <<>> /\ args # <<>> /\ SpecifierAsks(format) = 1
    BY <1>1, <1>6 DEF PrintString, FetchesPassed, At, NUL, SpecifierAsks
  <2>2. \E s : Converted(s, 1)
    BY <1>6, Zenon DEF PrintString
  <2> QED BY <2>1, <2>2, OwedConverted
<1>7. CASE PrintOther
  <2>1. pc = "specifier" /\ format # <<>> /\ Converted(<<At(format)>>, 0)
    BY <1>7 DEF PrintOther, OtherSpecifier, At
  <2> QED BY <1>2, <2>1, OwedConverted
<1>8. ASSUME UNCHANGED <<call, format, args>>,
             Debt(Asked(call.format), pc', format) = Debt(Asked(call.format), pc, format)
      PROVE  Owed'
  BY <1>8 DEF Owed
<1>9. CASE PadZeros \/ HandleHash \/ PushSign \/ _out_rev
  <2>1. /\ UNCHANGED <<call, format, args>>
        /\ pc \in {"zeros", "hash", "sign", "out"} /\ pc' \in {"format", "hash", "sign", "out"}
    BY <1>9 DEF PadZeros, HandleHash, PushSign, _out_rev
  <2> QED BY <1>8, <2>1 DEF Debt
<1>10. CASE PrintNul \/ Terminate
  <2>1. UNCHANGED <<call, format, args>> /\ pc' \in {"done", "overrun"}
    BY <1>10 DEF PrintNul, Terminate
  <2> QED BY <1>1, <2>1 DEF Debt, Owed
<1>11. CASE UNCHANGED vars
  BY <1>8, <1>11 DEF vars
<1> QED BY <1>3, <1>4, <1>5, <1>6, <1>7, <1>9, <1>10, <1>11,
           OwedLiteral, OwedFlags, OwedWidth, OwedPrecision, OwedLength, Zenon DEF Next

LEMMA OwedInit == Init => Owed
<1> SUFFICES ASSUME Init PROVE Owed
  OBVIOUS
<1>1. IsCall(call) /\ format = call.format /\ args = call.args /\ pc = "format"
  BY CallsAssumption DEF Init
<1>2. format \in Seq(STRING) /\ Asked(call.format)[Len(format)] <= Len(args)
  BY <1>1 DEF IsCall
<1>3. args \in Seq([n : Nat, s : Seq(STRING)])
  BY <1>1 DEF IsCall
<1>4. Asked(call.format)[Len(format)] \in Nat /\ Len(args) \in Nat
  <2>1. Len(format) \in 0 .. Len(format)
    BY <1>2
  <2> QED BY <1>1, <1>2, <1>3, <2>1, AskedSums
<1>5. Ending(format, call.format)
  BY <1>1, <1>2, FieldsEnd
<1>6. Debt(Asked(call.format), pc, format) = Asked(call.format)[Len(format)]
  BY <1>1 DEF Debt
<1> QED BY <1>2, <1>4, <1>5, <1>6 DEF Owed

-----------------------------------------------------------------------------
LEMMA Invariance == Spec => [](IInv /\ Owed)
<1>1. IInv /\ Owed => Locals /\ FetchesPassed
  BY Fetches DEF IInv
<1> QED BY <1>1, InitKeeps, OwedInit, NextKeeps, OwedStep, PTL DEF Spec

(* For every call that passes the arguments its format asks for, by the      *)
(* fields of the conversions of the C standard, no step of _vsnprintf      *)
(* fetches one that was not passed, whatever flags, widths, precisions and *)
(* lengths the format combines.                                            *)
THEOREM FetchesArePassed == Spec => []FetchesPassed
<1>1. IInv /\ Owed => FetchesPassed
  BY Fetches DEF IInv
<1> QED BY <1>1, Invariance, PTL

(* Every step of _vsnprintf leaves its locals in their types: the digits and *)
(* padding of a conversion never exceed PRINTF_NTOA_BUFFER_SIZE, whatever  *)
(* width and precision the format or an argument has, and width and        *)
(* precision stay unsigned ints.                                           *)
THEOREM PrintfTypes == Spec => []TypeOK
<1>1. IInv => TypeOK
  BY DEF IInv, Locals, Counted, Fits, TypeOK
<1> QED BY <1>1, Invariance, PTL

(* For every buffer size, format and argument, sprintf_ and snprintf_ store  *)
(* as much of the text as fits with a NUL behind it, never touch memory    *)
(* from count on, and return the length of the whole text; printf_ and a   *)
(* NULL buffer store nothing.  A text of UINT_RANGE characters or more     *)
(* stays in the buffer.                                                    *)
THEOREM TextFitsBuffer == Spec => []StoresWhatFits
BY Invariance, WrittenFits, PTL
=============================================================================
