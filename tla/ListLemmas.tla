----------------------------- MODULE ListLemmas -----------------------------
(***************************************************************************)
(* Facts about the sequence operators that the lists of chatr are modelled *)
(* with: the first match of a walk, a removal, an append, a new head, a    *)
(* piece of a list; and about numbers: induction and recursion over them,  *)
(* quotients and remainders, decimal digits.                               *)
(***************************************************************************)
EXTENDS Digits, SequenceTheorems, WellFoundedInduction, TLAPS

\* Every set of numbers has a least one.
LEMMA NatMin ==
  ASSUME NEW T, T \subseteq Nat, T # {}
  PROVE  \E x \in T : \A y \in T : x <= y
<1>1. PICK x \in T : \A y \in T : ~(<<y, x>> \in OpToRel(<, Nat))
  BY NatLessThanWellFounded, WFMin
<1>2. ASSUME NEW y \in T PROVE x <= y
  <2>1. ~(y < x)
    BY <1>1 DEF OpToRel
  <2> QED BY <2>1
<1> QED BY <1>2

\* Min, as SelectInSeq uses it.
LEMMA MinLeast ==
  ASSUME NEW I, I \subseteq Nat, I # {}
  PROVE  Min(I) \in I /\ \A j \in I : Min(I) <= j
BY NatMin DEF Min

\* The least number is one of the set.
LEMMA MinInSet ==
  ASSUME NEW I, I \subseteq Nat, I # {}
  PROVE  Min(I) \in I
BY MinLeast

\* The removal of position k: what stays is what was at the other positions.
LEMMA RemoveAtProperties ==
  ASSUME NEW S, NEW s \in Seq(S), NEW k \in 1 .. Len(s)
  PROVE  /\ RemoveAt(s, k) \in Seq(S)
         /\ Len(RemoveAt(s, k)) = Len(s) - 1
         /\ \A j \in 1 .. Len(s) - 1 : RemoveAt(s, k)[j] = IF j < k THEN s[j] ELSE s[j + 1]
<1> DEFINE a == SubSeq(s, 1, k - 1)
           b == SubSeq(s, k + 1, Len(s))
<1>1. Len(s) \in Nat /\ \A j \in 1 .. Len(s) : s[j] \in S
  BY LenProperties, ElementOfSeq
<1>2. /\ a \in Seq(S) /\ Len(a) = k - 1
      /\ \A j \in 1 .. k - 1 : a[j] = s[j]
  <2>1. 1 \in Int /\ k - 1 \in Int /\ \A j \in 1 .. k - 1 : s[j] \in S
    BY <1>1
  <2> QED BY <2>1, <1>1, SubSeqProperties
<1>3. /\ b \in Seq(S) /\ Len(b) = Len(s) - k
      /\ \A j \in 1 .. Len(s) - k : b[j] = s[k + j]
  <2>1. k + 1 \in Int /\ Len(s) \in Int /\ \A j \in k + 1 .. Len(s) : s[j] \in S
    BY <1>1
  <2>2. /\ b \in Seq(S)
        /\ Len(b) = IF k + 1 <= Len(s) THEN Len(s) - (k + 1) + 1 ELSE 0
        /\ \A j \in 1 .. Len(s) - (k + 1) + 1 : b[j] = s[k + 1 + j - 1]
    BY <2>1, SubSeqProperties
  <2> QED BY <2>2, <1>1
<1>4. /\ a \o b \in Seq(S) /\ Len(a \o b) = Len(a) + Len(b)
      /\ \A j \in 1 .. Len(a) + Len(b) :
            (a \o b)[j] = IF j <= Len(a) THEN a[j] ELSE b[j - Len(a)]
  <2> HIDE DEF a, b
  <2> QED BY <1>2, <1>3, ConcatProperties
<1>5. RemoveAt(s, k) = a \o b
  BY DEF RemoveAt
<1> HIDE DEF a, b
<1>6. Len(a \o b) = Len(s) - 1
  BY <1>1, <1>2, <1>3, <1>4
<1>7. ASSUME NEW j \in 1 .. Len(s) - 1
      PROVE  (a \o b)[j] = IF j < k THEN s[j] ELSE s[j + 1]
  <2>1. CASE j < k
    BY <2>1, <1>1, <1>2, <1>3, <1>4
  <2>2. CASE ~(j < k)
    <3>1. (a \o b)[j] = b[j - (k - 1)] /\ j - (k - 1) \in 1 .. Len(s) - k
      BY <2>2, <1>1, <1>2, <1>3, <1>4
    <3>2. b[j - (k - 1)] = s[k + (j - (k - 1))]
      BY <3>1, <1>3
    <3>3. k + (j - (k - 1)) = j + 1
      BY <1>1
    <3> QED BY <2>2, <3>1, <3>2, <3>3
  <2> QED BY <2>1, <2>2
<1> QED BY <1>4, <1>5, <1>6, <1>7

\* An append adds one element.
LEMMA ToSetAppend ==
  ASSUME NEW S, NEW s \in Seq(S), NEW e \in S
  PROVE  ToSet(Append(s, e)) = ToSet(s) \cup {e}
<1>1. DOMAIN s = 1 .. Len(s) /\ Len(s) \in Nat
  BY LenProperties
<1>2. /\ Append(s, e) \in Seq(S) /\ Len(Append(s, e)) = Len(s) + 1
      /\ \A j \in 1 .. Len(s) : Append(s, e)[j] = s[j]
      /\ Append(s, e)[Len(s) + 1] = e
  BY AppendProperties
<1>3. DOMAIN Append(s, e) = 1 .. Len(s) + 1
  BY <1>2, LenProperties
<1>4. 1 .. Len(s) + 1 = (1 .. Len(s)) \cup {Len(s) + 1}
  BY <1>1
<1> QED BY <1>1, <1>2, <1>3, <1>4 DEF ToSet

\* A removal from a list without repetitions takes its element away.
LEMMA ToSetRemoveAt ==
  ASSUME NEW S, NEW s \in Seq(S), NEW k \in 1 .. Len(s),
         \A j, l \in 1 .. Len(s) : s[j] = s[l] => j = l
  PROVE  ToSet(RemoveAt(s, k)) = ToSet(s) \ {s[k]}
<1> DEFINE r == RemoveAt(s, k)
<1>1. DOMAIN s = 1 .. Len(s) /\ Len(s) \in Nat
  BY LenProperties
<1>2. /\ r \in Seq(S) /\ Len(r) = Len(s) - 1
      /\ \A j \in 1 .. Len(s) - 1 : r[j] = IF j < k THEN s[j] ELSE s[j + 1]
  BY RemoveAtProperties
<1>3. DOMAIN r = 1 .. Len(s) - 1
  BY <1>2, LenProperties
<1> HIDE DEF r
<1>4. ASSUME NEW j \in DOMAIN r PROVE r[j] \in ToSet(s) \ {s[k]}
  <2>1. CASE j < k
    BY <2>1, <1>1, <1>2, <1>3 DEF ToSet
  <2>2. CASE ~(j < k)
    <3>1. r[j] = s[j + 1] /\ j + 1 \in 1 .. Len(s) /\ j + 1 # k
      BY <2>2, <1>1, <1>2, <1>3
    <3> QED BY <3>1, <1>1 DEF ToSet
  <2> QED BY <2>1, <2>2
<1>5. ASSUME NEW j \in 1 .. Len(s), j # k PROVE \E l \in DOMAIN r : r[l] = s[j]
  <2>1. CASE j < k
    <3>1. j \in 1 .. Len(s) - 1
      BY <2>1, <1>1
    <3>2. r[j] = s[j]
      BY <2>1, <3>1, <1>2
    <3> QED BY <3>1, <3>2, <1>3
  <2>2. CASE j > k
    <3>1. j - 1 \in DOMAIN r /\ r[j - 1] = s[(j - 1) + 1] /\ (j - 1) + 1 = j
      BY <2>2, <1>1, <1>2, <1>3
    <3> QED BY <3>1
  <2> QED BY <2>1, <2>2, <1>5
<1>6. ToSet(r) \subseteq ToSet(s) \ {s[k]}
  BY <1>4 DEF ToSet
<1>7. ToSet(s) \ {s[k]} \subseteq ToSet(r)
  BY <1>1, <1>5 DEF ToSet
<1> QED BY <1>6, <1>7 DEF r

\* A new head.
LEMMA NewHead ==
  ASSUME NEW S, NEW s \in Seq(S), NEW e \in S
  PROVE  <<e>> \o s \in Seq(S)
<1>1. <<e>> \in Seq(S)
  OBVIOUS
<1> QED BY <1>1, ConcatProperties

\* The greatest of the first numbers.
LEMMA MaxInSet ==
  ASSUME NEW n \in Nat, NEW I, I \subseteq 1 .. n, I # {}
  PROVE  Max(I) \in I /\ \A j \in I : j <= Max(I)
<1> DEFINE T == {n - j : j \in I}
<1>1. T \subseteq Nat /\ T # {}
  <2>1. \A j \in I : j \in 1 .. n
    OBVIOUS
  <2>2. \A j \in 1 .. n : n - j \in Nat
    OBVIOUS
  <2> QED BY <2>1, <2>2
<1> HIDE DEF T
<1>2. PICK x \in T : \A y \in T : x <= y
  BY <1>1, NatMin
<1>3. PICK m \in I : x = n - m
  BY <1>2 DEF T
<1>4. ASSUME NEW j \in I PROVE m >= j
  <2>1. n - j \in T
    BY DEF T
  <2>2. n - m <= n - j
    BY <1>2, <1>3, <2>1
  <2> QED BY <2>2
<1>5. \E k \in I : \A j \in I : k >= j
  BY <1>4
<1> QED BY <1>5 DEF Max

\* The lesser and the greater of two.
LEMMA OfTwo ==
  ASSUME NEW a \in Int, NEW b \in Int
  PROVE  /\ Min({a, b}) = IF a <= b THEN a ELSE b
         /\ Max({a, b}) = IF a <= b THEN b ELSE a
<1>1. /\ a <= b => Min({a, b}) = a /\ Max({a, b}) = b
      /\ b <= a => Min({a, b}) = b /\ Max({a, b}) = a
  BY DEF Min, Max
<1> QED BY <1>1

\* The beginning of a list.
LEMMA FirstChars ==
  ASSUME NEW S, NEW s \in Seq(S), NEW k \in Nat, k <= Len(s)
  PROVE  /\ SubSeq(s, 1, k) \in Seq(S) /\ Len(SubSeq(s, 1, k)) = k
         /\ \A i \in 1 .. k : SubSeq(s, 1, k)[i] = s[i]
<1>1. Len(s) \in Nat /\ \A i \in 1 .. k : s[i] \in S
  BY LenProperties, ElementOfSeq
<1>2. 1 \in Int /\ k \in Int
  OBVIOUS
<1> QED BY <1>1, <1>2, SubSeqProperties

\* Sequences are equal when their lengths and their elements are.
LEMMA SameSequence ==
  ASSUME NEW S, NEW s \in Seq(S), NEW t \in Seq(S), Len(s) = Len(t),
         \A i \in 1 .. Len(s) : s[i] = t[i]
  PROVE  s = t
BY SeqEqual

\* A piece of a list.
LEMMA Piece ==
  ASSUME NEW S, NEW s \in Seq(S), NEW f \in Nat, NEW k \in Nat, f + k <= Len(s)
  PROVE  /\ SubSeq(s, f + 1, f + k) \in Seq(S) /\ Len(SubSeq(s, f + 1, f + k)) = k
         /\ \A j \in 1 .. k : SubSeq(s, f + 1, f + k)[j] = s[f + j]
<1> DEFINE m == f + 1
           n == f + k
<1>1. m \in Int /\ n \in Int /\ Len(s) \in Nat /\ \A i \in m .. n : s[i] \in S
  BY LenProperties, ElementOfSeq
<1>2. /\ SubSeq(s, m, n) \in Seq(S)
      /\ Len(SubSeq(s, m, n)) = IF m <= n THEN n - m + 1 ELSE 0
      /\ \A i \in 1 .. n - m + 1 : SubSeq(s, m, n)[i] = s[m + i - 1]
  <2> HIDE DEF m, n
  <2> QED BY <1>1, SubSeqProperties
<1>3. Len(SubSeq(s, m, n)) = k
  BY <1>2
<1>4. ASSUME NEW j \in 1 .. k PROVE SubSeq(s, m, n)[j] = s[f + j]
  <2>1. j \in 1 .. n - m + 1 /\ m + j - 1 = f + j
    OBVIOUS
  <2> QED BY <1>2, <2>1
<1> QED BY <1>2, <1>3, <1>4

-----------------------------------------------------------------------------
(* Digits.                                                                 *)

\* Where the digits of a number are.
LEMMA DecimalDigits ==
  ASSUME NEW f \in Nat
  PROVE  \E size \in 1 .. 10 :
            /\ size = 1 \/ f >= Powers[size]
            /\ size = 10 \/ f < Powers[size + 1]
            /\ Decimal(f) = [k \in 1 .. size |-> DigitOf(f, size - k + 1)]
<1> DEFINE P(k) == (k = 1 \/ f >= Powers[k]) /\ (k = 10 \/ f < Powers[k + 1])
<1>1. \E k \in 1 .. 10 : P(k)
  <2>1. f < 10 => P(1)
    BY DEF Powers
  <2>2. f >= 10 /\ f < 100 => P(2)
    BY DEF Powers
  <2>3. f >= 100 /\ f < 1000 => P(3)
    BY DEF Powers
  <2>4. f >= 1000 /\ f < 10000 => P(4)
    BY DEF Powers
  <2>5. f >= 10000 /\ f < 100000 => P(5)
    BY DEF Powers
  <2>6. f >= 100000 /\ f < 1000000 => P(6)
    BY DEF Powers
  <2>7. f >= 1000000 /\ f < 10000000 => P(7)
    BY DEF Powers
  <2>8. f >= 10000000 /\ f < 100000000 => P(8)
    BY DEF Powers
  <2>9. f >= 100000000 /\ f < 1000000000 => P(9)
    BY DEF Powers
  <2>10. f >= 1000000000 => P(10)
    BY DEF Powers
  <2> HIDE DEF P
  <2> QED BY <2>1, <2>2, <2>3, <2>4, <2>5, <2>6, <2>7, <2>8, <2>9, <2>10
<1> DEFINE size == CHOOSE k \in 1 .. 10 : P(k)
<1>2. size \in 1 .. 10 /\ P(size)
  BY <1>1
<1>3. Decimal(f) = [k \in 1 .. size |-> DigitOf(f, size - k + 1)]
  BY DEF Decimal
<1> QED BY <1>2, <1>3

\* No division by zero.
LEMMA PowersPositive == \A p \in 1 .. 10 : Powers[p] \in Nat \ {0}
BY DEF Powers

\* Ten characters are digits, each its own.
LEMMA DigitsAre ==
  /\ \A d \in 0 .. 9 : isdigit(DigitChars[d + 1])
  /\ \A d, e \in 0 .. 9 : DigitChars[d + 1] = DigitChars[e + 1] => d = e
<1>1. DOMAIN DigitChars = 1 .. 10
  BY DEF DigitChars
<1>2. \A d \in 0 .. 9 : DigitChars[d + 1] \in ToSet(DigitChars)
  BY <1>1 DEF ToSet
<1>3. \A d \in 0 .. 9 : isdigit(DigitChars[d + 1])
  BY <1>2 DEF isdigit
<1>4. \A d, e \in 0 .. 9 : DigitChars[d + 1] = DigitChars[e + 1] => d = e
  BY DEF DigitChars
<1> QED BY <1>3, <1>4

\* The remainder names a digit.
LEMMA DigitIn ==
  ASSUME NEW f \in Nat, NEW p \in 1 .. 10
  PROVE  (f \div Powers[p]) % 10 \in 0 .. 9
<1>1. Powers[p] \in Nat \ {0}
  BY PowersPositive
<1> DEFINE q == Powers[p]
<1> HIDE DEF q
<1>2. f \div q \in Nat
  BY <1>1 DEF q
<1> QED BY <1>2 DEF q

-----------------------------------------------------------------------------
(* Induction and recursion over the numbers, without an operator as a       *)
(* parameter: a property is a set, the step of a recursion a function.      *)

\* A set with 0 and every successor of its numbers has all numbers.
LEMMA NatInSet ==
  ASSUME NEW S, 0 \in S, \A n \in Nat : n \in S => n + 1 \in S
  PROVE  \A n \in Nat : n \in S
<1> DEFINE T == {n \in Nat : n \notin S}
<1>1. ASSUME T # {} PROVE FALSE
  <2>1. PICK x \in T : \A y \in T : x <= y
    BY <1>1, NatMin
  <2>2. x \in Nat /\ x # 0 /\ x - 1 \in Nat /\ ~(x <= x - 1) /\ x = (x - 1) + 1
    BY <2>1
  <2>3. x - 1 \in S
    BY <2>1, <2>2
  <2> QED BY <2>1, <2>2, <2>3
<1> QED BY <1>1

\* v holds the first n values of the recursion that starts with s and goes on with F.
Computes(v, n, s, F) ==
    v[0] = s /\ \A k \in 1 .. n : v[k] = F[<<k, v[k - 1]>>]

\* There is one value at each place.
LEMMA RecursionUnique ==
  ASSUME NEW F, NEW s, NEW v, NEW w, NEW n \in Nat, NEW m \in Nat,
         Computes(v, n, s, F), Computes(w, m, s, F)
  PROVE  \A k \in Nat : k <= n /\ k <= m => v[k] = w[k]
<1> DEFINE S == {k \in Nat : k <= n /\ k <= m => v[k] = w[k]}
<1>1. 0 \in S
  BY DEF Computes
<1>2. ASSUME NEW k \in Nat, k \in S PROVE k + 1 \in S
  <2>1. CASE k + 1 <= n /\ k + 1 <= m
    <3>1. k + 1 \in 1 .. n /\ k + 1 \in 1 .. m /\ (k + 1) - 1 = k /\ k <= n /\ k <= m
      BY <2>1
    <3>2. v[k + 1] = F[<<k + 1, v[k]>>] /\ w[k + 1] = F[<<k + 1, w[k]>>]
      BY <3>1 DEF Computes
    <3>3. v[k] = w[k]
      BY <1>2, <3>1
    <3> QED BY <3>2, <3>3
  <2> QED BY <2>1
<1> HIDE DEF S
<1>3. \A k \in Nat : k \in S
  BY <1>1, <1>2, NatInSet
<1> QED BY <1>3 DEF S

\* A recursion over the numbers has values at all of them.
LEMMA NatRecursion ==
  ASSUME NEW T, NEW s \in T, NEW F \in [Nat \X T -> T]
  PROVE  \E v \in [Nat -> T] : v[0] = s /\ \A k \in Nat : v[k + 1] = F[<<k + 1, v[k]>>]
<1> DEFINE S == {n \in Nat : \E v \in [Nat -> T] : Computes(v, n, s, F)}
<1>1. 0 \in S
  <2>1. [k \in Nat |-> s] \in [Nat -> T] /\ Computes([k \in Nat |-> s], 0, s, F)
    BY DEF Computes
  <2> QED BY <2>1
<1>2. ASSUME NEW n \in Nat, n \in S PROVE n + 1 \in S
  <2>1. PICK v \in [Nat -> T] : Computes(v, n, s, F)
    BY <1>2
  <2> DEFINE w == [k \in Nat |-> IF k = n + 1 THEN F[<<n + 1, v[n]>>] ELSE v[k]]
  <2>2. w \in [Nat -> T]
    OBVIOUS
  <2>3. w[0] = s
    BY <2>1 DEF Computes
  <2>4. ASSUME NEW k \in 1 .. n + 1 PROVE w[k] = F[<<k, w[k - 1]>>]
    <3>1. k - 1 \in Nat /\ k \in Nat /\ k - 1 # n + 1 /\ w[k - 1] = v[k - 1]
      OBVIOUS
    <3>2. CASE k = n + 1
      BY <3>1, <3>2
    <3>3. CASE k # n + 1
      <4>1. k \in 1 .. n
        BY <3>3
      <4>2. w[k] = v[k] /\ v[k] = F[<<k, v[k - 1]>>]
        BY <2>1, <3>3, <4>1 DEF Computes
      <4> QED BY <3>1, <4>2
    <3> QED BY <3>2, <3>3
  <2> HIDE DEF w
  <2>5. Computes(w, n + 1, s, F)
    BY <2>3, <2>4 DEF Computes
  <2> QED BY <2>2, <2>5
<1>3. \A n \in Nat : n \in S
  <2> HIDE DEF S
  <2> QED BY <1>1, <1>2, NatInSet
<1> DEFINE V(n) == CHOOSE v \in [Nat -> T] : Computes(v, n, s, F)
           u == [n \in Nat |-> V(n)[n]]
<1>4. \A n \in Nat : V(n) \in [Nat -> T] /\ Computes(V(n), n, s, F)
  BY <1>3
<1> HIDE DEF V
<1>5. u \in [Nat -> T]
  BY <1>4
<1>6. u[0] = s
  BY <1>4 DEF Computes
<1>7. ASSUME NEW k \in Nat PROVE u[k + 1] = F[<<k + 1, u[k]>>]
  <2>1. k + 1 \in Nat /\ k + 1 \in 1 .. k + 1 /\ (k + 1) - 1 = k /\ k <= k /\ k <= k + 1
    OBVIOUS
  <2>2. V(k + 1)[k + 1] = F[<<k + 1, V(k + 1)[k]>>]
    BY <1>4, <2>1 DEF Computes
  <2>3. Computes(V(k), k, s, F) /\ Computes(V(k + 1), k + 1, s, F)
    BY <1>4, <2>1
  <2>4. V(k)[k] = V(k + 1)[k]
    BY <2>1, <2>3, RecursionUnique
  <2> QED BY <2>1, <2>2, <2>4
<1> HIDE DEF u
<1> QED BY <1>5, <1>6, <1>7
\* The same for integers.
LEMMA IntRecursion ==
  ASSUME NEW s \in Int, NEW F \in [Nat \X Int -> Int]
  PROVE  \E v \in [Nat -> Int] : v[0] = s /\ \A k \in Nat : v[k + 1] = F[<<k + 1, v[k]>>]
<1> DEFINE I == Int
<1>1. s \in I /\ F \in [Nat \X I -> I]
  OBVIOUS
<1> HIDE DEF I
<1>2. \E v \in [Nat -> I] : v[0] = s /\ \A k \in Nat : v[k + 1] = F[<<k + 1, v[k]>>]
  BY <1>1, NatRecursion
<1> QED BY <1>2 DEF I

-----------------------------------------------------------------------------
(* Quotients and remainders.                                               *)

\* They are what division defines.
LEMMA Division ==
  ASSUME NEW x \in Int, NEW M \in Nat \ {0}
  PROVE  /\ x % M \in 0 .. M - 1 /\ x \div M \in Int
         /\ x = (x \div M) * M + (x % M)
         /\ x >= 0 => x \div M \in Nat
OBVIOUS

\* Nothing else is.
LEMMA DivisionUnique ==
  ASSUME NEW q \in Int, NEW M \in Nat \ {0}, NEW r \in 0 .. M - 1
  PROVE  (q * M + r) % M = r /\ (q * M + r) \div M = q
OBVIOUS

\* A multiple leaves the remainder as it is.
LEMMA MultipleAdded ==
  ASSUME NEW x \in Int, NEW k \in Int, NEW M \in Nat \ {0}
  PROVE  (x + k * M) % M = x % M
<1>1. PICK q \in Int, r \in 0 .. M - 1 : x = q * M + r
  BY Division
<1>2. x + k * M = (q + k) * M + r /\ q + k \in Int
  BY <1>1
<1> DEFINE p == q + k
<1>3. (p * M + r) % M = r /\ (q * M + r) % M = r
  <2> HIDE DEF p
  <2>1. p \in Int
    BY <1>2 DEF p
  <2> QED BY <2>1, DivisionUnique
<1> QED BY <1>1, <1>2, <1>3

\* The remainder of a remainder by a multiple.
LEMMA RemainderTwice ==
  ASSUME NEW x \in Int, NEW M \in Nat \ {0}, NEW N \in Nat \ {0}
  PROVE  (x % (N * M)) % M = x % M
<1> DEFINE L == N * M
<1>1. L \in Nat \ {0}
  OBVIOUS
<1> HIDE DEF L
<1>2. PICK q \in Int, r \in 0 .. L - 1 : x = q * L + r /\ x % L = r
  BY <1>1, Division
<1>3. q * L = (q * N) * M /\ q * N \in Int
  BY <1>2 DEF L
<1> DEFINE k == q * N
<1> HIDE DEF k
<1>4. x = r + k * M /\ k \in Int /\ r \in Int
  BY <1>1, <1>2, <1>3 DEF k
<1>5. x % M = r % M
  BY <1>4, MultipleAdded
<1> QED BY <1>2, <1>5 DEF L

\* Two divisions are one by the product, and their remainders one remainder.
LEMMA DivisionTwice ==
  ASSUME NEW x \in Int, NEW M \in Nat \ {0}, NEW N \in Nat \ {0}
  PROVE  /\ (x \div M) \div N = x \div (M * N)
         /\ M * ((x \div M) % N) + (x % M) = x % (M * N)
<1>1. PICK q \in Int, r \in 0 .. M - 1 : x = q * M + r /\ x \div M = q /\ x % M = r
  BY Division
<1>2. PICK p \in Int, t \in 0 .. N - 1 : q = p * N + t /\ q \div N = p /\ q % N = t
  BY Division
<1> DEFINE L == M * N
           s == M * t + r
<1>3. L \in Nat \ {0}
  OBVIOUS
<1>4. s \in 0 .. L - 1
  <2>1. M * t <= M * (N - 1) /\ M * t >= 0
    BY <1>2
  <2>2. M * (N - 1) = L - M
    OBVIOUS
  <2> HIDE DEF L
  <2>3. M * t \in Int
    BY <1>2
  <2> QED BY <1>1, <1>3, <2>1, <2>2, <2>3
<1>5. x = p * L + s
  <2>1. x = (p * N + t) * M + r
    BY <1>1, <1>2
  <2>2. (p * N + t) * M = p * (M * N) + M * t
    BY <1>2
  <2> QED BY <2>1, <2>2
<1> HIDE DEF L, s
<1>6. x % L = s /\ x \div L = p
  BY <1>3, <1>4, <1>5, DivisionUnique
<1> QED BY <1>1, <1>2, <1>6 DEF L, s

\* A number that is small enough is its own remainder.
LEMMA RemainderSmall ==
  ASSUME NEW M \in Nat \ {0}, NEW r \in 0 .. M - 1
  PROVE  r % M = r /\ r \div M = 0
OBVIOUS
=============================================================================
