---------------------------- MODULE Unity_proofs -----------------------------
(***************************************************************************)
(* For any tests, calling whatever C lets them call, and any number of     *)
(* them: a verdict ends its test, and the verdict lines, the counts and    *)
(* the exit status agree; and for operands, arrays, strings and memory of  *)
(* any size: an assertion fails exactly when what it says is false, and    *)
(* its report reads back as the numbers that differ.                       *)
(***************************************************************************)
EXTENDS UnityProps, ListLemmas

Counts == [NumberOfTests : Nat, TestFailures : Nat, TestIgnores : Nat,
           CurrentTestFailed : {0, 1}, CurrentTestIgnored : {0, 1}]

\* What OneVerdict needs to be inductive: no call outlives its function, between
\* tests no flag is up, and no test has both.
UInv ==
    /\ Unity \in Counts /\ Unity.NumberOfTests <= MaxTests
    /\ printed \in [PASS : Nat, FAIL : Nat, IGNORE : Nat]
    /\ at \in {"main", "conclude", "exited"} \cup Functions
    /\ asked # null => at \in Functions /\ asked \in Calls[at]
    /\ status = null \/ at = "exited"
    /\ ~(Unity.CurrentTestFailed = 1 /\ Unity.CurrentTestIgnored = 1)
    /\ NothingAfterVerdict
    /\ OneVerdict

-----------------------------------------------------------------------------

\* UnityFail is only reached with no flag up: the two calls that do not look at
\* the flags never fail.
LEMMA FailsUnflagged ==
  ASSUME UnityFail
  PROVE  ~ Flagged
<1>1. asked.fn \in {"Message", "Pass"} => ~ Fails(asked)
  BY DEF Fails
<1> QED BY <1>1 DEF UnityFail, RETURN_IF_FAIL_OR_IGNORE

\* A jump leads to tearDown, and from there to the end of the test.
LEMMA AbortLeads ==
  ASSUME TEST_ABORT
  PROVE  asked' = null /\ at' \in {"tearDown", "conclude"}
BY DEF TEST_ABORT

\* Before the first test everything is zero.
LEMMA InitUInv == Init => UInv
BY UnityAssumption DEF Init, UInv, UnityBegin, Counts, NothingAfterVerdict, OneVerdict,
   Flagged, Functions

\* Every step keeps the verdicts and the counts in agreement.
LEMMA StepUInv == UInv /\ [Next]_vars => UInv'
<1> SUFFICES ASSUME UInv, [Next]_vars PROVE UInv'
  OBVIOUS
<1>0. /\ Unity \in Counts /\ Unity.NumberOfTests <= MaxTests
      /\ printed \in [PASS : Nat, FAIL : Nat, IGNORE : Nat]
      /\ at \in {"main", "conclude", "exited", "setUp", "Func", "tearDown"}
      /\ asked # null => at \in Functions /\ asked \in Calls[at]
      /\ status = null \/ at = "exited"
      /\ ~(Unity.CurrentTestFailed = 1 /\ Unity.CurrentTestIgnored = 1)
      /\ Flagged => at \in {"tearDown", "conclude"}
  BY DEF UInv, NothingAfterVerdict, Functions
<1>1. /\ printed.FAIL = Unity.TestFailures + Unity.CurrentTestFailed
      /\ printed.IGNORE = Unity.TestIgnores + Unity.CurrentTestIgnored
      /\ printed.PASS + printed.FAIL + printed.IGNORE
            = Unity.NumberOfTests - (IF at \in Functions \cup {"conclude"} /\ ~ Flagged THEN 1 ELSE 0)
      /\ at = "exited" => status = printed.FAIL
  BY DEF UInv, OneVerdict
<1>2. CASE RUN_TEST
  BY <1>0, <1>1, <1>2, UnityAssumption
     DEF RUN_TEST, UInv, NothingAfterVerdict, OneVerdict, Flagged, Functions, Counts
<1>3. CASE Call
  BY <1>0, <1>1, <1>3 DEF Call, UInv, NothingAfterVerdict, OneVerdict, Flagged, Functions
<1>4. CASE Return
  BY <1>0, <1>1, <1>4 DEF Return, UInv, NothingAfterVerdict, OneVerdict, Flagged, Functions
<1>5. CASE Again
  BY <1>0, <1>1, <1>5, AbortLeads
     DEF Again, UInv, NothingAfterVerdict, OneVerdict, Flagged, Functions
<1>6. CASE Holds
  BY <1>0, <1>1, <1>6 DEF Holds, UInv, NothingAfterVerdict, OneVerdict, Flagged, Functions
<1>7. CASE UnityFail
  <2>1. at \in Functions /\ ~ Flagged
    BY <1>0, <1>7, FailsUnflagged DEF UnityFail
  <2>2. /\ printed' = [printed EXCEPT !.FAIL = @ + 1]
        /\ Unity' = [Unity EXCEPT !.CurrentTestFailed = 1]
        /\ asked' = null /\ at' \in {"tearDown", "conclude"} /\ status' = status
    BY <1>7, AbortLeads DEF UnityFail, UNITY_FAIL_AND_BAIL
  <2> QED
    BY <1>0, <1>1, <2>1, <2>2
       DEF UInv, NothingAfterVerdict, OneVerdict, Flagged, Functions, Counts
<1>8. CASE UnityIgnore
  <2>1. at \in Functions /\ ~ Flagged
    BY <1>0, <1>8 DEF UnityIgnore, RETURN_IF_FAIL_OR_IGNORE
  <2>2. /\ printed' = [printed EXCEPT !.IGNORE = @ + 1]
        /\ Unity' = [Unity EXCEPT !.CurrentTestIgnored = 1]
        /\ asked' = null /\ at' \in {"tearDown", "conclude"} /\ status' = status
    BY <1>8, AbortLeads DEF UnityIgnore
  <2> QED
    BY <1>0, <1>1, <2>1, <2>2
       DEF UInv, NothingAfterVerdict, OneVerdict, Flagged, Functions, Counts
<1>9. CASE TEST_PASS
  BY <1>0, <1>1, <1>9, AbortLeads
     DEF TEST_PASS, UInv, NothingAfterVerdict, OneVerdict, Flagged, Functions
<1>10. CASE UnityConcludeTest
  <2>1. /\ at = "conclude" /\ at' = "main" /\ asked' = asked /\ status' = status
        /\ Unity' = Concluded
        /\ printed' = IF Flagged THEN printed ELSE [printed EXCEPT !.PASS = @ + 1]
    BY <1>10 DEF UnityConcludeTest
  <2>2. /\ Unity' \in Counts /\ Unity'.NumberOfTests = Unity.NumberOfTests
        /\ Unity'.CurrentTestFailed = 0 /\ Unity'.CurrentTestIgnored = 0
        /\ Unity'.TestFailures = Unity.TestFailures + Unity.CurrentTestFailed
        /\ Unity'.TestIgnores = Unity.TestIgnores + Unity.CurrentTestIgnored
    <3>1. /\ Unity.TestFailures \in Nat /\ Unity.TestIgnores \in Nat
          /\ Unity.CurrentTestFailed \in {0, 1} /\ Unity.CurrentTestIgnored \in {0, 1}
      BY <1>0 DEF Counts
    <3>2. Unity.CurrentTestIgnored = 1 => Unity.CurrentTestFailed = 0
      BY <1>0, <3>1
    <3> DEFINE failures == Unity.TestFailures + Unity.CurrentTestFailed
               ignores  == Unity.TestIgnores + Unity.CurrentTestIgnored
    <3>3. failures \in Nat /\ ignores \in Nat
      BY <3>1
    <3>4. (IF Unity.CurrentTestIgnored = 1 THEN Unity.TestFailures ELSE failures) = failures
      BY <3>1, <3>2
    <3>5. Unity' = [Unity EXCEPT !.TestIgnores = ignores, !.TestFailures = failures,
                                 !.CurrentTestFailed = 0, !.CurrentTestIgnored = 0]
      BY <2>1, <3>4 DEF Concluded
    <3> HIDE DEF failures, ignores
    <3>6. /\ Unity' \in Counts /\ Unity'.NumberOfTests = Unity.NumberOfTests
          /\ Unity'.CurrentTestFailed = 0 /\ Unity'.CurrentTestIgnored = 0
          /\ Unity'.TestFailures = failures /\ Unity'.TestIgnores = ignores
      BY <1>0, <3>3, <3>5 DEF Counts
    <3> QED BY <3>6 DEF failures, ignores
  <2>3. /\ printed' \in [PASS : Nat, FAIL : Nat, IGNORE : Nat]
        /\ printed'.FAIL = printed.FAIL /\ printed'.IGNORE = printed.IGNORE
        /\ printed'.PASS + printed'.FAIL + printed'.IGNORE = Unity.NumberOfTests
    <3>1. CASE Flagged
      BY <1>0, <1>1, <2>1, <3>1 DEF Counts
    <3>2. CASE ~ Flagged
      BY <1>0, <1>1, <2>1, <3>2 DEF Counts
    <3> QED BY <3>1, <3>2
  <2>4. ~ Flagged' /\ at' \notin Functions \cup {"conclude"}
    BY <2>1, <2>2 DEF Flagged, Functions
  <2>5. OneVerdict'
    BY <1>0, <1>1, <2>1, <2>2, <2>3, <2>4 DEF OneVerdict, Counts
  <2> QED
    BY <1>0, <2>1, <2>2, <2>3, <2>4, <2>5 DEF UInv, NothingAfterVerdict, Functions
<1>11. CASE UnityEnd
  BY <1>0, <1>1, <1>11
     DEF UnityEnd, UInv, NothingAfterVerdict, OneVerdict, Flagged, Functions, Counts
<1>12. CASE Exited \/ UNCHANGED vars
  BY <1>0, <1>1, <1>12
     DEF Exited, vars, UInv, NothingAfterVerdict, OneVerdict, Flagged, Functions
<1> QED
  BY <1>2, <1>3, <1>4, <1>5, <1>6, <1>7, <1>8, <1>9, <1>10, <1>11, <1>12 DEF Next

\* The invariant of every run of the tests.
LEMMA AlwaysUInv == Spec => []UInv
BY InitUInv, StepUInv, PTL DEF Spec

-----------------------------------------------------------------------------

\* No counter of UNITY_STORAGE_T exceeds the number of tests, no function runs
\* that the runner does not call.
THEOREM TypeCorrect == Spec => []TypeOK
<1>1. UInv => TypeOK
  <2> SUFFICES ASSUME UInv PROVE TypeOK
    OBVIOUS
  <2>1. /\ Unity \in Counts /\ Unity.NumberOfTests <= MaxTests
        /\ printed \in [PASS : Nat, FAIL : Nat, IGNORE : Nat]
        /\ printed.FAIL = Unity.TestFailures + Unity.CurrentTestFailed
        /\ printed.IGNORE = Unity.TestIgnores + Unity.CurrentTestIgnored
        /\ printed.PASS + printed.FAIL + printed.IGNORE <= Unity.NumberOfTests
    BY DEF UInv, OneVerdict, Counts
  <2>2. /\ Unity \in [NumberOfTests : 0..MaxTests, TestFailures : 0..MaxTests,
                      TestIgnores : 0..MaxTests, CurrentTestFailed : {0, 1},
                      CurrentTestIgnored : {0, 1}]
        /\ printed \in [PASS : 0..MaxTests, FAIL : 0..MaxTests, IGNORE : 0..MaxTests]
    BY <2>1, UnityAssumption DEF Counts
  <2>3. status \in {null} \cup (0..MaxTests)
    BY <2>2 DEF UInv, OneVerdict
  <2> QED BY <2>2, <2>3 DEF UInv, TypeOK
<1> QED BY <1>1, AlwaysUInv, PTL

\* Whatever a test calls, nothing of it runs after it failed or was ignored but
\* tearDown (the long jump of TEST_ABORT).
THEOREM NothingAfterCorrect == Spec => []NothingAfterVerdict
BY AlwaysUInv, PTL DEF UInv

\* Whatever setUp, a test and tearDown call, the test has one verdict, printed
\* once and counted once (UnityConcludeTest), and the exit status is the number
\* of failures.
THEOREM VerdictCorrect == Spec => []OneVerdict
BY AlwaysUInv, PTL DEF UInv

-----------------------------------------------------------------------------
(* Powers, and the values of a number of bytes.                            *)

\* Power is a recursion over the numbers.
LEMMA PowerComputes ==
  ASSUME NEW b \in Int
  PROVE  \E v \in [Nat -> Int] :
            /\ v[0] = 1
            /\ \A k \in Nat : v[k + 1] = b * v[k]
            /\ \A n \in Nat : Power(b, n) = v[n]
<1> DEFINE F == [p \in Nat \X Int |-> b * p[2]]
           P(g) == g = [k \in Nat |-> IF k = 0 THEN 1 ELSE b * g[k - 1]]
           power == CHOOSE g : P(g)
<1>1. \A n \in Nat : Power(b, n) = power[n]
  BY DEF Power
<1>2. F \in [Nat \X Int -> Int] /\ \A k \in Nat, x \in Int : F[<<k, x>>] = b * x
  OBVIOUS
<1>3. PICK v \in [Nat -> Int] : v[0] = 1 /\ \A k \in Nat : v[k + 1] = F[<<k + 1, v[k]>>]
  <2> HIDE DEF F
  <2>1. 1 \in Int /\ F \in [Nat \X Int -> Int]
    BY <1>2
  <2> QED BY <2>1, IntRecursion
<1>4. \A k \in Nat : v[k + 1] = b * v[k]
  <2> HIDE DEF F
  <2>1. \A k \in Nat : k + 1 \in Nat /\ v[k] \in Int
    BY <1>3
  <2> QED BY <1>2, <1>3, <2>1
<1> DEFINE h == [k \in Nat |-> IF k = 0 THEN 1 ELSE b * v[k - 1]]
<1>5. \A k \in Nat : v[k] = h[k]
  <2>1. ASSUME NEW k \in Nat, k # 0 PROVE v[k] = b * v[k - 1]
    <3>1. k - 1 \in Nat /\ (k - 1) + 1 = k
      BY <2>1
    <3> QED BY <1>4, <3>1
  <2> QED BY <1>3, <2>1
<1>6. v = h
  <2>1. v = [k \in Nat |-> v[k]] /\ h = [k \in Nat |-> h[k]]
    BY <1>3
  <2> HIDE DEF h
  <2> QED BY <1>5, <2>1
<1>7. P(v)
  BY <1>6
<1>8. P(power)
  <2> HIDE DEF P
  <2> QED BY <1>7
<1>9. power[0] = 1 /\ \A k \in Nat : power[k + 1] = b * power[k]
  <2>1. \A k \in Nat : power[k] = IF k = 0 THEN 1 ELSE b * power[k - 1]
    <3> DEFINE p == power
    <3>1. p = [k \in Nat |-> IF k = 0 THEN 1 ELSE b * p[k - 1]]
      BY <1>8
    <3> HIDE DEF p
    <3>2. \A k \in Nat : p[k] = IF k = 0 THEN 1 ELSE b * p[k - 1]
      BY <3>1
    <3> QED BY <3>2 DEF p
  <2> HIDE DEF power
  <2>2. ASSUME NEW k \in Nat PROVE power[k + 1] = b * power[k]
    <3>1. k + 1 \in Nat /\ k + 1 # 0 /\ (k + 1) - 1 = k
      OBVIOUS
    <3> QED BY <2>1, <3>1
  <2> QED BY <2>1, <2>2
<1> HIDE DEF power
<1> DEFINE S == {k \in Nat : power[k] = v[k]}
<1>10. \A k \in Nat : k \in S
  <2>1. 0 \in S
    BY <1>3, <1>9
  <2>2. ASSUME NEW k \in Nat, k \in S PROVE k + 1 \in S
    BY <2>2, <1>4, <1>9
  <2> HIDE DEF S
  <2> QED BY <2>1, <2>2, NatInSet
<1> QED BY <1>1, <1>3, <1>4, <1>10

\* How powers grow.
LEMMA PowerSteps ==
  ASSUME NEW b \in Nat \ {0}
  PROVE  /\ Power(b, 0) = 1
         /\ \A n \in Nat : Power(b, n) \in Nat \ {0} /\ Power(b, n + 1) = b * Power(b, n)
<1>1. PICK v \in [Nat -> Int] :
            /\ v[0] = 1
            /\ \A k \in Nat : v[k + 1] = b * v[k]
            /\ \A n \in Nat : Power(b, n) = v[n]
  <2>1. b \in Int
    OBVIOUS
  <2> QED BY <2>1, PowerComputes
<1> DEFINE S == {k \in Nat : v[k] \in Nat \ {0}}
<1>2. 0 \in S
  BY <1>1
<1>3. ASSUME NEW k \in Nat, k \in S PROVE k + 1 \in S
  <2> DEFINE x == v[k]
  <2>1. x \in Nat \ {0} /\ v[k + 1] = b * x
    BY <1>1, <1>3
  <2> HIDE DEF x
  <2>2. b * x \in Nat \ {0}
    BY <2>1
  <2> QED BY <2>1, <2>2
<1>4. \A k \in Nat : k \in S
  <2> HIDE DEF S
  <2> QED BY <1>2, <1>3, NatInSet
<1> QED BY <1>1, <1>4

\* A power of a sum is a product.
LEMMA PowerSum ==
  ASSUME NEW b \in Nat \ {0}, NEW m \in Nat, NEW n \in Nat
  PROVE  Power(b, m + n) = Power(b, m) * Power(b, n)
<1> DEFINE S == {k \in Nat : Power(b, m + k) = Power(b, m) * Power(b, k)}
<1>1. 0 \in S
  <2>1. m + 0 = m
    OBVIOUS
  <2> QED BY <2>1, PowerSteps
<1>2. ASSUME NEW k \in Nat, k \in S PROVE k + 1 \in S
  <2> DEFINE x == Power(b, m)
             y == Power(b, k)
             z == Power(b, m + k)
  <2>1. m + k \in Nat /\ m + (k + 1) = (m + k) + 1
    OBVIOUS
  <2>2. /\ x \in Nat /\ y \in Nat /\ Power(b, (m + k) + 1) = b * z /\ Power(b, k + 1) = b * y
        /\ z = x * y
    BY <1>2, <2>1, PowerSteps
  <2> HIDE DEF x, y, z
  <2>3. b * (x * y) = x * (b * y)
    BY <2>2
  <2> QED BY <2>1, <2>2, <2>3 DEF x
<1>3. \A k \in Nat : k \in S
  <2> HIDE DEF S
  <2> QED BY <1>1, <1>2, NatInSet
<1> QED BY <1>3

\* A power of ten above any number.
LEMMA TenAbove ==
  ASSUME NEW n \in Nat
  PROVE  Power(10, n) > n
<1> DEFINE S == {k \in Nat : Power(10, k) > k}
<1>0. 10 \in Nat \ {0}
  OBVIOUS
<1>1. 0 \in S
  BY <1>0, PowerSteps
<1>2. ASSUME NEW k \in Nat, k \in S PROVE k + 1 \in S
  <2>1. Power(10, k) \in Nat /\ Power(10, k + 1) = 10 * Power(10, k)
    BY <1>0, PowerSteps
  <2> QED BY <2>1, <1>2
<1>3. \A k \in Nat : k \in S
  <2> HIDE DEF S
  <2> QED BY <1>1, <1>2, NatInSet
<1> QED BY <1>3

\* So many bytes have an even number of values, and fewer bytes a part of it.
LEMMA ValuesSplit ==
  ASSUME NEW n \in Nat \ {0}
  PROVE  /\ Values(n) \in Nat \ {0}
         /\ \E h \in Nat \ {0} : Values(n) = 2 * h
         /\ \A m \in 1 .. n : \E k \in Nat \ {0} : Values(n) = k * Values(m)
<1>1. Nibble \in Nat \ {0} /\ Nibble % 2 = 0
  BY AssertsAssumption
<1>2. Values(n) \in Nat \ {0}
  <2>1. 2 * n \in Nat
    OBVIOUS
  <2> QED BY <1>1, <2>1, PowerSteps DEF Values
<1>3. \E h \in Nat \ {0} : Values(n) = 2 * h
  <2>1. PICK a \in Nat : Nibble = 2 * a /\ a # 0
    BY <1>1
  <2> DEFINE y == Power(Nibble, 2 * n - 1)
  <2>2. 2 * n - 1 \in Nat /\ (2 * n - 1) + 1 = 2 * n
    OBVIOUS
  <2>3. y \in Nat \ {0} /\ Values(n) = Nibble * y
    BY <1>1, <2>2, PowerSteps DEF Values
  <2> HIDE DEF y
  <2>4. (2 * a) * y = 2 * (a * y) /\ a * y \in Nat \ {0}
    BY <2>1, <2>3
  <2> QED BY <2>1, <2>3, <2>4
<1>4. ASSUME NEW m \in 1 .. n PROVE \E k \in Nat \ {0} : Values(n) = k * Values(m)
  <2>1. 2 * (n - m) \in Nat /\ 2 * m \in Nat /\ 2 * (n - m) + 2 * m = 2 * n
    OBVIOUS
  <2>2. Power(Nibble, 2 * (n - m)) \in Nat \ {0}
    BY <1>1, <2>1, PowerSteps
  <2>3. Values(n) = Power(Nibble, 2 * (n - m)) * Values(m)
    BY <1>1, <2>1, PowerSum DEF Values
  <2> QED BY <2>2, <2>3
<1> QED BY <1>2, <1>3, <1>4

-----------------------------------------------------------------------------
(* Conversions.                                                            *)

\* What a conversion to so many bytes yields.
LEMMA Converted ==
  ASSUME NEW x \in Int, NEW n \in Nat \ {0}
  PROVE  /\ Values(n) \in Nat \ {0}
         /\ Unsigned(x, n) \in 0 .. Values(n) - 1
         /\ Signed(x, n) \in Int /\ 2 * Signed(x, n) < Values(n) /\ - Values(n) <= 2 * Signed(x, n)
         /\ 2 * Unsigned(x, n) < Values(n) => Signed(x, n) = Unsigned(x, n)
         /\ 2 * Unsigned(x, n) >= Values(n) => Signed(x, n) = Unsigned(x, n) - Values(n)
<1> DEFINE M == Values(n)
           u == Unsigned(x, n)
<1>1. M \in Nat \ {0}
  BY ValuesSplit
<1>2. u \in 0 .. M - 1
  <2> HIDE DEF M
  <2>1. x % M \in 0 .. M - 1
    BY <1>1, Division
  <2> QED BY <2>1 DEF Unsigned, M
<1>3. Signed(x, n) = IF 2 * u < M THEN u ELSE u - M
  BY DEF Signed
<1> HIDE DEF M, u
<1>4. Signed(x, n) \in Int /\ 2 * Signed(x, n) < M /\ - M <= 2 * Signed(x, n)
  BY <1>1, <1>2, <1>3
<1>5. /\ 2 * u < M => Signed(x, n) = u
      /\ 2 * u >= M => Signed(x, n) = u - M
  BY <1>1, <1>2, <1>3
<1> QED BY <1>1, <1>2, <1>4, <1>5 DEF M, u

\* A number that fits stays what it is.
LEMMA UnsignedFits ==
  ASSUME NEW n \in Nat \ {0}, NEW x \in 0 .. Values(n) - 1
  PROVE  Unsigned(x, n) = x
<1>1. Values(n) \in Nat \ {0}
  BY ValuesSplit
<1> DEFINE M == Values(n)
<1> HIDE DEF M
<1>2. M \in Nat \ {0} /\ x \in 0 .. M - 1
  BY <1>1 DEF M
<1>3. x % M = x
  BY <1>2, RemainderSmall
<1> QED BY <1>3 DEF Unsigned, M

\* So does one that fits with its sign.
LEMMA SignedFits ==
  ASSUME NEW n \in Nat \ {0}, NEW x \in Int, 2 * x < Values(n), - Values(n) <= 2 * x
  PROVE  Signed(x, n) = x
<1> DEFINE M == Values(n)
<1>1. M \in Nat \ {0} /\ 2 * x < M /\ - M <= 2 * x
  BY ValuesSplit
<1>2. Unsigned(x, n) = x % M
  BY DEF Unsigned
<1> HIDE DEF M
<1>3. CASE x >= 0
  <2>1. x % M = x
    BY <1>1, <1>3, RemainderSmall
  <2>2. 2 * Unsigned(x, n) < M
    BY <1>1, <1>2, <2>1
  <2> QED BY <1>2, <2>1, <2>2, Converted DEF M
<1>4. CASE x < 0
  <2>1. x + M \in 0 .. M - 1 /\ (x + M) + (-1) * M = x /\ -1 \in Int
    BY <1>1, <1>4
  <2>2. x % M = x + M
    <3> DEFINE y == x + M
               j == -1
    <3>1. y % M = y
      BY <1>1, <2>1, RemainderSmall
    <3>2. y \in Int /\ j \in Int /\ x = y + j * M
      BY <1>1, <2>1
    <3> HIDE DEF y, j
    <3>3. (y + j * M) % M = y % M
      BY <1>1, <3>2, MultipleAdded
    <3> QED BY <3>1, <3>2, <3>3 DEF y
  <2>3. 2 * Unsigned(x, n) >= M
    BY <1>1, <1>2, <2>2
  <2>4. Signed(x, n) = (x + M) - M
    BY <1>2, <2>2, <2>3, Converted DEF M
  <2> QED BY <1>1, <2>4
<1> QED BY <1>1, <1>3, <1>4

\* The low bytes of a number do not depend on a conversion to more bytes.
LEMMA LowBytes ==
  ASSUME NEW x \in Int, NEW n \in Nat \ {0}, NEW m \in 1 .. n
  PROVE  /\ Unsigned(Unsigned(x, n), m) = Unsigned(x, m)
         /\ Unsigned(Signed(x, n), m) = Unsigned(x, m)
<1> DEFINE M == Values(m)
           N == Values(n)
<1>1. m \in Nat \ {0} /\ M \in Nat \ {0} /\ N \in Nat \ {0}
  BY ValuesSplit
<1>2. PICK k \in Nat \ {0} : N = k * M
  BY ValuesSplit
<1>3. Unsigned(x, n) = x % N /\ Unsigned(x, m) = x % M /\ \A y \in Int : Unsigned(y, m) = y % M
  BY DEF Unsigned
<1>4. Signed(x, n) = x % N \/ Signed(x, n) = (x % N) - N
  BY DEF Signed, Unsigned
<1> HIDE DEF M, N
<1>5. (x % N) % M = x % M /\ x % N \in Int
  <2>1. (x % (k * M)) % M = x % M
    BY <1>1, <1>2, RemainderTwice
  <2>2. x % N \in Int
    BY <1>1, Division
  <2> QED BY <1>2, <2>1, <2>2
<1>6. ((x % N) - N) % M = x % M
  <2>1. (x % N) - N = (x % N) + (- k) * M /\ - k \in Int
    BY <1>1, <1>2, <1>5
  <2>2. ((x % N) + (- k) * M) % M = (x % N) % M
    <3> DEFINE y == x % N
               j == - k
    <3>1. y \in Int /\ j \in Int
      BY <1>5, <2>1
    <3> HIDE DEF y, j
    <3>2. (y + j * M) % M = y % M
      BY <1>1, <3>1, MultipleAdded
    <3> QED BY <3>2 DEF y, j
  <2> QED BY <1>5, <2>1, <2>2
<1>7. (x % N) - N \in Int
  BY <1>1, <1>5
<1> QED BY <1>3, <1>4, <1>5, <1>6, <1>7

\* Two numbers agree as signed ones when they do as unsigned ones.
LEMMA SameSigned ==
  ASSUME NEW x \in Int, NEW y \in Int, NEW n \in Nat \ {0}
  PROVE  Signed(x, n) = Signed(y, n) <=> Unsigned(x, n) = Unsigned(y, n)
<1>1. n \in 1 .. n
  OBVIOUS
<1>2. Unsigned(Signed(x, n), n) = Unsigned(x, n) /\ Unsigned(Signed(y, n), n) = Unsigned(y, n)
  BY <1>1, LowBytes
<1>3. Unsigned(x, n) = Unsigned(y, n) => Signed(x, n) = Signed(y, n)
  BY DEF Signed
<1> QED BY <1>2, <1>3

-----------------------------------------------------------------------------
(* Operands.                                                               *)

\* What C says of the sizes.
LEMMA StyleSizes ==
  ASSUME NEW style \in Styles
  PROVE  /\ WordBytes \in Nat \ {0} /\ style.size \in 1 .. WordBytes /\ style.size \in Nat \ {0}
         /\ style.range \in {"INT", "UINT", "HEX", "CHAR"} /\ style.plain \in BOOLEAN
         /\ [style EXCEPT !.plain = FALSE].range = style.range
         /\ [style EXCEPT !.plain = FALSE].size = style.size
         /\ [style EXCEPT !.plain = FALSE].plain = FALSE
         /\ style.plain => style.range \in {"INT", "UINT"} /\ style.size = IntBytes
         /\ style.range = "CHAR" => style.size = 1
BY AssertsAssumption DEF Styles

\* What a UNITY_INT holds.
Word(x) == x \in Int /\ 2 * x < Values(WordBytes) /\ - Values(WordBytes) <= 2 * x

\* No size has more values than a word.
LEMMA FewerBytes ==
  ASSUME NEW n \in 1 .. WordBytes
  PROVE  /\ n \in Nat \ {0} /\ WordBytes \in Nat \ {0}
         /\ Values(n) \in Nat \ {0} /\ Values(WordBytes) \in Nat \ {0} /\ Values(n) <= Values(WordBytes)
<1>1. WordBytes \in Nat \ {0} /\ n \in Nat \ {0}
  BY AssertsAssumption
<1>2. PICK k \in Nat \ {0} : Values(WordBytes) = k * Values(n)
  BY <1>1, ValuesSplit
<1> DEFINE M == Values(n)
<1>3. M \in Nat \ {0} /\ Values(WordBytes) \in Nat \ {0}
  BY <1>1, ValuesSplit
<1> HIDE DEF M
<1>4. k * M >= M
  BY <1>3
<1> QED BY <1>1, <1>2, <1>3, <1>4 DEF M

\* A number converted to any size is a word,
LEMMA SignedIsWord ==
  ASSUME NEW x \in Int, NEW n \in 1 .. WordBytes
  PROVE  Word(Signed(x, n))
<1> DEFINE M == Values(n)
           N == Values(WordBytes)
           y == Signed(x, n)
<1>1. n \in Nat \ {0} /\ M \in Nat /\ N \in Nat /\ M <= N
  BY FewerBytes
<1>2. y \in Int /\ 2 * y < M /\ - M <= 2 * y
  BY <1>1, Converted
<1>3. Word(y) <=> y \in Int /\ 2 * y < N /\ - N <= 2 * y
  BY DEF Word
<1> HIDE DEF M, N, y
<1> QED BY <1>1, <1>2, <1>3 DEF y

\* and without its sign one that fits in a word.
LEMMA UnsignedInWord ==
  ASSUME NEW x \in Int, NEW n \in 1 .. WordBytes
  PROVE  Unsigned(x, n) \in 0 .. Values(WordBytes) - 1
<1> DEFINE M == Values(n)
           N == Values(WordBytes)
           y == Unsigned(x, n)
<1>1. n \in Nat \ {0} /\ M \in Nat /\ N \in Nat /\ M <= N
  BY FewerBytes
<1>2. y \in 0 .. M - 1
  BY <1>1, Converted
<1> HIDE DEF M, N, y
<1> QED BY <1>1, <1>2 DEF N, y

\* An ordered comparison sees the values of its operands.
LEMMA OperandOrder ==
  ASSUME NEW style \in Styles, NEW x \in Int, NEW macro, macro # "EQUAL"
  PROVE  /\ Word(Operand(x, style, macro))
         /\ Ordered(Operand(x, style, macro), style) = Value(x, style)
         /\ Value(x, style) \in Int
<1> DEFINE w == WordBytes
           s == style.size
           u == Unsigned(x, s)
           o == Operand(x, style, macro)
<1>1. w \in Nat \ {0} /\ s \in 1 .. w /\ s \in Nat \ {0} /\ w \in 1 .. w
  BY StyleSizes, AssertsAssumption
<1>2. u \in 0 .. Values(w) - 1 /\ u \in Int
  <2>1. u \in 0 .. Values(w) - 1
    BY <1>1, UnsignedInWord
  <2>2. Values(w) \in Nat
    BY <1>1, ValuesSplit
  <2> HIDE DEF u
  <2> QED BY <2>1, <2>2
<1>3. Unsigned(u, w) = u /\ Unsigned(Signed(u, w), w) = u /\ Unsigned(Signed(x, w), w) = Unsigned(x, w)
  <2> HIDE DEF u
  <2> QED BY <1>1, <1>2, UnsignedFits, LowBytes
<1>4. Word(Signed(x, w)) /\ Word(Signed(x, s)) /\ Word(Signed(u, w))
  <2> HIDE DEF u
  <2> QED BY <1>1, <1>2, SignedIsWord
<1>5. Signed(x, w) \in Int /\ Signed(x, s) \in Int /\ Unsigned(x, w) \in Int
  <2>1. Signed(x, w) \in Int /\ Signed(x, s) \in Int
    BY <1>1, Converted
  <2>2. Unsigned(x, w) \in 0 .. Values(w) - 1 /\ Values(w) \in Nat
    BY <1>1, Converted
  <2> QED BY <2>1, <2>2
<1>6. CASE style.plain
  <2>1. o = Signed(x, w)
    BY <1>6 DEF Operand
  <2>2. /\ RangeInt(style) => Value(x, style) = Signed(x, w)
        /\ ~ RangeInt(style) => Value(x, style) = Unsigned(x, w)
    BY <1>6 DEF Value
  <2> HIDE DEF o, u, s, w
  <2> QED BY <1>3, <1>4, <1>5, <2>1, <2>2 DEF Ordered, o, w
<1>7. CASE ~ style.plain /\ RangeInt(style)
  <2>1. o = Signed(x, s) /\ Value(x, style) = Signed(x, s)
    BY <1>7 DEF Operand, Value
  <2> HIDE DEF o, u, s, w
  <2> QED BY <1>4, <1>5, <1>7, <2>1 DEF Ordered, o
<1>8. CASE ~ style.plain /\ ~ RangeInt(style)
  <2>1. o = Signed(u, w) /\ Value(x, style) = u
    BY <1>8 DEF Operand, Value
  <2> HIDE DEF o, u, s, w
  <2> QED BY <1>2, <1>3, <1>4, <1>8, <2>1 DEF Ordered, o, w
<1>9. style.plain \in BOOLEAN
  BY StyleSizes
<1> QED BY <1>6, <1>7, <1>8, <1>9

\* So does an equality, though it converts HEX operands as signed ones.
LEMMA OperandEqual ==
  ASSUME NEW style \in Styles, NEW x \in Int, NEW y \in Int
  PROVE  Operand(x, style, "EQUAL") = Operand(y, style, "EQUAL") <=> Value(x, style) = Value(y, style)
<1> DEFINE w == WordBytes
           s == style.size
           Eq(n) == Unsigned(x, n) = Unsigned(y, n)
<1>1. w \in Nat \ {0} /\ s \in 1 .. w /\ s \in Nat \ {0} /\ w \in 1 .. w
  BY StyleSizes, AssertsAssumption
<1>2. /\ Signed(x, w) = Signed(y, w) <=> Unsigned(x, w) = Unsigned(y, w)
      /\ Signed(x, s) = Signed(y, s) <=> Unsigned(x, s) = Unsigned(y, s)
  BY <1>1, SameSigned
<1>3. CASE style.plain
  <2>1. \A z \in {x, y} : Operand(z, style, "EQUAL") = Signed(z, w)
    BY <1>3 DEF Operand
  <2>2. /\ RangeInt(style) => \A z \in {x, y} : Value(z, style) = Signed(z, w)
        /\ ~ RangeInt(style) => \A z \in {x, y} : Value(z, style) = Unsigned(z, w)
    BY <1>3 DEF Value
  <2> QED BY <1>2, <2>1, <2>2
<1>4. CASE ~ style.plain /\ RangeInt(style)
  <2>1. \A z \in {x, y} : Operand(z, style, "EQUAL") = Signed(z, s) /\ Value(z, style) = Signed(z, s)
    BY <1>4 DEF Operand, Value
  <2> QED BY <2>1
<1>5. CASE ~ style.plain /\ ~ RangeInt(style) /\ style.range = "HEX"
  <2>1. \A z \in {x, y} : Operand(z, style, "EQUAL") = Signed(z, s) /\ Value(z, style) = Unsigned(z, s)
    BY <1>5 DEF Operand, Value
  <2> QED BY <1>2, <2>1
<1>6. CASE ~ style.plain /\ ~ RangeInt(style) /\ style.range # "HEX"
  <2> DEFINE U(z) == Unsigned(z, s)
  <2>1. \A z \in {x, y} : Operand(z, style, "EQUAL") = Signed(U(z), w) /\ Value(z, style) = U(z)
    BY <1>6 DEF Operand, Value
  <2>2. U(x) \in 0 .. Values(w) - 1 /\ U(y) \in 0 .. Values(w) - 1
    BY <1>1, UnsignedInWord
  <2>3. U(x) \in Int /\ U(y) \in Int /\ Unsigned(U(x), w) = U(x) /\ Unsigned(U(y), w) = U(y)
    <3> HIDE DEF U
    <3> QED BY <1>1, <2>2, UnsignedFits
  <2>4. Signed(U(x), w) = Signed(U(y), w) <=> Unsigned(U(x), w) = Unsigned(U(y), w)
    <3> HIDE DEF U
    <3> QED BY <1>1, <2>3, SameSigned
  <2> HIDE DEF U
  <2> QED BY <2>1, <2>3, <2>4
<1>7. style.plain \in BOOLEAN
  BY StyleSizes
<1> QED BY <1>3, <1>4, <1>5, <1>6, <1>7

\* Words are compared as their values are, and their differences are distances.
LEMMA WordsOrdered ==
  ASSUME NEW style \in Styles, NEW x, NEW y, Word(x), Word(y)
  PROVE  /\ Ordered(x, style) \in Int /\ Ordered(y, style) \in Int
         /\ Ordered(x, style) = Ordered(y, style) <=> x = y
         /\ Ordered(x, style) >= Ordered(y, style) =>
              Unsigned(x - y, WordBytes) = Ordered(x, style) - Ordered(y, style)
<1> DEFINE w == WordBytes
           M == Values(w)
           a == Ordered(x, style)
           b == Ordered(y, style)
<1>1. w \in Nat \ {0} /\ w \in 1 .. w /\ M \in Nat \ {0} /\ x \in Int /\ y \in Int
  BY AssertsAssumption, ValuesSplit DEF Word
<1>2. 2 * x < M /\ - M <= 2 * x /\ 2 * y < M /\ - M <= 2 * y
  BY DEF Word
<1>3. CASE RangeInt(style)
  <2>1. a = x /\ b = y
    BY <1>3 DEF Ordered
  <2>2. ASSUME a >= b PROVE Unsigned(x - y, w) = a - b
    <3>1. x - y \in 0 .. M - 1
      <4> HIDE DEF M, a, b
      <4> QED BY <1>1, <1>2, <2>1, <2>2
    <3>2. Unsigned(x - y, w) = x - y
      BY <1>1, <3>1, UnsignedFits
    <3> QED BY <2>1, <3>2
  <2> HIDE DEF a, b, M
  <2> QED BY <1>1, <2>1, <2>2 DEF a, b
<1>4. CASE ~ RangeInt(style)
  <2> DEFINE u == Unsigned(x, w)
             v == Unsigned(y, w)
  <2>1. a = u /\ b = v
    BY <1>4 DEF Ordered
  <2>2. u \in 0 .. M - 1 /\ v \in 0 .. M - 1 /\ (x = u \/ x = u - M) /\ (y = v \/ y = v - M)
    <3>1. Signed(x, w) = x /\ Signed(y, w) = y
      BY <1>1, <1>2, SignedFits
    <3>2. /\ u \in 0 .. M - 1
          /\ 2 * u < M => Signed(x, w) = u
          /\ 2 * u >= M => Signed(x, w) = u - M
      BY <1>1, Converted
    <3>3. /\ v \in 0 .. M - 1
          /\ 2 * v < M => Signed(y, w) = v
          /\ 2 * v >= M => Signed(y, w) = v - M
      BY <1>1, Converted
    <3> HIDE DEF u, v, M
    <3> QED BY <1>1, <3>1, <3>2, <3>3
  <2>3. u = v <=> x = y
    <3>1. Signed(x, w) = x /\ Signed(y, w) = y
      BY <1>1, <1>2, SignedFits
    <3> QED BY <1>1, <3>1, SameSigned
  <2>4. ASSUME a >= b PROVE Unsigned(x - y, w) = a - b
    <3>1. u - v \in 0 .. M - 1
      <4> HIDE DEF M, a, b, u, v
      <4> QED BY <1>1, <2>1, <2>2, <2>4
    <3>2. \E k \in Int : x - y = (u - v) + k * M
      <4>1. x - y = (u - v) + 0 * M \/ x - y = (u - v) + 1 * M \/ x - y = (u - v) + (-1) * M
        <5> HIDE DEF M, a, b, u, v
        <5> QED BY <1>1, <2>2
      <4>2. 0 \in Int /\ 1 \in Int /\ -1 \in Int
        OBVIOUS
      <4> HIDE DEF M, u, v
      <4> QED BY <4>1, <4>2
    <3>3. (x - y) % M = u - v
      <4> DEFINE d == u - v
      <4> HIDE DEF M, a, b, u, v
      <4>1. d \in Int /\ d \in 0 .. M - 1
        BY <1>1, <3>1
      <4>2. PICK k \in Int : x - y = d + k * M
        BY <3>2
      <4> HIDE DEF d
      <4>3. (d + k * M) % M = d % M /\ d % M = d
        BY <1>1, <4>1, MultipleAdded, RemainderSmall
      <4> QED BY <4>2, <4>3 DEF d
    <3> QED BY <2>1, <3>3 DEF Unsigned
  <2> HIDE DEF a, b, M, u, v
  <2> QED BY <1>1, <2>1, <2>2, <2>3, <2>4 DEF a, b
<1> QED BY <1>3, <1>4

-----------------------------------------------------------------------------
(* Verdicts: an assertion fails exactly when what it says is false.        *)

\* A delta is a number, in the macro on arrays of UINT8 too.
LEMMA DeltaIsInt ==
  ASSUME NEW style \in Styles, NEW x \in Int, NEW macro
  PROVE  Delta(x, style, macro) \in Int
<1> DEFINE n == IF style.plain THEN WordBytes
                ELSE IF macro = "ARRAY_WITHIN" /\ style.range = "UINT" /\ style.size = 1
                THEN 2 ELSE style.size
<1>1. n \in Nat \ {0}
  BY StyleSizes
<1>2. Delta(x, style, macro) = Unsigned(x, n)
  BY DEF Delta
<1> HIDE DEF n
<1>3. Unsigned(x, n) \in 0 .. Values(n) - 1 /\ Values(n) \in Nat
  BY <1>1, Converted
<1> QED BY <1>2, <1>3

\* Two words are within delta when their values are.
LEMMA WithinRight ==
  ASSUME NEW style \in Styles, NEW delta \in Int, NEW x, NEW y, Word(x), Word(y)
  PROVE  UnityAssertNumbersWithin(delta, x, y, style)
            <=> ~ (Distance(Ordered(x, style), Ordered(y, style)) =< delta)
<1> DEFINE a == Ordered(x, style)
           b == Ordered(y, style)
<1>1. a \in Int /\ b \in Int
  BY WordsOrdered
<1>2. b >= a => Unsigned(y - x, WordBytes) = b - a
  BY WordsOrdered
<1>3. a >= b => Unsigned(x - y, WordBytes) = a - b
  BY WordsOrdered
<1>4. UnityAssertNumbersWithin(delta, x, y, style) <=>
         IF b > a THEN Unsigned(y - x, WordBytes) > delta ELSE Unsigned(x - y, WordBytes) > delta
  BY DEF UnityAssertNumbersWithin
<1> HIDE DEF a, b
<1>5. CASE b > a
  <2>1. Distance(a, b) = b - a
    BY <1>1, <1>5 DEF Distance
  <2> QED BY <1>1, <1>2, <1>4, <1>5, <2>1 DEF a, b
<1>6. CASE ~ (b > a)
  <2>1. Distance(a, b) = a - b
    BY <1>1, <1>6 DEF Distance
  <2> QED BY <1>1, <1>3, <1>4, <1>6, <2>1 DEF a, b
<1> QED BY <1>5, <1>6

\* Assertions on numbers.
LEMMA NumberVerdict ==
  ASSUME NEW c, Legal(c), ~ DeltaCut(c),
         c.fn \in {"EqualNumber", "GreaterOrLess", "NumbersWithin"}
  PROVE  Fails(c) <=> ~ Says(c)
<1> DEFINE a == Value(c.expected, c.style)
           b == Value(c.actual, c.style)
<1>1. c.expected \in Int /\ c.actual \in Int /\ c.style \in Styles
  BY DEF Legal
<1>2. CASE c.fn = "EqualNumber"
  <2>1. Fails(c) <=> Operand(c.expected, c.style, "EQUAL") # Operand(c.actual, c.style, "EQUAL")
    BY <1>2 DEF Fails, UnityAssertEqualNumber
  <2>2. Says(c) <=> a = b
    BY <1>2 DEF Says
  <2> HIDE DEF a, b
  <2> QED BY <1>1, <2>1, <2>2, OperandEqual DEF a, b
<1>3. CASE c.fn = "GreaterOrLess"
  <2> DEFINE x == Operand(c.expected, c.style, "COMPARE")
             y == Operand(c.actual, c.style, "COMPARE")
  <2>1. Fails(c) <=> UnityAssertGreaterOrLessOrEqualNumber(x, y, c.compare, c.style)
    BY <1>3 DEF Fails
  <2>2. Says(c) <=> Relation(a, b, c.compare)
    BY <1>3 DEF Says
  <2>3. c.compare \in {{}, {"GREATER_THAN"}, {"SMALLER_THAN"}, {"EQUAL_TO", "GREATER_THAN"},
                       {"EQUAL_TO", "SMALLER_THAN"}}
    BY <1>3 DEF Legal
  <2>4. Word(x) /\ Word(y) /\ Ordered(x, c.style) = a /\ Ordered(y, c.style) = b
        /\ a \in Int /\ b \in Int
    BY <1>1, OperandOrder
  <2> HIDE DEF a, b, x, y
  <2>5. x = y <=> a = b
    BY <1>1, <2>4, WordsOrdered
  <2>6. UnityAssertGreaterOrLessOrEqualNumber(x, y, c.compare, c.style) <=>
           \/ a = b /\ "EQUAL_TO" \notin c.compare
           \/ b > a /\ "SMALLER_THAN" \in c.compare
           \/ b < a /\ "GREATER_THAN" \in c.compare
    BY <2>4, <2>5 DEF UnityAssertGreaterOrLessOrEqualNumber
  <2>7. CASE c.compare = {}
    <3>1. Relation(a, b, c.compare) <=> b # a
      BY <2>7 DEF Relation
    <3>2. UnityAssertGreaterOrLessOrEqualNumber(x, y, c.compare, c.style) <=> a = b
      BY <2>6, <2>7
    <3> QED BY <2>1, <2>2, <3>1, <3>2
  <2>8. CASE c.compare = {"GREATER_THAN"}
    <3>1. Relation(a, b, c.compare) <=> b > a
      BY <2>8 DEF Relation
    <3>2. UnityAssertGreaterOrLessOrEqualNumber(x, y, c.compare, c.style) <=> a = b \/ b < a
      BY <2>6, <2>8
    <3> QED BY <2>1, <2>2, <2>4, <3>1, <3>2
  <2>9. CASE c.compare = {"SMALLER_THAN"}
    <3>1. Relation(a, b, c.compare) <=> b < a
      BY <2>9 DEF Relation
    <3>2. UnityAssertGreaterOrLessOrEqualNumber(x, y, c.compare, c.style) <=> a = b \/ b > a
      BY <2>6, <2>9
    <3> QED BY <2>1, <2>2, <2>4, <3>1, <3>2
  <2>10. CASE c.compare = {"EQUAL_TO", "GREATER_THAN"}
    <3>1. Relation(a, b, c.compare) <=> b >= a
      BY <2>10 DEF Relation
    <3>2. UnityAssertGreaterOrLessOrEqualNumber(x, y, c.compare, c.style) <=> b < a
      BY <2>6, <2>10
    <3> QED BY <2>1, <2>2, <2>4, <3>1, <3>2
  <2>11. CASE c.compare = {"EQUAL_TO", "SMALLER_THAN"}
    <3>1. Relation(a, b, c.compare) <=> b =< a
      BY <2>11 DEF Relation
    <3>2. UnityAssertGreaterOrLessOrEqualNumber(x, y, c.compare, c.style) <=> b > a
      BY <2>6, <2>11
    <3> QED BY <2>1, <2>2, <2>4, <3>1, <3>2
  <2> QED BY <2>3, <2>7, <2>8, <2>9, <2>10, <2>11
<1>4. CASE c.fn = "NumbersWithin"
  <2> DEFINE x == Operand(c.expected, c.style, "WITHIN")
             y == Operand(c.actual, c.style, "WITHIN")
             d == Delta(c.delta, c.style, "WITHIN")
  <2>1. Fails(c) <=> UnityAssertNumbersWithin(d, x, y, c.style)
    BY <1>4 DEF Fails
  <2>2. Says(c) <=> Distance(a, b) =< d
    <3>1. d = c.delta
      BY <1>4 DEF DeltaCut
    <3>2. Says(c) <=> Distance(a, b) =< c.delta
      BY <1>4 DEF Says
    <3> HIDE DEF a, b, d
    <3> QED BY <3>1, <3>2
  <2>3. Word(x) /\ Word(y) /\ Ordered(x, c.style) = a /\ Ordered(y, c.style) = b
    BY <1>1, OperandOrder
  <2>4. c.delta \in Int
    BY <1>4 DEF Legal
  <2>5. d \in Int
    BY <1>1, <2>4, DeltaIsInt
  <2> HIDE DEF a, b, x, y, d
  <2> QED BY <1>1, <2>1, <2>2, <2>3, <2>5, WithinRight
<1> QED BY <1>2, <1>3, <1>4

-----------------------------------------------------------------------------
(* Arrays.                                                                 *)

\* The elements of an array are what its cells hold.
LEMMA ElementRight ==
  ASSUME NEW style \in Styles, NEW p, NEW n \in Nat, NEW i \in 1 .. n,
         IsArray(p, n, 0 .. (Values(style.size) - 1)), p # null
  PROVE  /\ p.cells[i] \in 0 .. Values(style.size) - 1 /\ p.cells[i] \in Int
         /\ Unsigned(p.cells[i], style.size) = p.cells[i]
         /\ Element(p, i, style) = Signed(p.cells[i], style.size)
         /\ Word(Element(p, i, style))
<1> DEFINE s == style.size
           M == Values(s)
           x == p.cells[i]
<1>1. s \in 1 .. WordBytes /\ s \in Nat \ {0} /\ M \in Nat \ {0}
  BY StyleSizes, ValuesSplit
<1>2. x \in 0 .. M - 1
  <2>1. p.cells \in Seq(0 .. M - 1) /\ Len(p.cells) >= n
    BY DEF IsArray
  <2> DEFINE cells == p.cells
             Cell == 0 .. M - 1
  <2> HIDE DEF M, s, cells, Cell
  <2>2. cells \in Seq(Cell) /\ Len(cells) \in Nat /\ Len(cells) >= n
    BY <2>1, LenProperties DEF cells, Cell
  <2>3. i \in 1 .. Len(cells)
    BY <2>2
  <2>4. cells[i] \in Cell
    BY <2>2, <2>3, ElementOfSeq
  <2> QED BY <2>4 DEF cells, Cell
<1>3. Unsigned(x, s) = x /\ x \in Int
  <2>1. x \in Int
    <3> HIDE DEF x, M
    <3> QED BY <1>1, <1>2
  <2> QED BY <1>1, <1>2, <2>1, UnsignedFits
<1>4. Element(p, i, style) = Signed(x, s)
  BY DEF Element
<1>5. Word(Signed(x, s))
  BY <1>1, <1>3, SignedIsWord
<1> QED BY <1>2, <1>3, <1>4, <1>5

\* What an element stands for depends on its style and on its own size only.
LEMMA ElementValueIs ==
  ASSUME NEW style \in Styles, NEW x
  PROVE  ElementValue(x, style)
            = IF RangeInt(style) THEN Signed(x, style.size) ELSE Unsigned(x, style.size)
BY StyleSizes DEF ElementValue, Value, RangeInt

\* The value of an element is an integer.
LEMMA ElementValueInt ==
  ASSUME NEW style \in Styles, NEW x \in Int
  PROVE  ElementValue(x, style) \in Int
<1>1. style.size \in Nat \ {0}
  BY StyleSizes
<1> DEFINE f == Signed(x, style.size)
           u == Unsigned(x, style.size)
           M == Values(style.size)
<1>2. f \in Int /\ M \in Nat /\ u \in 0 .. M - 1
  BY <1>1, Converted
<1>3. ElementValue(x, style) \in {f, u}
  BY ElementValueIs
<1> HIDE DEF f, u, M
<1> QED BY <1>2, <1>3

\* Two elements are equal when the bits of their cells are.
LEMMA SameElements ==
  ASSUME NEW c, Legal(c), c.fn = "EqualIntArray", c.expected # null, c.actual # null,
         NEW i \in 1 .. c.n
  PROVE  Element(c.expected, i, c.style) = Element(c.actual, i, c.style)
            <=> c.expected.cells[i] = c.actual.cells[i]
<1> DEFINE x == c.expected.cells[i]
           y == c.actual.cells[i]
           s == c.style.size
<1>1. /\ c.style \in Styles /\ c.n \in Nat
      /\ IsArray(c.actual, c.n, 0 .. (Values(c.style.size) - 1))
      /\ IsArray(c.expected, c.n, 0 .. (Values(c.style.size) - 1))
  BY DEF Legal
<1>2. /\ x \in Int /\ Unsigned(x, s) = x /\ Element(c.expected, i, c.style) = Signed(x, s)
      /\ y \in Int /\ Unsigned(y, s) = y /\ Element(c.actual, i, c.style) = Signed(y, s)
  BY <1>1, ElementRight
<1>3. s \in Nat \ {0}
  BY <1>1, StyleSizes
<1>4. Signed(x, s) = Signed(y, s) <=> Unsigned(x, s) = Unsigned(y, s)
  <2> HIDE DEF x, y, s
  <2> QED BY <1>2, <1>3, SameSigned
<1> QED BY <1>2, <1>4

\* TEST_ASSERT_EQUAL_..._ARRAY.
LEMMA IntArrayVerdict ==
  ASSUME NEW c, Legal(c), c.fn = "EqualIntArray"
  PROVE  Fails(c) <=> ~ Says(c)
<1> DEFINE e == c.expected
           a == c.actual
           n == c.n
           D == {i \in 1 .. n : Element(e, i, c.style) # Element(a, i, c.style)}
           E == {i \in 1 .. n : e.cells[i] # a.cells[i]}
<1>1. /\ c.style \in Styles /\ n \in Nat
      /\ IsArray(a, n, 0 .. (Values(c.style.size) - 1))
      /\ IsArray(e, n, 0 .. (Values(c.style.size) - 1))
  BY DEF Legal
<1>2. Fails(c) <=> IF SamePointer(e, a) \/ UnityIsOneArrayNull(e, a)
                   THEN n = 0 \/ UnityIsOneArrayNull(e, a)
                   ELSE n = 0 \/ D # {}
  BY DEF Fails, UnityAssertEqualIntArray, ArrayFails, ExpectedAt
<1>3. Says(c) <=> /\ n > 0
                  /\ IF e = null \/ a = null THEN SamePointer(e, a) ELSE SamePointer(e, a) \/ E = {}
  BY DEF Says, OfArray
<1>4. ASSUME e # null, a # null PROVE D = E
  BY <1>4, SameElements
<1> HIDE DEF D, E, e, a, n
<1> QED BY <1>1, <1>2, <1>3, <1>4 DEF SamePointer, UnityIsOneArrayNull

\* TEST_ASSERT_EACH_EQUAL_...: the expected number is converted once.
LEMMA EachEqualVerdict ==
  ASSUME NEW c, Legal(c), c.fn = "EachEqual"
  PROVE  Fails(c) <=> ~ Says(c)
<1> DEFINE x == c.expected
           e == UnityNumToPtr(x, c.style.size)
           a == c.actual
           n == c.n
           s == c.style.size
           D == {i \in 1 .. n : Element(e, 1, c.style) # Element(a, i, c.style)}
           E == {i \in 1 .. n : ElementValue(a.cells[i], c.style) # ElementValue(x, c.style)}
<1>1. /\ c.style \in Styles /\ n \in Nat /\ x \in Int
      /\ IsArray(a, n, 0 .. (Values(s) - 1))
      /\ e # null /\ (a # null => a.at # "UnityQuickCompare")
  BY DEF Legal
<1>2. Fails(c) <=> IF SamePointer(e, a) \/ UnityIsOneArrayNull(e, a)
                   THEN n = 0 \/ UnityIsOneArrayNull(e, a)
                   ELSE n = 0 \/ D # {}
  BY DEF Fails, UnityAssertEqualIntArray, ArrayFails, ExpectedAt
<1>3. Says(c) <=> n > 0 /\ a # null /\ E = {}
  BY DEF Says
<1>4. SamePointer(e, a) <=> FALSE
  <2>1. e.at = "UnityQuickCompare"
    BY DEF UnityNumToPtr
  <2> HIDE DEF e
  <2> QED BY <1>1, <2>1 DEF SamePointer
<1>5. UnityIsOneArrayNull(e, a) <=> a = null
  BY <1>1, <1>4 DEF UnityIsOneArrayNull
<1>6. ASSUME a # null PROVE D = E
  <2>1. ASSUME NEW i \in 1 .. n
        PROVE  Element(e, 1, c.style) = Element(a, i, c.style)
                  <=> ElementValue(a.cells[i], c.style) = ElementValue(x, c.style)
    <3> DEFINE y == a.cells[i]
               u == Unsigned(x, s)
    <3>1. s \in Nat \ {0} /\ s \in 1 .. s
      BY <1>1, StyleSizes
    <3>2. y \in Int /\ Element(a, i, c.style) = Signed(y, s)
      BY <1>1, <1>6, ElementRight
    <3>3. Element(e, 1, c.style) = Signed(u, s)
      BY DEF Element, UnityNumToPtr
    <3>4. u \in Int
      <4>1. u \in 0 .. Values(s) - 1 /\ Values(s) \in Nat
        BY <1>1, <3>1, Converted
      <4> QED BY <4>1
    <3>5. Unsigned(u, s) = u
      BY <1>1, <3>1, LowBytes
    <3>6. \A z \in {x, y} : ElementValue(z, c.style)
                              = IF RangeInt(c.style) THEN Signed(z, s) ELSE Unsigned(z, s)
      BY <1>1, ElementValueIs
    <3> HIDE DEF y, u, s, e, x, a
    <3>7. Signed(u, s) = Signed(y, s) <=> u = Unsigned(y, s)
      BY <1>1, <3>1, <3>2, <3>4, <3>5, SameSigned
    <3>8. Signed(x, s) = Signed(y, s) <=> Unsigned(x, s) = Unsigned(y, s)
      BY <1>1, <3>1, <3>2, SameSigned
    <3>9. u = Unsigned(x, s)
      BY DEF u
    <3>10. ElementValue(y, c.style) = ElementValue(x, c.style) <=> Unsigned(x, s) = Unsigned(y, s)
      BY <3>6, <3>8
    <3> QED BY <3>2, <3>3, <3>7, <3>9, <3>10 DEF y
  <2> QED BY <2>1
<1> HIDE DEF D, E, e, a, n
<1> QED BY <1>1, <1>2, <1>3, <1>4, <1>5, <1>6

\* Of elements on both sides of the middle the unsigned ones are extended apart.
LEMMA ElementsOrdered ==
  ASSUME NEW style \in Styles, NEW M \in Nat, M = Values(style.size),
         NEW x \in 0 .. M - 1, NEW y \in 0 .. M - 1
  PROVE  Distance(Ordered(Signed(x, style.size), style), Ordered(Signed(y, style.size), style))
            = Distance(ElementValue(x, style), ElementValue(y, style))
                + (IF Straddle(x, y, style) THEN Values(WordBytes) - M ELSE 0)
<1> DEFINE s == style.size
           w == WordBytes
           W == Values(w)
           f == Signed(x, s)
           g == Signed(y, s)
<1>1. s \in 1 .. w /\ s \in Nat \ {0} /\ w \in Nat \ {0} /\ M \in Nat \ {0} /\ W \in Nat \ {0} /\ M <= W
  BY StyleSizes, FewerBytes
<1>2. x \in Int /\ y \in Int /\ Unsigned(x, s) = x /\ Unsigned(y, s) = y
  BY <1>1, UnsignedFits
<1>3. /\ f \in Int /\ 2 * x < M => f = x
      /\ 2 * x >= M => f = x - M
      /\ 2 * f < M /\ - M <= 2 * f
  BY <1>1, <1>2, Converted
<1>4. /\ g \in Int /\ 2 * y < M => g = y
      /\ 2 * y >= M => g = y - M
      /\ 2 * g < M /\ - M <= 2 * g
  BY <1>1, <1>2, Converted
<1>5. f \in Int /\ g \in Int
  BY <1>1, <1>2, Converted
<1>6. \A z \in {x, y} : ElementValue(z, style)
                          = IF RangeInt(style) THEN Signed(z, s) ELSE Unsigned(z, s)
  BY ElementValueIs
<1>7. CASE RangeInt(style)
  <2>1. Ordered(f, style) = f /\ Ordered(g, style) = g
    BY <1>7 DEF Ordered
  <2>2. ElementValue(x, style) = f /\ ElementValue(y, style) = g
    BY <1>6, <1>7
  <2>3. ~ Straddle(x, y, style)
    BY <1>7 DEF Straddle
  <2>4. Distance(f, g) \in Int
    BY <1>5 DEF Distance
  <2> QED BY <2>1, <2>2, <2>3, <2>4
<1>8. CASE ~ RangeInt(style)
  <2>1. Ordered(f, style) = Unsigned(f, w) /\ Ordered(g, style) = Unsigned(g, w)
    BY <1>8 DEF Ordered
  <2>2. ElementValue(x, style) = x /\ ElementValue(y, style) = y
    BY <1>2, <1>6, <1>8
  <2>3. Straddle(x, y, style) <=> (f < 0) # (g < 0)
    BY <1>8 DEF Straddle
  <2>4. Unsigned(f, w) = IF 2 * x < M THEN x ELSE (x - M) + W
    <3>1. 2 * f < W /\ - W <= 2 * f
      <4> HIDE DEF f, W
      <4> QED BY <1>1, <1>3, <1>5
    <3>2. Signed(f, w) = f
      BY <1>1, <1>5, <3>1, SignedFits
    <3>3. /\ Unsigned(f, w) \in 0 .. W - 1
          /\ 2 * Unsigned(f, w) < W => f = Unsigned(f, w)
          /\ 2 * Unsigned(f, w) >= W => f = Unsigned(f, w) - W
      BY <1>1, <1>5, <3>2, Converted
    <3> DEFINE u == Unsigned(f, w)
    <3> HIDE DEF f, W, u
    <3> QED BY <1>1, <1>2, <1>3, <1>5, <3>3 DEF u
  <2>5. Unsigned(g, w) = IF 2 * y < M THEN y ELSE (y - M) + W
    <3>1. 2 * g < W /\ - W <= 2 * g
      <4> HIDE DEF g, W
      <4> QED BY <1>1, <1>4, <1>5
    <3>2. Signed(g, w) = g
      BY <1>1, <1>5, <3>1, SignedFits
    <3>3. /\ Unsigned(g, w) \in 0 .. W - 1
          /\ 2 * Unsigned(g, w) < W => g = Unsigned(g, w)
          /\ 2 * Unsigned(g, w) >= W => g = Unsigned(g, w) - W
      BY <1>1, <1>5, <3>2, Converted
    <3> DEFINE u == Unsigned(g, w)
    <3> HIDE DEF g, W, u
    <3> QED BY <1>1, <1>2, <1>4, <1>5, <3>3 DEF u
  <2> DEFINE a == Ordered(f, style)
             b == Ordered(g, style)
             S == Straddle(x, y, style)
  <2>6. /\ a = IF 2 * x < M THEN x ELSE (x - M) + W
        /\ b = IF 2 * y < M THEN y ELSE (y - M) + W
    BY <2>1, <2>4, <2>5
  <2>7. (f < 0 <=> 2 * x >= M) /\ (g < 0 <=> 2 * y >= M)
    <3> HIDE DEF f, g
    <3> QED BY <1>1, <1>2, <1>3, <1>4, <1>5
  <2>8. S <=> (2 * x >= M) # (2 * y >= M)
    BY <2>3, <2>7
  <2> HIDE DEF f, g, a, b, W, S
  <2>9. Distance(a, b) = Distance(x, y) + (IF S THEN W - M ELSE 0)
    <3>1. CASE 2 * x < M /\ 2 * y < M
      BY <1>1, <1>2, <2>6, <2>8, <3>1 DEF Distance
    <3>2. CASE 2 * x >= M /\ 2 * y >= M
      <4>1. a = (x - M) + W /\ b = (y - M) + W /\ ~ S
        BY <1>1, <1>2, <2>6, <2>8, <3>2
      <4>2. (a > b <=> x > y) /\ a - b = x - y /\ b - a = y - x
        BY <1>1, <1>2, <4>1
      <4> QED BY <1>1, <1>2, <4>1, <4>2 DEF Distance
    <3>3. CASE 2 * x < M /\ 2 * y >= M
      <4>1. a = x /\ b = (y - M) + W /\ S
        BY <1>1, <1>2, <2>6, <2>8, <3>3
      <4>2. ~ (a > b) /\ ~ (x > y) /\ b - a = (y - x) + (W - M)
        BY <1>1, <1>2, <3>3, <4>1
      <4> QED BY <1>1, <1>2, <4>1, <4>2 DEF Distance
    <3>4. CASE 2 * x >= M /\ 2 * y < M
      <4>1. a = (x - M) + W /\ b = y /\ S
        BY <1>1, <1>2, <2>6, <2>8, <3>4
      <4>2. a > b /\ x > y /\ a - b = (x - y) + (W - M)
        BY <1>1, <1>2, <3>4, <4>1
      <4> QED BY <1>1, <1>2, <4>1, <4>2 DEF Distance
    <3> QED BY <1>1, <1>2, <3>1, <3>2, <3>3, <3>4
  <2> QED BY <2>2, <2>9 DEF a, b, W, S, f, g
<1> QED BY <1>7, <1>8

\* TEST_ASSERT_..._ARRAY_WITHIN.
LEMMA ArrayWithinVerdict ==
  ASSUME NEW c, Legal(c), ~ DeltaCut(c), c.fn = "NumbersArrayWithin"
  PROVE  /\ ~ Says(c) => Fails(c)
         /\ Fails(c) => ~ Says(c) \/ Straddles(c)
<1> DEFINE e == c.expected
           a == c.actual
           n == c.n
           d == Delta(c.delta, c.style, "ARRAY_WITHIN")
           D == {i \in 1 .. n : UnityAssertNumbersWithin(
                                    d, Element(e, i, c.style), Element(a, i, c.style), c.style)}
           E == {i \in 1 .. n : ~ Close(e.cells[i], a.cells[i], d, c.style)}
           S == {i \in 1 .. n : /\ Straddle(e.cells[i], a.cells[i], c.style)
                                /\ c.style.size < WordBytes}
<1>1. /\ c.style \in Styles /\ n \in Nat /\ c.delta \in Int
      /\ IsArray(a, n, 0 .. (Values(c.style.size) - 1))
      /\ IsArray(e, n, 0 .. (Values(c.style.size) - 1))
  BY DEF Legal
<1>2. Fails(c) <=> IF SamePointer(e, a) \/ UnityIsOneArrayNull(e, a)
                   THEN n = 0 \/ UnityIsOneArrayNull(e, a)
                   ELSE n = 0 \/ D # {}
  BY DEF Fails, UnityAssertNumbersArrayWithin, ArrayFails, ExpectedAt
<1>3. Says(c) <=> /\ n > 0
                  /\ IF e = null \/ a = null THEN SamePointer(e, a) ELSE SamePointer(e, a) \/ E = {}
  <2>1. d = c.delta
    BY DEF DeltaCut
  <2>2. /\ Says(c)
           <=> /\ n > 0
               /\ IF e = null \/ a = null THEN SamePointer(e, a)
                  ELSE \/ SamePointer(e, a)
                       \/ \A i \in 1 .. n : Close(e.cells[i], a.cells[i], c.delta, c.style)
    BY DEF Says, OfArray
  <2> HIDE DEF d, e, a, n
  <2>3. E = {} <=> \A i \in 1 .. n : Close(e.cells[i], a.cells[i], c.delta, c.style)
    BY <2>1
  <2> HIDE DEF E
  <2> QED BY <2>2, <2>3
<1>4. d \in Int
  BY <1>1, DeltaIsInt
<1>5. ASSUME e # null, a # null PROVE E \subseteq D /\ D \subseteq E \cup S
  <2>1. ASSUME NEW i \in 1 .. n
        PROVE  LET fails == UnityAssertNumbersWithin(
                                d, Element(e, i, c.style), Element(a, i, c.style), c.style)
                   far == ~ Close(e.cells[i], a.cells[i], d, c.style)
               IN  /\ far => fails
                   /\ fails => \/ far
                               \/ /\ Straddle(e.cells[i], a.cells[i], c.style)
                                  /\ c.style.size < WordBytes
    <3> DEFINE x == e.cells[i]
               y == a.cells[i]
               s == c.style.size
               M == Values(s)
               f == Signed(x, s)
               g == Signed(y, s)
    <3>1. /\ x \in 0 .. M - 1 /\ Element(e, i, c.style) = f /\ Word(Element(e, i, c.style))
          /\ y \in 0 .. M - 1 /\ Element(a, i, c.style) = g /\ Word(Element(a, i, c.style))
      BY <1>1, <1>5, ElementRight
    <3>2. M \in Nat
      BY <1>1, StyleSizes, ValuesSplit
    <3>3. Distance(Ordered(f, c.style), Ordered(g, c.style))
            = Distance(ElementValue(x, c.style), ElementValue(y, c.style))
                + (IF Straddle(x, y, c.style) THEN Values(WordBytes) - M ELSE 0)
      <4> HIDE DEF x, y
      <4> QED BY <1>1, <3>1, <3>2, ElementsOrdered
    <3>4. UnityAssertNumbersWithin(d, f, g, c.style)
             <=> ~ (Distance(Ordered(f, c.style), Ordered(g, c.style)) =< d)
      <4>1. Word(f) /\ Word(g)
        BY <3>1
      <4> HIDE DEF d, f, g
      <4> QED BY <1>1, <1>4, <4>1, WithinRight
    <3>5. Close(x, y, d, c.style) <=>
             Distance(ElementValue(x, c.style), ElementValue(y, c.style)) =< d
      BY DEF Close
    <3> DEFINE apart == Distance(ElementValue(x, c.style), ElementValue(y, c.style))
               more == IF Straddle(x, y, c.style) THEN Values(WordBytes) - M ELSE 0
    <3>6. apart \in Int
      <4>1. x \in Int /\ y \in Int
        BY <3>1, <3>2
      <4> HIDE DEF x, y
      <4>2. ElementValue(x, c.style) \in Int /\ ElementValue(y, c.style) \in Int
        <5>1. c.style \in Styles
          BY <1>1
        <5> HIDE DEF d
        <5> QED BY <4>1, <5>1, ElementValueInt
      <4> QED BY <4>2 DEF Distance
    <3>7. /\ more \in Nat
          /\ more > 0 => Straddle(x, y, c.style) /\ s < WordBytes
      <4>1. s \in 1 .. WordBytes /\ Values(WordBytes) \in Nat /\ M <= Values(WordBytes)
        BY <1>1, StyleSizes, FewerBytes
      <4>2. s = WordBytes => M = Values(WordBytes)
        OBVIOUS
      <4> HIDE DEF x, y, M, s
      <4> QED BY <1>1, <3>2, <4>1, <4>2, AssertsAssumption
    <3> HIDE DEF x, y, f, g, M, d, apart, more, s
    <3>8. ~ (apart =< d) => ~ (apart + more =< d)
      BY <1>4, <3>6, <3>7
    <3>9. ~ (apart + more =< d) => ~ (apart =< d) \/ more > 0
      BY <1>4, <3>6, <3>7
    <3> QED BY <3>1, <3>3, <3>4, <3>5, <3>7, <3>8, <3>9 DEF x, y, apart, more, s
  <2> QED BY <2>1
<1>6. e # null /\ a # null /\ S # {} => Straddles(c)
  BY DEF Straddles
<1>7. IsArray(a, n, 0 .. (Values(c.style.size) - 1)) /\ IsArray(e, n, 0 .. (Values(c.style.size) - 1))
  BY <1>1
<1> HIDE DEF D, E, S, e, a, n
<1>8. CASE e = null \/ a = null
  BY <1>1, <1>2, <1>3, <1>8 DEF SamePointer, UnityIsOneArrayNull
<1>9. CASE e # null /\ a # null
  <2>1. ~ UnityIsOneArrayNull(e, a)
    BY <1>9 DEF UnityIsOneArrayNull
  <2>2. /\ Fails(c) <=> n = 0 \/ (~ SamePointer(e, a) /\ D # {})
        /\ Says(c) <=> n > 0 /\ (SamePointer(e, a) \/ E = {})
    BY <1>2, <1>3, <1>9, <2>1
  <2>3. (E # {} => D # {}) /\ (D # {} => E # {} \/ S # {})
    BY <1>5, <1>9
  <2> QED BY <1>1, <1>6, <1>9, <2>2, <2>3
<1> QED BY <1>8, <1>9

-----------------------------------------------------------------------------
(* Strings and memory.                                                     *)

\* The walk over two strings sees whether they begin alike: it stops at the
\* terminator of the longer one and reads no character behind the shorter one's.
LEMMA StringsBegin ==
  ASSUME NEW s \in CStrings, NEW t \in CStrings, s # null, t # null, NEW n \in Nat
  PROVE  StringsDiffer(s, t, n)
            <=> SubSeq(s, 1, Min({n, Len(s)})) # SubSeq(t, 1, Min({n, Len(t)}))
<1> DEFINE I == Int \ {0}
           j == Min({n, Len(s)})
           k == Min({n, Len(t)})
           m == Min({n, Max({Len(s), Len(t)})})
           b == SubSeq(s, 1, j)
           d == SubSeq(t, 1, k)
<1>1. s \in Seq(I) /\ t \in Seq(I)
  BY DEF CStrings
<1>2. Len(s) \in Nat /\ Len(t) \in Nat
  BY <1>1, LenProperties
<1>3. /\ j = IF n <= Len(s) THEN n ELSE Len(s)
      /\ k = IF n <= Len(t) THEN n ELSE Len(t)
      /\ m = IF j <= k THEN k ELSE j
  <2> DEFINE q == Max({Len(s), Len(t)})
  <2>0. n \in Int /\ Len(s) \in Int /\ Len(t) \in Int
    BY <1>2
  <2>1. q = IF Len(s) <= Len(t) THEN Len(t) ELSE Len(s)
    BY <2>0, OfTwo
  <2>2. q \in Int
    <3> HIDE DEF q
    <3> QED BY <2>0, <2>1
  <2>3. /\ j = IF n <= Len(s) THEN n ELSE Len(s)
        /\ k = IF n <= Len(t) THEN n ELSE Len(t)
    BY <2>0, OfTwo
  <2>4. m = IF n <= q THEN n ELSE q
    <3>1. m = Min({n, q})
      OBVIOUS
    <3> HIDE DEF m, q
    <3> QED BY <2>0, <2>2, <3>1, OfTwo
  <2> HIDE DEF q, j, k, m
  <2> QED BY <1>2, <2>1, <2>2, <2>3, <2>4
<1>4. StringsDiffer(s, t, n) <=> \E i \in 1 .. m : CharAt(s, i) # CharAt(t, i)
  BY DEF StringsDiffer
<1> HIDE DEF m, j, k, I
<1>5. j \in Nat /\ j <= Len(s) /\ k \in Nat /\ k <= Len(t) /\ m \in Nat
  BY <1>2, <1>3
<1>6. /\ b \in Seq(I) /\ Len(b) = j /\ \A i \in 1 .. j : b[i] = s[i]
      /\ d \in Seq(I) /\ Len(d) = k /\ \A i \in 1 .. k : d[i] = t[i]
  BY <1>1, <1>5, FirstChars
<1> HIDE DEF b, d
<1>7. \A i \in 1 .. Len(s) : CharAt(s, i) = s[i] /\ s[i] # 0
  BY <1>1, <1>2, ElementOfSeq DEF CharAt, I
<1>8. \A i \in 1 .. Len(t) : CharAt(t, i) = t[i] /\ t[i] # 0
  BY <1>1, <1>2, ElementOfSeq DEF CharAt, I
<1>9. /\ Len(s) + 1 \in Int /\ CharAt(s, Len(s) + 1) = 0
      /\ Len(t) + 1 \in Int /\ CharAt(t, Len(t) + 1) = 0
  BY <1>2 DEF CharAt
<1>10. ASSUME b = d PROVE \A i \in 1 .. m : CharAt(s, i) = CharAt(t, i)
  <2>1. j = k /\ m = k
    BY <1>3, <1>5, <1>6, <1>10
  <2>2. ASSUME NEW i \in 1 .. m PROVE CharAt(s, i) = CharAt(t, i)
    <3>1. i \in 1 .. j /\ i \in 1 .. k /\ i \in 1 .. Len(s) /\ i \in 1 .. Len(t)
      BY <1>2, <1>5, <2>1
    <3> QED BY <1>6, <1>7, <1>8, <1>10, <3>1
  <2> QED BY <2>2
<1>11. ASSUME \A i \in 1 .. m : CharAt(s, i) = CharAt(t, i) PROVE b = d
  <2>1. ~ (j < k)
    <3> SUFFICES ASSUME j < k PROVE FALSE
      OBVIOUS
    <3>1. Len(s) + 1 \in 1 .. m /\ Len(s) + 1 \in 1 .. Len(t)
      BY <1>2, <1>3, <1>5
    <3> QED BY <1>8, <1>9, <1>11, <3>1
  <2>2. ~ (k < j)
    <3> SUFFICES ASSUME k < j PROVE FALSE
      OBVIOUS
    <3>1. Len(t) + 1 \in 1 .. m /\ Len(t) + 1 \in 1 .. Len(s)
      BY <1>2, <1>3, <1>5
    <3> QED BY <1>7, <1>9, <1>11, <3>1
  <2>3. j = k /\ m = k
    BY <1>3, <1>5, <2>1, <2>2
  <2>4. ASSUME NEW i \in 1 .. Len(b) PROVE b[i] = d[i]
    <3>1. i \in 1 .. j /\ i \in 1 .. k /\ i \in 1 .. m /\ i \in 1 .. Len(s) /\ i \in 1 .. Len(t)
      BY <1>2, <1>5, <1>6, <2>3
    <3> QED BY <1>6, <1>7, <1>8, <1>11, <3>1
  <2> QED BY <1>6, <2>3, <2>4, SameSequence
<1> QED BY <1>4, <1>10, <1>11 DEF b, d, j, k

\* Without a length the walk goes to the end of the longer string.
LEMMA StringsEqual ==
  ASSUME NEW s \in {null} \cup CStrings, NEW t \in {null} \cup CStrings
  PROVE  UnityAssertEqualString(s, t) <=> s # t
<1>1. CASE s = null \/ t = null
  BY <1>1 DEF UnityAssertEqualString
<1>2. CASE s # null /\ t # null
  <2> DEFINE n == Max({Len(s), Len(t)})
             I == Int \ {0}
  <2>1. s \in CStrings /\ t \in CStrings /\ s \in Seq(I) /\ t \in Seq(I)
    BY <1>2 DEF CStrings
  <2>2. Len(s) \in Nat /\ Len(t) \in Nat
    BY <2>1, LenProperties
  <2>3. n \in Nat /\ Len(s) <= n /\ Len(t) <= n
    <3>0. Len(s) \in Int /\ Len(t) \in Int
      BY <2>2
    <3>1. n = IF Len(s) <= Len(t) THEN Len(t) ELSE Len(s)
      BY <3>0, OfTwo
    <3> HIDE DEF n
    <3> QED BY <2>2, <3>1
  <2>4. UnityAssertEqualString(s, t) <=> StringsDiffer(s, t, n)
    BY <1>2 DEF UnityAssertEqualString
  <2> HIDE DEF n, I
  <2>5. Min({n, Len(s)}) = Len(s) /\ Min({n, Len(t)}) = Len(t)
    BY <2>2, <2>3, OfTwo
  <2>6. SubSeq(s, 1, Len(s)) = s /\ SubSeq(t, 1, Len(t)) = t
    <3>1. ASSUME NEW r \in Seq(I), Len(r) \in Nat PROVE SubSeq(r, 1, Len(r)) = r
      <4>1. /\ SubSeq(r, 1, Len(r)) \in Seq(I) /\ Len(SubSeq(r, 1, Len(r))) = Len(r)
            /\ \A i \in 1 .. Len(r) : SubSeq(r, 1, Len(r))[i] = r[i]
        BY <3>1, FirstChars
      <4> DEFINE q == SubSeq(r, 1, Len(r))
      <4> HIDE DEF q
      <4>2. q \in Seq(I) /\ Len(q) = Len(r) /\ \A i \in 1 .. Len(q) : q[i] = r[i]
        BY <4>1 DEF q
      <4>3. q = r
        BY <4>2, SameSequence
      <4> QED BY <4>3 DEF q
    <3> QED BY <2>1, <2>2, <3>1
  <2> QED BY <1>2, <2>1, <2>3, <2>4, <2>5, <2>6, StringsBegin
<1> QED BY <1>1, <1>2

\* TEST_ASSERT_EQUAL_STRING and TEST_ASSERT_EQUAL_STRING_LEN.
LEMMA StringVerdict ==
  ASSUME NEW c, Legal(c), c.fn \in {"EqualString", "EqualStringLen"}
  PROVE  Fails(c) <=> ~ Says(c)
<1> DEFINE e == c.expected
           a == c.actual
           n == c.n
<1>1. e \in {null} \cup CStrings /\ a \in {null} \cup CStrings
  BY DEF Legal
<1>2. CASE c.fn = "EqualString"
  <2>1. Fails(c) <=> UnityAssertEqualString(e, a)
    BY <1>2 DEF Fails
  <2>2. Says(c) <=> e = a
    BY <1>2 DEF Says
  <2> HIDE DEF e, a
  <2> QED BY <1>1, <2>1, <2>2, StringsEqual
<1>3. CASE c.fn = "EqualStringLen"
  <2>1. Fails(c) <=> StringsDiffer(e, a, n)
    BY <1>3 DEF Fails, UnityAssertEqualStringLen
  <2>2. Says(c) <=> IF e = null \/ a = null THEN e = a
                    ELSE SubSeq(e, 1, Min({n, Len(e)})) = SubSeq(a, 1, Min({n, Len(a)}))
    BY <1>3 DEF Says
  <2>3. n \in Nat
    BY <1>3 DEF Legal
  <2> HIDE DEF e, a, n
  <2>4. CASE e = null \/ a = null
    <3>1. StringsDiffer(e, a, n) <=> e # a
      BY <2>4 DEF StringsDiffer
    <3> QED BY <2>1, <2>2, <2>4, <3>1
  <2>5. CASE e # null /\ a # null
    BY <1>1, <2>1, <2>2, <2>3, <2>5, StringsBegin
  <2> QED BY <2>4, <2>5
<1> QED BY <1>2, <1>3

\* The elements of an array.
LEMMA CellIn ==
  ASSUME NEW Cell, NEW p, p # null, NEW n \in Nat, IsArray(p, n, Cell), NEW i \in 1 .. n
  PROVE  p.cells[i] \in Cell
<1> DEFINE cells == p.cells
<1>1. cells \in Seq(Cell) /\ Len(cells) >= n
  BY DEF IsArray
<1> HIDE DEF cells
<1>2. Len(cells) \in Nat
  BY <1>1, LenProperties
<1>3. i \in 1 .. Len(cells)
  BY <1>1, <1>2
<1>4. cells[i] \in Cell
  BY <1>1, <1>3, ElementOfSeq
<1> QED BY <1>4 DEF cells

\* TEST_ASSERT_EQUAL_STRING_ARRAY and TEST_ASSERT_EACH_EQUAL_STRING.
LEMMA StringArrayVerdict ==
  ASSUME NEW c, Legal(c), c.fn = "EqualStringArray"
  PROVE  Fails(c) <=> ~ Says(c)
<1> DEFINE e == c.expected
           a == c.actual
           n == c.n
           Expd(j) == IF c.flags = "ARRAY_TO_ARRAY" THEN e.cells[j] ELSE e.cells
           D == {j \in 1 .. n : UnityAssertEqualString(Expd(j), a.cells[j])}
           E == {j \in 1 .. n : a.cells[j] # Expd(j)}
<1>1. /\ n \in Nat /\ c.flags \in {"ARRAY_TO_ARRAY", "ARRAY_TO_VAL"}
      /\ IsArray(a, n, {null} \cup CStrings)
      /\ c.flags = "ARRAY_TO_VAL" => IsArray(e, 0, Int \ {0})
      /\ c.flags = "ARRAY_TO_ARRAY" => IsArray(e, n, {null} \cup CStrings)
  BY DEF Legal
<1>2. Fails(c) <=> IF SamePointer(e, a) \/ UnityIsOneArrayNull(e, a)
                   THEN n = 0 \/ UnityIsOneArrayNull(e, a)
                   ELSE n = 0 \/ D # {}
  BY DEF Fails, UnityAssertEqualStringArray, ArrayFails
<1>3. Says(c) <=> /\ n > 0
                  /\ IF e = null \/ a = null THEN SamePointer(e, a) ELSE SamePointer(e, a) \/ E = {}
  BY <1>1 DEF Says, OfArray
<1>4. ASSUME e # null, a # null PROVE D = E
  <2>1. ASSUME NEW j \in 1 .. n
        PROVE  UnityAssertEqualString(Expd(j), a.cells[j]) <=> a.cells[j] # Expd(j)
    <3>1. a.cells[j] \in {null} \cup CStrings
      <4> DEFINE Cell == {null} \cup CStrings
      <4>1. IsArray(a, n, Cell)
        BY <1>1
      <4> HIDE DEF Cell, a, n
      <4>2. a.cells[j] \in Cell
        BY <1>1, <1>4, <4>1, CellIn
      <4> QED BY <4>2 DEF Cell
    <3>2. Expd(j) \in {null} \cup CStrings
      <4>1. CASE c.flags = "ARRAY_TO_ARRAY"
        <5> DEFINE Cell == {null} \cup CStrings
        <5>1. IsArray(e, n, Cell)
          BY <1>1, <4>1
        <5>2. Expd(j) = e.cells[j]
          BY <4>1
        <5> HIDE DEF Cell, e, n, Expd
        <5>3. e.cells[j] \in Cell
          BY <1>1, <1>4, <5>1, CellIn
        <5> QED BY <5>2, <5>3 DEF Cell
      <4>2. CASE c.flags = "ARRAY_TO_VAL"
        BY <1>1, <1>4, <4>2 DEF IsArray, CStrings
      <4> QED BY <1>1, <4>1, <4>2
    <3> HIDE DEF Expd, a
    <3> QED BY <3>1, <3>2, StringsEqual
  <2> QED BY <2>1
<1> HIDE DEF D, E, e, a, n
<1> QED BY <1>1, <1>2, <1>3, <1>4 DEF SamePointer, UnityIsOneArrayNull

\* The bytes of an element lie in the array.
LEMMA BytesIn ==
  ASSUME NEW length \in Nat, NEW n \in Nat, NEW i \in 1 .. n
  PROVE  /\ (i - 1) * length \in Nat
         /\ (i - 1) * length + length = i * length
         /\ i * length <= n * length
<1>1. i - 1 \in Nat /\ n - i \in Nat
  OBVIOUS
<1>2. (i - 1) * length \in Nat /\ (n - i) * length \in Nat
  BY <1>1
<1>3. (i - 1) * length + length = i * length /\ (n - i) * length = n * length - i * length
  BY <1>1
<1>4. i * length \in Int /\ n * length \in Int
  OBVIOUS
<1> QED BY <1>2, <1>3, <1>4

\* The same bytes, from f + 1 and from g + 1 on.
SameBytes(s, f, t, g, k) == \A j \in 1 .. k : s[f + j] = t[g + j]

\* Two pieces are equal when their bytes are.
LEMMA SamePieces ==
  ASSUME NEW S, NEW s \in Seq(S), NEW t \in Seq(S), NEW f \in Nat, NEW g \in Nat, NEW k \in Nat,
         f + k <= Len(s), g + k <= Len(t)
  PROVE  SubSeq(s, f + 1, f + k) = SubSeq(t, g + 1, g + k)
            <=> SameBytes(s, f, t, g, k)
<1> DEFINE a == SubSeq(s, f + 1, f + k)
           b == SubSeq(t, g + 1, g + k)
<1>1. /\ a \in Seq(S) /\ Len(a) = k /\ \A j \in 1 .. k : a[j] = s[f + j]
      /\ b \in Seq(S) /\ Len(b) = k /\ \A j \in 1 .. k : b[j] = t[g + j]
  BY Piece
<1> HIDE DEF a, b
<1>2. ASSUME SameBytes(s, f, t, g, k) PROVE a = b
  <2>1. Len(a) = Len(b) /\ \A j \in 1 .. Len(a) : a[j] = b[j]
    BY <1>1, <1>2 DEF SameBytes
  <2> QED BY <1>1, <2>1, SameSequence
<1>3. a = b => SameBytes(s, f, t, g, k)
  BY <1>1 DEF SameBytes
<1> QED BY <1>2, <1>3 DEF a, b

\* TEST_ASSERT_EQUAL_MEMORY, of one piece of memory, of several, or of several
\* with one.
LEMMA MemoryVerdict ==
  ASSUME NEW c, Legal(c), c.fn = "EqualMemory"
  PROVE  Fails(c) <=> ~ Says(c)
<1> DEFINE e == c.expected
           a == c.actual
           n == c.n
           l == c.length
           At(i) == ExpectedAt(i, c.flags)
           D == {i \in 1 .. n : \E j \in 1 .. l :
                    e.cells[(At(i) - 1) * l + j] # a.cells[(i - 1) * l + j]}
           E == {i \in 1 .. n : SubSeq(a.cells, (i - 1) * l + 1, i * l)
                                   # SubSeq(e.cells, (At(i) - 1) * l + 1, At(i) * l)}
<1>1. /\ n \in Nat /\ l \in Nat /\ c.flags \in {"ARRAY_TO_ARRAY", "ARRAY_TO_VAL"}
      /\ IsArray(a, n * l, Int)
      /\ c.flags = "ARRAY_TO_VAL" => IsArray(e, l, Int)
      /\ c.flags = "ARRAY_TO_ARRAY" => IsArray(e, n * l, Int)
  BY DEF Legal
<1>2. Fails(c) <=> \/ l = 0
                   \/ IF SamePointer(e, a) \/ UnityIsOneArrayNull(e, a)
                      THEN n = 0 \/ UnityIsOneArrayNull(e, a)
                      ELSE n = 0 \/ D # {}
  BY DEF Fails, UnityAssertEqualMemory, ArrayFails
<1>3. Says(c) <=> /\ l > 0 /\ n > 0
                  /\ IF e = null \/ a = null THEN SamePointer(e, a) ELSE SamePointer(e, a) \/ E = {}
  BY <1>1 DEF Says, OfArray, ExpectedAt
<1>4. ASSUME e # null, a # null PROVE D = E
  <2>1. ASSUME NEW i \in 1 .. n
        PROVE  (\E j \in 1 .. l : e.cells[(At(i) - 1) * l + j] # a.cells[(i - 1) * l + j])
                  <=> SubSeq(a.cells, (i - 1) * l + 1, i * l)
                         # SubSeq(e.cells, (At(i) - 1) * l + 1, At(i) * l)
    <3> DEFINE s == a.cells
               t == e.cells
               h == At(i)
               f == (i - 1) * l
               g == (h - 1) * l
    <3>1. s \in Seq(Int) /\ Len(s) >= n * l
      BY <1>1, <1>4 DEF IsArray
    <3>2. f \in Nat /\ f + l = i * l /\ i * l <= n * l
      BY <1>1, BytesIn
    <3>3. f + l <= Len(s)
      <4>1. n * l \in Int /\ i * l \in Int
        BY <1>1
      <4>2. Len(s) \in Nat
        BY <3>1, LenProperties
      <4> HIDE DEF s, f
      <4> QED BY <3>1, <3>2, <4>1, <4>2
    <3>4. t \in Seq(Int) /\ g \in Nat /\ g + l = h * l /\ g + l <= Len(t)
      <4>1. CASE c.flags = "ARRAY_TO_ARRAY"
        <5>1. h = i /\ t \in Seq(Int) /\ Len(t) >= n * l
          BY <1>1, <1>4, <4>1 DEF IsArray, ExpectedAt
        <5>2. n * l \in Int /\ i * l \in Int /\ Len(t) \in Nat
          BY <1>1, <5>1, LenProperties
        <5>3. g = f
          BY <5>1
        <5> HIDE DEF t, h, f, g
        <5> QED BY <3>2, <5>1, <5>2, <5>3
      <4>2. CASE c.flags = "ARRAY_TO_VAL"
        <5>1. h = 1 /\ t \in Seq(Int) /\ Len(t) >= l
          BY <1>1, <1>4, <4>2 DEF IsArray, ExpectedAt
        <5>2. Len(t) \in Nat
          BY <5>1, LenProperties
        <5>3. g = 0
          BY <1>1, <5>1
        <5> HIDE DEF t, h, g
        <5> QED BY <1>1, <5>1, <5>2, <5>3
      <4> QED BY <1>1, <4>1, <4>2
    <3>5. SubSeq(s, f + 1, f + l) = SubSeq(t, g + 1, g + l)
             <=> SameBytes(s, f, t, g, l)
      <4> DEFINE I == Int
      <4>1. s \in Seq(I) /\ t \in Seq(I)
        BY <3>1, <3>4
      <4>2. f \in Nat /\ g \in Nat /\ l \in Nat /\ f + l <= Len(s) /\ g + l <= Len(t)
        BY <1>1, <3>2, <3>3, <3>4
      <4> HIDE DEF s, t, f, g, l, I
      <4> QED BY <4>1, <4>2, SamePieces
    <3>6. (\E j \in 1 .. l : t[g + j] # s[f + j]) <=> SubSeq(s, f + 1, i * l) # SubSeq(t, g + 1, h * l)
      <4> HIDE DEF s, t, f, g, l, h
      <4> QED BY <3>2, <3>4, <3>5 DEF SameBytes
    <3> QED BY <3>6
  <2> QED BY <2>1
<1> HIDE DEF D, E, e, a, n, l
<1> QED BY <1>1, <1>2, <1>3, <1>4 DEF SamePointer, UnityIsOneArrayNull

\* Every assertion.
LEMMA VerdictRight ==
  ASSUME NEW c, Legal(c), ~ DeltaCut(c)
  PROVE  /\ ~ Says(c) => Fails(c)
         /\ Fails(c) => ~ Says(c) \/ Straddles(c)
<1> DEFINE Judged == {"EqualNumber", "GreaterOrLess", "NumbersWithin", "EqualIntArray", "EachEqual",
                      "EqualString", "EqualStringLen", "EqualStringArray", "EqualMemory"}
<1>1. c.fn \in Judged => (Fails(c) <=> ~ Says(c))
  BY NumberVerdict, IntArrayVerdict, EachEqualVerdict, StringVerdict, StringArrayVerdict,
     MemoryVerdict
<1>2. c.fn = "Fail" => Fails(c) /\ ~ Says(c)
  BY DEF Fails, Says
<1>3. c.fn \notin Judged \cup {"NumbersArrayWithin", "Fail"} => ~ Fails(c) /\ Says(c)
  BY DEF Fails, Says
<1>4. c.fn = "NumbersArrayWithin" => /\ ~ Says(c) => Fails(c)
                                     /\ Fails(c) => ~ Says(c) \/ Straddles(c)
  BY ArrayWithinVerdict
<1> QED BY <1>1, <1>2, <1>3, <1>4

\* Every call that a test makes is one of those that C lets it make.
LEMMA AskedLegal ==
  ASSUME UInv, asked # null
  PROVE  Legal(asked)
BY UnityAssumption DEF UInv, Functions

\* Each way of judging a call sets the flag as the call deserves.
LEMMA StepJudges ==
  ASSUME UInv, [Next]_vars, asked # null, asked' = null, ~ Flagged
  PROVE  Unity'.CurrentTestFailed = 1 <=> Fails(asked)
<1>2. Unity \in Counts /\ Unity.CurrentTestFailed = 0 /\ at \in Functions
  BY DEF UInv, Counts, Flagged
<1>3. CASE Holds
  BY <1>2, <1>3 DEF Holds
<1>4. CASE UnityFail
  <2>1. Unity' = [Unity EXCEPT !.CurrentTestFailed = 1] /\ Fails(asked)
    BY <1>4 DEF UnityFail, UNITY_FAIL_AND_BAIL
  <2>2. Unity'.CurrentTestFailed = 1
    BY <1>2, <2>1 DEF Counts
  <2> QED BY <2>1, <2>2
<1>5. CASE UnityIgnore
  <2>1. Unity' = [Unity EXCEPT !.CurrentTestIgnored = 1] /\ asked.fn = "Ignore"
    BY <1>5 DEF UnityIgnore
  <2>2. Unity'.CurrentTestFailed = 0
    BY <1>2, <2>1 DEF Counts
  <2>3. ~ Fails(asked)
    BY <2>1 DEF Fails
  <2> QED BY <2>2, <2>3
<1>6. CASE TEST_PASS
  <2>1. Unity' = Unity /\ asked.fn = "Pass"
    BY <1>6 DEF TEST_PASS
  <2>2. ~ Fails(asked)
    BY <2>1 DEF Fails
  <2> QED BY <1>2, <2>1, <2>2
<1>7. ~ (RUN_TEST \/ Call \/ Return \/ UnityConcludeTest \/ UnityEnd \/ Exited \/ vars' = vars)
  BY <1>2 DEF RUN_TEST, Call, Return, UnityConcludeTest, UnityEnd, Exited, vars, Functions
<1>8. ~ Again
  BY DEF Again, RETURN_IF_FAIL_OR_IGNORE
<1> QED BY <1>3, <1>4, <1>5, <1>6, <1>7, <1>8 DEF Next

\* For any tests and any calls that C lets them make, with operands and arrays of any
\* size and a delta in the range of its type, an assertion of Unity fails when what it
\* says is false; it fails although it is true only where it compares unsigned array
\* elements on both sides of the middle of their range.
THEOREM AssertionsCorrect == Spec => FailsWhenFalse
<1>1. UInv /\ [Next]_vars
        => [ asked # null /\ asked' = null /\ ~ Flagged /\ ~ DeltaCut(asked)
                => /\ ~ Says(asked) => Unity'.CurrentTestFailed = 1
                   /\ Unity'.CurrentTestFailed = 1 => ~ Says(asked) \/ Straddles(asked) ]_vars
  BY StepJudges, AskedLegal, VerdictRight
<1>2. Spec => [][ asked # null /\ asked' = null /\ ~ Flagged /\ ~ DeltaCut(asked)
                    => /\ ~ Says(asked) => Unity'.CurrentTestFailed = 1
                       /\ Unity'.CurrentTestFailed = 1 => ~ Says(asked) \/ Straddles(asked) ]_vars
  BY <1>1, AlwaysUInv, PTL DEF Spec
<1> QED BY <1>2 DEF FailsWhenFalse

-----------------------------------------------------------------------------
(* Reading back.                                                           *)

\* v holds what the first digits of d read as.
Reading(v, d, b, m) == v[0] = 0 /\ \A k \in 1 .. m : v[k] = b * v[k - 1] + d[k]

\* What obeys the recursion of Number is what it reads.
LEMMA ReadsAs ==
  ASSUME NEW b \in Int, NEW m \in Nat, NEW d, Len(d) = m,
         NEW v \in [0 .. m -> Int], Reading(v, d, b, m)
  PROVE  Number(d, b) = v[m]
<1> DEFINE P(g) == g = [i \in 0 .. m |-> IF i = 0 THEN 0 ELSE b * g[i - 1] + d[i]]
           g == CHOOSE h : P(h)
           w == [i \in 0 .. m |-> IF i = 0 THEN 0 ELSE b * v[i - 1] + d[i]]
<1>0. v[0] = 0 /\ \A k \in 1 .. m : v[k] = b * v[k - 1] + d[k]
  BY DEF Reading
<1>1. Number(d, b) = g[m]
  BY DEF Number
<1>2. \A i \in 0 .. m : v[i] = w[i]
  <2>1. ASSUME NEW i \in 0 .. m, i # 0 PROVE v[i] = b * v[i - 1] + d[i]
    <3>1. i \in 1 .. m
      BY <2>1
    <3> QED BY <1>0, <3>1
  <2> QED BY <1>0, <2>1
<1>3. v = w
  <2>1. v = [i \in 0 .. m |-> v[i]] /\ w = [i \in 0 .. m |-> w[i]]
    OBVIOUS
  <2> HIDE DEF w
  <2> QED BY <1>2, <2>1
<1>4. P(v)
  BY <1>3
<1>5. P(g)
  <2> HIDE DEF P
  <2> QED BY <1>4
<1>6. \A i \in 0 .. m : g[i] = IF i = 0 THEN 0 ELSE b * g[i - 1] + d[i]
  <2> DEFINE p == g
  <2>1. p = [i \in 0 .. m |-> IF i = 0 THEN 0 ELSE b * p[i - 1] + d[i]]
    BY <1>5
  <2> HIDE DEF p
  <2>2. \A i \in 0 .. m : p[i] = IF i = 0 THEN 0 ELSE b * p[i - 1] + d[i]
    BY <2>1
  <2> QED BY <2>2 DEF p
<1> HIDE DEF g
<1> DEFINE S == {k \in Nat : k <= m => g[k] = v[k]}
<1>7. \A k \in Nat : k \in S
  <2>1. 0 \in S
    <3>1. 0 \in 0 .. m
      OBVIOUS
    <3> QED BY <1>0, <1>6, <3>1
  <2>2. ASSUME NEW k \in Nat, k \in S PROVE k + 1 \in S
    <3>1. CASE k + 1 <= m
      <4>1. k + 1 \in 0 .. m /\ k + 1 \in 1 .. m /\ k + 1 # 0 /\ (k + 1) - 1 = k /\ k <= m
        BY <3>1
      <4>2. g[k] = v[k]
        BY <2>2, <4>1
      <4>3. g[k + 1] = b * g[k] + d[k + 1]
        BY <1>6, <4>1
      <4>4. v[k + 1] = b * v[k] + d[k + 1]
        BY <1>0, <4>1
      <4> QED BY <4>2, <4>3, <4>4
    <3> QED BY <3>1
  <2> HIDE DEF S
  <2> QED BY <2>1, <2>2, NatInSet
<1> QED BY <1>1, <1>7

\* The m digits of a number read back as its remainder.
LEMMA DigitsRead ==
  ASSUME NEW b \in Nat \ {0}, NEW m \in Nat, NEW u \in Nat, NEW d,
         d = [i \in 1 .. m |-> (u \div Power(b, m - i)) % b]
  PROVE  /\ d \in Seq(Int) /\ Len(d) = m
         /\ \A i \in 1 .. m : d[i] \in 0 .. b - 1
         /\ Number(d, b) = u % Power(b, m)
<1> DEFINE p(n) == Power(b, n)
           v == [i \in 0 .. m |-> (u \div p(m - i)) % p(i)]
<1>0. /\ p(0) = 1
      /\ \A n \in Nat : p(n) \in Nat \ {0} /\ p(n + 1) = b * p(n)
  BY PowerSteps
<1>1. d = [i \in 1 .. m |-> (u \div p(m - i)) % b]
  OBVIOUS
<1> HIDE DEF p
<1>2. \A i \in 0 .. m : u \div p(m - i) \in Nat
  <2>1. \A i \in 0 .. m : m - i \in Nat
    OBVIOUS
  <2>2. \A x \in Nat \ {0} : u \div x \in Nat
    BY Division
  <2> QED BY <1>0, <2>1, <2>2
<1>3. \A i \in 1 .. m : d[i] \in 0 .. b - 1
  <2>1. ASSUME NEW i \in 1 .. m PROVE (u \div p(m - i)) % b \in 0 .. b - 1
    <3> DEFINE w == u \div p(m - i)
    <3>1. w \in Int
      BY <1>2
    <3> HIDE DEF w
    <3>2. w % b \in 0 .. b - 1
      BY <3>1, Division
    <3> QED BY <3>2 DEF w
  <2> QED BY <1>1, <2>1
<1>4. d \in Seq(Int) /\ Len(d) = m
  <2>1. d \in [1 .. m -> Int]
    <3>1. d = [i \in 1 .. m |-> d[i]]
      BY <1>1
    <3>2. \A i \in 1 .. m : d[i] \in Int
      BY <1>3
    <3> QED BY <3>1, <3>2
  <2> HIDE <1>1
  <2> QED BY <2>1
<1>5. v \in [0 .. m -> Int]
  <2>1. ASSUME NEW i \in 0 .. m PROVE (u \div p(m - i)) % p(i) \in Int
    <3> DEFINE w == u \div p(m - i)
               q == p(i)
    <3>0. i \in Nat
      OBVIOUS
    <3>1. q \in Nat \ {0}
      BY <1>0, <3>0
    <3>2. w \in Nat
      BY <1>2
    <3> HIDE DEF w, q
    <3>3. w % q \in 0 .. q - 1
      BY <3>1, <3>2, Division
    <3>4. w % q \in Int
      BY <3>1, <3>3
    <3> QED BY <3>4 DEF w, q
  <2> QED BY <2>1
<1>6. v[0] = 0
  <2>1. v[0] = (u \div p(m - 0)) % 1
    BY <1>0
  <2>2. \A w \in Int : w % 1 = 0
    OBVIOUS
  <2>3. 0 \in 0 .. m
    OBVIOUS
  <2> QED BY <1>2, <2>1, <2>2, <2>3
<1>7. ASSUME NEW k \in 1 .. m PROVE v[k] = b * v[k - 1] + d[k]
  <2> DEFINE P == p(m - k)
             N == p(k - 1)
             w == u \div P
  <2>1. k - 1 \in 0 .. m /\ k \in 0 .. m /\ k - 1 \in Nat /\ (k - 1) + 1 = k
        /\ m - k \in Nat /\ m - (k - 1) = (m - k) + 1
    OBVIOUS
  <2>2. P \in Nat \ {0} /\ N \in Nat \ {0} /\ p(k) = b * N /\ p(m - (k - 1)) = b * P
    BY <1>0, <2>1
  <2>3. v[k] = w % (b * N) /\ v[k - 1] = (u \div (b * P)) % N /\ d[k] = w % b
    BY <1>1, <2>1, <2>2
  <2>4. w \in Int
    BY <1>2, <2>1
  <2> HIDE DEF P, N, v
  <2>5. w \div b = u \div (P * b) /\ P * b = b * P
    <3>0. u \in Int
      OBVIOUS
    <3>1. (u \div P) \div b = u \div (P * b)
      BY <2>2, <3>0, DivisionTwice, Zenon
    <3>2. P * b = b * P
      BY <2>2
    <3> QED BY <3>1, <3>2
  <2>6. b * ((w \div b) % N) + (w % b) = w % (b * N)
    <3> HIDE DEF w
    <3> QED BY <2>2, <2>4, DivisionTwice
  <2> QED BY <2>3, <2>5, <2>6
<1>8. Number(d, b) = v[m]
  <2> HIDE DEF v
  <2>1. b \in Int
    OBVIOUS
  <2>2. Reading(v, d, b, m)
    BY <1>6, <1>7 DEF Reading
  <2> QED BY <1>4, <1>5, <2>1, <2>2, ReadsAs
<1>9. v[m] = u % p(m)
  <2>1. m \in 0 .. m /\ m - m = 0
    OBVIOUS
  <2>2. u \div 1 = u
    OBVIOUS
  <2>3. v[m] = (u \div p(0)) % p(m)
    BY <2>1
  <2> QED BY <1>0, <2>2, <2>3
<1> QED BY <1>3, <1>4, <1>8, <1>9 DEF p

\* The divisor that UnityPrintNumberUnsigned stops at leaves one digit.
LEMMA DecimalRead ==
  ASSUME NEW number \in Nat, NEW text, text = UnityPrintNumberUnsigned(number)
  PROVE  text \in Seq(Int) /\ Len(text) >= 1 /\ text[1] # Minus /\ Number(text, 10) = number
<1> DEFINE p(n) == Power(10, n)
           Low(i) == number \div p(i) <= 9
           Q(i) == Low(i) /\ \A j \in 0 .. (i - 1) : ~ Low(j)
           k == CHOOSE i \in 0 .. number : Q(i)
           I == {i \in 0 .. number : Low(i)}
           m == k + 1
<1>0. 10 \in Nat \ {0} /\ \A n \in Nat : p(n) \in Nat \ {0} /\ p(n + 1) = 10 * p(n)
  BY PowerSteps
<1>1. p(number) > number
  BY TenAbove
<1>2. text = [i \in 1 .. (k + 1) |-> (number \div Power(10, k + 1 - i)) % 10]
  BY DEF UnityPrintNumberUnsigned
<1> HIDE DEF p
<1>3. number \in I
  <2>1. number \div p(number) = 0
    <3> DEFINE q == p(number)
    <3>1. q \in Nat \ {0} /\ number \in 0 .. q - 1
      BY <1>0, <1>1
    <3> HIDE DEF q
    <3>2. number \div q = 0
      BY <3>1, RemainderSmall
    <3> QED BY <3>2 DEF q
  <2> QED BY <2>1
<1>4. \E i \in 0 .. number : Q(i)
  <2>1. I \subseteq Nat /\ I # {}
    BY <1>3
  <2> HIDE DEF I
  <2>2. PICK i \in I : \A j \in I : i <= j
    BY <2>1, NatMin
  <2>3. i \in 0 .. number /\ Low(i)
    BY <2>2 DEF I
  <2>4. ASSUME NEW j \in 0 .. (i - 1) PROVE ~ Low(j)
    <3>1. j \in 0 .. number /\ ~ (i <= j)
      BY <2>3
    <3> HIDE DEF Low
    <3> QED BY <2>2, <3>1 DEF I
  <2> QED BY <2>3, <2>4
<1>5. k \in 0 .. number /\ Q(k)
  <2> HIDE DEF Q
  <2> QED BY <1>4
<1> HIDE DEF k, I
<1>6. m \in Nat /\ m >= 1 /\ k \in Nat
  BY <1>5
<1>7. number < p(m)
  <2> DEFINE q == p(k)
  <2>1. q \in Nat \ {0} /\ p(m) = 10 * q /\ number \div q <= 9
    BY <1>0, <1>5, <1>6
  <2> HIDE DEF q, m
  <2>2. PICK a \in Int, r \in 0 .. q - 1 : number = a * q + r /\ number \div q = a
    <3>0. number \in Int
      OBVIOUS
    <3>1. number % q \in 0 .. q - 1 /\ number \div q \in Int
          /\ number = (number \div q) * q + (number % q)
      BY <2>1, <3>0, Division, Zenon
    <3> QED BY <3>1
  <2>3. a * q <= 9 * q
    BY <2>1, <2>2
  <2>4. a * q \in Int /\ 9 * q \in Int
    BY <2>1, <2>2
  <2> QED BY <2>1, <2>2, <2>3, <2>4
<1>8. text = [i \in 1 .. m |-> (number \div Power(10, m - i)) % 10]
  BY <1>2, <1>6
<1> HIDE DEF m
<1> DEFINE b == 10
<1>9. /\ text \in Seq(Int) /\ Len(text) = m
      /\ \A i \in 1 .. m : text[i] \in 0 .. 10 - 1
      /\ Number(text, 10) = number % Power(10, m)
  <2>1. b \in Nat \ {0} /\ text = [i \in 1 .. m |-> (number \div Power(b, m - i)) % b]
    BY <1>8
  <2> HIDE DEF b
  <2>2. /\ text \in Seq(Int) /\ Len(text) = m
        /\ \A i \in 1 .. m : text[i] \in 0 .. b - 1
        /\ Number(text, b) = number % Power(b, m)
    BY <1>6, <2>1, DigitsRead
  <2> QED BY <2>2 DEF b
<1>10. text[1] # Minus
  <2>1. 1 \in 1 .. m
    BY <1>6
  <2>2. text[1] \in 0 .. 9
    BY <1>9, <2>1
  <2> QED BY <2>2 DEF Minus
<1>11. number % p(m) = number
  <2> DEFINE q == p(m)
  <2>1. q \in Nat \ {0} /\ number \in 0 .. q - 1
    BY <1>0, <1>6, <1>7
  <2> HIDE DEF q
  <2>2. number % q = number
    BY <2>1, RemainderSmall
  <2> QED BY <2>2 DEF q
<1> QED BY <1>6, <1>9, <1>10, <1>11 DEF p

\* A report in decimal without a sign is read as such.
LEMMA UnsignedRead ==
  ASSUME NEW number \in Nat, NEW style, style.range \in {"INT", "UINT"}
  PROVE  ReadBack(UnityPrintNumberUnsigned(number), style) = number
<1> DEFINE text == UnityPrintNumberUnsigned(number)
<1>1. text[1] # Minus /\ Number(text, 10) = number
  BY DecimalRead
<1> HIDE DEF text
<1>2. ReadBack(text, style) = Number(text, 10)
  BY <1>1 DEF ReadBack
<1> QED BY <1>1, <1>2 DEF text

\* A word reads back with its sign, the smallest one included.
LEMMA SignedRead ==
  ASSUME NEW number, Word(number), NEW style, style.range = "INT"
  PROVE  ReadBack(UnityPrintNumber(number), style) = number
<1> DEFINE M == Values(WordBytes)
<1>1. number \in Int /\ 2 * number < M /\ - M <= 2 * number
  BY DEF Word
<1>2. WordBytes \in Nat \ {0} /\ M \in Nat \ {0} /\ \E h \in Nat \ {0} : M = 2 * h
  BY AssertsAssumption, ValuesSplit
<1>3. CASE number < 0
  <2> DEFINE u == - number
             s == UnityPrintNumberUnsigned(u)
             text == <<Minus>> \o s
  <2>1. u \in 0 .. M - 1 /\ u \in Nat
    <3> HIDE DEF M
    <3> QED BY <1>1, <1>2, <1>3
  <2>2. Unsigned(u, WordBytes) = u
    BY <1>2, <2>1, UnsignedFits
  <2>3. UnityPrintNumber(number) = text
    BY <1>3, <2>2 DEF UnityPrintNumber
  <2> HIDE DEF u
  <2>4. s \in Seq(Int) /\ Number(s, 10) = u
    BY <2>1, DecimalRead
  <2> HIDE DEF s
  <2>5. Minus \in Int /\ <<Minus>> \in Seq(Int) /\ Len(<<Minus>>) = 1 /\ <<Minus>>[1] = Minus
    BY DEF Minus
  <2>6. text[1] = Minus /\ Tail(text) = s
    <3>1. text \in Seq(Int) /\ Len(text) = 1 + Len(s) /\ Len(s) \in Nat
          /\ \A i \in 1 .. 1 + Len(s) : text[i] = IF i <= 1 THEN Minus ELSE s[i - 1]
      BY <2>4, <2>5, ConcatProperties, LenProperties
    <3> HIDE DEF text
    <3>2. text[1] = Minus
      BY <3>1
    <3>3. text # <<>>
      BY <3>1
    <3>4. Tail(text) \in Seq(Int) /\ Len(Tail(text)) = Len(text) - 1
          /\ \A i \in 1 .. Len(Tail(text)) : Tail(text)[i] = text[i + 1]
      BY <3>1, <3>3, HeadTailProperties
    <3> DEFINE t == Tail(text)
               J == Int
    <3> HIDE DEF t
    <3>5. t \in Seq(Int) /\ Len(t) = Len(s)
      BY <3>1, <3>4 DEF t
    <3>6. \A i \in 1 .. Len(t) : t[i] = s[i]
      <4>1. ASSUME NEW i \in 1 .. Len(t) PROVE t[i] = s[i]
        <5>1. i + 1 \in 1 .. 1 + Len(s) /\ ~ (i + 1 <= 1) /\ (i + 1) - 1 = i
          BY <3>1, <3>5
        <5> QED BY <3>1, <3>4, <5>1 DEF t
      <4> QED BY <4>1
    <3>7. t = s
      <4>1. t \in Seq(J) /\ s \in Seq(J)
        BY <2>4, <3>5
      <4> HIDE DEF J
      <4> QED BY <3>5, <3>6, <4>1, SameSequence
    <3> QED BY <3>2, <3>7 DEF t
  <2> HIDE DEF text
  <2>7. ReadBack(text, style) = - Number(s, 10)
    BY <2>6 DEF ReadBack
  <2> QED BY <1>1, <2>3, <2>4, <2>7 DEF u
<1>4. CASE number >= 0
  <2>1. UnityPrintNumber(number) = UnityPrintNumberUnsigned(number)
    BY <1>1, <1>4 DEF UnityPrintNumber
  <2>2. number \in Nat
    BY <1>1, <1>4
  <2> QED BY <2>1, <2>2, UnsignedRead
<1> QED BY <1>1, <1>3, <1>4

\* Two digits a byte.
LEMMA HexRead ==
  ASSUME NEW number \in Nat, NEW size \in Nat \ {0}, NEW style, style.range \in {"HEX", "CHAR"}
  PROVE  ReadBack(UnityPrintNumberHex(number, 2 * size), style) = Unsigned(number, size)
<1> DEFINE m == 2 * size
           text == UnityPrintNumberHex(number, m)
<1>1. m \in Nat /\ Nibble \in Nat \ {0}
  BY AssertsAssumption
<1>2. text = [i \in 1 .. m |-> (number \div Power(Nibble, m - i)) % Nibble]
  BY DEF UnityPrintNumberHex
<1> HIDE DEF m, text
<1>3. /\ Number(text, Nibble) = number % Power(Nibble, m)
      /\ \A i \in 1 .. m : text[i] \in 0 .. Nibble - 1
  <2> DEFINE b == Nibble
  <2>1. b \in Nat \ {0} /\ text = [i \in 1 .. m |-> (number \div Power(b, m - i)) % b]
    BY <1>1, <1>2
  <2> HIDE DEF b
  <2>2. /\ \A i \in 1 .. m : text[i] \in 0 .. b - 1
        /\ Number(text, b) = number % Power(b, m)
    BY <1>1, <2>1, DigitsRead
  <2> QED BY <2>2 DEF b
<1>4. ReadBack(text, style) = Number(text, Nibble)
  <2>1. 1 \in 1 .. m
    BY DEF m
  <2>2. text[1] # Minus
    BY <1>1, <1>3, <2>1 DEF Minus
  <2> QED BY <2>2 DEF ReadBack
<1>5. Unsigned(number, size) = number % Power(Nibble, m)
  BY DEF Unsigned, Values, m
<1> QED BY <1>3, <1>4, <1>5 DEF text, m

\* What a printed word reads back as, in each style.
LEMMA StyleRead ==
  ASSUME NEW style \in Styles, NEW number \in Int, NEW read,
         read = ReadBack(UnityPrintNumberByStyle(number, style), style)
  PROVE  /\ style.range = "INT" /\ Word(number) => read = number
         /\ style.range = "UINT" => read = Unsigned(number, WordBytes)
         /\ style.range \in {"HEX", "CHAR"} => read = Unsigned(number, style.size)
<1> DEFINE w == WordBytes
           s == style.size
           u == Unsigned(number, w)
           P == UnityPrintNumberByStyle(number, style)
<1>1. w \in Nat \ {0} /\ s \in 1 .. w /\ s \in Nat \ {0}
  BY StyleSizes
<1>2. u \in Nat
  <2>1. u \in 0 .. Values(w) - 1 /\ Values(w) \in Nat
    BY <1>1, Converted
  <2> HIDE DEF u
  <2> QED BY <2>1
<1>3. Unsigned(u, s) = Unsigned(number, s)
  BY <1>1, LowBytes
<1>4. ASSUME style.range = "INT", Word(number) PROVE read = number
  <2>1. P = UnityPrintNumber(number)
    BY <1>4 DEF UnityPrintNumberByStyle
  <2> QED BY <1>4, <2>1, SignedRead
<1>5. ASSUME style.range = "UINT" PROVE read = u
  <2>1. P = UnityPrintNumberUnsigned(u)
    BY <1>5 DEF UnityPrintNumberByStyle
  <2>2. read = ReadBack(UnityPrintNumberUnsigned(u), style)
    BY <2>1
  <2> HIDE DEF u
  <2> QED BY <1>2, <1>5, <2>2, UnsignedRead
<1>6. ASSUME style.range \in {"HEX", "CHAR"} PROVE read = Unsigned(number, s)
  <2>1. P = UnityPrintNumberHex(u, 2 * s)
    <3>1. style.range = "CHAR" => s = 1 /\ 2 * s = 2
      BY StyleSizes
    <3> HIDE DEF u
    <3>2. style.range = "HEX" => P = UnityPrintNumberHex(u, 2 * s)
      BY DEF UnityPrintNumberByStyle, u
    <3>3. style.range = "CHAR" => P = UnityPrintNumberHex(u, 2)
      BY DEF UnityPrintNumberByStyle, u
    <3> QED BY <1>6, <3>1, <3>2, <3>3
  <2>2. read = ReadBack(UnityPrintNumberHex(u, 2 * s), style)
    BY <2>1
  <2> HIDE DEF u
  <2>3. read = Unsigned(u, s)
    <3> HIDE DEF s
    <3> QED BY <1>1, <1>2, <1>6, <2>2, HexRead
  <2> QED BY <1>3, <2>3
<1> QED BY <1>4, <1>5, <1>6

\* Both operands of TEST_ASSERT_EQUAL_... are named as they are.
LEMMA OperandShown ==
  ASSUME NEW style \in Styles, NEW x \in Int
  PROVE  ReadBack(UnityPrintNumberByStyle(Operand(x, style, "EQUAL"), style), style) = Named(x, style)
<1> DEFINE w == WordBytes
           s == style.size
           o == Operand(x, style, "EQUAL")
           read == ReadBack(UnityPrintNumberByStyle(o, style), style)
<1>1. w \in Nat \ {0} /\ s \in 1 .. w /\ s \in Nat \ {0} /\ s \in 1 .. s
      /\ style.range \in {"INT", "UINT", "HEX", "CHAR"} /\ (style.plain => style.range \in {"INT", "UINT"})
  BY StyleSizes
<1>2. CASE style.range \in {"INT", "UINT"}
  <2>1. o = Operand(x, style, "COMPARE")
    BY <1>2 DEF Operand
  <2>2. Word(o) /\ Ordered(o, style) = Value(x, style)
    <3> DEFINE q == Operand(x, style, "COMPARE")
    <3>1. Word(q) /\ Ordered(q, style) = Value(x, style)
      BY OperandOrder
    <3> QED BY <2>1, <3>1
  <2>3. Named(x, style) = Value(x, style)
    BY <1>2 DEF Named
  <2>4. style.range = "INT" => Ordered(o, style) = o
    BY DEF Ordered, RangeInt
  <2>5. style.range = "UINT" => Ordered(o, style) = Unsigned(o, w)
    BY DEF Ordered, RangeInt
  <2>6. o \in Int
    BY <2>2 DEF Word
  <2> HIDE DEF o
  <2>7. /\ style.range = "INT" => read = o
        /\ style.range = "UINT" => read = Unsigned(o, w)
    BY <2>2, <2>6, StyleRead
  <2> QED BY <1>2, <2>2, <2>3, <2>4, <2>5, <2>7 DEF o
<1>3. CASE style.range \in {"HEX", "CHAR"}
  <2>1. o = Signed(x, s)
    BY <1>1, <1>3 DEF Operand, RangeInt
  <2>2. o \in Int /\ Unsigned(o, s) = Unsigned(x, s)
    <3>1. Signed(x, s) \in Int
      BY <1>1, Converted
    <3>2. Unsigned(Signed(x, s), s) = Unsigned(x, s)
      BY <1>1, LowBytes
    <3> QED BY <2>1, <3>1, <3>2
  <2>3. Named(x, style) = Unsigned(x, s)
    BY <1>3 DEF Named
  <2> HIDE DEF o
  <2>4. read = Unsigned(o, s)
    BY <1>3, <2>2, StyleRead
  <2> QED BY <2>2, <2>3, <2>4 DEF o
<1> QED BY <1>1, <1>2, <1>3

\* An element that a report on an array names.
LEMMA ElementShown ==
  ASSUME NEW style \in Styles, NEW p, p # null, NEW n \in Nat, NEW i \in 1 .. n,
         IsArray(p, n, 0 .. (Values(style.size) - 1))
  PROVE  ShownElement(p, i, style)
<1> DEFINE w == WordBytes
           s == style.size
           range == style.range
           of == [style EXCEPT !.plain = FALSE]
           x == p.cells[i]
           e == Element(p, i, style)
           value == ReportedElement(e, style)
           read == ReadBack(UnityPrintNumberByStyle(value, of), of)
<1>1. w \in Nat \ {0} /\ s \in 1 .. w /\ s \in Nat \ {0} /\ s \in 1 .. s
      /\ range \in {"INT", "UINT", "HEX", "CHAR"}
      /\ of.range = range /\ of.size = s /\ of.plain = FALSE
  BY StyleSizes
<1>2. of \in Styles
  BY DEF Styles
<1>3. x \in Int /\ Unsigned(x, s) = x /\ e = Signed(x, s) /\ Word(e)
  BY ElementRight
<1>4. Unsigned(e, s) = x
  BY <1>1, <1>3, LowBytes
<1>5. Unsigned(x, w) = x
  <2> HIDE DEF x
  <2>1. Unsigned(x, s) \in 0 .. Values(w) - 1
    BY <1>1, <1>3, UnsignedInWord
  <2> QED BY <1>1, <1>3, <2>1, UnsignedFits
<1>6. ShownElement(p, i, style)
         <=> IF Short(of) THEN read = Named(x, of) ELSE Unsigned(read, s) = Named(x, of)
  BY <1>1 DEF ShownElement, Shown
<1>7. Short(of) <=> range # "UINT" \/ s < IntBytes \/ s = w
  BY <1>1 DEF Short
<1>8. Named(x, of) = IF range = "INT" THEN Signed(x, s) ELSE Unsigned(x, s)
  BY <1>1 DEF Named, Value, RangeInt
<1>9. value = IF range = "UINT" /\ s < IntBytes THEN Unsigned(e, s) ELSE e
  BY DEF ReportedElement
<1> HIDE DEF x, e, value
<1>10. value \in Int /\ e \in Int
  BY <1>3, <1>4, <1>9 DEF Word
<1>11. /\ range = "INT" /\ Word(value) => read = value
       /\ range = "UINT" => read = Unsigned(value, w)
       /\ range \in {"HEX", "CHAR"} => read = Unsigned(value, s)
  BY <1>1, <1>2, <1>10, StyleRead
<1> HIDE DEF read, of
<1>12. CASE range = "INT"
  BY <1>3, <1>6, <1>7, <1>8, <1>9, <1>11, <1>12
<1>13. CASE range \in {"HEX", "CHAR"}
  BY <1>3, <1>4, <1>6, <1>7, <1>8, <1>9, <1>11, <1>13
<1>14. CASE range = "UINT" /\ s < IntBytes
  BY <1>3, <1>4, <1>5, <1>6, <1>7, <1>8, <1>9, <1>11, <1>14
<1>15. CASE range = "UINT" /\ ~ (s < IntBytes) /\ s = w
  <2>1. read = Unsigned(e, s)
    BY <1>9, <1>11, <1>15
  <2> QED BY <1>3, <1>4, <1>6, <1>7, <1>8, <1>15, <2>1
<1>16. CASE range = "UINT" /\ ~ (s < IntBytes) /\ s # w
  <2>1. read = Unsigned(e, w)
    BY <1>9, <1>11, <1>16
  <2>2. Unsigned(Unsigned(e, w), s) = Unsigned(e, s)
    BY <1>1, <1>10, LowBytes
  <2> QED BY <1>3, <1>4, <1>6, <1>7, <1>8, <1>16, <2>1, <2>2
<1> QED BY <1>1, <1>12, <1>13, <1>14, <1>15, <1>16

\* The walk over two arrays stops at the first pair that differs.
LEMMA FirstDiffers ==
  ASSUME NEW c, Legal(c), c.fn = "EqualIntArray", Fails(c), c.n > 0, c.expected # null,
         c.actual # null, NEW i,
         i = ReportedIndex(c.expected, c.actual, c.n, c.style, "ARRAY_TO_ARRAY") + 1
  PROVE  /\ i \in 1 .. c.n
         /\ c.expected.cells[i] # c.actual.cells[i]
         /\ \A j \in 1 .. (i - 1) : c.expected.cells[j] = c.actual.cells[j]
<1> DEFINE e == c.expected
           a == c.actual
           n == c.n
           D == {j \in 1 .. n : Element(e, j, c.style) # Element(a, j, c.style)}
<1>1. n \in Nat
  BY DEF Legal
<1>2. Fails(c) <=> IF SamePointer(e, a) \/ UnityIsOneArrayNull(e, a)
                   THEN n = 0 \/ UnityIsOneArrayNull(e, a)
                   ELSE n = 0 \/ D # {}
  BY DEF Fails, UnityAssertEqualIntArray, ArrayFails, ExpectedAt
<1>3. D # {}
  <2> HIDE DEF D, e, a, n
  <2>1. ~ UnityIsOneArrayNull(e, a)
    BY DEF UnityIsOneArrayNull, e, a
  <2>2. n # 0
    BY <1>1 DEF n
  <2> QED BY <1>2, <2>1, <2>2
<1>4. i = (Min(D) - 1) + 1
  BY DEF ReportedIndex, ExpectedAt
<1>5. \A j \in 1 .. n : Element(e, j, c.style) = Element(a, j, c.style) <=> e.cells[j] = a.cells[j]
  BY SameElements
<1>6. D \subseteq Nat
  BY <1>1
<1>7. D = {j \in 1 .. n : e.cells[j] # a.cells[j]}
  BY <1>5
<1> HIDE DEF D
<1>8. Min(D) \in D /\ \A j \in D : Min(D) <= j
  BY <1>3, <1>6, MinLeast
<1>9. i = Min(D) /\ i \in 1 .. n
  BY <1>1, <1>4, <1>6, <1>7, <1>8
<1>10. e.cells[i] # a.cells[i]
  BY <1>7, <1>8, <1>9
<1>11. ASSUME NEW j \in 1 .. (i - 1) PROVE e.cells[j] = a.cells[j]
  <2>1. j \in 1 .. n /\ ~ (i <= j)
    BY <1>1, <1>9
  <2>2. j \notin D
    BY <1>8, <1>9, <2>1
  <2> QED BY <1>7, <2>1, <2>2
<1> QED BY <1>9, <1>10, <1>11

\* For any two numbers and any two arrays of numbers, of every width and style:
\* the report of a failed equality names the first pair that differs, and what
\* it prints reads back as the values of that pair.
THEOREM ReportCorrect == Spec => []ReportShowsWhy
<1>1. UInv => ReportShowsWhy
  <2> SUFFICES ASSUME UInv, asked # null PROVE ReportShowsWhy
    BY DEF ReportShowsWhy
  <2>1. Legal(asked)
    BY AskedLegal
  <2>2. ASSUME asked.fn = "EqualNumber", NEW x \in {asked.expected, asked.actual}
        PROVE  ReadBack(UnityPrintNumberByStyle(Operand(x, asked.style, "EQUAL"), asked.style),
                        asked.style) = Named(x, asked.style)
    <3>1. x \in Int /\ asked.style \in Styles
      BY <2>1, <2>2 DEF Legal
    <3> QED BY <3>1, OperandShown
  <2>3. ASSUME asked.fn = "EqualIntArray", Fails(asked), asked.n > 0, asked.expected # null,
               asked.actual # null, NEW i,
               i = ReportedIndex(asked.expected, asked.actual, asked.n, asked.style,
                                 "ARRAY_TO_ARRAY") + 1
        PROVE  /\ asked.expected.cells[i] # asked.actual.cells[i]
               /\ \A j \in 1..(i - 1) : asked.expected.cells[j] = asked.actual.cells[j]
               /\ ShownElement(asked.expected, i, asked.style)
               /\ ShownElement(asked.actual, i, asked.style)
    <3>1. /\ i \in 1 .. asked.n
          /\ asked.expected.cells[i] # asked.actual.cells[i]
          /\ \A j \in 1 .. (i - 1) : asked.expected.cells[j] = asked.actual.cells[j]
      BY <2>1, <2>3, FirstDiffers
    <3>2. /\ asked.style \in Styles /\ asked.n \in Nat
          /\ IsArray(asked.actual, asked.n, 0 .. (Values(asked.style.size) - 1))
          /\ IsArray(asked.expected, asked.n, 0 .. (Values(asked.style.size) - 1))
      BY <2>1, <2>3 DEF Legal
    <3>3. ShownElement(asked.expected, i, asked.style) /\ ShownElement(asked.actual, i, asked.style)
      BY <2>3, <3>1, <3>2, ElementShown
    <3> QED BY <3>1, <3>3
  <2> QED BY <2>2, <2>3 DEF ReportShowsWhy
<1> QED BY <1>1, AlwaysUInv, PTL
=============================================================================
