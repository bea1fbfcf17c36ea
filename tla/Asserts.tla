------------------------------- MODULE Asserts -------------------------------
(* The assertions of the unit-test framework that the makefile links into     *)
(* build/tests.out: the conversions of the TEST_ASSERT macros, the verdict of *)
(* each UnityAssert function (TRUE when it fails the test) and the numbers    *)
(* its report prints. Integers keep their width: a UNITY_INT has WordBytes    *)
(* bytes and an element of an array or a converted operand has style.size.    *)
EXTENDS Integers, Sequences, FiniteSetsExt
CONSTANTS
    null,           \* the NULL pointer
    Nibble,         \* values of a hexadecimal digit, two of which make a byte: 16
    IntBytes,       \* UNITY_INT_WIDTH / 8: 4
    WordBytes       \* sizeof(UNITY_INT): 8

ASSUME AssertsAssumption ==
    /\ {Nibble, IntBytes, WordBytes} \subseteq Nat \ {0}
    /\ Nibble % 2 = 0 /\ IntBytes < WordBytes

-----------------------------------------------------------------------------
(* b to the power n.                                                          *)
Power(b, n) ==
    LET power[k \in Nat] == IF k = 0 THEN 1 ELSE b * power[k - 1]
    IN  power[n]

(* Integer conversions of C: to unsigned and to signed integers of n bytes,   *)
(* which have so many values.                                                 *)
Values(n) == Power(Nibble, 2 * n)

Unsigned(x, n) == x % Values(n)

Signed(x, n) == LET u == Unsigned(x, n)
                IN  IF 2 * u < Values(n) THEN u ELSE u - Values(n)

(* A display style: a range, a size, and whether the macro converts its       *)
(* operands to that size (TEST_ASSERT_..._INT and _UINT leave them alone).    *)
Styles ==
    {style \in [range : {"INT", "UINT", "HEX", "CHAR"}, size : 1..WordBytes, plain : BOOLEAN] :
        /\ style.range = "CHAR" => style.size = 1
        /\ style.plain => style.range \in {"INT", "UINT"} /\ style.size = IntBytes}

(* style & UNITY_DISPLAY_RANGE_INT: CHAR sets that bit as well.               *)
RangeInt(style) == style.range \in {"INT", "CHAR"}

(* The operand of an assertion on numbers, as a UNITY_INT. Equality converts  *)
(* HEX operands as signed ones, the others as unsigned ones.                  *)
Operand(x, style, macro) ==
    IF \/ style.plain
       \/ RangeInt(style)
       \/ style.range = "HEX" /\ macro = "EQUAL"
    THEN Signed(x, IF style.plain THEN WordBytes ELSE style.size)
    ELSE Signed(Unsigned(x, style.size), WordBytes)

(* The delta of an assertion that two numbers are close, as a UNITY_UINT: the *)
(* macro on arrays of UINT8 converts it to two bytes instead of one.          *)
Delta(x, style, macro) ==
    Unsigned(x, IF style.plain THEN WordBytes
                ELSE IF macro = "ARRAY_WITHIN" /\ style.range = "UINT" /\ style.size = 1
                THEN 2 ELSE style.size)

(* What an ordered comparison compares: the value, or its unsigned image.     *)
Ordered(x, style) == IF RangeInt(style) THEN x ELSE Unsigned(x, WordBytes)

-----------------------------------------------------------------------------
(* Assertions on numbers. compare is the set of bits of UNITY_COMPARISON_T.   *)
UnityAssertEqualNumber(expected, actual) == expected # actual

UnityAssertGreaterOrLessOrEqualNumber(threshold, actual, compare, style) ==
    \/ threshold = actual /\ "EQUAL_TO" \notin compare
    \/ /\ Ordered(actual, style) > Ordered(threshold, style)
       /\ "SMALLER_THAN" \in compare
    \/ /\ Ordered(actual, style) < Ordered(threshold, style)
       /\ "GREATER_THAN" \in compare

\* Mutant of UnityAssertNumbersWithin: the difference is a signed number.
SignedDifference(delta, expected, actual, style) ==
    IF Ordered(actual, style) > Ordered(expected, style)
    THEN Signed(actual - expected, WordBytes) > delta
    ELSE Signed(expected - actual, WordBytes) > delta

UnityAssertNumbersWithin(delta, expected, actual, style) ==
    IF Ordered(actual, style) > Ordered(expected, style)
    THEN Unsigned(actual - expected, WordBytes) > delta
    ELSE Unsigned(expected - actual, WordBytes) > delta

-----------------------------------------------------------------------------
(* Assertions on arrays. A pointer is null or an address with the cells that  *)
(* are stored from there on; every cell holds the bits of one element.        *)
Element(pointer, i, style) == Signed(pointer.cells[i], style.size)

UnityNumToPtr(num, size) == [at |-> "UnityQuickCompare", cells |-> <<Unsigned(num, size)>>]

(* The expected value stays at the first element in UNITY_ARRAY_TO_VAL.       *)
ExpectedAt(i, flags) == IF flags = "ARRAY_TO_ARRAY" THEN i ELSE 1

SamePointer(p, q) == IF p = null \/ q = null THEN p = q ELSE p.at = q.at

UnityIsOneArrayNull(expected, actual) ==
    ~ SamePointer(expected, actual) /\ (expected = null \/ actual = null)

(* The checks that precede the loop over n elements, of which Differ(i) tells *)
(* whether the i-th pair fails.                                               *)
ArrayFails(expected, actual, n, Differ(_)) ==
    IF SamePointer(expected, actual) \/ UnityIsOneArrayNull(expected, actual)
    THEN n = 0 \/ UnityIsOneArrayNull(expected, actual)
    ELSE n = 0 \/ \E i \in 1..n : Differ(i)

UnityAssertEqualIntArray(expected, actual, n, style, flags) ==
    LET Differ(i) == Element(expected, ExpectedAt(i, flags), style) # Element(actual, i, style)
    IN  ArrayFails(expected, actual, n, Differ)

UnityAssertNumbersArrayWithin(delta, expected, actual, n, style, flags) ==
    LET Differ(i) == UnityAssertNumbersWithin(
                         delta, Element(expected, ExpectedAt(i, flags), style),
                         Element(actual, i, style), style)
    IN  ArrayFails(expected, actual, n, Differ)

-----------------------------------------------------------------------------
(* Assertions on strings and memory. A string is null or its characters; the  *)
(* terminating NUL reads as 0.                                                *)
CharAt(s, i) == IF i <= Len(s) THEN s[i] ELSE 0

(* The loop runs while either string has a character, at most to length.      *)
StringsDiffer(expected, actual, length) ==
    IF expected = null \/ actual = null
    THEN expected # actual
    ELSE \E i \in 1..Min({length, Max({Len(expected), Len(actual)})}) :
            CharAt(expected, i) # CharAt(actual, i)

UnityAssertEqualString(expected, actual) ==
    IF expected = null \/ actual = null
    THEN expected # actual
    ELSE StringsDiffer(expected, actual, Max({Len(expected), Len(actual)}))

UnityAssertEqualStringLen(expected, actual, length) == StringsDiffer(expected, actual, length)

(* In UNITY_ARRAY_TO_VAL expected is the string itself, not an array of them. *)
UnityAssertEqualStringArray(expected, actual, n, flags) ==
    LET Expd(j) == IF flags = "ARRAY_TO_ARRAY" THEN expected.cells[j] ELSE expected.cells
        Differ(j) == UnityAssertEqualString(Expd(j), actual.cells[j])
    IN  ArrayFails(expected, actual, n, Differ)

(* n elements of length bytes; ARRAY_TO_VAL rewinds expected after each one.  *)
UnityAssertEqualMemory(expected, actual, length, n, flags) ==
    LET ByteAt(i, j) == (i - 1) * length + j
        Differ(i) == \E j \in 1..length :
            expected.cells[ByteAt(ExpectedAt(i, flags), j)] # actual.cells[ByteAt(i, j)]
    IN  \/ length = 0
        \/ ArrayFails(expected, actual, n, Differ)

-----------------------------------------------------------------------------
(* The numbers of a report, as the digits they are printed with. The first    *)
(* divisor is the least power of ten that leaves one digit.                   *)
UnityPrintNumberUnsigned(number) ==
    LET OneDigit(i) == number \div Power(10, i) <= 9
        k == CHOOSE i \in 0..number : OneDigit(i) /\ \A j \in 0..(i - 1) : ~ OneDigit(j)
    IN  [i \in 1..(k + 1) |-> (number \div Power(10, k + 1 - i)) % 10]

Minus == -1

UnityPrintNumber(number) ==
    IF number < 0
    THEN <<Minus>> \o UnityPrintNumberUnsigned(Unsigned(-number, WordBytes))
    ELSE UnityPrintNumberUnsigned(number)

(* Two nibbles for a byte, at most UNITY_MAX_NIBBLES.                         *)
UnityPrintNumberHex(number, nibbles) ==
    [i \in 1..nibbles |-> (number \div Power(Nibble, nibbles - i)) % Nibble]

(* A character is shown as its code, whichever form it is printed in; the     *)
(* prefix of a hexadecimal number and the quotes are left out.                *)
UnityPrintNumberByStyle(number, style) ==
    LET unsigned == Unsigned(number, WordBytes)
    IN  CASE style.range = "INT" -> UnityPrintNumber(number)
          [] style.range = "UINT" -> UnityPrintNumberUnsigned(unsigned)
          [] style.range = "CHAR" -> UnityPrintNumberHex(unsigned, 2)
          [] style.range = "HEX" -> UnityPrintNumberHex(unsigned, 2 * style.size)

\* Mutant of ReportedElement: the sign extension is printed.
StillExtended(value, style) == value

(* A report on an element of an unsigned array first removes the sign         *)
(* extension of the value, if the element is shorter than an int.             *)
ReportedElement(value, style) ==
    IF style.range = "UINT" /\ style.size < IntBytes THEN Unsigned(value, style.size) ELSE value

(* The index, counted from 0, of the element that a report names.             *)
ReportedIndex(expected, actual, n, style, flags) ==
    Min({i \in 1..n : Element(expected, ExpectedAt(i, flags), style) # Element(actual, i, style)}) - 1
=============================================================================
