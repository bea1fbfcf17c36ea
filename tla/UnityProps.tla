----------------------------- MODULE UnityProps ------------------------------
(***************************************************************************)
(* What the author of a unit test may rely on: that an assertion fails     *)
(* when what it says is false and, with one exception, only then, that the *)
(* report of a failure shows why, and that the counts, the verdict lines   *)
(* and the exit status agree.                                              *)
(***************************************************************************)
EXTENDS Unity

\* Every variable stays in its type.
TypeOK ==
    /\ Unity \in [NumberOfTests : 0..MaxTests, TestFailures : 0..MaxTests,
                  TestIgnores : 0..MaxTests, CurrentTestFailed : {0, 1},
                  CurrentTestIgnored : {0, 1}]
    /\ at \in {"main", "conclude", "exited"} \cup Functions
    /\ asked = null \/ (at \in Functions /\ asked \in Calls[at])
    /\ printed \in [PASS : 0..MaxTests, FAIL : 0..MaxTests, IGNORE : 0..MaxTests]
    /\ status \in {null} \cup (0..MaxTests)

\* Once a test has failed or was ignored, none of its statements runs any more:
\* only tearDown is left.
NothingAfterVerdict == Flagged => at \in {"tearDown", "conclude"}

\* Every test prints one verdict line and is counted once, under that verdict;
\* a failure in tearDown neither adds to one of the body nor replaces an
\* ignored test's verdict; the exit status is the number of FAIL lines.
OneVerdict ==
    /\ printed.FAIL = Unity.TestFailures + Unity.CurrentTestFailed
    /\ printed.IGNORE = Unity.TestIgnores + Unity.CurrentTestIgnored
    /\ printed.PASS + printed.FAIL + printed.IGNORE
          = Unity.NumberOfTests - (IF at \in Functions \cup {"conclude"} /\ ~ Flagged THEN 1 ELSE 0)
    /\ at = "exited" => status = printed.FAIL

-----------------------------------------------------------------------------
(* What the calls say, of the values that their operands have in the type  *)
(* that the macro names.                                                   *)
Value(x, style) ==
    LET bytes == IF style.plain THEN WordBytes ELSE style.size
    IN  IF RangeInt(style) THEN Signed(x, bytes) ELSE Unsigned(x, bytes)

(* An array holds elements of the size of its style.                       *)
ElementValue(x, style) == Value(x, [style EXCEPT !.plain = FALSE])

Distance(x, y) == IF x > y THEN x - y ELSE y - x

Relation(x, y, compare) ==
    CASE compare = {} -> y # x
      [] compare = {"GREATER_THAN"} -> y > x
      [] compare = {"SMALLER_THAN"} -> y < x
      [] compare = {"EQUAL_TO", "GREATER_THAN"} -> y >= x
      [] OTHER -> y =< x

Close(x, y, delta, style) ==
    Distance(ElementValue(x, style), ElementValue(y, style)) =< delta

OfArray(c, Pair(_)) ==
    /\ c.n > 0
    /\ IF c.expected = null \/ c.actual = null THEN SamePointer(c.expected, c.actual)
       ELSE SamePointer(c.expected, c.actual) \/ \A i \in 1..c.n : Pair(i)

Says(c) ==
    CASE c.fn = "EqualNumber" -> Value(c.expected, c.style) = Value(c.actual, c.style)
      [] c.fn = "GreaterOrLess" ->
            Relation(Value(c.expected, c.style), Value(c.actual, c.style), c.compare)
      [] c.fn = "NumbersWithin" ->
            Distance(Value(c.expected, c.style), Value(c.actual, c.style))
                =< c.delta
      [] c.fn = "EqualIntArray" ->
            LET Pair(i) == c.expected.cells[i] = c.actual.cells[i] IN OfArray(c, Pair)
      [] c.fn = "EachEqual" ->
            c.n > 0 /\ c.actual # null
                /\ \A i \in 1..c.n : ElementValue(c.actual.cells[i], c.style)
                                        = ElementValue(c.expected, c.style)
      [] c.fn = "NumbersArrayWithin" ->
            LET Pair(i) == Close(c.expected.cells[i], c.actual.cells[i], c.delta, c.style)
            IN  OfArray(c, Pair)
      [] c.fn = "EqualString" -> c.expected = c.actual
      [] c.fn = "EqualStringLen" ->
            IF c.expected = null \/ c.actual = null THEN c.expected = c.actual
            ELSE SubSeq(c.expected, 1, Min({c.n, Len(c.expected)}))
                    = SubSeq(c.actual, 1, Min({c.n, Len(c.actual)}))
      [] c.fn = "EqualStringArray" ->
            LET Pair(i) == c.actual.cells[i] = IF c.flags = "ARRAY_TO_VAL" THEN c.expected.cells
                                               ELSE c.expected.cells[i]
            IN  OfArray(c, Pair)
      [] c.fn = "EqualMemory" ->
            LET Block(p, i) == SubSeq(p.cells, (i - 1) * c.length + 1, i * c.length)
                Pair(i) == Block(c.actual, i)
                              = Block(c.expected, IF c.flags = "ARRAY_TO_VAL" THEN 1 ELSE i)
            IN  c.length > 0 /\ OfArray(c, Pair)
      [] c.fn = "Fail" -> FALSE
      [] OTHER -> TRUE

(* The framework extends the sign of array elements of every style, so two *)
(* unsigned ones on different sides of the middle count as farther apart   *)
(* than they are, unless they are as wide as a UNITY_INT.                  *)
Straddle(x, y, style) ==
    ~ RangeInt(style) /\ (Signed(x, style.size) < 0) # (Signed(y, style.size) < 0)

Straddles(c) ==
    /\ c.fn = "NumbersArrayWithin" /\ c.expected # null /\ c.actual # null
    /\ c.style.size < WordBytes
    /\ \E i \in 1..c.n : Straddle(c.expected.cells[i], c.actual.cells[i], c.style)

(* The macro converts a delta that is not in the range of its type.        *)
DeltaCut(c) ==
    \/ c.fn = "NumbersWithin" /\ Delta(c.delta, c.style, "WITHIN") # c.delta
    \/ c.fn = "NumbersArrayWithin" /\ Delta(c.delta, c.style, "ARRAY_WITHIN") # c.delta

\* A call that is judged fails its test when what it says is false, and only then:
\* comparisons are those of the integers that the operands stand for, at the ends of
\* every width too, and those of arrays, strings and memory go as far as they should
\* and no further.  Two exceptions: nothing is said of a delta that the macro cuts,
\* and an assertion that unsigned array elements are close may fail although it is
\* true, if a pair lies on both sides of the middle of its range.
FailsWhenFalse ==
    [][ asked # null /\ asked' = null /\ ~ Flagged /\ ~ DeltaCut(asked)
           => /\ ~ Says(asked) => Unity'.CurrentTestFailed = 1
              /\ Unity'.CurrentTestFailed = 1 => ~ Says(asked) \/ Straddles(asked) ]_vars

-----------------------------------------------------------------------------
(* Reading back what a report prints.                                      *)
Number(digits, base) ==
    LET value[i \in 0..Len(digits)] == IF i = 0 THEN 0 ELSE base * value[i - 1] + digits[i]
    IN  value[Len(digits)]

ReadBack(text, style) ==
    CASE style.range \in {"HEX", "CHAR"} -> Number(text, Nibble)
      [] text[1] = Minus -> - Number(Tail(text), 10)
      [] OTHER -> Number(text, 10)

(* The value that a report names is that of an element of its type, in hex *)
(* and for characters its bits.                                            *)
Named(x, style) ==
    IF style.range \in {"HEX", "CHAR"} THEN Unsigned(x, style.size) ELSE Value(x, style)

(* The sign extension stays in reports on unsigned elements as long as an  *)
(* int: these read back modulo the element's size only.                    *)
Short(style) == style.range # "UINT" \/ style.size < IntBytes \/ style.size = WordBytes

Shown(value, x, style) ==
    LET read == ReadBack(UnityPrintNumberByStyle(value, style), style)
        of == Named(x, style)
    IN  IF Short(style) THEN read = of ELSE Unsigned(read, style.size) = of

ShownElement(pointer, i, style) ==
    Shown(ReportedElement(Element(pointer, i, style), style), pointer.cells[i],
          [style EXCEPT !.plain = FALSE])

\* The report on a failed equality names the first pair that differs, and the
\* two numbers that it prints read back as the values of that pair.
ReportShowsWhy ==
    asked # null =>
        /\ asked.fn = "EqualNumber" /\ Fails(asked) =>
              \A x \in {asked.expected, asked.actual} :
                  ReadBack(UnityPrintNumberByStyle(Operand(x, asked.style, "EQUAL"), asked.style),
                           asked.style) = Named(x, asked.style)
        /\ asked.fn = "EqualIntArray" /\ Fails(asked) /\ asked.n > 0
              /\ asked.expected # null /\ asked.actual # null =>
              LET i == ReportedIndex(asked.expected, asked.actual, asked.n, asked.style,
                                     "ARRAY_TO_ARRAY") + 1
              IN  /\ asked.expected.cells[i] # asked.actual.cells[i]
                  /\ \A j \in 1..(i - 1) : asked.expected.cells[j] = asked.actual.cells[j]
                  /\ ShownElement(asked.expected, i, asked.style)
                  /\ ShownElement(asked.actual, i, asked.style)
=============================================================================
