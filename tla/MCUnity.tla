------------------------------- MODULE MCUnity -------------------------------
(***************************************************************************)
(* Unity with bytes of four values, ints of two and UNITY_INTs of four.    *)
(* The test calls every assertion, with operands at the ends of each size; *)
(* setUp and tearDown make one call of each kind.                          *)
(***************************************************************************)
EXTENDS UnityProps

Style(r, s, p) == [range |-> r, size |-> s, plain |-> p]

MCStyles ==
    {Style(r, s, FALSE) : r \in {"INT", "UINT", "HEX"}, s \in {1, 2, 4}}
    \cup {Style("CHAR", 1, FALSE), Style("INT", 2, TRUE), Style("UINT", 2, TRUE)}

Operands == {-128, -127, -9, -8, -3, -2, -1, 0, 1, 2, 3, 7, 8, 15, 16, 127}

Ends == {-128, -127, -8, -2, -1, 0, 1, 2, 7, 8, 127}

Numbers ==
    [fn : {"EqualNumber"}, expected : Operands, actual : Operands, style : MCStyles]
    \cup [fn : {"GreaterOrLess"}, expected : Ends, actual : Ends,
          style : MCStyles,
          compare : {{}, {"GREATER_THAN"}, {"SMALLER_THAN"}, {"EQUAL_TO", "GREATER_THAN"},
                     {"EQUAL_TO", "SMALLER_THAN"}}]
    \cup [fn : {"NumbersWithin"}, expected : Ends, actual : Ends,
          style : MCStyles, delta : {0, 1, 3, 127, 128, 255}]

At(a, cells) == [at |-> a, cells |-> cells]

(* Elements at the ends of the size of the style; deltas that fit in an int. *)
Cells(style) ==
    LET top == Values(style.size)
    IN  {0, 1, (top \div 2) - 1, top \div 2, top - 1}

Arrays(style) ==
    {null} \cup {At("p", <<x, 1>>) : x \in Cells(style)} \cup {At("p", <<0, 0>>)}

Actuals(style) ==
    Arrays(style) \cup {At("q", <<x, y>>) : x \in Cells(style), y \in {0, 1}}

ArrayCalls ==
    UNION {
        [fn : {"EqualIntArray"}, expected : Arrays(s), actual : {At("q", <<1, 0>>), null}, n : 0..2,
         style : {s}]
        \cup [fn : {"EqualIntArray"}, expected : {At("p", <<0, 1>>)}, actual : Actuals(s), n : {1, 2},
              style : {s}]
        \cup [fn : {"EachEqual"}, expected : {-1, 0, 2}, actual : Actuals(s), n : {0, 2}, style : {s}]
        \cup [fn : {"NumbersArrayWithin"}, delta : {0, 1, 4, 15}, expected : Arrays(s),
              actual : {null} \cup {At("q", <<x, 0>>) : x \in Cells(s)}, n : {0, 1, 2}, style : {s}]
        : s \in MCStyles}

(* Two pointers to the same address see the same cells.                    *)
Consistent(c) ==
    c.fn \in {"EqualIntArray", "NumbersArrayWithin", "EqualMemory"} =>
        (SamePointer(c.expected, c.actual) => c.expected = c.actual)

Strings == {null, <<>>, <<1>>, <<2>>, <<1, 1>>, <<1, 2>>}

StringCalls ==
    [fn : {"EqualString"}, expected : Strings, actual : Strings]
    \cup [fn : {"EqualStringLen"}, expected : Strings, actual : Strings, n : 0..2]
    \cup [fn : {"EqualStringArray"}, expected : {At("p", <<<<1>>, s>>) : s \in Strings},
          actual : {null, At("q", <<<<1>>, <<>>>>), At("q", <<<<1>>, null>>), At("q", <<<<1>>, <<1, 2>>>>)},
          n : 0..2, flags : {"ARRAY_TO_ARRAY"}]
    \cup [fn : {"EqualStringArray"}, expected : {null, At("p", <<1>>)},
          actual : {null, At("q", <<<<1>>, <<1>>>>), At("q", <<<<1>>, null>>)}, n : 0..2,
          flags : {"ARRAY_TO_VAL"}]
    \cup [fn : {"EqualMemory"}, expected : {null, At("p", <<1, 2, 1, 2>>), At("p", <<1, 2, 1, 1>>)},
          actual : {null, At("q", <<1, 2, 1, 2>>), At("q", <<1, 2, 2, 2>>), At("p", <<1, 2, 1, 2>>)},
          length : 0..2, n : 0..2, flags : {"ARRAY_TO_ARRAY", "ARRAY_TO_VAL"}]

Plain == [fn : {"Fail", "Ignore", "Message", "Pass"}]

MCCalls == [setUp |-> Plain, tearDown |-> Plain,
            Func |-> Plain \cup Numbers
                        \cup {c \in ArrayCalls \cup StringCalls : Consistent(c)}]
=============================================================================
