-------------------------------- MODULE Unity --------------------------------
(***************************************************************************)
(* A run of the unit tests: the runner counts tests, calls setUp, the test *)
(* and tearDown of each, and leaves any of them with a long jump when a    *)
(* call of the framework ends it. Which calls a function makes is up to    *)
(* the test's author: they are drawn from Calls.                           *)
(***************************************************************************)
EXTENDS Asserts
CONSTANTS
    Calls,          \* the calls of the framework that each function may make
    MaxTests        \* bound: how many tests a run has at most

(* What C lets a test pass: numbers; strings without a NUL in them; arrays    *)
(* with as many elements as the call reads, each of the size of its style, or *)
(* NULL for either.                                                           *)
CStrings == Seq(Int \ {0})

IsArray(pointer, n, Cell) == pointer # null => pointer.cells \in Seq(Cell) /\ Len(pointer.cells) >= n

Legal(c) ==
    /\ c.fn \in {"EqualNumber", "GreaterOrLess", "NumbersWithin"} =>
          c.expected \in Int /\ c.actual \in Int /\ c.style \in Styles
    /\ c.fn = "GreaterOrLess" =>
          c.compare \in {{}, {"GREATER_THAN"}, {"SMALLER_THAN"}, {"EQUAL_TO", "GREATER_THAN"},
                         {"EQUAL_TO", "SMALLER_THAN"}}
    /\ c.fn \in {"NumbersWithin", "NumbersArrayWithin"} => c.delta \in Int
    /\ c.fn \in {"EqualIntArray", "EachEqual", "NumbersArrayWithin"} =>
          /\ c.style \in Styles /\ c.n \in Nat
          /\ IsArray(c.actual, c.n, 0..(Values(c.style.size) - 1))
    /\ c.fn \in {"EqualIntArray", "NumbersArrayWithin"} =>
          IsArray(c.expected, c.n, 0..(Values(c.style.size) - 1))
    /\ c.fn = "EachEqual" =>
          /\ c.expected \in Int /\ UnityNumToPtr(c.expected, c.style.size) # null
          /\ c.actual # null => c.actual.at # "UnityQuickCompare"
    /\ c.fn \in {"EqualString", "EqualStringLen"} =>
          c.expected \in {null} \cup CStrings /\ c.actual \in {null} \cup CStrings
    /\ c.fn = "EqualStringLen" => c.n \in Nat
    /\ c.fn = "EqualStringArray" =>
          /\ c.n \in Nat /\ c.flags \in {"ARRAY_TO_ARRAY", "ARRAY_TO_VAL"}
          /\ IsArray(c.actual, c.n, {null} \cup CStrings)
          /\ IF c.flags = "ARRAY_TO_VAL" THEN IsArray(c.expected, 0, Int \ {0})
             ELSE IsArray(c.expected, c.n, {null} \cup CStrings)
    /\ c.fn = "EqualMemory" =>
          /\ c.n \in Nat /\ c.length \in Nat /\ c.flags \in {"ARRAY_TO_ARRAY", "ARRAY_TO_VAL"}
          /\ IsArray(c.actual, c.n * c.length, Int)
          /\ IsArray(c.expected, IF c.flags = "ARRAY_TO_VAL" THEN c.length ELSE c.n * c.length, Int)

ASSUME UnityAssumption ==
    /\ MaxTests \in Nat
    /\ \A function \in {"setUp", "Func", "tearDown"} : \A c \in Calls[function] : Legal(c)

VARIABLES
    Unity,          \* the counters and flags of UNITY_STORAGE_T
    at,             \* the function that is running
    asked,          \* the call that it makes, null between two calls
    printed,        \* how many verdict lines of each kind were printed
    status          \* the exit status, null while the tests run

vars == <<Unity, at, asked, printed, status>>

Functions == {"setUp", "Func", "tearDown"}

UnityBegin ==
    [NumberOfTests |-> 0, TestFailures |-> 0, TestIgnores |-> 0,
     CurrentTestFailed |-> 0, CurrentTestIgnored |-> 0]

Init ==
    /\ Unity = UnityBegin
    /\ at = "main"
    /\ asked = null
    /\ printed = [PASS |-> 0, FAIL |-> 0, IGNORE |-> 0]
    /\ status = null

-----------------------------------------------------------------------------
(* The verdict of a call on numbers, arrays, strings or memory, with the   *)
(* conversions of its macro.                                               *)
Fails(c) ==
    CASE c.fn = "EqualNumber" ->
            UnityAssertEqualNumber(Operand(c.expected, c.style, "EQUAL"),
                                   Operand(c.actual, c.style, "EQUAL"))
      [] c.fn = "GreaterOrLess" ->
            UnityAssertGreaterOrLessOrEqualNumber(
                Operand(c.expected, c.style, "COMPARE"), Operand(c.actual, c.style, "COMPARE"),
                c.compare, c.style)
      [] c.fn = "NumbersWithin" ->
            UnityAssertNumbersWithin(
                Delta(c.delta, c.style, "WITHIN"), Operand(c.expected, c.style, "WITHIN"),
                Operand(c.actual, c.style, "WITHIN"), c.style)
      [] c.fn = "EqualIntArray" ->
            UnityAssertEqualIntArray(c.expected, c.actual, c.n, c.style, "ARRAY_TO_ARRAY")
      [] c.fn = "EachEqual" ->
            UnityAssertEqualIntArray(UnityNumToPtr(c.expected, c.style.size), c.actual, c.n,
                                     c.style, "ARRAY_TO_VAL")
      [] c.fn = "NumbersArrayWithin" ->
            UnityAssertNumbersArrayWithin(Delta(c.delta, c.style, "ARRAY_WITHIN"),
                                          c.expected, c.actual, c.n, c.style, "ARRAY_TO_ARRAY")
      [] c.fn = "EqualString" -> UnityAssertEqualString(c.expected, c.actual)
      [] c.fn = "EqualStringLen" -> UnityAssertEqualStringLen(c.expected, c.actual, c.n)
      [] c.fn = "EqualStringArray" ->
            UnityAssertEqualStringArray(c.expected, c.actual, c.n, c.flags)
      [] c.fn = "EqualMemory" ->
            UnityAssertEqualMemory(c.expected, c.actual, c.length, c.n, c.flags)
      [] c.fn = "Fail" -> TRUE
      [] OTHER -> FALSE

Flagged == Unity.CurrentTestFailed = 1 \/ Unity.CurrentTestIgnored = 1

(* TEST_ABORT: the jump returns to the TEST_PROTECT that was passed last.  *)
TEST_ABORT ==
    /\ asked' = null
    /\ at' = IF at = "tearDown" THEN "conclude" ELSE "tearDown"

-----------------------------------------------------------------------------
(* UnityDefaultTestRun enters the next test.                               *)
RUN_TEST ==
    /\ at = "main" /\ Unity.NumberOfTests < MaxTests
    /\ Unity' = [Unity EXCEPT !.NumberOfTests = @ + 1]
    /\ at' = "setUp"
    /\ UNCHANGED <<asked, printed, status>>

Call ==
    /\ at \in Functions /\ asked = null
    /\ asked' \in Calls[at]
    /\ UNCHANGED <<Unity, at, printed, status>>

Return ==
    /\ at \in Functions /\ asked = null
    /\ at' = CASE at = "setUp" -> "Func" [] at = "Func" -> "tearDown" [] OTHER -> "conclude"
    /\ UNCHANGED <<Unity, asked, printed, status>>

\* Mutant of RETURN_IF_FAIL_OR_IGNORE: the flags are not read.
NeverReturn == FALSE

(* Every assertion, UnityFail and UnityIgnore begin with it.               *)
RETURN_IF_FAIL_OR_IGNORE == asked.fn \notin {"Message", "Pass"} /\ Flagged

Again ==
    /\ asked # null /\ RETURN_IF_FAIL_OR_IGNORE
    /\ TEST_ABORT
    /\ UNCHANGED <<Unity, printed, status>>

Holds ==
    /\ asked # null /\ ~ RETURN_IF_FAIL_OR_IGNORE
    /\ asked.fn \notin {"Ignore", "Pass"} /\ ~ Fails(asked)
    /\ asked' = null
    /\ UNCHANGED <<Unity, at, printed, status>>

\* Mutant of UNITY_FAIL_AND_BAIL: the function goes on.
FailAndGoOn ==
    /\ Unity' = [Unity EXCEPT !.CurrentTestFailed = 1]
    /\ asked' = null
    /\ UNCHANGED at

UNITY_FAIL_AND_BAIL ==
    /\ Unity' = [Unity EXCEPT !.CurrentTestFailed = 1]
    /\ TEST_ABORT

UnityFail ==
    /\ asked # null /\ ~ RETURN_IF_FAIL_OR_IGNORE
    /\ Fails(asked)
    /\ printed' = [printed EXCEPT !.FAIL = @ + 1]
    /\ UNITY_FAIL_AND_BAIL
    /\ UNCHANGED status

UnityIgnore ==
    /\ asked # null /\ ~ RETURN_IF_FAIL_OR_IGNORE
    /\ asked.fn = "Ignore"
    /\ printed' = [printed EXCEPT !.IGNORE = @ + 1]
    /\ Unity' = [Unity EXCEPT !.CurrentTestIgnored = 1]
    /\ TEST_ABORT
    /\ UNCHANGED status

TEST_PASS ==
    /\ asked # null /\ asked.fn = "Pass"
    /\ TEST_ABORT
    /\ UNCHANGED <<Unity, printed, status>>

-----------------------------------------------------------------------------
\* Mutant of Concluded: the flag of an ignored test stays.
FlagStays ==
    [Unity EXCEPT !.TestIgnores = @ + Unity.CurrentTestIgnored,
                  !.TestFailures = IF Unity.CurrentTestIgnored = 1 THEN @
                                   ELSE @ + Unity.CurrentTestFailed,
                  !.CurrentTestFailed = 0]

(* The counters after a test: it is ignored, or else failed, or passed.    *)
Concluded ==
    [Unity EXCEPT !.TestIgnores = @ + Unity.CurrentTestIgnored,
                  !.TestFailures = IF Unity.CurrentTestIgnored = 1 THEN @
                                   ELSE @ + Unity.CurrentTestFailed,
                  !.CurrentTestFailed = 0, !.CurrentTestIgnored = 0]

UnityConcludeTest ==
    /\ at = "conclude"
    /\ Unity' = Concluded
    /\ printed' = IF Flagged THEN printed ELSE [printed EXCEPT !.PASS = @ + 1]
    /\ at' = "main"
    /\ UNCHANGED <<asked, status>>

(* main returns what UnityEnd returns.                                     *)
UnityEnd ==
    /\ at = "main"
    /\ status' = Unity.TestFailures
    /\ at' = "exited"
    /\ UNCHANGED <<Unity, asked, printed>>

Exited == at = "exited" /\ UNCHANGED vars

Next ==
    \/ RUN_TEST \/ Call \/ Return \/ Again \/ Holds \/ UnityFail \/ UnityIgnore \/ TEST_PASS
    \/ UnityConcludeTest \/ UnityEnd \/ Exited

Spec == Init /\ [][Next]_vars
=============================================================================
