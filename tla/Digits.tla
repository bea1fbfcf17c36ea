------------------------------- MODULE Digits --------------------------------
(***************************************************************************)
(* Numbers and the characters that stand for them, as the C library reads  *)
(* and prints them.                                                        *)
(***************************************************************************)
EXTENDS Integers, Sequences, SequencesExt

DigitChars == <<"0", "1", "2", "3", "4", "5", "6", "7", "8", "9">>

Space == " "

isdigit(c) == c \in ToSet(DigitChars)

\* An int has ten digits at most.
Powers == <<1, 10, 100, 1000, 10000, 100000, 1000000, 10000000, 100000000, 1000000000>>

\* The digit of n at the power p of ten.
DigitOf(n, p) == DigitChars[((n \div Powers[p]) % 10) + 1]

\* %i of a descriptor or of a port.
Decimal(n) ==
    LET size == CHOOSE k \in 1 .. 10 : (k = 1 \/ n >= Powers[k]) /\ (k = 10 \/ n < Powers[k + 1])
    IN  [k \in 1 .. size |-> DigitOf(n, size - k + 1)]

DigitValue(c) == CHOOSE d \in 0 .. 9 : DigitChars[d + 1] = c

\* A sequence of digits read from the left.
ValueOf(digits) ==
    LET value[k \in 0 .. Len(digits)] ==
            IF k = 0 THEN 0 ELSE 10 * value[k - 1] + DigitValue(digits[k])
    IN  value[Len(digits)]

\* strtol and atoi in base 10: blanks, then digits up to the first other character.
strtol(s) ==
    LET from == SelectInSeq(s, LAMBDA c : c # Space)
        rest == IF from = 0 THEN <<>> ELSE SubSeq(s, from, Len(s))
        stop == SelectInSeq(rest, LAMBDA c : ~isdigit(c))
    IN  ValueOf(IF stop = 0 THEN rest ELSE SubSeq(rest, 1, stop - 1))

=============================================================================
