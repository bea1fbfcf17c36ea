----------------------------- MODULE HistoryView -----------------------------
(***************************************************************************)
(* The rows on which history_print draws.  The window has HISTORY_OFFSET + *)
(* 3 rows: two of border, and rows 1 .. HISTORY_OFFSET + 1 for text.       *)
(* Messages are counted from the newest, which is 1, to the oldest, n.     *)
(***************************************************************************)
EXTENDS Integers

CONSTANT HISTORY_OFFSET   \* LINES - 11

ASSUME HistoryViewAssumption == HISTORY_OFFSET \in Nat

TextRows == 1 .. HISTORY_OFFSET + 1

\* Messages that fit.
Fitting(n) == IF n < HISTORY_OFFSET + 1 THEN n ELSE HISTORY_OFFSET + 1

\* Mutant of w_offset: the first loop stops at 0, as if rows were counted from 0.
StopsAtZero(n) == HISTORY_OFFSET - (IF n < HISTORY_OFFSET THEN n ELSE HISTORY_OFFSET)

\* The first loop takes one off for each message until it runs below 0.
w_offset(n) == HISTORY_OFFSET - (IF n < HISTORY_OFFSET + 1 THEN n ELSE HISTORY_OFFSET + 1)

\* y starts at HISTORY_OFFSET and goes down by one with each message.
RowOf(k, n) == (HISTORY_OFFSET - (k - 1)) - w_offset(n)

=============================================================================
