------------------------------- MODULE Layout --------------------------------
(***************************************************************************)
(* Where init_ui puts the six windows on a screen of LINES rows and COLS   *)
(* columns.  The shares of the width are products with 0.30 and 0.70, cut  *)
(* to integers; the second may fall just below an integer and lose one     *)
(* column (0.70 * 90 does), which the field cut of a screen says.          *)
(***************************************************************************)
EXTENDS Integers, Sequences

MIN_L_WIDTH == 18
HEIGHT_UPP == 4
HEIGHT_LOW == 4
HEIGHT_USE == 7
BORDER == 2

N_WINDOWS == 6

Screen == [LINES : Nat, COLS : Nat, cut : {0, 1}]

HEIGHT_MID(s) == s.LINES - (HEIGHT_UPP + HEIGHT_LOW)

\* 18 columns unless 0.30 * COLS is more.
L_WIDTH(s) == IF 3 * s.COLS < 10 * MIN_L_WIDTH THEN MIN_L_WIDTH ELSE (3 * s.COLS) \div 10

\* Mutant of R_WIDTH: always the share of the width.
RightShare(s) == (7 * s.COLS) \div 10

\* What is left of 18 columns, or 0.70 * COLS.
R_WIDTH(s) ==
    IF 3 * s.COLS <= 10 * MIN_L_WIDTH THEN s.COLS - MIN_L_WIDTH
    ELSE (7 * s.COLS) \div 10 - (IF s.COLS % 10 = 0 THEN s.cut ELSE 0)

init_dim(h, w, y, x) == [height |-> h, width |-> w, starty |-> y, startx |-> x]

\* In the order of enum WIN_INDEX: CLIENTS, INFO, HISTORY, USAGE, INPUT, I_BORDER.
Dims(s) ==
    LET L == L_WIDTH(s)
        R == R_WIDTH(s)
    IN  << init_dim(s.LINES - HEIGHT_USE, L, 0, 0),
           init_dim(HEIGHT_UPP, R, 0, L),
           init_dim(HEIGHT_MID(s), R, HEIGHT_UPP, L),
           init_dim(HEIGHT_USE, L, s.LINES - HEIGHT_USE, 0),
           init_dim(HEIGHT_LOW - BORDER, R - BORDER, s.LINES - HEIGHT_LOW + 1, L + 1),
           init_dim(HEIGHT_LOW, R, s.LINES - HEIGHT_LOW, L) >>

\* curses: 0 rows or columns mean up to the edge of the screen; a negative number,
\* or nothing left up to the edge, makes no window.
Opened(s, d) ==
    [d EXCEPT !.height = IF @ = 0 THEN s.LINES - d.starty ELSE @,
              !.width  = IF @ = 0 THEN s.COLS - d.startx ELSE @]

newwin(s, d) ==
    /\ d.starty >= 0 /\ d.startx >= 0 /\ d.height >= 0 /\ d.width >= 0
    /\ Opened(s, d).height > 0 /\ Opened(s, d).width > 0

-----------------------------------------------------------------------------

Inside(d, e) ==
    /\ e.starty <= d.starty /\ d.starty + d.height <= e.starty + e.height
    /\ e.startx <= d.startx /\ d.startx + d.width <= e.startx + e.width

Apart(d, e) ==
    \/ d.starty + d.height <= e.starty \/ e.starty + e.height <= d.starty
    \/ d.startx + d.width <= e.startx \/ e.startx + e.width <= d.startx

INPUT == 5
I_BORDER == 6

\* Every window is on the screen, and no two overlap, but for INPUT within its border.
Tiles(s, ws) ==
    /\ \A k \in 1 .. N_WINDOWS :
           /\ ws[k].height > 0 /\ ws[k].width > 0
           /\ Inside(ws[k], init_dim(s.LINES, s.COLS, 0, 0))
    /\ \A j, k \in 1 .. N_WINDOWS : j < k => Apart(ws[j], ws[k]) \/ (j = INPUT /\ k = I_BORDER)
    /\ Inside(ws[INPUT], ws[I_BORDER])

=============================================================================
